---------------------------- MODULE MCChainClient ----------------------------
(* Instances of ChainClient for TLC. *)
EXTENDS ChainClient, TLC

BatchSymmetry == Permutations(Batches)
=============================================================================
