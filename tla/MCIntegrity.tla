---------------------------- MODULE MCIntegrity ----------------------------
(* Instances of Integrity for TLC. *)
EXTENDS Integrity, TLC

Log1 == 1 .. 1
Log2 == 1 .. 2

\* Callers are interchangeable (used for safety only).
CallerSymmetry == Permutations(Callers)
=============================================================================
