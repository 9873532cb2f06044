----------------------------- MODULE SealLedger -----------------------------
(***************************************************************************)
(* What sealing promises: a ledger of batches.  Logs arrive, and now and   *)
(* then a batch is closed over some of those no batch holds yet.  A closed *)
(* batch keeps its logs for ever.                                          *)
(***************************************************************************)
EXTENDS Integers, FiniteSets

CONSTANTS Logs, Batches, BatchSize

VARIABLES arrived,  \* the logs ever ingested
          batch     \* the logs of each batch, {} while it is open

Held == UNION {batch[b] : b \in Batches}

Init == arrived = {} /\ batch = [b \in Batches |-> {}]

Arrive(l) ==
    /\ l \notin arrived
    /\ arrived' = arrived \cup {l}
    /\ UNCHANGED batch

Close(b, S) ==
    /\ batch[b] = {}
    /\ S # {} /\ Cardinality(S) <= BatchSize
    /\ S \subseteq arrived \ Held
    /\ batch' = [batch EXCEPT ![b] = S]
    /\ UNCHANGED arrived

Next == \/ \E l \in Logs : Arrive(l)
        \/ \E b \in Batches, S \in SUBSET Logs : Close(b, S)

Spec == Init /\ [][Next]_<<arrived, batch>>
=============================================================================
