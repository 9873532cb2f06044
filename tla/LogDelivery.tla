----------------------------- MODULE LogDelivery -----------------------------
(***************************************************************************)
(* What the backend promises the detection service: a log whose row is in  *)
(* the database is sent to logs.raw or set aside in logs.raw.dlq, once or  *)
(* more, in no particular order, unless the backend gave it up.            *)
(***************************************************************************)
EXTENDS Naturals, Sequences

CONSTANT Logs

VARIABLES stored,    \* the logs with a row in the database
          raw,       \* logs.raw: what was sent, in the order of the topic
          dlq,       \* logs.raw.dlq: the logs set aside
          forgotten  \* the logs nobody will send any more

vars == <<stored, raw, dlq, forgotten>>

Init == stored = {} /\ raw = <<>> /\ dlq = {} /\ forgotten = {}

Store(l) ==
    /\ l \notin stored
    /\ stored' = stored \cup {l}
    /\ UNCHANGED <<raw, dlq, forgotten>>

Send(l) ==
    /\ l \in stored \ forgotten
    /\ raw' = Append(raw, l)
    /\ UNCHANGED <<stored, dlq, forgotten>>

SetAside(l) ==
    /\ l \in stored \ forgotten
    /\ dlq' = dlq \cup {l}
    /\ UNCHANGED <<stored, raw, forgotten>>

\* Only what reached neither topic can be lost.
Forget(S) ==
    /\ S # {} /\ S \subseteq stored \ (dlq \cup forgotten)
    /\ \A i \in DOMAIN raw : raw[i] \notin S
    /\ forgotten' = forgotten \cup S
    /\ UNCHANGED <<stored, raw, dlq>>

Next == \/ \E l \in Logs : Store(l) \/ Send(l) \/ SetAside(l)
        \/ \E S \in SUBSET Logs : Forget(S)

Spec == Init /\ [][Next]_vars
=============================================================================
