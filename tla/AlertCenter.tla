----------------------------- MODULE AlertCenter -----------------------------
(***************************************************************************)
(* AlertFeed and AlertDesk closed by an environment that publishes any of  *)
(* some messages: all callers of createOrDedup, resolve and retention at   *)
(* once, whatever the detection service is doing.  What detection finds    *)
(* and what the audit finds have different keys and never meet on an       *)
(* alert, so a behaviour has messages or audit rows, not both (a bound).   *)
(***************************************************************************)
EXTENDS AlertFeed

CONSTANTS Messages,   \* alerts that may be published
          MaxMessages \* bound: messages on the alert topics

ASSUME MessagesFit == \A m \in Messages : Fits(EventOf(m))

vars == <<raw, alertq, deskVars, feedVars>>

Init == raw = <<>> /\ alertq = <<>> /\ DeskInit /\ FeedInit

Unaudited == \A e \in Audits : audit[e] = "none"

Published(m) ==
    /\ Len(alertq) < MaxMessages /\ Unaudited
    /\ alertq' = Append(alertq, m)
    /\ UNCHANGED <<raw, deskVars, feedVars>>

Next == \/ \E m \in Messages : Published(m)
        \/ FeedNext /\ (alertq = <<>> \/ Unaudited') /\ UNCHANGED <<raw, alertq>>

Spec == Init /\ [][Next]_vars

\* The jobs of the backend go on: kafkajs, the cron of the poll and the queries they wait for.
FairSpec ==
    /\ Spec
    /\ WF_vars(ConsumerJob /\ UNCHANGED <<raw, alertq>>)
    /\ \A p \in Polls : WF_vars(PollJob(p) /\ UNCHANGED <<raw, alertq>>)

-----------------------------------------------------------------------------
(* Properties *)

\* A change of the schema ends as an alert about it, and its row as processed, whatever fails
\* once on the way (DbAuditService.poll).
AuditIsAlerted ==
    \A e \in Audits : (audit[e] = "new") ~>
        (audit[e] = "processed" /\ \E i \in Ids : alert[i] # NoAlert /\ alert[i].key = AuditOf[e].key)
=============================================================================
