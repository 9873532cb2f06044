------------------------------ MODULE Pipeline ------------------------------
(***************************************************************************)
(* From a stored log to an alert: LogDelivery puts logs on logs.raw (the   *)
(* backend implements it, see KafkaOutbox), Detection reads them and       *)
(* publishes what it finds, AlertFeed reads that and AlertDesk keeps it.   *)
(* The parts share the two topics and nothing else.                        *)
(***************************************************************************)
EXTENDS Detection, AlertFeed

CONSTANTS MaxSends, \* bound: messages on logs.raw
          MaxChain, \* bound: messages on logs.raw once the backend reads alerts
          MaxAllFaults \* bound: failures of detector and backend together

VARIABLES stored, dlq, forgotten

deliveryVars == <<stored, raw, dlq, forgotten>>
vars == <<deliveryVars, detectVars, deskVars, feedVars>>

Delivery == INSTANCE LogDelivery

Init == Delivery!Init /\ DetectInit /\ DeskInit /\ FeedInit

\* A long topic is for what the detector remembers, a short one for the whole chain; one
\* stored log at a time waits for its first sending.
Bounded ==
    /\ Len(raw') <= IF conn' = "loop" /\ ffaults' = 0 THEN MaxSends ELSE MaxChain
    /\ Cardinality(stored' \ {raw'[i] : i \in DOMAIN raw'}) <= 1
    /\ dfaults' + ffaults' <= MaxAllFaults

Deliver ==
    /\ \E l \in Logs : Delivery!Store(l) \/ Delivery!Send(l)
    /\ UNCHANGED <<detectVars, deskVars, feedVars>>

Detect == DetectNext /\ UNCHANGED <<deliveryVars, deskVars, feedVars>>

Persist == FeedNext /\ UNCHANGED <<deliveryVars, next, committed, memory, alertq, found, dfaults>>

Next == (Deliver \/ Detect \/ Persist) /\ Bounded

Spec == Init /\ [][Next]_vars

\* What Consume does and nothing else: its fairness, without the work of evaluating a log.
Consumes == next < Len(raw) /\ next' = next + 1

\* The broker, the database and the supervisors come back; commits need not be in time.
FairSpec ==
    /\ Spec
    /\ WF_next(Consumes)
    /\ WF_vars(ConsumerJob /\ UNCHANGED <<deliveryVars, detectVars>> /\ Bounded)

-----------------------------------------------------------------------------
(* Properties *)

TypeOK == DetectTypeOK /\ DeskTypeOK /\ FeedTypeOK

\* A log that a rule without threshold or history matches ends as an alert, whichever of the
\* processes crash on its way, unless publishing failed or the message was given up.
MatchIsAlerted ==
    \A l \in Logs : (\E r \in About[l].hits : Rules[r].count = 0 /\ Rules[r].prior = 0) =>
        (conn # "loop" /\ \E i \in DOMAIN raw : raw[i] = l) ~>
            \/ \E x \in linked : x[2] = l
            \/ \E n \in given : alertq[n].log = l
            \/ (\E a \in found : a.log = l) /\ ~\E n \in DOMAIN alertq : alertq[n].log = l
=============================================================================
