------------------------------ MODULE AlertFeed ------------------------------
(***************************************************************************)
(* Where alerts come from: the consumer of alerts.raw and alerts.cde in    *)
(* the backend, with its connection, its offsets and its restarts, and the *)
(* poll that turns rows of db_audit_events into alerts.  Both call         *)
(* createOrDedup of AlertDesk.                                             *)
(***************************************************************************)
EXTENDS AlertDesk

CONSTANTS Audits,     \* rows of db_audit_events
          AuditOf,    \* the alert event each of them is turned into
          Polls,      \* polls that may be under way at once
          FeedFaults, \* kinds of failure that may happen
          MaxFeedFaults \* bound: number of failures

FeedFaultKinds == {"restart",  \* the backend restarts
                   "group",    \* kafkajs crashes and restarts by itself
                   "crash",    \* kafkajs crashes for good
                   "early",    \* it does so while start() is still running
                   "save"}     \* saving processed_at fails

Consumer == "consumer"

ASSUME FeedConstants ==
    /\ Callers = {Consumer} \cup Polls /\ Consumer \notin Polls
    /\ FeedFaults \subseteq FeedFaultKinds /\ MaxFeedFaults \in Nat

\* createOrDedup gets a key and a severity of the columns, from the audit as from detection.
Fits(event) == event.key \in Keys /\ event.severity \in SeverityNames

ASSUME AuditsFit == \A e \in Audits : Fits(AuditOf[e])

VARIABLES
    conn,      \* "loop": connectLoop tries, "joined", "kafkajs": it restarts by itself, "dead"
    connected, \* connected, as /health reports it
    position,  \* messages handled or skipped by this process
    offset,    \* committed offset of the group, NoOffset before the first commit
    given,     \* offsets of messages that were given up
    audit,     \* "none", "new" or "processed"
    poll,      \* rows a poll has still to work on, and whether it waits for a call
    ffaults    \* failures so far

feedVars == <<conn, connected, position, offset, given, audit, poll, ffaults>>

NoOffset == -1
PollIdle == [rows |-> {}, now |-> "none"]

FeedTypeOK ==
    /\ conn \in {"loop", "joined", "kafkajs", "dead"} /\ connected \in BOOLEAN
    /\ position \in 0 .. Len(alertq) /\ offset \in NoOffset .. position
    /\ given \subseteq 1 .. Len(alertq)
    /\ audit \in [Audits -> {"none", "new", "processed"}]
    /\ poll \in [Polls -> [rows : SUBSET Audits, now : Audits \cup {"none"}]]

FeedInit ==
    /\ conn = "loop" /\ connected = FALSE
    /\ position = 0 /\ offset = NoOffset /\ given = {}
    /\ audit = [e \in Audits |-> "none"]
    /\ poll = [p \in Polls |-> PollIdle]
    /\ ffaults = 0

FeedFault(k) == k \in FeedFaults /\ ffaults < MaxFeedFaults /\ ffaults' = ffaults + 1

-----------------------------------------------------------------------------
(* KafkaConsumerService *)

\* Without a committed offset the group starts behind what is there (fromBeginning: false).
StartsAt == IF offset = NoOffset THEN Len(alertq) ELSE offset

Joins ==
    /\ conn' = "joined" /\ connected' = TRUE
    /\ position' = StartsAt
    /\ given' = IF offset = NoOffset THEN given \cup (position + 1 .. Len(alertq)) ELSE given

Join ==
    /\ conn \in {"loop", "kafkajs"} /\ req[Consumer].pc = "idle"
    /\ Joins
    /\ UNCHANGED <<offset, audit, poll, ffaults>>

\* CRASH with restart: kafkajs joins again; without: startConnectLoop.
GroupCrash ==
    /\ conn = "joined" /\ req[Consumer].pc = "idle"
    /\ connected' = FALSE
    /\ \/ FeedFault("group") /\ conn' = "kafkajs"
       \/ FeedFault("crash") /\ conn' = "loop"
    /\ UNCHANGED <<position, offset, given, audit, poll>>

\* startConnectLoop does nothing while a loop runs, and that loop then reports success.
CrashWhileStarting ==
    /\ conn = "loop" /\ FeedFault("early")
    /\ conn' = "dead" /\ connected' = TRUE
    /\ UNCHANGED <<position, offset, given, audit, poll>>

\* The mapping of a message; the key is type and rule, source, address.
EventOf(a) == Event(<<a.rule, a.source, a.ip>>, a.severity, a.log, a.related, a.prior)

TakeAlert ==
    /\ conn = "joined" /\ position < Len(alertq)
    /\ Raise(Consumer, EventOf(alertq[position + 1]))
    /\ UNCHANGED feedVars

\* handleAlert swallows the error of a call that failed.
HandleAlert ==
    /\ req[Consumer].pc \in {"done", "conflict", "error"}
    /\ Return(Consumer)
    /\ position' = position + 1
    /\ given' = IF req[Consumer].pc # "done" THEN given \cup {position + 1} ELSE given
    /\ UNCHANGED <<conn, connected, offset, audit, poll, ffaults>>

CommitOffset_OnTake ==
    /\ conn = "joined" /\ offset < position + 1 /\ req[Consumer].pc # "idle"
    /\ offset' = position + 1
    /\ UNCHANGED <<conn, connected, position, given, audit, poll, ffaults>>

\* Messages are committed once handled, in the background and at the latest on leaving.
CommitOffset ==
    /\ conn = "joined" /\ offset < position
    /\ position > 0
    /\ offset' = position
    /\ UNCHANGED <<conn, connected, position, given, audit, poll, ffaults>>

-----------------------------------------------------------------------------
(* DbAuditService.poll and the event trigger that feeds it *)

\* The DDL trigger of Postgres inserts a row.
Audited(e) ==
    /\ audit[e] = "none"
    /\ audit' = [audit EXCEPT ![e] = "new"]
    /\ UNCHANGED <<conn, connected, position, offset, given, poll, ffaults>>

PollRead(p) ==
    /\ poll[p] = PollIdle
    /\ \E e \in Audits : audit[e] = "new"
    /\ poll' = [poll EXCEPT ![p].rows = {e \in Audits : audit[e] = "new"}]
    /\ UNCHANGED <<conn, connected, position, offset, given, audit, ffaults>>

\* The rows come in the order of their ids; any order is taken here.
PollRaise(p) ==
    /\ poll[p].now = "none"
    /\ \E e \in poll[p].rows :
        /\ Raise(p, AuditOf[e])
        /\ poll' = [poll EXCEPT ![p].now = e]
    /\ UNCHANGED <<conn, connected, position, offset, given, audit, ffaults>>

Marked_Always(p) == TRUE

\* Only a row whose alert was raised is marked; whatever failed comes back next time.
Marked(p) == req[p].pc = "done"

PollMark(p) ==
    /\ poll[p].now # "none" /\ req[p].pc \in {"done", "conflict", "error"}
    /\ Return(p)
    /\ poll' = [poll EXCEPT ![p] = [rows |-> @.rows \ {@.now}, now |-> "none"]]
    /\ \/ /\ audit' = IF Marked(p) THEN [audit EXCEPT ![poll[p].now] = "processed"] ELSE audit
          /\ UNCHANGED ffaults
       \/ Marked(p) /\ FeedFault("save") /\ UNCHANGED audit
    /\ UNCHANGED <<conn, connected, position, offset, given>>

-----------------------------------------------------------------------------

\* The backend restarts: its calls end where they are, and so do the admins' requests.
BackendRestart ==
    /\ FeedFault("restart")
    /\ conn' = "loop" /\ connected' = FALSE
    /\ position' = IF offset = NoOffset THEN position ELSE offset
    /\ req' = [c \in Callers |-> Idle]
    /\ closing' = [a \in Admins |-> ClosingIdle]
    /\ poll' = [p \in Polls |-> PollIdle]
    /\ unsent' = unsent \cup {i \in Ids : mails[i] = 0 /\ alert[i].status # "none"
                                 /\ \E c \in Callers : req[c].pc = "link" /\ req[c].id = i}
    /\ UNCHANGED <<offset, given, audit, alert, linked, mails, hours, kfaults>>

\* Calls of createOrDedup start and end here; their steps leave the feed alone.
deskButReq == <<alert, linked, closing, mails, unsent, hours, kfaults>>

FeedNext ==
    \/ (Join \/ GroupCrash \/ CrashWhileStarting \/ CommitOffset) /\ UNCHANGED deskVars
    \/ (\E e \in Audits : Audited(e)) /\ UNCHANGED deskVars
    \/ (\E p \in Polls : PollRead(p)) /\ UNCHANGED deskVars
    \/ (TakeAlert \/ HandleAlert) /\ UNCHANGED deskButReq
    \/ (\E p \in Polls : PollRaise(p) \/ PollMark(p)) /\ UNCHANGED deskButReq
    \/ DeskStep /\ UNCHANGED feedVars
    \/ BackendRestart

\* The two jobs of the backend, each one after another: what fairness is stated for.
ConsumerJob ==
    \/ Join /\ UNCHANGED deskVars
    \/ (TakeAlert \/ HandleAlert) /\ UNCHANGED deskButReq
    \/ CallStep(Consumer) /\ UNCHANGED feedVars

PollJob(p) ==
    \/ PollRead(p) /\ UNCHANGED deskVars
    \/ (PollRaise(p) \/ PollMark(p)) /\ UNCHANGED deskButReq
    \/ CallStep(p) /\ UNCHANGED feedVars
=============================================================================
