----------------------------- MODULE AlertProofs -----------------------------
(***************************************************************************)
(* Theorems about AlertCenter, for any number of callers, admins, alerts,  *)
(* messages, audit rows and failures: what createOrDedup promises while    *)
(* its calls race each other, resolve, retention and restarts.             *)
(***************************************************************************)
EXTENDS AlertCenter, FiniteSetTheorems, SequenceTheorems, WellFoundedInduction, TLAPS

Events == {EventOf(m) : m \in Messages} \cup {AuditOf[e] : e \in Audits}

CallPcs == {"find", "insert", "winner", "repeat", "link", "linkRepeat", "done", "conflict", "error"}

Calls == {Idle} \cup [pc : CallPcs, event : Events, id : Ids \cup {0}]
Closings == {ClosingIdle} \cup [pc : {"save"}, id : Ids, copy : AlertFields]

\* The tables and the requests; a call that has an alert has one that was inserted.
DeskTypes ==
    /\ alert \in [Ids -> AlertFields \cup {NoAlert}]
    /\ req \in [Callers -> Calls]
    /\ closing \in [Admins -> Closings]
    /\ mails \in [Ids -> Nat] /\ hours \in Nat /\ unsent \subseteq Ids
    /\ \A c \in Callers : req[c].pc \in {"repeat", "link", "linkRepeat"} =>
          req[c].id \in Ids /\ alert[req[c].id] # NoAlert

LinkedInv ==
    /\ linked \subseteq Ids \X Logs \X Roles
    /\ \A x, y \in linked : x[1] = y[1] /\ x[2] = y[2] => x = y

FeedTypes ==
    /\ alertq \in Seq(Messages)
    /\ position \in 0 .. Len(alertq) /\ offset \in NoOffset .. position
    /\ given \subseteq 1 .. Len(alertq)
    /\ audit \in [Audits -> {"none", "new", "processed"}]
    /\ poll \in [Polls -> [rows : SUBSET Audits, now : Audits \cup {"none"}]]
    /\ conn \in {"loop", "joined", "kafkajs", "dead"} /\ connected \in BOOLEAN
    /\ req[Consumer].pc # "idle" => position < Len(alertq)

\* At most one alert is OPEN per key, and resolve's copy is of the row it will write.
UniqueOpen ==
    \A i, j \in Ids :
        alert[i].status = "OPEN" /\ alert[j].status = "OPEN" /\ alert[i].key = alert[j].key => i = j

CopyInv ==
    \A a \in Admins : closing[a].pc = "save" =>
        /\ alert[closing[a].id] # NoAlert
        /\ closing[a].copy.key = alert[closing[a].id].key

\* A caller that lost the race looks for an alert that was there.
WinnerInv ==
    \A c \in Callers : req[c].pc = "winner" =>
        \E i \in Ids : alert[i] # NoAlert /\ alert[i].key = req[c].event.key

\* The call that inserted alert i and has still to send its first mail.
Sending(c, i) == req[c].pc = "link" /\ req[c].id = i /\ Notifies(req[c].event.severity)

MailDone(i) == mails[i] > 0 \/ i \in unsent \/ \E c \in Callers : Sending(c, i)

\* Whatever a row, or a stale copy of it, says of its mails is backed by a mail.
Vouches(row, i) == Notifies(row.severity) \/ row.notified # "never" => MailDone(i)

VouchInv ==
    /\ \A i \in Ids : alert[i] # NoAlert => Vouches(alert[i], i)
    /\ \A a \in Admins : closing[a].pc = "save" => Vouches(closing[a].copy, closing[a].id)

\* Mails sent or about to be sent about an open alert, by its last_notified_at.
Sendings(i) == IF \E c \in Callers : Sending(c, i) THEN 1 ELSE 0

Rationed(i) ==
    LET all == mails[i] + Sendings(i)
    IN  /\ alert[i] = NoAlert => mails[i] = 0
        /\ alert[i].status = "OPEN" =>
             /\ alert[i].notified = "never" => all = 0
             /\ alert[i].notified = "recent" => all <= 1 + hours
             /\ alert[i].notified = "old" => all <= hours

RationInv ==
    /\ \A c, d \in Callers :
          req[c].pc = "link" /\ req[d].pc = "link" /\ req[c].id = req[d].id => c = d
    /\ \A i \in Ids : Rationed(i)

AlertInv ==
    /\ DeskTypes /\ LinkedInv /\ FeedTypes
    /\ UniqueOpen /\ CopyInv /\ WinnerInv /\ LostRaceIsRepeat
    /\ VouchInv /\ RationInv

-----------------------------------------------------------------------------
(* Calls of createOrDedup *)

\* What every call works on is fitted to the columns.
LEMMA CallFits ==
    ASSUME NEW r \in Calls, r.pc # "idle"
    PROVE  r.pc \in CallPcs /\ r.event \in Events /\ Fits(r.event) /\ r.id \in Ids \cup {0}
BY AuditsFit, MessagesFit DEF Calls, Events, Idle

LEMMA GotoMoves ==
    ASSUME req \in [Callers -> Calls], NEW c \in Callers, req[c].pc # "idle",
           NEW pc \in CallPcs, Goto(c, pc)
    PROVE  /\ req' \in [Callers -> Calls]
           /\ req'[c].pc = pc /\ req'[c].event = req[c].event /\ req'[c].id = req[c].id
           /\ \A d \in Callers : d # c => req'[d] = req[d]
<1> DEFINE r == [pc |-> pc, event |-> req[c].event, id |-> req[c].id]
<1>1. req[c] \in [pc : CallPcs, event : Events, id : Ids \cup {0}]
    BY DEF Calls, Idle
<1>2. [req[c] EXCEPT !.pc = pc] = r
    BY <1>1
<1>3. req' = [req EXCEPT ![c] = r]
    BY <1>2, Zenon DEF Goto
<1>4. r \in Calls
    BY <1>1 DEF Calls
<1> QED
    BY <1>3, <1>4

LEMMA GotoAlertMoves ==
    ASSUME req \in [Callers -> Calls], NEW c \in Callers, req[c].pc # "idle",
           NEW pc \in CallPcs, NEW i \in Ids, GotoAlert(c, pc, i)
    PROVE  /\ req' \in [Callers -> Calls]
           /\ req'[c].pc = pc /\ req'[c].event = req[c].event /\ req'[c].id = i
           /\ \A d \in Callers : d # c => req'[d] = req[d]
<1> DEFINE r == [pc |-> pc, event |-> req[c].event, id |-> i]
<1>1. req[c] \in [pc : CallPcs, event : Events, id : Ids \cup {0}]
    BY DEF Calls, Idle
<1>3. req' = [req EXCEPT ![c] = r]
    BY DEF GotoAlert
<1>4. r \in Calls
    BY <1>1 DEF Calls
<1> QED
    BY <1>3, <1>4

\* The row an insert takes is a free one, while there is one.
LEMMA FreshIsUnused ==
    ASSUME Unused # {}
    PROVE  Fresh \in Ids /\ alert[Fresh] = NoAlert
<1>1. Unused \subseteq Nat /\ Unused \subseteq Ids
    BY DeskConstants DEF Unused
<1>2. PICK x \in Unused : \A y \in Unused : ~(<<y, x>> \in OpToRel(<, Nat))
    BY <1>1, WFMin, NatLessThanWellFounded
<1>3. ASSUME NEW y \in Unused PROVE x <= y
    <2>1. x \in Nat /\ y \in Nat
        BY <1>1
    <2>2. <<y, x>> \in {ss \in Nat \X Nat : ss[1] < ss[2]} <=> y < x
        BY <2>1
    <2>3. ~(y < x)
        BY <1>2, <2>2 DEF OpToRel
    <2> QED
        BY <2>1, <2>3
<1>4. Fresh \in Unused
    BY <1>3 DEF Fresh
<1> QED
    BY <1>4 DEF Unused

-----------------------------------------------------------------------------
(* What a step may do to the desk *)

Begins(c, e) == Raise(c, e) /\ UNCHANGED deskButReq

Ends(c) ==
    /\ req[c].pc \in {"done", "conflict", "error"}
    /\ Return(c) /\ UNCHANGED deskButReq

\* The feed reaches the desk only by the calls it starts, and by a restart.
LEMMA DeskCases ==
    ASSUME FeedTypes, [Next]_vars
    PROVE  \/ UNCHANGED deskVars
           \/ \E c \in Callers : Ends(c) \/ \E e \in Events : Begins(c, e)
           \/ DeskStep
           \/ BackendRestart
<1>1. Consumer \in Callers /\ Polls \subseteq Callers
    BY FeedConstants
<1>2. CASE TakeAlert /\ UNCHANGED deskButReq
    <2>1. position + 1 \in 1 .. Len(alertq)
        BY <1>2 DEF FeedTypes, TakeAlert
    <2>2. alertq[position + 1] \in Messages
        BY <2>1 DEF FeedTypes
    <2>3. Begins(Consumer, EventOf(alertq[position + 1]))
        BY <1>2 DEF TakeAlert, Begins
    <2> QED
        BY <1>1, <2>2, <2>3 DEF Events
<1>3. CASE HandleAlert /\ UNCHANGED deskButReq
    BY <1>1, <1>3 DEF HandleAlert, Ends
<1>4. ASSUME NEW p \in Polls, PollRaise(p), UNCHANGED deskButReq
      PROVE  \E c \in Callers : \E e \in Events : Begins(c, e)
    <2>1. PICK a \in poll[p].rows : Raise(p, AuditOf[a])
        BY <1>4 DEF PollRaise
    <2>2. AuditOf[a] \in Events
        BY <2>1 DEF FeedTypes, Events
    <2> QED
        BY <1>1, <1>4, <2>1, <2>2 DEF Begins
<1>5. ASSUME NEW p \in Polls, PollMark(p), UNCHANGED deskButReq
      PROVE  \E c \in Callers : Ends(c)
    BY <1>1, <1>5 DEF PollMark, Ends
<1>6. CASE UNCHANGED vars
    BY <1>6 DEF vars
<1>7. ASSUME NEW m \in Messages, Published(m)
      PROVE  UNCHANGED deskVars
    BY <1>7 DEF Published
<1> QED
    BY <1>2, <1>3, <1>4, <1>5, <1>6, <1>7 DEF Next, FeedNext

LEMMA TypesOfCalls ==
    ASSUME DeskTypes, NEW c \in Callers, CallStep(c)
    PROVE  DeskTypes'
<1>1. req[c] \in Calls /\ req[c].pc # "idle"
    BY DEF DeskTypes, CallStep, Find, Insert, Winner, Repeat, Link, QueryFails
<1>2. Fits(req[c].event) /\ req[c].id \in Ids \cup {0}
    BY <1>1, CallFits
<1>3. ASSUME NEW pc \in {"insert", "conflict", "error", "done", "winner"}, Goto(c, pc),
             UNCHANGED <<alert, closing, hours, unsent>>, mails' \in [Ids -> Nat]
      PROVE  DeskTypes'
    <2>1. pc \in CallPcs /\ pc \notin {"repeat", "link", "linkRepeat"}
        BY DEF CallPcs
    <2>2. /\ req' \in [Callers -> Calls] /\ req'[c].pc = pc
          /\ \A d \in Callers : d # c => req'[d] = req[d]
        BY <1>1, <1>3, <2>1, GotoMoves DEF DeskTypes
    <2> QED
        BY <1>3, <2>1, <2>2 DEF DeskTypes
<1>4. ASSUME NEW i \in OpenAlert(req[c].event.key), GotoAlert(c, "repeat", i),
             UNCHANGED <<alert, closing, mails, hours, unsent>>
      PROVE  DeskTypes'
    <2>1. i \in Ids /\ alert[i] # NoAlert /\ "repeat" \in CallPcs
        BY DEF OpenAlert, NoAlert, CallPcs
    <2>2. /\ req' \in [Callers -> Calls] /\ req'[c].id = i
          /\ \A d \in Callers : d # c => req'[d] = req[d]
        BY <1>1, <1>4, <2>1, GotoAlertMoves DEF DeskTypes
    <2> QED
        BY <1>4, <2>1, <2>2 DEF DeskTypes
<1>5. CASE Find(c)
    BY <1>3, <1>4, <1>5 DEF Find, DeskTypes
<1>6. CASE Winner(c)
    BY <1>3, <1>4, <1>6 DEF Winner, DeskTypes
<1>7. CASE QueryFails(c)
    BY <1>3, <1>7 DEF QueryFails, DeskTypes
<1>8. CASE Insert(c) /\ OpenAlert(req[c].event.key) # {}
    BY <1>3, <1>8 DEF Insert, DeskTypes
<1>9. CASE Insert(c) /\ OpenAlert(req[c].event.key) = {}
    <2> DEFINE row == [key |-> req[c].event.key, status |-> "OPEN", count |-> 1,
                       severity |-> req[c].event.severity,
                       notified |-> IF Notifies(req[c].event.severity) THEN "recent" ELSE "never"]
    <2>1. /\ Unused # {} /\ alert' = [alert EXCEPT ![Fresh] = row]
          /\ GotoAlert(c, "link", Fresh) /\ UNCHANGED <<closing, mails, hours, unsent>>
        BY <1>9 DEF Insert
    <2>2. row \in AlertFields /\ row # NoAlert
        BY <1>2 DEF AlertFields, Fits, NoAlert
    <2>3. Fresh \in Ids /\ "link" \in CallPcs
        BY <2>1, FreshIsUnused DEF CallPcs
    <2>4. /\ req' \in [Callers -> Calls] /\ req'[c].id = Fresh
          /\ \A d \in Callers : d # c => req'[d] = req[d]
        BY <1>1, <2>1, <2>3, GotoAlertMoves DEF DeskTypes
    <2> HIDE DEF row
    <2>5. alert' \in [Ids -> AlertFields \cup {NoAlert}] /\ alert'[Fresh] # NoAlert
          /\ \A i \in Ids : alert[i] # NoAlert => alert'[i] # NoAlert
        BY <2>1, <2>2, <2>3 DEF DeskTypes
    <2> QED
        BY <2>1, <2>3, <2>4, <2>5 DEF DeskTypes
<1>10. CASE Repeat(c)
    <2>1. /\ req' \in [Callers -> Calls] /\ req'[c].id = req[c].id
          /\ \A d \in Callers : d # c => req'[d] = req[d]
        <3>1. "linkRepeat" \in CallPcs /\ Goto(c, "linkRepeat")
            BY <1>10 DEF Repeat, CallPcs
        <3> QED
            BY <1>1, <3>1, GotoMoves DEF DeskTypes
    <2>2. req[c].id \in Ids /\ alert[req[c].id] # NoAlert
        BY <1>10 DEF Repeat, DeskTypes
    <2> DEFINE s == Stronger(req[c].event.severity, alert[req[c].id].severity)
    <2>3. CASE Exists(req[c].id)
        <3>1. alert[req[c].id] \in AlertFields
            BY <2>2 DEF DeskTypes
        <3>2. s \in SeverityNames
            BY <1>2, <3>1 DEF Fits, Stronger, AlertFields
        <3> HIDE DEF s
        <3>3. Repeated(alert[req[c].id], s) \in AlertFields
            BY <3>1, <3>2 DEF Repeated, AlertFields
        <3>4. NoAlert \notin AlertFields
            BY DEF NoAlert, AlertFields
        <3>5. alert' = [alert EXCEPT ![req[c].id] = Repeated(alert[req[c].id], s)]
            BY <1>10, <2>3 DEF Repeat, s
        <3>6. mails' \in [Ids -> Nat]
            BY <1>10, <2>2 DEF Repeat, Mails, DeskTypes
        <3>7. alert' \in [Ids -> AlertFields \cup {NoAlert}]
              /\ \A i \in Ids : alert[i] # NoAlert => alert'[i] # NoAlert
            BY <2>2, <3>3, <3>4, <3>5 DEF DeskTypes
        <3> QED
            BY <1>10, <2>1, <2>2, <3>6, <3>7 DEF Repeat, DeskTypes
    <2>4. CASE ~Exists(req[c].id)
        BY <1>10, <2>1, <2>2, <2>4 DEF Repeat, DeskTypes
    <2> QED
        BY <2>3, <2>4
<1>11. CASE Link(c)
    <2>1. mails' \in [Ids -> Nat]
        <3>1. req[c].id \in Ids
            BY <1>11 DEF Link, DeskTypes
        <3> QED
            BY <1>11, <3>1 DEF Link, Mails, DeskTypes
    <2>2. Goto(c, "done") /\ UNCHANGED <<alert, closing, hours, unsent>>
        BY <1>11 DEF Link
    <2> QED
        BY <1>3, <2>1, <2>2
<1> QED
    BY <1>5, <1>6, <1>7, <1>8, <1>9, <1>10, <1>11 DEF CallStep

\* resolve, retention and time keep the rows what they are.
LEMMA TypesOfDesk ==
    ASSUME DeskTypes, DeskStep
    PROVE  DeskTypes'
<1>1. ASSUME NEW a \in Admins, ResolveSave(a)
      PROVE  DeskTypes'
    <2>1. /\ closing[a] \in [pc : {"save"}, id : Ids, copy : AlertFields]
        BY <1>1 DEF ResolveSave, DeskTypes, Closings, ClosingIdle
    <2>2. Written(closing[a].copy) \in AlertFields /\ NoAlert \notin AlertFields
        BY <2>1 DEF Written, AlertFields, NoAlert
    <2>3. /\ alert' = [alert EXCEPT ![closing[a].id] = Written(closing[a].copy)]
          /\ closing' = [closing EXCEPT ![a] = ClosingIdle]
          /\ UNCHANGED <<req, mails, hours, unsent>>
        BY <1>1 DEF ResolveSave
    <2>4. /\ alert' \in [Ids -> AlertFields \cup {NoAlert}]
          /\ \A i \in Ids : alert[i] # NoAlert => alert'[i] # NoAlert
        BY <2>2, <2>3 DEF DeskTypes
    <2>5. closing' \in [Admins -> Closings]
        BY <2>3 DEF DeskTypes, Closings
    <2> QED
        BY <2>3, <2>4, <2>5 DEF DeskTypes
<1>2. ASSUME NEW a \in Admins, NEW i \in Ids, ResolveRead(a, i)
      PROVE  DeskTypes'
    <2>1. alert[i] \in AlertFields
        BY <1>2 DEF ResolveRead, Exists, DeskTypes, NoAlert
    <2>2. [pc |-> "save", id |-> i, copy |-> alert[i]] \in Closings
        BY <2>1 DEF Closings
    <2>3. closing' \in [Admins -> Closings]
        BY <1>2, <2>2, Zenon DEF ResolveRead, DeskTypes
    <2> QED
        BY <1>2, <2>3 DEF ResolveRead, DeskTypes
<1>3. ASSUME NEW i \in Ids, Expire(i)
      PROVE  DeskTypes'
    <2>1. alert[i] \in AlertFields
        BY <1>3 DEF Expire, Exists, DeskTypes, NoAlert
    <2> DEFINE row == [alert[i] EXCEPT !.status = "deleted"]
    <2>2. row \in AlertFields /\ NoAlert \notin AlertFields
        BY <2>1 DEF AlertFields, NoAlert
    <2>3. alert' = [alert EXCEPT ![i] = row]
        BY <1>3 DEF Expire
    <2> HIDE DEF row
    <2>4. /\ alert' \in [Ids -> AlertFields \cup {NoAlert}]
          /\ \A j \in Ids : alert[j] # NoAlert => alert'[j] # NoAlert
        BY <2>2, <2>3 DEF DeskTypes
    <2> QED
        BY <1>3, <2>4 DEF Expire, DeskTypes
<1>4. CASE Hour
    <2>1. ASSUME NEW i \in Ids
          PROVE  /\ alert'[i] \in AlertFields \cup {NoAlert}
                 /\ alert[i] # NoAlert => alert'[i] # NoAlert
        <3>1. alert'[i] = IF Exists(i) /\ alert[i].notified = "recent"
                          THEN [alert[i] EXCEPT !.notified = "old"] ELSE alert[i]
            BY <1>4 DEF Hour
        <3>2. CASE Exists(i)
            <4>1. alert[i] \in AlertFields
                BY <3>2 DEF Exists, DeskTypes, NoAlert
            <4>2. [alert[i] EXCEPT !.notified = "old"] \in AlertFields
                  /\ NoAlert \notin AlertFields
                BY <4>1 DEF AlertFields, NoAlert
            <4> QED
                BY <3>1, <4>1, <4>2
        <3> QED
            BY <3>1, <3>2 DEF DeskTypes
    <2>2. alert' \in [Ids -> AlertFields \cup {NoAlert}]
        BY <1>4, <2>1 DEF Hour
    <2>3. hours' \in Nat
        BY <1>4 DEF Hour, DeskTypes
    <2> QED
        BY <1>4, <2>1, <2>2, <2>3 DEF Hour, DeskTypes
<1> QED
    BY <1>1, <1>2, <1>3, <1>4, TypesOfCalls DEF DeskStep

LEMMA TypesOfSteps ==
    ASSUME DeskTypes, FeedTypes, [Next]_vars
    PROVE  DeskTypes'
<1>1. CASE UNCHANGED deskVars
    BY <1>1 DEF deskVars, DeskTypes
<1>2. ASSUME NEW c \in Callers, NEW e \in Events, Begins(c, e)
      PROVE  DeskTypes'
    <2>1. req' = [req EXCEPT ![c] = [pc |-> "find", event |-> e, id |-> 0]]
        BY <1>2 DEF Begins, Raise
    <2>2. [pc |-> "find", event |-> e, id |-> 0] \in Calls
        BY DEF Calls, CallPcs
    <2>3. req' \in [Callers -> Calls] /\ req'[c].pc = "find"
          /\ \A d \in Callers : d # c => req'[d] = req[d]
        BY <2>1, <2>2 DEF DeskTypes
    <2> QED
        BY <1>2, <2>3 DEF Begins, deskButReq, DeskTypes
<1>3. ASSUME NEW c \in Callers, Ends(c)
      PROVE  DeskTypes'
    <2>1. req' = [req EXCEPT ![c] = Idle] /\ Idle \in Calls /\ Idle.pc = "idle"
        BY <1>3 DEF Ends, Return, Calls, Idle
    <2>2. req' \in [Callers -> Calls] /\ req'[c].pc = "idle"
          /\ \A d \in Callers : d # c => req'[d] = req[d]
        BY <2>1 DEF DeskTypes
    <2> QED
        BY <1>3, <2>2 DEF Ends, deskButReq, DeskTypes
<1>4. CASE BackendRestart
    <2>1. req' \in [Callers -> Calls] /\ \A c \in Callers : req'[c].pc = "idle"
        BY <1>4 DEF BackendRestart, Calls, Idle
    <2>2. closing' \in [Admins -> Closings]
        BY <1>4 DEF BackendRestart, Closings
    <2> QED
        BY <1>4, <2>1, <2>2 DEF BackendRestart, DeskTypes
<1> QED
    BY <1>1, <1>2, <1>3, <1>4, DeskCases, TypesOfDesk

-----------------------------------------------------------------------------
(* The feed: offsets, polls and what the topic holds *)

\* The steps of the desk leave a caller idle that is.
LEMMA IdleStays ==
    ASSUME DeskTypes, DeskStep, NEW c \in Callers, req[c].pc = "idle"
    PROVE  req'[c].pc = "idle"
<1>1. ASSUME NEW d \in Callers, CallStep(d)
      PROVE  req'[c].pc = "idle"
    <2>1. d # c
        BY <1>1 DEF CallStep, Find, Insert, Winner, Repeat, Link, QueryFails
    <2>2. (\E pc : Goto(d, pc)) \/ (\E pc, i : GotoAlert(d, pc, i))
        BY <1>1 DEF CallStep, Find, Insert, Winner, Repeat, Link, QueryFails
    <2> QED
        BY <2>1, <2>2 DEF Goto, GotoAlert, DeskTypes
<1> QED
    BY <1>1 DEF DeskStep, ResolveRead, ResolveSave, Expire, Hour

LEMMA FeedSteps ==
    ASSUME DeskTypes, FeedTypes, [Next]_vars
    PROVE  FeedTypes'
<1> USE DEF FeedTypes, NoOffset
<1>1. Consumer \in Callers /\ Polls \subseteq Callers /\ Consumer \notin Polls
    BY FeedConstants
<1>2. ASSUME NEW m \in Messages, Published(m)
      PROVE  FeedTypes'
    <2>1. alertq' \in Seq(Messages) /\ Len(alertq') = Len(alertq) + 1
        BY <1>2, AppendProperties DEF Published
    <2>2. UNCHANGED <<position, offset, given, audit, poll, conn, connected, req>>
        BY <1>2 DEF Published, feedVars, deskVars
    <2>3. 1 .. Len(alertq) \subseteq 1 .. Len(alertq')
        BY <2>1
    <2> QED
        BY <2>1, <2>2, <2>3
<1>3. CASE (Join \/ GroupCrash \/ CrashWhileStarting \/ CommitOffset)
           /\ UNCHANGED deskVars /\ UNCHANGED alertq
    <2>1. UNCHANGED <<alertq, audit, poll, req>>
        BY <1>3 DEF Join, GroupCrash, CrashWhileStarting, CommitOffset, deskVars
    <2>2. CASE Join
        <3>1. StartsAt \in 0 .. Len(alertq) /\ offset <= StartsAt
            BY DEF StartsAt
        <3>2. position' \in 0 .. Len(alertq) /\ offset' \in NoOffset .. position'
            BY <2>2, <3>1 DEF Join, Joins
        <3>3. given' \subseteq 1 .. Len(alertq)
            <4>1. given \subseteq 1 .. Len(alertq) /\ position + 1 .. Len(alertq) \subseteq 1 .. Len(alertq)
                OBVIOUS
            <4>2. given' = given \/ given' = given \cup (position + 1 .. Len(alertq))
                BY <2>2 DEF Join, Joins
            <4> HIDE DEF FeedTypes
            <4> QED
                BY <4>1, <4>2
        <3>4. conn' = "joined" /\ connected' = TRUE /\ req[Consumer].pc = "idle"
            BY <2>2 DEF Join, Joins
        <3> QED
            BY <2>1, <3>2, <3>3, <3>4
    <2>3. CASE GroupCrash
        BY <2>1, <2>3 DEF GroupCrash
    <2>4. CASE CrashWhileStarting
        BY <2>1, <2>4 DEF CrashWhileStarting
    <2>5. CASE CommitOffset
        BY <2>1, <2>5 DEF CommitOffset
    <2> QED
        BY <1>3, <2>2, <2>3, <2>4, <2>5
<1>4. ASSUME NEW e \in Audits, Audited(e), UNCHANGED deskVars, UNCHANGED alertq
      PROVE  FeedTypes'
    BY <1>4 DEF Audited, deskVars
<1>5. ASSUME NEW p \in Polls, PollRead(p), UNCHANGED deskVars, UNCHANGED alertq
      PROVE  FeedTypes'
    <2> DEFINE found == {e \in Audits : audit[e] = "new"}
    <2>1. poll' \in [Polls -> [rows : SUBSET Audits, now : Audits \cup {"none"}]]
        <3>1. [poll[p] EXCEPT !.rows = found] \in [rows : SUBSET Audits, now : Audits \cup {"none"}]
            OBVIOUS
        <3> HIDE DEF found
        <3>2. poll' = [poll EXCEPT ![p] = [poll[p] EXCEPT !.rows = found]]
            BY <1>5 DEF PollRead, found
        <3> QED
            BY <3>1, <3>2
    <2> QED
        BY <1>5, <2>1 DEF PollRead, deskVars
<1>6. CASE TakeAlert /\ UNCHANGED deskButReq /\ UNCHANGED alertq
    BY <1>6 DEF TakeAlert, feedVars
<1>7. CASE HandleAlert /\ UNCHANGED deskButReq /\ UNCHANGED alertq
    <2>1. req'[Consumer] = Idle
        BY <1>1, <1>7 DEF HandleAlert, Return, DeskTypes
    <2>2. position < Len(alertq)
        BY <1>7 DEF HandleAlert
    <2> QED
        BY <1>7, <2>1, <2>2 DEF HandleAlert, Idle
<1>8. ASSUME NEW p \in Polls, PollRaise(p), UNCHANGED deskButReq, UNCHANGED alertq
      PROVE  FeedTypes'
    <2>1. PICK e \in poll[p].rows : Raise(p, AuditOf[e]) /\ poll' = [poll EXCEPT ![p].now = e]
        BY <1>8 DEF PollRaise
    <2>2. [poll[p] EXCEPT !.now = e] \in [rows : SUBSET Audits, now : Audits \cup {"none"}]
        OBVIOUS
    <2>3. poll' = [poll EXCEPT ![p] = [poll[p] EXCEPT !.now = e]]
        BY <2>1
    <2>4. poll' \in [Polls -> [rows : SUBSET Audits, now : Audits \cup {"none"}]]
        BY <2>2, <2>3
    <2>5. req'[Consumer] = req[Consumer]
        BY <1>1, <2>1 DEF Raise, DeskTypes
    <2> QED
        BY <1>8, <2>4, <2>5 DEF PollRaise
<1>9. ASSUME NEW p \in Polls, PollMark(p), UNCHANGED deskButReq, UNCHANGED alertq
      PROVE  FeedTypes'
    <2>1. req'[Consumer] = req[Consumer]
        BY <1>1, <1>9 DEF PollMark, Return, DeskTypes
    <2>2. audit' \in [Audits -> {"none", "new", "processed"}]
        BY <1>9 DEF PollMark
    <2>3. poll' \in [Polls -> [rows : SUBSET Audits, now : Audits \cup {"none"}]]
        BY <1>9 DEF PollMark
    <2> QED
        BY <1>9, <2>1, <2>2, <2>3 DEF PollMark
<1>10. CASE DeskStep /\ UNCHANGED feedVars /\ UNCHANGED alertq
    BY <1>1, <1>10, IdleStays DEF feedVars
<1>11. CASE BackendRestart /\ UNCHANGED alertq
    <2>1. req'[Consumer].pc = "idle"
        BY <1>1, <1>11 DEF BackendRestart, Idle
    <2>2. poll' \in [Polls -> [rows : SUBSET Audits, now : Audits \cup {"none"}]]
        BY <1>11 DEF BackendRestart, PollIdle
    <2>3. position' \in 0 .. Len(alertq) /\ offset' \in NoOffset .. position'
        BY <1>11 DEF BackendRestart
    <2>4. /\ conn' = "loop" /\ connected' = FALSE /\ UNCHANGED <<alertq, given, audit>>
        BY <1>11 DEF BackendRestart
    <2> QED
        BY <2>1, <2>2, <2>3, <2>4
<1>12. CASE UNCHANGED vars
    BY <1>12 DEF vars, feedVars, deskVars
<1> QED
    BY <1>2, <1>3, <1>4, <1>5, <1>6, <1>7, <1>8, <1>9, <1>10, <1>11, <1>12 DEF Next, FeedNext

-----------------------------------------------------------------------------
(* The rows *)

\* What a step leaves of a row: it stays, and its key and being closed with it.
RowStays(i) ==
    alert[i] # NoAlert =>
        /\ alert'[i] # NoAlert /\ alert'[i].key = alert[i].key
        /\ alert[i].status # "OPEN" => alert'[i].status # "OPEN"

\* The rows after an insert: the new one is the only one OPEN with its key.
Inserts(c) ==
    /\ Insert(c) /\ OpenAlert(req[c].event.key) = {}
    /\ Fresh \in Ids /\ alert[Fresh] = NoAlert
    /\ alert'[Fresh].key = req[c].event.key
    /\ alert'[Fresh].status = "OPEN"
    /\ alert'[Fresh].notified = IF Notifies(req[c].event.severity) THEN "recent" ELSE "never"
    /\ alert'[Fresh].severity = req[c].event.severity
    /\ req'[c].pc = "link" /\ req'[c].id = Fresh /\ req'[c].event = req[c].event
    /\ \A d \in Callers : d # c => req'[d] = req[d]
    /\ \A i \in Ids : i # Fresh => alert'[i] = alert[i]
    /\ UNCHANGED <<linked, closing, mails, unsent, hours>>

LEMMA InsertInserts ==
    ASSUME DeskTypes, NEW c \in Callers, Insert(c), OpenAlert(req[c].event.key) = {}
    PROVE  Inserts(c)
<1> DEFINE row == [key |-> req[c].event.key, status |-> "OPEN", count |-> 1,
                   severity |-> req[c].event.severity,
                   notified |-> IF Notifies(req[c].event.severity) THEN "recent" ELSE "never"]
<1>1. /\ Unused # {} /\ alert' = [alert EXCEPT ![Fresh] = row]
      /\ GotoAlert(c, "link", Fresh) /\ UNCHANGED <<linked, closing, mails, unsent, hours>>
    BY DEF Insert
<1>2. Fresh \in Ids /\ alert[Fresh] = NoAlert
    BY <1>1, FreshIsUnused
<1>3. "link" \in CallPcs /\ req[c].pc # "idle"
    BY DEF CallPcs, Insert
<1>4. /\ req'[c].pc = "link" /\ req'[c].id = Fresh /\ req'[c].event = req[c].event
      /\ \A d \in Callers : d # c => req'[d] = req[d]
    BY <1>1, <1>2, <1>3, GotoAlertMoves DEF DeskTypes
<1>5. /\ row.key = req[c].event.key /\ row.status = "OPEN"
      /\ row.severity = req[c].event.severity
      /\ row.notified = IF Notifies(req[c].event.severity) THEN "recent" ELSE "never"
    OBVIOUS
<1> HIDE DEF row
<1>6. alert'[Fresh] = row /\ \A i \in Ids : i # Fresh => alert'[i] = alert[i]
    BY <1>1, <1>2 DEF DeskTypes
<1> QED
    BY <1>1, <1>2, <1>4, <1>5, <1>6 DEF Inserts

\* The other steps of a call leave the rows alone, but for the repeat.
LEMMA RepeatRepeats ==
    ASSUME DeskTypes, NEW c \in Callers, Repeat(c), Exists(req[c].id)
    PROVE  /\ req[c].id \in Ids /\ alert[req[c].id] \in AlertFields
           /\ alert' = [alert EXCEPT ![req[c].id] =
                 Repeated(alert[req[c].id],
                          Stronger(req[c].event.severity, alert[req[c].id].severity))]
BY DEF Repeat, DeskTypes

LEMMA RowsEndure ==
    ASSUME DeskTypes, CopyInv, DeskStep, NEW i \in Ids
    PROVE  RowStays(i)
<1>1. ASSUME NEW c \in Callers, CallStep(c)
      PROVE  RowStays(i)
    <2>1. CASE Insert(c) /\ OpenAlert(req[c].event.key) = {}
        BY <2>1, InsertInserts DEF Inserts, RowStays
    <2>2. CASE Repeat(c) /\ Exists(req[c].id)
        <3> DEFINE row == Repeated(alert[req[c].id],
                              Stronger(req[c].event.severity, alert[req[c].id].severity))
        <3>1. /\ alert' = [alert EXCEPT ![req[c].id] = row]
              /\ req[c].id \in Ids /\ alert[req[c].id] \in AlertFields
            BY <2>2, RepeatRepeats
        <3>2. row.key = alert[req[c].id].key /\ row.status = alert[req[c].id].status
              /\ row # NoAlert
            BY <3>1 DEF Repeated, NoAlert
        <3> HIDE DEF row
        <3> QED
            BY <3>1, <3>2 DEF RowStays, DeskTypes
    <2>3. CASE UNCHANGED alert
        BY <2>3 DEF RowStays
    <2> QED
        BY <1>1, <2>1, <2>2, <2>3 DEF CallStep, Find, Insert, Winner, Repeat, Link, QueryFails
<1>2. ASSUME NEW a \in Admins, ResolveSave(a)
      PROVE  RowStays(i)
    <2>1. closing[a] \in [pc : {"save"}, id : Ids, copy : AlertFields]
        BY <1>2 DEF ResolveSave, DeskTypes, Closings, ClosingIdle
    <2>2. /\ Written(closing[a].copy).key = closing[a].copy.key
          /\ Written(closing[a].copy).status = "RESOLVED" /\ Written(closing[a].copy) # NoAlert
        BY <2>1 DEF Written, AlertFields, NoAlert
    <2>3. alert' = [alert EXCEPT ![closing[a].id] = Written(closing[a].copy)]
        BY <1>2 DEF ResolveSave
    <2> QED
        BY <2>1, <2>2, <2>3 DEF RowStays, DeskTypes, CopyInv
<1>3. ASSUME NEW j \in Ids, Expire(j)
      PROVE  RowStays(i)
    <2>1. alert[j] \in AlertFields /\ alert' = [alert EXCEPT ![j] = [alert[j] EXCEPT !.status = "deleted"]]
        BY <1>3 DEF Expire, Exists, DeskTypes, NoAlert
    <2> DEFINE row == [alert[j] EXCEPT !.status = "deleted"]
    <2>2. row.key = alert[j].key /\ row.status = "deleted" /\ row # NoAlert
        BY <2>1 DEF AlertFields, NoAlert
    <2>3. alert' = [alert EXCEPT ![j] = row]
        BY <2>1
    <2> HIDE DEF row
    <2> QED
        BY <2>2, <2>3 DEF RowStays, DeskTypes
<1>4. CASE Hour
    <2>1. alert'[i] = IF Exists(i) /\ alert[i].notified = "recent"
                      THEN [alert[i] EXCEPT !.notified = "old"] ELSE alert[i]
        BY <1>4 DEF Hour
    <2>2. CASE Exists(i)
        <3>1. alert[i] \in AlertFields
            BY <2>2 DEF Exists, DeskTypes, NoAlert
        <3>2. [alert[i] EXCEPT !.notified = "old"] # NoAlert
              /\ [alert[i] EXCEPT !.notified = "old"].key = alert[i].key
              /\ [alert[i] EXCEPT !.notified = "old"].status = alert[i].status
            BY <3>1 DEF AlertFields, NoAlert
        <3> QED
            BY <2>1, <3>2 DEF RowStays
    <2> QED
        BY <2>1, <2>2 DEF RowStays
<1> QED
    BY <1>1, <1>2, <1>3, <1>4 DEF DeskStep, ResolveRead, RowStays

\* A row that is not there yet comes from an insert.
LEMMA RowsAreInserted ==
    ASSUME DeskTypes, CopyInv, DeskStep, NEW i \in Ids, alert[i] = NoAlert, alert'[i] # NoAlert
    PROVE  \E c \in Callers : Inserts(c) /\ i = Fresh
<1>1. ~Exists(i)
    BY DEF Exists, NoAlert
<1>2. ASSUME NEW c \in Callers, CallStep(c)
      PROVE  Inserts(c) /\ i = Fresh
    <2>1. CASE Insert(c) /\ OpenAlert(req[c].event.key) = {}
        BY <2>1, InsertInserts DEF Inserts
    <2>2. CASE Repeat(c) /\ Exists(req[c].id)
        BY <1>1, <2>2, RepeatRepeats DEF DeskTypes
    <2>3. CASE UNCHANGED alert
        BY <2>3
    <2> QED
        BY <1>2, <2>1, <2>2, <2>3 DEF CallStep, Find, Insert, Winner, Repeat, Link, QueryFails
<1>3. ASSUME NEW a \in Admins, ResolveSave(a)
      PROVE  FALSE
    <2>1. closing[a].id # i /\ closing[a].id \in Ids
        BY <1>3 DEF ResolveSave, CopyInv, DeskTypes, Closings, ClosingIdle
    <2> QED
        BY <1>3, <2>1 DEF ResolveSave, DeskTypes
<1>4. ASSUME NEW j \in Ids, Expire(j)
      PROVE  FALSE
    <2>1. j # i
        BY <1>1, <1>4 DEF Expire
    <2> QED
        BY <1>4, <2>1 DEF Expire, DeskTypes
<1>5. CASE Hour
    BY <1>1, <1>5 DEF Hour
<1> QED
    BY <1>2, <1>3, <1>4, <1>5 DEF DeskStep, ResolveRead

\* A call moves by its own steps, and keeps what it is about.
LEMMA CallsMove ==
    ASSUME DeskTypes, DeskStep, NEW c \in Callers
    PROVE  \/ req'[c] = req[c]
           \/ CallStep(c) /\ req'[c].event = req[c].event
<1>1. ASSUME NEW d \in Callers, CallStep(d)
      PROVE  req'[c] = req[c] \/ (d = c /\ req'[c].event = req[c].event)
    <2>1. req[d].pc # "idle" /\ req[d] \in Calls
        BY <1>1 DEF CallStep, Find, Insert, Winner, Repeat, Link, QueryFails, DeskTypes
    <2>2. CASE Insert(d) /\ OpenAlert(req[d].event.key) = {}
        BY <2>2, InsertInserts DEF Inserts
    <2>3. ASSUME NEW pc \in {"insert", "conflict", "error", "done", "winner", "linkRepeat"}, Goto(d, pc)
          PROVE  req'[c] = req[c] \/ (d = c /\ req'[c].event = req[c].event)
        <3>1. pc \in CallPcs
            BY DEF CallPcs
        <3> QED
            BY <2>1, <2>3, <3>1, GotoMoves DEF DeskTypes
    <2>4. ASSUME NEW i \in OpenAlert(req[d].event.key), GotoAlert(d, "repeat", i)
          PROVE  req'[c] = req[c] \/ (d = c /\ req'[c].event = req[c].event)
        <3>1. "repeat" \in CallPcs /\ i \in Ids
            BY DEF CallPcs, OpenAlert
        <3> QED
            BY <2>1, <2>4, <3>1, GotoAlertMoves DEF DeskTypes
    <2> QED
        BY <1>1, <2>2, <2>3, <2>4 DEF CallStep, Find, Insert, Winner, Repeat, Link, QueryFails
<1> QED
    BY <1>1 DEF DeskStep, ResolveRead, ResolveSave, Expire, Hour

\* Where a call goes: the pc it leaves and the one it comes to.
LEMMA CallGoes ==
    ASSUME DeskTypes, NEW c \in Callers, CallStep(c)
    PROVE  /\ req'[c].pc = "winner" => OpenAlert(req[c].event.key) # {} /\ UNCHANGED alert
           /\ req'[c].pc = "conflict" =>
                /\ req[c].pc = "winner" /\ OpenAlert(req[c].event.key) = {} /\ UNCHANGED alert
           /\ req'[c].pc = "link" => Inserts(c)
<1>1. req[c].pc # "idle" /\ req[c] \in Calls
    BY DEF CallStep, Find, Insert, Winner, Repeat, Link, QueryFails, DeskTypes
<1>2. CASE Insert(c) /\ OpenAlert(req[c].event.key) = {}
    BY <1>2, InsertInserts DEF Inserts
<1>3. ASSUME NEW pc \in {"insert", "conflict", "error", "done", "winner", "linkRepeat"}, Goto(c, pc)
      PROVE  req'[c].pc = pc
    <2>1. pc \in CallPcs
        BY DEF CallPcs
    <2> QED
        BY <1>1, <1>3, <2>1, GotoMoves DEF DeskTypes
<1>4. ASSUME NEW i \in OpenAlert(req[c].event.key), GotoAlert(c, "repeat", i)
      PROVE  req'[c].pc = "repeat"
    <2>1. "repeat" \in CallPcs /\ i \in Ids
        BY DEF CallPcs, OpenAlert
    <2> QED
        BY <1>1, <1>4, <2>1, GotoAlertMoves DEF DeskTypes
<1>5. CASE Find(c)
    BY <1>3, <1>4, <1>5 DEF Find
<1>6. CASE Winner(c)
    BY <1>3, <1>4, <1>6 DEF Winner
<1>7. CASE Insert(c) /\ OpenAlert(req[c].event.key) # {}
    BY <1>3, <1>7 DEF Insert
<1> QED
    BY <1>2, <1>3, <1>5, <1>6, <1>7 DEF CallStep, Repeat, Link, QueryFails

RowsInv == DeskTypes /\ UniqueOpen /\ CopyInv /\ WinnerInv /\ LostRaceIsRepeat

LEMMA UniqueInDesk ==
    ASSUME DeskTypes, UniqueOpen, CopyInv, DeskStep
    PROVE  UniqueOpen'
<1> SUFFICES ASSUME NEW i \in Ids, NEW j \in Ids,
                    alert'[i].status = "OPEN", alert'[j].status = "OPEN",
                    alert'[i].key = alert'[j].key
             PROVE  i = j
    BY DEF UniqueOpen
<1>1. RowStays(i) /\ RowStays(j)
    BY RowsEndure
<1>2. alert'[i] # NoAlert /\ alert'[j] # NoAlert
    BY DEF NoAlert
<1>3. CASE alert[i] # NoAlert /\ alert[j] # NoAlert
    BY <1>1, <1>3 DEF RowStays, UniqueOpen
<1>4. ASSUME NEW x \in {i, j}, NEW y \in {i, j}, {x, y} = {i, j},
             alert[x] = NoAlert, alert[y] # NoAlert
      PROVE  FALSE
    <2>1. PICK c \in Callers : Inserts(c) /\ x = Fresh
        BY <1>2, <1>4, RowsAreInserted
    <2>2. alert[y].status = "OPEN" /\ alert[y].key = alert'[x].key
        BY <1>1, <1>4 DEF RowStays
    <2>3. y \in OpenAlert(req[c].event.key)
        BY <2>1, <2>2 DEF Inserts, OpenAlert
    <2> QED
        BY <2>1, <2>3 DEF Inserts
<1>5. CASE alert[i] = NoAlert /\ alert[j] = NoAlert
    BY <1>2, <1>5, RowsAreInserted DEF Inserts
<1> QED
    BY <1>3, <1>4, <1>5

LEMMA CopyInDesk ==
    ASSUME DeskTypes, CopyInv, DeskStep
    PROVE  CopyInv'
<1> SUFFICES ASSUME NEW a \in Admins, closing'[a].pc = "save"
             PROVE  /\ alert'[closing'[a].id] # NoAlert
                    /\ closing'[a].copy.key = alert'[closing'[a].id].key
    BY DEF CopyInv
<1>1. CASE closing'[a] = closing[a]
    <2>1. closing[a].id \in Ids
        BY <1>1 DEF DeskTypes, Closings, ClosingIdle
    <2>2. RowStays(closing[a].id)
        BY <2>1, RowsEndure
    <2> QED
        BY <1>1, <2>2 DEF CopyInv, RowStays
<1>2. ASSUME NEW b \in Admins, ResolveSave(b)
      PROVE  closing'[a] = closing[a]
    <2>1. closing'[b].pc = "idle" /\ (b # a => closing'[a] = closing[a])
        BY <1>2 DEF ResolveSave, DeskTypes, ClosingIdle
    <2> QED
        BY <2>1
<1>3. ASSUME NEW b \in Admins, NEW i \in Ids, ResolveRead(b, i), closing'[a] # closing[a]
      PROVE  /\ alert'[closing'[a].id] # NoAlert
             /\ closing'[a].copy.key = alert'[closing'[a].id].key
    <2>1. closing'[a] = [pc |-> "save", id |-> i, copy |-> alert[i]] /\ UNCHANGED alert
        BY <1>3, Zenon DEF ResolveRead, DeskTypes
    <2>2. alert[i] # NoAlert
        BY <1>3 DEF ResolveRead, Exists, NoAlert
    <2> QED
        BY <2>1, <2>2
<1>4. ASSUME NEW c \in Callers, CallStep(c)
      PROVE  UNCHANGED closing
    BY <1>4 DEF CallStep, Find, Insert, Winner, Repeat, Link, QueryFails
<1> QED
    BY <1>1, <1>2, <1>3, <1>4 DEF DeskStep, Expire, Hour

LEMMA WinnerInDesk ==
    ASSUME DeskTypes, CopyInv, WinnerInv, DeskStep
    PROVE  WinnerInv'
<1> SUFFICES ASSUME NEW c \in Callers, req'[c].pc = "winner"
             PROVE  \E i \in Ids : alert'[i] # NoAlert /\ alert'[i].key = req'[c].event.key
    BY DEF WinnerInv
<1>1. PICK i \in Ids : alert[i] # NoAlert /\ alert[i].key = req'[c].event.key
    <2>1. CASE req'[c] = req[c]
        BY <2>1 DEF WinnerInv
    <2>2. CASE CallStep(c) /\ req'[c].event = req[c].event
        <3>1. OpenAlert(req[c].event.key) # {}
            BY <2>2, CallGoes
        <3> QED
            BY <2>2, <3>1 DEF OpenAlert, NoAlert
    <2> QED
        BY <2>1, <2>2, CallsMove
<1>2. RowStays(i)
    BY RowsEndure
<1> QED
    BY <1>1, <1>2 DEF RowStays

LEMMA LostRaceInDesk ==
    ASSUME DeskTypes, CopyInv, WinnerInv, LostRaceIsRepeat, DeskStep
    PROVE  LostRaceIsRepeat'
<1> SUFFICES ASSUME NEW c \in Callers, req'[c].pc = "conflict"
             PROVE  \E i \in Ids : alert'[i] # NoAlert /\ alert'[i].key = req'[c].event.key
                                   /\ alert'[i].status # "OPEN"
    BY DEF LostRaceIsRepeat
<1>1. PICK i \in Ids : /\ alert[i] # NoAlert /\ alert[i].key = req'[c].event.key
                       /\ alert[i].status # "OPEN"
    <2>1. CASE req'[c] = req[c]
        BY <2>1 DEF LostRaceIsRepeat
    <2>2. CASE CallStep(c) /\ req'[c].event = req[c].event
        <3>1. req[c].pc = "winner" /\ OpenAlert(req[c].event.key) = {}
            BY <2>2, CallGoes
        <3> QED
            BY <2>2, <3>1 DEF WinnerInv, OpenAlert
    <2> QED
        BY <2>1, <2>2, CallsMove
<1>2. RowStays(i)
    BY RowsEndure
<1> QED
    BY <1>1, <1>2 DEF RowStays

LEMMA RowsInSteps ==
    ASSUME RowsInv, FeedTypes, [Next]_vars
    PROVE  RowsInv'
<1>1. DeskTypes'
    BY TypesOfSteps DEF RowsInv
<1>2. CASE DeskStep
    BY <1>1, <1>2, UniqueInDesk, CopyInDesk, WinnerInDesk, LostRaceInDesk DEF RowsInv
<1>3. ASSUME UNCHANGED alert,
             \A a \in Admins : closing'[a].pc = "save" => closing'[a] = closing[a],
             \A c \in Callers : req'[c].pc \in {"winner", "conflict"} => req'[c] = req[c]
      PROVE  RowsInv'
    <2>1. UniqueOpen' /\ CopyInv'
        BY <1>3 DEF RowsInv, UniqueOpen, CopyInv
    <2>2. WinnerInv' /\ LostRaceIsRepeat'
        BY <1>3 DEF RowsInv, WinnerInv, LostRaceIsRepeat
    <2> QED
        BY <1>1, <2>1, <2>2 DEF RowsInv
<1>4. CASE UNCHANGED deskVars
    BY <1>3, <1>4 DEF deskVars
<1>5. ASSUME NEW c \in Callers, NEW e \in Events, Begins(c, e)
      PROVE  RowsInv'
    <2>1. req'[c].pc = "find" /\ \A d \in Callers : d # c => req'[d] = req[d]
        BY <1>5 DEF Begins, Raise, RowsInv, DeskTypes
    <2> QED
        BY <1>3, <1>5, <2>1 DEF Begins, deskButReq
<1>6. ASSUME NEW c \in Callers, Ends(c)
      PROVE  RowsInv'
    <2>1. req'[c].pc = "idle" /\ \A d \in Callers : d # c => req'[d] = req[d]
        BY <1>6 DEF Ends, Return, Idle, RowsInv, DeskTypes
    <2> QED
        BY <1>3, <1>6, <2>1 DEF Ends, deskButReq
<1>7. CASE BackendRestart
    BY <1>3, <1>7 DEF BackendRestart, Idle, ClosingIdle
<1> QED
    BY <1>2, <1>4, <1>5, <1>6, <1>7, DeskCases DEF RowsInv

-----------------------------------------------------------------------------
(* The mails *)

\* A mail that was sent, is about to be or was prevented by a restart remains so.
LEMMA MailStays ==
    ASSUME DeskTypes, FeedTypes, [Next]_vars, NEW i \in Ids, MailDone(i)
    PROVE  MailDone(i)'
<1>1. CASE UNCHANGED deskVars
    BY <1>1 DEF deskVars, MailDone, Sending
<1>2. ASSUME NEW c \in Callers, NEW e \in Events, Begins(c, e)
      PROVE  MailDone(i)'
    <2>1. \A d \in Callers : req[d].pc = "link" => req'[d] = req[d]
        BY <1>2 DEF Begins, Raise, DeskTypes
    <2> QED
        BY <1>2, <2>1 DEF Begins, deskButReq, MailDone, Sending
<1>3. ASSUME NEW c \in Callers, Ends(c)
      PROVE  MailDone(i)'
    <2>1. \A d \in Callers : req[d].pc = "link" => req'[d] = req[d]
        BY <1>3 DEF Ends, Return, DeskTypes
    <2> QED
        BY <1>3, <2>1 DEF Ends, deskButReq, MailDone, Sending
<1>4. CASE BackendRestart
    <2>1. ASSUME NEW c \in Callers, Sending(c, i)
          PROVE  mails[i] = 0 => i \in unsent'
        <3>1. alert[i] \in AlertFields
            BY <2>1 DEF Sending, DeskTypes
        <3>2. alert[i].status # "none"
            BY <3>1 DEF AlertFields
        <3> QED
            BY <1>4, <2>1, <3>2 DEF BackendRestart, Sending
    <2>2. unsent \subseteq unsent' /\ UNCHANGED mails /\ mails[i] \in Nat
        BY <1>4 DEF BackendRestart, DeskTypes
    <2> QED
        BY <2>1, <2>2 DEF MailDone
<1>5. ASSUME NEW c \in Callers, CallStep(c)
      PROVE  MailDone(i)'
    <2>1. /\ UNCHANGED unsent /\ mails'[i] \in Nat
          /\ mails'[i] = mails[i] \/ mails'[i] = mails[i] + 1
        BY <1>5 DEF CallStep, Find, Insert, Winner, Repeat, Link, QueryFails, Mails, DeskTypes
    <2>2. CASE mails[i] > 0 \/ i \in unsent
        BY <2>1, <2>2 DEF MailDone, DeskTypes
    <2>3. ASSUME NEW d \in Callers, Sending(d, i)
          PROVE  MailDone(i)'
        <3>1. CASE req'[d] = req[d]
            BY <2>3, <3>1 DEF Sending, MailDone
        <3>2. CASE CallStep(d)
            <4>1. Link(d)
                BY <2>3, <3>2 DEF CallStep, Find, Insert, Winner, Repeat, QueryFails, Sending
            <4>2. mails' = [mails EXCEPT ![i] = @ + 1]
                BY <2>3, <4>1 DEF Link, Sending, Mails
            <4>3. mails'[i] > 0
                BY <4>2 DEF DeskTypes
            <4> QED
                BY <4>3 DEF MailDone
        <3>3. DeskStep
            BY <1>5 DEF DeskStep
        <3> QED
            BY <3>1, <3>2, <3>3, CallsMove
    <2> QED
        BY <2>2, <2>3 DEF MailDone
<1>6. CASE DeskStep /\ UNCHANGED <<req, mails, unsent>>
    BY <1>6 DEF MailDone, Sending
<1> QED
    BY <1>1, <1>2, <1>3, <1>4, <1>5, <1>6, DeskCases
       DEF DeskStep, ResolveRead, ResolveSave, Expire, Hour

\* A repeat that should be mailed is; one that should not finds a mail already there.
LEMMA RepeatIsMailed ==
    ASSUME DeskTypes, VouchInv, NEW c \in Callers, Repeat(c), Exists(req[c].id),
           NEW i, i = req[c].id, MailDone(i) => MailDone(i)'
    PROVE  Notifies(alert'[i].severity) \/ alert'[i].notified # "never" => MailDone(i)'
<1> DEFINE old == alert[i]
           s == Stronger(req[c].event.severity, old.severity)
<1>1. i \in Ids /\ old \in AlertFields /\ alert' = [alert EXCEPT ![i] = Repeated(old, s)]
    BY RepeatRepeats
<1>2. Vouches(old, i)
    BY <1>1 DEF VouchInv, AlertFields, NoAlert
<1> HIDE DEF old, s
<1>3. alert'[i].severity = s
      /\ alert'[i].notified = IF ShouldNotify(old, s) THEN "recent" ELSE old.notified
    BY <1>1 DEF DeskTypes, Repeated
<1>4. CASE ShouldNotify(old, s)
    <2>1. mails' = [mails EXCEPT ![i] = @ + 1]
        BY <1>4 DEF Repeat, Mails, old, s
    <2>2. mails'[i] > 0
        BY <1>1, <2>1 DEF DeskTypes
    <2> QED
        BY <2>2 DEF MailDone
<1>5. CASE ~ShouldNotify(old, s)
    <2>1. Notifies(s) \/ old.notified # "never" => old.notified # "never"
        BY <1>5 DEF ShouldNotify
    <2> QED
        BY <1>2, <1>3, <1>5, <2>1 DEF Vouches
<1> QED
    BY <1>4, <1>5

LEMMA VouchInSteps ==
    ASSUME DeskTypes, FeedTypes, CopyInv, VouchInv, [Next]_vars
    PROVE  VouchInv'
<1> DEFINE Backed(row, i) == Notifies(row.severity) \/ row.notified # "never" => MailDone(i)'
<1>1. ASSUME NEW i \in Ids PROVE MailDone(i) => MailDone(i)'
    BY MailStays
<1>2. ASSUME NEW row, NEW i \in Ids, Vouches(row, i)
      PROVE  Backed(row, i)
    BY <1>1, <1>2 DEF Vouches
<1>3. ASSUME NEW a \in Admins, closing[a].pc = "save"
      PROVE  closing[a].id \in Ids /\ closing[a].copy \in AlertFields
    BY <1>3 DEF DeskTypes, Closings, ClosingIdle
<1>4. ASSUME NEW a \in Admins, closing'[a].pc = "save", NEW k \in Ids, k = closing'[a].id
      PROVE  Backed(closing'[a].copy, k)
    <2>1. CASE closing'[a] = closing[a]
        BY <1>2, <1>3, <1>4, <2>1 DEF VouchInv
    <2>2. ASSUME NEW i \in Ids, ResolveRead(a, i)
          PROVE  Backed(closing'[a].copy, k)
        <3>1. closing'[a] = [pc |-> "save", id |-> i, copy |-> alert[i]]
            BY <2>2, Zenon DEF ResolveRead, DeskTypes
        <3>2. Vouches(alert[i], i)
            BY <2>2 DEF ResolveRead, Exists, NoAlert, VouchInv
        <3> QED
            BY <1>2, <1>4, <3>1, <3>2
    <2>3. CASE DeskStep
        <3>1. ASSUME NEW b \in Admins, ResolveSave(b)
              PROVE  closing'[a] = closing[a]
            BY <1>4, <3>1 DEF ResolveSave, DeskTypes, ClosingIdle
        <3>2. ASSUME NEW b \in Admins, NEW i \in Ids, ResolveRead(b, i)
              PROVE  closing'[a] = closing[a] \/ ResolveRead(a, i)
            BY <3>2 DEF ResolveRead, DeskTypes
        <3>3. ASSUME NEW c \in Callers, CallStep(c)
              PROVE  UNCHANGED closing
            BY <3>3 DEF CallStep, Find, Insert, Winner, Repeat, Link, QueryFails
        <3> QED
            BY <2>1, <2>2, <2>3, <3>1, <3>2, <3>3 DEF DeskStep, Expire, Hour
    <2>4. CASE BackendRestart
        BY <1>4, <2>4 DEF BackendRestart, ClosingIdle
    <2> HIDE DEF Backed
    <2> QED
        BY <2>1, <2>3, <2>4, DeskCases DEF deskVars, Begins, Ends, deskButReq
<1>5. ASSUME NEW i \in Ids, alert'[i] # NoAlert
      PROVE  Backed(alert'[i], i)
    <2>1. CASE alert'[i] = alert[i]
        BY <1>2, <1>5, <2>1 DEF VouchInv
    <2>2. ASSUME NEW c \in Callers, Inserts(c), i = Fresh
          PROVE  Backed(alert'[i], i)
        <3>1. Notifies(alert'[i].severity) \/ alert'[i].notified # "never" => Sending(c, i)'
            BY <2>2 DEF Inserts, Sending
        <3> QED
            BY <3>1 DEF MailDone
    <2>3. ASSUME NEW c \in Callers, Repeat(c), Exists(req[c].id), i = req[c].id
          PROVE  Backed(alert'[i], i)
        <3>1. MailDone(i) => MailDone(i)'
            BY <1>1
        <3> QED
            BY <2>3, <3>1, RepeatIsMailed
    <2>4. ASSUME NEW a \in Admins, ResolveSave(a), i = closing[a].id
          PROVE  Backed(alert'[i], i)
        <3>1. alert'[i] = Written(closing[a].copy)
            BY <2>4 DEF ResolveSave, DeskTypes
        <3>2. /\ closing[a].pc = "save"
              /\ alert'[i].severity = closing[a].copy.severity
              /\ alert'[i].notified = closing[a].copy.notified
            BY <1>3, <2>4, <3>1 DEF ResolveSave, Written, AlertFields
        <3>3. Backed(closing[a].copy, i)
            BY <1>2, <2>4, <3>2 DEF VouchInv
        <3> QED
            BY <3>2, <3>3
    <2>5. CASE alert[i] # NoAlert /\ alert'[i].severity = alert[i].severity
               /\ (alert'[i].notified # "never" => alert[i].notified # "never")
        BY <1>2, <2>5 DEF VouchInv
    <2>6. CASE DeskStep
        <3>1. ASSUME NEW c \in Callers, CallStep(c), alert'[i] # alert[i]
              PROVE  Backed(alert'[i], i)
            <4>1. CASE Insert(c) /\ OpenAlert(req[c].event.key) = {}
                BY <2>2, <3>1, <4>1, InsertInserts DEF Inserts
            <4>2. CASE Repeat(c) /\ Exists(req[c].id)
                <5>1. i = req[c].id
                    BY <3>1, <4>2, RepeatRepeats DEF DeskTypes
                <5> QED
                    BY <2>3, <4>2, <5>1
            <4> QED
                BY <3>1, <4>1, <4>2 DEF CallStep, Find, Insert, Winner, Repeat, Link, QueryFails
        <3>2. ASSUME NEW a \in Admins, ResolveSave(a), alert'[i] # alert[i]
              PROVE  Backed(alert'[i], i)
            BY <2>4, <3>2 DEF ResolveSave, DeskTypes
        <3>3. ASSUME NEW j \in Ids, Expire(j), alert'[i] # alert[i]
              PROVE  Backed(alert'[i], i)
            <4>1. i = j /\ alert'[i] = [alert[i] EXCEPT !.status = "deleted"]
                BY <3>3 DEF Expire, DeskTypes
            <4>2. alert[i] # NoAlert /\ alert[i] \in AlertFields
                BY <3>3, <4>1 DEF Expire, Exists, DeskTypes, NoAlert
            <4> QED
                BY <2>5, <4>1, <4>2 DEF AlertFields
        <3>4. ASSUME Hour, alert'[i] # alert[i]
              PROVE  Backed(alert'[i], i)
            <4>1. /\ Exists(i) /\ alert[i].notified = "recent"
                  /\ alert'[i] = [alert[i] EXCEPT !.notified = "old"]
                BY <3>4 DEF Hour
            <4>2. alert[i] # NoAlert /\ alert[i] \in AlertFields
                BY <4>1 DEF Exists, DeskTypes, NoAlert
            <4> QED
                BY <2>5, <4>1, <4>2 DEF AlertFields
        <3> HIDE DEF Backed
        <3> QED
            BY <2>1, <2>6, <3>1, <3>2, <3>3, <3>4 DEF DeskStep, ResolveRead
    <2> QED
        BY <2>1, <2>6, DeskCases
           DEF deskVars, Begins, Ends, deskButReq, BackendRestart
<1>6. ASSUME NEW a \in Admins, closing'[a].pc = "save"
      PROVE  closing'[a].id \in Ids
    <2>1. DeskTypes'
        BY TypesOfSteps
    <2> QED
        BY <1>6, <2>1 DEF DeskTypes, Closings, ClosingIdle
<1>7. ASSUME NEW a \in Admins, closing'[a].pc = "save"
      PROVE  Vouches(closing[a].copy, closing[a].id)'
    <2>1. PICK k \in Ids : k = closing'[a].id
        BY <1>6, <1>7
    <2>2. Backed(closing'[a].copy, k)
        BY <1>4, <1>7, <2>1
    <2> QED
        BY <2>1, <2>2 DEF Vouches, MailDone, Sending
<1> QED
    BY <1>5, <1>7 DEF VouchInv, Vouches

\* A step that moves no caller to or from its first mail leaves the pending mails as they are.
LEMMA SendingsKept ==
    ASSUME RationInv, \A d \in Callers : req[d].pc = "link" \/ req'[d].pc = "link" => req'[d] = req[d]
    PROVE  /\ \A i \in Ids : Sendings(i)' = Sendings(i)
           /\ \A c, d \in Callers :
                 req'[c].pc = "link" /\ req'[d].pc = "link" /\ req'[c].id = req'[d].id => c = d
<1>1. ASSUME NEW i \in Ids, NEW d \in Callers
      PROVE  Sending(d, i)' <=> Sending(d, i)
    BY DEF Sending
<1>2. \A i \in Ids : Sendings(i)' = Sendings(i)
    BY <1>1 DEF Sendings
<1> QED
    BY <1>2 DEF RationInv

\* Sending the first mail turns a pending one into a sent one.
LEMMA LinkSends ==
    ASSUME DeskTypes, RationInv, NEW c \in Callers, Link(c), NEW i \in Ids
    PROVE  mails'[i] + Sendings(i)' = mails[i] + Sendings(i)
<1>1. mails[i] \in Nat /\ req[c] \in Calls /\ req[c].pc # "idle" /\ "done" \in CallPcs
    BY DEF DeskTypes, Link, CallPcs
<1>2. req'[c].pc = "done" /\ \A d \in Callers : d # c => req'[d] = req[d]
    BY <1>1, GotoMoves DEF Link, DeskTypes
<1>3. ~Sending(c, i)' /\ \A d \in Callers : d # c => (Sending(d, i)' <=> Sending(d, i))
    BY <1>2 DEF Sending
<1>4. CASE Sending(c, i)
    <2>1. \A d \in Callers : d # c => ~Sending(d, i)
        BY <1>4 DEF RationInv, Sending
    <2>2. Sendings(i) = 1 /\ Sendings(i)' = 0
        BY <1>3, <1>4, <2>1 DEF Sendings
    <2>3. mails' = [mails EXCEPT ![i] = @ + 1]
        BY <1>4 DEF Link, Mails, Sending
    <2> QED
        BY <1>1, <2>2, <2>3 DEF DeskTypes
<1>5. CASE ~Sending(c, i)
    <2>1. Sendings(i)' = Sendings(i)
        BY <1>3, <1>5 DEF Sendings
    <2>2. mails'[i] = mails[i]
        BY <1>5 DEF Link, Mails, Sending, DeskTypes
    <2> QED
        BY <2>1, <2>2
<1> QED
    BY <1>4, <1>5

LEMMA RationInCalls ==
    ASSUME DeskTypes, DeskTypes', RationInv, NEW c \in Callers, CallStep(c)
    PROVE  RationInv'
<1>1. DeskStep
    BY DEF DeskStep
<1>2. ASSUME NEW i \in Ids PROVE Sendings(i) \in {0, 1} /\ mails[i] \in Nat /\ hours \in Nat
    BY DEF Sendings, DeskTypes
<1>3. CASE Link(c)
    <2>1. req'[c].pc = "done" /\ \A d \in Callers : d # c => req'[d] = req[d]
        <3>1. req[c].pc # "idle" /\ "done" \in CallPcs /\ Goto(c, "done")
            BY <1>3 DEF Link, CallPcs
        <3> QED
            BY <3>1, GotoMoves DEF DeskTypes
    <2>2. ASSUME NEW i \in Ids PROVE Rationed(i)'
        <3>1. mails'[i] + Sendings(i)' = mails[i] + Sendings(i)
            BY <1>3, LinkSends
        <3>2. alert[i] = NoAlert => mails'[i] = mails[i]
            BY <1>3 DEF Link, Mails, DeskTypes
        <3>3. UNCHANGED <<alert, hours>> /\ Rationed(i)
            BY <1>3 DEF Link, RationInv
        <3> QED
            BY <3>1, <3>2, <3>3 DEF Rationed
    <2> QED
        BY <2>1, <2>2 DEF RationInv
<1>4. CASE Inserts(c)
    <2> DEFINE i == Fresh
    <2>1. /\ i \in Ids /\ alert[i] = NoAlert /\ mails[i] = 0
          /\ req'[c].pc = "link" /\ req'[c].id = i /\ req'[c].event = req[c].event
          /\ \A d \in Callers : d # c => req'[d] = req[d]
          /\ UNCHANGED <<mails, hours>>
          /\ \A j \in Ids : j # i => alert'[j] = alert[j]
          /\ alert'[i].notified = IF Notifies(req[c].event.severity) THEN "recent" ELSE "never"
          /\ alert'[i].status = "OPEN"
        BY <1>4 DEF Inserts, RationInv, Rationed
    <2> HIDE DEF i
    <2>2. ASSUME NEW d \in Callers PROVE req[d].pc = "link" => req[d].id # i
        BY <2>1 DEF DeskTypes
    <2>3. \A d, e \in Callers :
             req'[d].pc = "link" /\ req'[e].pc = "link" /\ req'[d].id = req'[e].id => d = e
        BY <2>1, <2>2 DEF RationInv
    <2>4. ASSUME NEW j \in Ids, j # i PROVE Rationed(j)'
        <3>1. \A d \in Callers : Sending(d, j)' <=> Sending(d, j)
            BY <1>4, <2>1, <2>4 DEF Sending, Inserts, Insert
        <3>2. Sendings(j)' = Sendings(j)
            BY <3>1 DEF Sendings
        <3>3. Rationed(j)
            BY DEF RationInv
        <3> QED
            BY <2>1, <2>4, <3>2, <3>3 DEF Rationed
    <2>5. ASSUME NEW k \in Ids, k = i PROVE Rationed(k)'
        <3>1. \A d \in Callers : d # c => ~Sending(d, k)'
            BY <2>1, <2>2, <2>5 DEF Sending
        <3>2. Sending(c, k)' <=> Notifies(req[c].event.severity)
            BY <2>1, <2>5 DEF Sending
        <3>3. Sendings(k)' = IF Notifies(req[c].event.severity) THEN 1 ELSE 0
            BY <3>1, <3>2 DEF Sendings
        <3>4. alert'[k] # NoAlert
            BY <2>1, <2>5 DEF NoAlert
        <3> QED
            BY <1>2, <2>1, <2>5, <3>3, <3>4 DEF Rationed
    <2> QED
        BY <2>1, <2>3, <2>4, <2>5 DEF RationInv
<1>5. CASE ~Link(c) /\ ~Inserts(c)
    <2>1. \A d \in Callers : req[d].pc = "link" \/ req'[d].pc = "link" => req'[d] = req[d]
        <3>1. ASSUME NEW d \in Callers, req'[d] # req[d]
              PROVE  d = c
            <4>1. \A e \in Callers : CallStep(e) => req[e].pc # "idle"
                BY DEF CallStep, Find, Insert, Winner, Repeat, Link, QueryFails
            <4>2. (\E pc : Goto(c, pc)) \/ (\E pc, i : GotoAlert(c, pc, i))
                BY DEF CallStep, Find, Insert, Winner, Repeat, Link, QueryFails
            <4> QED
                BY <3>1, <4>2 DEF Goto, GotoAlert, DeskTypes
        <3>2. req[c].pc # "link"
            BY <1>5 DEF CallStep, Find, Insert, Winner, Repeat, QueryFails
        <3>3. req'[c].pc # "link"
            BY <1>5, CallGoes
        <3> QED
            BY <3>1, <3>2, <3>3
    <2>2. /\ \A i \in Ids : Sendings(i)' = Sendings(i)
          /\ \A d, e \in Callers :
                req'[d].pc = "link" /\ req'[e].pc = "link" /\ req'[d].id = req'[e].id => d = e
        BY <2>1, SendingsKept
    <2>3. CASE UNCHANGED <<alert, mails, hours>>
        BY <2>2, <2>3 DEF RationInv, Rationed
    <2>4. CASE Repeat(c) /\ Exists(req[c].id)
        <3> DEFINE k == req[c].id
                   old == alert[k]
                   s == Stronger(req[c].event.severity, old.severity)
        <3>1. /\ k \in Ids /\ old \in AlertFields /\ alert' = [alert EXCEPT ![k] = Repeated(old, s)]
              /\ UNCHANGED hours
              /\ IF ShouldNotify(old, s) THEN mails' = [mails EXCEPT ![k] = @ + 1] ELSE UNCHANGED mails
            BY <2>4, RepeatRepeats DEF Repeat, Mails
        <3>2. /\ Repeated(old, s).status = old.status /\ Repeated(old, s) # NoAlert
              /\ Repeated(old, s).notified = IF ShouldNotify(old, s) THEN "recent" ELSE old.notified
            BY <3>1 DEF Repeated, NoAlert, AlertFields
        <3>3. old # NoAlert /\ old.notified \in {"never", "recent", "old"}
            BY <3>1 DEF AlertFields, NoAlert
        <3>4. ShouldNotify(old, s) => old.notified \in {"never", "old"}
            BY DEF ShouldNotify
        <3> HIDE DEF k, s
        <3>5. ASSUME NEW j \in Ids, j # k PROVE Rationed(j)'
            <4>1. alert'[j] = alert[j] /\ mails'[j] = mails[j]
                BY <3>1, <3>5 DEF DeskTypes
            <4> QED
                BY <2>2, <3>1, <4>1 DEF RationInv, Rationed
        <3>6. ASSUME NEW j \in Ids, j = k PROVE Rationed(j)'
            <4>1. /\ alert'[j].status = alert[j].status /\ alert'[j] # NoAlert
                  /\ alert'[j].notified = IF ShouldNotify(old, s) THEN "recent" ELSE alert[j].notified
                  /\ mails'[j] = IF ShouldNotify(old, s) THEN mails[j] + 1 ELSE mails[j]
                BY <3>1, <3>2, <3>6 DEF DeskTypes
            <4>2. Rationed(j) /\ Sendings(j)' = Sendings(j)
                BY <2>2 DEF RationInv
            <4> HIDE DEF old
            <4>3. CASE ShouldNotify(old, s)
                <5>1. alert[j].notified \in {"never", "old"}
                    BY <3>4, <3>6, <4>3 DEF old
                <5> QED
                    BY <1>2, <3>1, <4>1, <4>2, <4>3, <5>1 DEF Rationed
            <4>4. CASE ~ShouldNotify(old, s)
                BY <3>1, <4>1, <4>2, <4>4 DEF Rationed
            <4> QED
                BY <4>3, <4>4
        <3> QED
            BY <2>2, <3>5, <3>6 DEF RationInv
    <2>5. ~Insert(c) \/ UNCHANGED <<alert, mails, hours>>
        BY <1>5, InsertInserts DEF Insert
    <2> QED
        BY <1>5, <2>3, <2>4, <2>5 DEF CallStep, Find, Winner, Repeat, QueryFails
<1> QED
    BY <1>3, <1>4, <1>5

LEMMA RationInSteps ==
    ASSUME DeskTypes, FeedTypes, CopyInv, RationInv, [Next]_vars
    PROVE  RationInv'
<1> DEFINE LinksKept == \A d \in Callers :
                           req[d].pc = "link" \/ req'[d].pc = "link" => req'[d] = req[d]
<1>1. DeskTypes'
    BY TypesOfSteps
<1>2. ASSUME LinksKept, UNCHANGED <<alert, mails, hours>>
      PROVE  RationInv'
    BY <1>2, SendingsKept DEF RationInv, Rationed
<1>3. ASSUME LinksKept, NEW j \in Ids, UNCHANGED <<mails, hours>>,
             alert[j] # NoAlert, alert'[j] # NoAlert, alert'[j].status # "OPEN",
             \A i \in Ids : i # j => alert'[i] = alert[i]
      PROVE  RationInv'
    BY <1>3, SendingsKept DEF RationInv, Rationed
<1>4. CASE UNCHANGED deskVars
    BY <1>2, <1>4 DEF deskVars
<1>5. ASSUME NEW c \in Callers, NEW e \in Events, Begins(c, e)
      PROVE  RationInv'
    <2>1. LinksKept
        BY <1>5 DEF Begins, Raise, DeskTypes
    <2> QED
        BY <1>2, <1>5, <2>1 DEF Begins, deskButReq
<1>6. ASSUME NEW c \in Callers, Ends(c)
      PROVE  RationInv'
    <2>1. LinksKept
        BY <1>6 DEF Ends, Return, DeskTypes, Idle
    <2> QED
        BY <1>2, <1>6, <2>1 DEF Ends, deskButReq
<1>7. CASE BackendRestart
    <2>1. \A d \in Callers : req'[d].pc # "link"
        BY <1>7 DEF BackendRestart, Idle
    <2>2. ASSUME NEW i \in Ids PROVE Rationed(i)'
        <3>1. Sendings(i)' = 0 /\ Sendings(i) \in {0, 1}
            BY <2>1 DEF Sendings, Sending
        <3>2. Rationed(i) /\ UNCHANGED <<alert, mails, hours>> /\ mails[i] \in Nat /\ hours \in Nat
            BY <1>7 DEF RationInv, BackendRestart, DeskTypes
        <3> QED
            BY <3>1, <3>2 DEF Rationed
    <2> QED
        BY <2>1, <2>2 DEF RationInv
<1>8. ASSUME NEW a \in Admins, ResolveSave(a)
      PROVE  RationInv'
    <2>1. closing[a] \in [pc : {"save"}, id : Ids, copy : AlertFields]
        BY <1>8 DEF ResolveSave, DeskTypes, Closings, ClosingIdle
    <2>2. Written(closing[a].copy).status = "RESOLVED" /\ Written(closing[a].copy) # NoAlert
        BY <2>1 DEF Written, AlertFields, NoAlert
    <2>3. alert' = [alert EXCEPT ![closing[a].id] = Written(closing[a].copy)]
          /\ UNCHANGED <<req, mails, hours>>
        BY <1>8 DEF ResolveSave
    <2>4. alert[closing[a].id] # NoAlert
        BY <2>1 DEF CopyInv
    <2>5. PICK j \in Ids : j = closing[a].id
        BY <2>1
    <2>6. alert'[j].status = "RESOLVED" /\ alert'[j] # NoAlert
          /\ \A i \in Ids : i # j => alert'[i] = alert[i]
        BY <2>2, <2>3, <2>5 DEF DeskTypes
    <2> QED
        BY <1>3, <2>3, <2>4, <2>5, <2>6
<1>9. ASSUME NEW j \in Ids, Expire(j)
      PROVE  RationInv'
    <2>1. alert[j] \in AlertFields /\ alert[j] # NoAlert
        BY <1>9 DEF Expire, Exists, DeskTypes, NoAlert
    <2> DEFINE row == [alert[j] EXCEPT !.status = "deleted"]
    <2>2. row.status = "deleted" /\ row # NoAlert
        BY <2>1 DEF AlertFields, NoAlert
    <2>3. alert' = [alert EXCEPT ![j] = row] /\ UNCHANGED <<req, mails, hours>>
        BY <1>9 DEF Expire
    <2> HIDE DEF row
    <2>4. alert'[j].status = "deleted" /\ alert'[j] # NoAlert
          /\ \A i \in Ids : i # j => alert'[i] = alert[i]
        BY <2>2, <2>3 DEF DeskTypes
    <2> QED
        BY <1>3, <2>1, <2>3, <2>4
<1>10. CASE Hour
    <2>1. LinksKept /\ UNCHANGED mails /\ hours' = hours + 1
        BY <1>10 DEF Hour
    <2>2. ASSUME NEW i \in Ids PROVE Rationed(i)'
        <3>1. Sendings(i)' = Sendings(i) /\ mails'[i] = mails[i] /\ Rationed(i)
            BY <2>1, SendingsKept DEF RationInv
        <3>2. mails[i] \in Nat /\ hours \in Nat /\ Sendings(i) \in {0, 1}
            BY DEF DeskTypes, Sendings
        <3>3. CASE Exists(i) /\ alert[i].notified = "recent"
            <4>1. alert[i] \in AlertFields
                BY <3>3 DEF Exists, DeskTypes, NoAlert
            <4>2. alert'[i] = [alert[i] EXCEPT !.notified = "old"]
                BY <1>10, <3>3 DEF Hour
            <4>3. /\ alert'[i] # NoAlert /\ alert'[i].notified = "old"
                  /\ alert'[i].status = alert[i].status
                BY <4>1, <4>2 DEF AlertFields, NoAlert
            <4> QED
                BY <2>1, <3>1, <3>2, <3>3, <4>3 DEF Rationed
        <3>4. CASE alert'[i] = alert[i]
            BY <2>1, <3>1, <3>2, <3>4 DEF Rationed
        <3> QED
            BY <1>10, <3>3, <3>4 DEF Hour
    <2> QED
        BY <2>1, <2>2, SendingsKept DEF RationInv
<1>11. ASSUME NEW a \in Admins, NEW i \in Ids, ResolveRead(a, i)
      PROVE  RationInv'
    BY <1>2, <1>11 DEF ResolveRead
<1> HIDE DEF LinksKept
<1>12. CASE DeskStep
    BY <1>1, <1>8, <1>9, <1>10, <1>11, <1>12, RationInCalls DEF DeskStep
<1> QED
    BY <1>4, <1>5, <1>6, <1>7, <1>12, DeskCases

\* linkLogs never links a log twice to an alert.
LEMMA LinkedInSteps ==
    ASSUME DeskTypes, FeedTypes, LinkedInv, [Next]_vars
    PROVE  LinkedInv'
<1>1. ASSUME linked' \subseteq linked
      PROVE  LinkedInv'
    BY <1>1 DEF LinkedInv
<1>2. ASSUME NEW i \in Ids, NEW R, NEW roleOf \in [R -> Roles], R \subseteq Logs, Linking(i, roleOf)
      PROVE  LinkedInv'
    <2> DEFINE fresh == {l \in R : ~\E x \in linked : x[1] = i /\ x[2] = l}
               added == {<<i, l, roleOf[l]>> : l \in fresh}
    <2>1. linked' = linked \cup added
        BY <1>2 DEF Linking
    <2>2. added \subseteq Ids \X Logs \X Roles
        BY <1>2
    <2>3. ASSUME NEW x \in linked', NEW y \in linked', x[1] = y[1], x[2] = y[2]
          PROVE  x = y
        <3>1. CASE x \in linked /\ y \in linked
            BY <2>3, <3>1 DEF LinkedInv
        <3>2. CASE x \in added /\ y \in added
            BY <2>3, <3>2
        <3>3. ASSUME NEW u \in {x, y}, NEW v \in {x, y}, u \in linked, v \in added
              PROVE  u[1] # v[1] \/ u[2] # v[2]
            BY <3>3
        <3> QED
            BY <2>1, <2>3, <3>1, <3>2, <3>3
    <2> HIDE DEF added
    <2> QED
        BY <2>1, <2>2, <2>3 DEF LinkedInv
<1>3. ASSUME NEW c \in Callers, CallStep(c)
      PROVE  LinkedInv'
    <2>1. CASE UNCHANGED linked
        BY <1>1, <2>1
    <2>2. CASE Link(c) /\ ~UNCHANGED linked
        <3>1. req[c].id \in Ids
            BY <2>2 DEF Link, DeskTypes
        <3>2. FirstRoles(req[c].event) \in [Logs \cap ({req[c].event.trigger} \cup req[c].event.related
                                             \cup req[c].event.prior) -> Roles]
            BY DEF FirstRoles, Roles
        <3>3. RepeatRoles(req[c].event) \in [Logs \cap ({req[c].event.trigger}
                                              \cup req[c].event.related) -> Roles]
            BY DEF RepeatRoles, Roles
        <3>4. Linking(req[c].id, FirstRoles(req[c].event))
              \/ Linking(req[c].id, RepeatRoles(req[c].event))
            BY <2>2 DEF Link
        <3> QED
            BY <1>2, <3>1, <3>2, <3>3, <3>4
    <2> QED
        BY <1>3, <2>1, <2>2 DEF CallStep, Find, Insert, Winner, Repeat, QueryFails
<1>4. ASSUME NEW i \in Ids, Expire(i)
      PROVE  LinkedInv'
    BY <1>1, <1>4 DEF Expire
<1> QED
    BY <1>1, <1>3, <1>4, DeskCases
       DEF DeskStep, ResolveRead, ResolveSave, Hour, deskVars, Begins, Ends, deskButReq, BackendRestart

-----------------------------------------------------------------------------
(* The theorems *)

LEMMA AlertStart ==
    ASSUME Init
    PROVE  AlertInv
<1>1. DeskTypes /\ LinkedInv
    BY DEF Init, DeskInit, DeskTypes, LinkedInv, NoAlert, Idle, Calls, ClosingIdle, Closings
<1>2. FeedTypes
    <2>1. Consumer \in Callers
        BY FeedConstants
    <2>2. alertq = <<>> /\ Len(alertq) = 0 /\ position = 0 /\ offset = -1 /\ given = {}
        BY DEF Init, FeedInit, NoOffset
    <2>3. req[Consumer].pc = "idle"
        BY <2>1 DEF Init, DeskInit, Idle
    <2>4. audit \in [Audits -> {"none", "new", "processed"}]
          /\ poll \in [Polls -> [rows : SUBSET Audits, now : Audits \cup {"none"}]]
        BY DEF Init, FeedInit, PollIdle
    <2>5. alertq \in Seq(Messages) /\ position \in 0 .. Len(alertq)
          /\ offset \in NoOffset .. position /\ given \subseteq 1 .. Len(alertq)
        BY <2>2 DEF NoOffset
    <2>6. conn \in {"loop", "joined", "kafkajs", "dead"} /\ connected \in BOOLEAN
        BY DEF Init, FeedInit
    <2> QED
        BY <2>3, <2>4, <2>5, <2>6 DEF FeedTypes
<1>3. (\A i \in Ids : alert[i] = NoAlert) /\ \A c \in Callers : req[c].pc = "idle"
    BY DEF Init, DeskInit, Idle
<1>4. (\A i \in Ids : alert[i].status # "OPEN") /\ \A a \in Admins : closing[a].pc # "save"
    BY <1>3 DEF Init, DeskInit, ClosingIdle, NoAlert
<1>5. UniqueOpen /\ CopyInv /\ WinnerInv /\ LostRaceIsRepeat
    BY <1>3, <1>4 DEF UniqueOpen, CopyInv, WinnerInv, LostRaceIsRepeat
<1>6. VouchInv
    BY <1>3, <1>4 DEF VouchInv
<1>7. RationInv
    BY <1>3, <1>4 DEF RationInv, Rationed, Init, DeskInit
<1> QED
    BY <1>1, <1>2, <1>5, <1>6, <1>7 DEF AlertInv

\* The inductive invariant: the types, one OPEN alert per key, stale copies that are of the row
\* they overwrite, and every last_notified_at backed by the mails that were sent.
THEOREM AlertInvariant == Spec => []AlertInv
<1>1. Init => AlertInv
    BY AlertStart
<1>2. AlertInv /\ [Next]_vars => AlertInv'
    <2> SUFFICES ASSUME AlertInv, [Next]_vars PROVE AlertInv'
        OBVIOUS
    <2>1. RowsInv' /\ FeedTypes'
        BY RowsInSteps, FeedSteps DEF AlertInv, RowsInv
    <2>2. VouchInv' /\ RationInv' /\ LinkedInv'
        BY VouchInSteps, RationInSteps, LinkedInSteps DEF AlertInv
    <2> QED
        BY <2>1, <2>2 DEF AlertInv, RowsInv
<1> QED
    BY <1>1, <1>2, PTL DEF Spec

\* An alert severe enough to be mailed has been mailed, is about to be, or a restart prevented
\* it, whatever raised its severity and however calls of createOrDedup raced.
THEOREM CriticalAlertsAreMailed == Spec => []CriticalIsMailed
<1>1. AlertInv => CriticalIsMailed
    <2> SUFFICES ASSUME AlertInv, NEW i \in Ids, Exists(i), Notifies(alert[i].severity)
                 PROVE  \/ mails[i] > 0 \/ i \in unsent
                        \/ \E c \in Callers : req[c].pc = "link" /\ req[c].id = i
        BY DEF CriticalIsMailed
    <2>1. alert[i] # NoAlert
        BY DEF Exists, NoAlert
    <2>2. MailDone(i)
        BY <2>1 DEF AlertInv, VouchInv, Vouches
    <2> QED
        BY <2>2 DEF MailDone, Sending
<1> QED
    BY <1>1, AlertInvariant, PTL

\* Losing the race for the unique index is an error only when the winner is closed by then.
THEOREM LostRacesAreRepeats == Spec => []LostRaceIsRepeat
<1>1. AlertInv => LostRaceIsRepeat
    BY DEF AlertInv
<1> QED
    BY <1>1, AlertInvariant, PTL

\* No open alert is mailed more than once per renotification period.
THEOREM OpenAlertsAreRationed == Spec => []MailsAreRationed
<1>1. AlertInv => MailsAreRationed
    <2> SUFFICES ASSUME AlertInv, NEW i \in Ids, alert[i].status = "OPEN"
                 PROVE  mails[i] <= 1 + hours
        BY DEF MailsAreRationed
    <2>1. alert[i].notified \in {"never", "recent", "old"}
        BY DEF AlertInv, DeskTypes, AlertFields, NoAlert
    <2>2. Rationed(i) /\ mails[i] \in Nat /\ hours \in Nat /\ Sendings(i) \in {0, 1}
        BY DEF AlertInv, DeskTypes, RationInv, Sendings
    <2> QED
        BY <2>1, <2>2 DEF Rationed
<1> QED
    BY <1>1, AlertInvariant, PTL

\* An alert keeps its key and, once closed, is never opened again, though resolve writes back a
\* copy that may be older than a repeat or the end of the row: what happens again after that is
\* an alert of its own (resolve, recordRepeat).
AlertsStayClosed == [][\A i \in Ids : RowStays(i)]_vars

THEOREM ClosedAlertsStayClosed == Spec => AlertsStayClosed
<1>1. AlertInv /\ [Next]_vars => \A i \in Ids : RowStays(i)
    <2> SUFFICES ASSUME AlertInv, [Next]_vars, NEW i \in Ids PROVE RowStays(i)
        OBVIOUS
    <2>1. CASE UNCHANGED alert
        BY <2>1 DEF RowStays
    <2>2. CASE DeskStep
        BY <2>2, RowsEndure DEF AlertInv
    <2> QED
        BY <2>1, <2>2, DeskCases DEF AlertInv, deskVars, Begins, Ends, deskButReq, BackendRestart
<1> QED
    BY <1>1, AlertInvariant, PTL DEF AlertsStayClosed, Spec

\* The partial unique index: at most one alert is OPEN per key, and no log is linked twice to it.
THEOREM DeskTypesHold == Spec => [](DeskTypeOK /\ FeedTypeOK)
<1>1. AlertInv => DeskTypeOK
    <2> SUFFICES ASSUME AlertInv PROVE DeskTypeOK
        OBVIOUS
    <2>1. ASSUME NEW k \in Keys
          PROVE  Cardinality(OpenAlert(k)) <= 1
        <3>1. \A i, j \in OpenAlert(k) : i = j
            BY DEF AlertInv, UniqueOpen, OpenAlert
        <3>2. OpenAlert(k) = {} \/ \E i \in Ids : OpenAlert(k) = {i}
            BY <3>1 DEF OpenAlert
        <3> QED
            BY <3>2, FS_EmptySet, FS_Singleton
    <2>2. ASSUME NEW c \in Callers
          PROVE  req[c].pc \in CallPcs \cup {"idle"}
        BY DEF AlertInv, DeskTypes, Calls, Idle
    <2>3. Closings \subseteq [pc : {"idle", "save"}, id : Ids \cup {0},
                              copy : AlertFields \cup {NoAlert}]
        BY DEF Closings, ClosingIdle
    <2> QED
        BY <2>1, <2>2, <2>3 DEF AlertInv, DeskTypes, LinkedInv, DeskTypeOK, CallPcs
<1>2. AlertInv => FeedTypeOK
    BY DEF AlertInv, FeedTypes, FeedTypeOK
<1> QED
    BY <1>1, <1>2, AlertInvariant, PTL
=============================================================================
