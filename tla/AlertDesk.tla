------------------------------ MODULE AlertDesk ------------------------------
(***************************************************************************)
(* AlertsService: createOrDedup, called by several callers at once, and    *)
(* resolve.  An alert is OPEN at most once per key (type, rule, source,    *)
(* address: the partial unique index); while it is OPEN what comes in      *)
(* again is counted on it, raises its severity and may be mailed again.    *)
(*                                                                         *)
(* Every query is a step of its own.  resolve reads an entity and saves it *)
(* later: TypeORM compares it with the row as it is then and writes every  *)
(* column that differs, so a stale copy undoes what happened in between.   *)
(***************************************************************************)
EXTENDS Topics

CONSTANTS Ids,        \* alert rows, in the order in which they are inserted
          Keys,       \* what tells alerts apart: type, rule, source, address
          Callers,    \* who calls createOrDedup, one call each at a time
          Admins,     \* who may PATCH /alerts/:id/resolve, one request each
          Renotify,   \* ALERT_RENOTIFY_MINUTES is not 0
          DeskFaults, \* kinds of failure that may happen
          MaxDeskFaults, \* bound: number of failures
          MaxHours    \* bound: number of times a renotification falls due

\* Severities as in SEVERITY_RANK; email goes out from "HIGH" on.
Severities == <<"INFO", "WARNING", "HIGH", "CRITICAL">>
SeverityNames == {"INFO", "WARNING", "HIGH", "CRITICAL"}
Rank(s) == CHOOSE i \in DOMAIN Severities : Severities[i] = s
Notifies(s) == Rank(s) >= 3

DeskFaultKinds == {"query",  \* a query fails
                   "link",   \* the insert into alert_logs fails
                   "expire"} \* retention deletes an alert

ASSUME DeskConstants ==
    /\ Ids \subseteq Nat /\ IsFiniteSet(Ids)
    /\ Renotify \in BOOLEAN
    /\ DeskFaults \subseteq DeskFaultKinds
    /\ {MaxDeskFaults, MaxHours} \subseteq Nat

VARIABLES
    alert,   \* table alerts
    linked,  \* table alert_logs: <<id, log, role>>
    req,     \* the call of createOrDedup each caller is in
    closing, \* the request of resolve each admin is in
    mails,   \* emails sent about an alert
    unsent,  \* alerts whose first mail a restart prevented
    hours,   \* renotification periods that have passed
    kfaults  \* failures so far

deskVars == <<alert, linked, req, closing, mails, unsent, hours, kfaults>>

\* notified is last_notified_at: null, less or more than a renotification period ago.
AlertFields == [key : Keys, status : {"OPEN", "RESOLVED", "deleted"}, count : Nat,
                severity : SeverityNames,
                notified : {"never", "recent", "old"}]

NoAlert == [status |-> "none"]

\* What createOrDedup is given, fitted to the columns.
Event(key, severity, trigger, related, prior) ==
    [key |-> key, severity |-> severity, trigger |-> trigger, related |-> related, prior |-> prior]
NoEvent == [key |-> "none"]

Idle == [pc |-> "idle", event |-> NoEvent, id |-> 0]
ClosingIdle == [pc |-> "idle", id |-> 0, copy |-> NoAlert]

Roles == {"trigger", "window", "prior", "repeat"}

Exists(i) == alert[i].status \in {"OPEN", "RESOLVED"}

OpenAlert(k) == {i \in Ids : alert[i].status = "OPEN" /\ alert[i].key = k}

DeskTypeOK ==
    /\ alert \in [Ids -> AlertFields \cup {NoAlert}]
    /\ \A k \in Keys : Cardinality(OpenAlert(k)) <= 1
    /\ linked \subseteq Ids \X Logs \X Roles
    /\ \A x, y \in linked : x[1] = y[1] /\ x[2] = y[2] => x = y
    /\ \A c \in Callers : req[c].pc \in {"idle", "find", "insert", "winner", "repeat",
                                        "link", "linkRepeat", "done", "conflict", "error"}
    /\ closing \in [Admins -> [pc : {"idle", "save"}, id : Ids \cup {0},
                               copy : AlertFields \cup {NoAlert}]]

DeskInit ==
    /\ alert = [i \in Ids |-> NoAlert] /\ linked = {}
    /\ req = [c \in Callers |-> Idle]
    /\ closing = [a \in Admins |-> ClosingIdle]
    /\ mails = [i \in Ids |-> 0] /\ unsent = {} /\ hours = 0 /\ kfaults = 0

DeskFault(k) == k \in DeskFaults /\ kfaults < MaxDeskFaults /\ kfaults' = kfaults + 1

\* sendAlertEmail is not awaited and swallows its errors.
Mails(i) == mails' = [mails EXCEPT ![i] = @ + 1]

Goto(c, pc) == req' = [req EXCEPT ![c].pc = pc]
GotoAlert(c, pc, i) == req' = [req EXCEPT ![c] = [pc |-> pc, event |-> @.event, id |-> i]]

-----------------------------------------------------------------------------
(* createOrDedup *)

Raise(c, event) ==
    /\ req[c].pc = "idle"
    /\ req' = [req EXCEPT ![c] = [pc |-> "find", event |-> event, id |-> 0]]

Find(c) ==
    /\ req[c].pc = "find"
    /\ LET open == OpenAlert(req[c].event.key)
       IN  IF open = {} THEN Goto(c, "insert") ELSE \E i \in open : GotoAlert(c, "repeat", i)
    /\ UNCHANGED <<alert, linked, closing, mails, unsent, hours, kfaults>>

Unused == {i \in Ids : alert[i] = NoAlert}
Fresh == CHOOSE i \in Unused : \A j \in Unused : i <= j

\* Bound: Ids.  A violation of the unique index makes the caller look for the winner.
Insert(c) ==
    /\ req[c].pc = "insert"
    /\ LET e == req[c].event
       IN  IF OpenAlert(e.key) # {}
           THEN Goto(c, "winner") /\ UNCHANGED alert
           ELSE /\ Unused # {}
                /\ alert' = [alert EXCEPT ![Fresh] =
                     [key |-> e.key, status |-> "OPEN", count |-> 1, severity |-> e.severity,
                      notified |-> IF Notifies(e.severity) THEN "recent" ELSE "never"]]
                /\ GotoAlert(c, "link", Fresh)
    /\ UNCHANGED <<linked, closing, mails, unsent, hours, kfaults>>

Winner_Rethrows(c) ==
    /\ req[c].pc = "winner"
    /\ Goto(c, "conflict")
    /\ UNCHANGED <<alert, linked, closing, mails, unsent, hours, kfaults>>

\* If the winner has been resolved in the meantime, the caller gets the error of the index.
Winner(c) ==
    /\ req[c].pc = "winner"
    /\ LET open == OpenAlert(req[c].event.key)
       IN  IF open = {} THEN Goto(c, "conflict") ELSE \E i \in open : GotoAlert(c, "repeat", i)
    /\ UNCHANGED <<alert, linked, closing, mails, unsent, hours, kfaults>>

Stronger(s, t) == IF Rank(s) > Rank(t) THEN s ELSE t

ShouldNotify_Always(row, severity) == Notifies(severity)
ShouldNotify_OnlyAgain(row, severity) ==
    Notifies(severity) /\ Renotify /\ row.notified = "old"

\* Mailed when severe enough and never mailed, or mailed long ago.
ShouldNotify(row, severity) ==
    /\ Notifies(severity)
    /\ row.notified = "never" \/ (Renotify /\ row.notified = "old")

\* What the UPDATE leaves in the row.
Repeated(row, severity) ==
    [key |-> row.key, status |-> row.status, count |-> row.count + 1, severity |-> severity,
     notified |-> IF ShouldNotify(row, severity) THEN "recent" ELSE row.notified]

\* One UPDATE by id, whatever the status has become; a deleted row is left alone.
Repeat(c) ==
    /\ req[c].pc = "repeat"
    /\ LET i == req[c].id
           row == alert[i]
           s == Stronger(req[c].event.severity, row.severity)
       IN  IF ~Exists(i) THEN UNCHANGED <<alert, mails>>
           ELSE /\ alert' = [alert EXCEPT ![i] = Repeated(row, s)]
                /\ IF ShouldNotify(row, s) THEN Mails(i) ELSE UNCHANGED mails
    /\ Goto(c, "linkRepeat")
    /\ UNCHANGED <<linked, closing, unsent, hours, kfaults>>

\* The first role of a log stays; ids that are no logs are left out.
Linking(i, roleOf) ==
    linked' = linked \cup
        {<<i, l, roleOf[l]>> : l \in {k \in DOMAIN roleOf : ~\E x \in linked : x[1] = i /\ x[2] = k}}

FirstRoles(e) ==
    [l \in Logs \cap ({e.trigger} \cup e.related \cup e.prior) |->
        IF l = e.trigger THEN "trigger" ELSE IF l \in e.related THEN "window" ELSE "prior"]

RepeatRoles(e) == [l \in Logs \cap ({e.trigger} \cup e.related) |-> "repeat"]

\* linkLogs swallows its errors; the first mail goes out after it.
Link(c) ==
    /\ req[c].pc \in {"link", "linkRepeat"}
    /\ LET e == req[c].event  i == req[c].id
       IN  /\ \/ /\ IF ~Exists(i) THEN UNCHANGED linked
                    ELSE Linking(i, IF req[c].pc = "link" THEN FirstRoles(e) ELSE RepeatRoles(e))
                 /\ UNCHANGED kfaults
              \/ DeskFault("link") /\ UNCHANGED linked
           /\ IF req[c].pc = "link" /\ Notifies(e.severity) THEN Mails(i) ELSE UNCHANGED mails
    /\ Goto(c, "done")
    /\ UNCHANGED <<alert, closing, unsent, hours>>

\* Any query but that of linkLogs ends the call with its error.
QueryFails(c) ==
    /\ req[c].pc \in {"find", "insert", "winner", "repeat"}
    /\ DeskFault("query")
    /\ Goto(c, "error")
    /\ UNCHANGED <<alert, linked, closing, mails, unsent, hours>>

CallStep(c) == Find(c) \/ Insert(c) \/ Winner(c) \/ Repeat(c) \/ Link(c) \/ QueryFails(c)

Return(c) == req' = [req EXCEPT ![c] = Idle]

-----------------------------------------------------------------------------
(* resolve, retention, time *)

ResolveRead(a, i) ==
    /\ closing[a].pc = "idle" /\ Exists(i)
    /\ closing' = [closing EXCEPT ![a] = [pc |-> "save", id |-> i, copy |-> alert[i]]]
    /\ UNCHANGED <<alert, linked, req, mails, unsent, hours, kfaults>>

\* Every column of the copy is written back; an alert that is gone is inserted again.
Written(copy) == [copy EXCEPT !.status = "RESOLVED"]

ResolveSave(a) ==
    /\ closing[a].pc = "save"
    /\ alert' = [alert EXCEPT ![closing[a].id] = Written(closing[a].copy)]
    /\ closing' = [closing EXCEPT ![a] = ClosingIdle]
    /\ UNCHANGED <<linked, req, mails, unsent, hours, kfaults>>

\* RetentionService deletes by age, whatever the status.
Expire(i) ==
    /\ Exists(i) /\ DeskFault("expire")
    /\ alert' = [alert EXCEPT ![i].status = "deleted"]
    /\ linked' = {x \in linked : x[1] # i}
    /\ UNCHANGED <<req, closing, mails, unsent, hours>>

\* The renotification period of every alert mailed so far ends.
Hour ==
    /\ hours < MaxHours /\ hours' = hours + 1
    /\ alert' = [i \in Ids |-> IF Exists(i) /\ alert[i].notified = "recent"
                               THEN [alert[i] EXCEPT !.notified = "old"] ELSE alert[i]]
    /\ UNCHANGED <<linked, req, closing, mails, unsent, kfaults>>

DeskStep ==
    \/ \E c \in Callers : CallStep(c)
    \/ \E a \in Admins : ResolveSave(a) \/ \E i \in Ids : ResolveRead(a, i)
    \/ \E i \in Ids : Expire(i)
    \/ Hour

-----------------------------------------------------------------------------
(* Properties *)

\* An alert severe enough to be mailed has been, or is about to be, or a restart came in
\* between, whichever way its severity came about and however calls raced (createOrDedup,
\* recordRepeat).
CriticalIsMailed ==
    \A i \in Ids : Exists(i) /\ Notifies(alert[i].severity) =>
        \/ mails[i] > 0 \/ i \in unsent
        \/ \E c \in Callers : req[c].pc = "link" /\ req[c].id = i

\* A call ends with the error of the unique index only if the alert that beat it is closed
\* or gone by then: a lost race counts as a repeat (createOrDedup).
LostRaceIsRepeat ==
    \A c \in Callers : req[c].pc = "conflict" =>
        \E i \in Ids : alert[i] # NoAlert /\ alert[i].key = req[c].event.key
                       /\ alert[i].status # "OPEN"

\* What happens at the same time is mailed once: while an alert is open, no more than one
\* mail per renotification period (recordRepeat).  Once it is resolved a stale copy may have
\* put last_notified_at back, and a repeat that had found it open mails again.
MailsAreRationed == \A i \in Ids : alert[i].status = "OPEN" => mails[i] <= 1 + hours

=============================================================================
