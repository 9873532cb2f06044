----------------------------- MODULE AlertsPage -----------------------------
(***************************************************************************)
(* The page of alerts, next to those of ListPages: GET /alerts answers the *)
(* whole list, which is filtered on the page and loaded again every 30 s   *)
(* while no note is being written.  Nothing cancels a load, and what comes *)
(* last is shown.  An alert is resolved with or without a note, here and   *)
(* by others, and what the list then says is read back from the server.    *)
(***************************************************************************)
EXTENDS ListPages

CONSTANTS Alerts, Notes,
          MaxReads,   \* bound: times the list is asked for
          MaxResolves \* bound: requests to resolve

ASSUME AlertsConstants == IsFiniteSet(Alerts) /\ {MaxReads, MaxResolves} \subseteq Nat

VARIABLES
    alert,     \* status and note of each alert
    resolves,  \* requests to resolve
    said,      \* the note that was recorded last for each alert
    raced,     \* alerts of which two requests to resolve overlapped
    listed,    \* alerts: the status of each alert in the list
    listError, \* error
    filter,    \* the status that is shown
    expanded, linked,  \* expanded, and the alert in the URL
    resolving, noting, draft,
    reads,     \* requests for the list, and what each was answered
    readNr, resolveNr, \* requests so far
    answered,  \* lists the server has answered so far
    freshest,  \* the latest of those that were shown
    behind,    \* an older one is shown
    told       \* alerts that were resolved here and loaded again since

server == <<alert, said, raced>>
calls == <<resolves, resolveNr>>
list == <<listed, listError, freshest, behind, told>>
row == <<filter, expanded, linked>>
composer == <<resolving, noting, draft>>
loads == <<reads, readNr, answered>>
alertsVars == <<server, calls, list, row, composer, loads>>

Nothing == "nothing"
NoNote == "no note"
NoList == <<>>
Exists(a) == alert[a].status \in {"OPEN", "RESOLVED"}

Read(k, nr, own) == [kind |-> k, nr |-> nr, own |-> own, at |-> 0, answer |-> NoList]

AlertsInit ==
    /\ alert = [a \in Alerts |-> [status |-> "none", note |-> NoNote]]
    /\ said = [a \in Alerts |-> NoNote] /\ raced = {} /\ resolves = {} /\ resolveNr = 0
    /\ listed = NoList /\ listError = FALSE /\ freshest = 0 /\ behind = FALSE /\ told = {}
    /\ filter = "all" /\ expanded = Nothing /\ linked = Nothing
    /\ resolving = Nothing /\ noting = Nothing /\ draft = NoNote
    /\ reads = {Read("load", 1, {})} /\ readNr = 1 /\ answered = 0

-----------------------------------------------------------------------------
(* AlertsService.findAll, resolve *)

Raise(a) ==
    /\ alert[a].status = "none" /\ alert' = [alert EXCEPT ![a].status = "OPEN"]
    /\ UNCHANGED <<said, raced, calls, list, row, composer, loads, faults>>

\* RetentionService deletes what is old, resolved or not.
Purge(a) ==
    /\ Exists(a) /\ alert' = [alert EXCEPT ![a].status = "gone"]
    /\ UNCHANGED <<said, raced, calls, list, row, composer, loads, faults>>

FindAll(r) ==
    /\ r.at = 0 /\ answered' = answered + 1
    /\ reads' = (reads \ {r}) \cup
           {[r EXCEPT !.at = answered', !.answer = [a \in {b \in Alerts : Exists(b)} |-> alert[a].status]]}
    /\ UNCHANGED <<server, calls, list, row, composer, readNr, faults>>

Sends(a, note, here) ==
    /\ resolveNr < MaxResolves /\ resolveNr' = resolveNr + 1
    /\ resolves' = resolves \cup
           {[nr |-> resolveNr', of |-> a, note |-> note, here |-> here, step |-> "find", before |-> NoNote]}
    /\ raced' = IF \E c \in resolves : c.of = a /\ c.step # "answered" THEN raced \cup {a} ELSE raced

\* Somebody else resolves an alert; one that is resolved may get another note.
Other(a, note) ==
    /\ Exists(a) /\ Sends(a, note, FALSE)
    /\ UNCHANGED <<alert, said, list, row, composer, loads, faults>>

Goes(c, d) == resolves' = (resolves \ {c}) \cup {d}

FindAlert(c) ==
    /\ c.step = "find"
    /\ Goes(c, IF Exists(c.of) THEN [c EXCEPT !.step = "save", !.before = alert[c.of].note]
               ELSE [c EXCEPT !.step = "gone"])
    /\ UNCHANGED <<server, resolveNr, list, row, composer, loads, faults>>

NextNote_Sent(c) == c.note
\* A note that is not sent leaves the one there is.
NextNote(c) == IF c.note = NoNote THEN c.before ELSE c.note

\* save() puts a row back that was deleted since.
SaveAlert(c) ==
    /\ c.step = "save" /\ Goes(c, [c EXCEPT !.step = "answered"])
    /\ alert' = [alert EXCEPT ![c.of] = [status |-> "RESOLVED", note |-> NextNote(c)]]
    /\ said' = [said EXCEPT ![c.of] = IF c.note = NoNote THEN @ ELSE c.note]
    /\ UNCHANGED <<raced, resolveNr, list, row, composer, loads, faults>>

-----------------------------------------------------------------------------
(* The list *)

Asked(k, own) ==
    /\ readNr < MaxReads /\ readNr' = readNr + 1
    /\ reads' = reads \cup {Read(k, readNr', own)}
    /\ UNCHANGED answered

\* What was resolved here is no longer being resolved once the list is there again.
Ends(r) ==
    /\ reads' = reads \ {r}
    /\ resolving' = IF r.kind = "reload" THEN Nothing ELSE resolving
    /\ UNCHANGED <<server, calls, row, noting, draft, readNr, answered>>

ListArrives(r) ==
    /\ r.at > 0 /\ Ends(r)
    /\ listed' = r.answer /\ listError' = FALSE /\ told' = told \cup r.own
    /\ behind' = (r.at < freshest) /\ freshest' = (IF behind' THEN freshest ELSE r.at)
    /\ UNCHANGED faults

\* Only a refresh leaves the list as it is.
ListFails(r) ==
    /\ Fault /\ Ends(r)
    /\ IF r.kind = "refresh" THEN UNCHANGED list
       ELSE listed' = NoList /\ listError' = TRUE /\ UNCHANGED <<freshest, behind, told>>

\* useAutoRefresh: one at a time, and none while the form is there.
AutoRefresh ==
    /\ noting = Nothing /\ \A r \in reads : r.kind # "refresh"
    /\ Asked("refresh", {})
    /\ UNCHANGED <<server, calls, list, row, composer, faults>>

-----------------------------------------------------------------------------
(* A row *)

Visible(a) == a \in DOMAIN listed /\ filter \in {"all", listed[a]}

ToggleRow(a) ==
    /\ Visible(a) /\ expanded' = (IF expanded = a THEN Nothing ELSE a) /\ linked' = expanded'
    /\ UNCHANGED <<server, calls, list, filter, composer, loads, faults>>

SetFilter(f) ==
    /\ f # filter /\ filter' = f
    /\ UNCHANGED <<server, calls, list, expanded, linked, composer, loads, faults>>

\* Offered when the filters hide the alert in the URL (linkedState).
ClearFiltersAndShow ==
    /\ linked \in DOMAIN listed /\ ~Visible(linked)
    /\ filter' = "all" /\ expanded' = linked
    /\ UNCHANGED <<server, calls, list, linked, composer, loads, faults>>

\* The form opens with an empty note; the URL stays.
StartResolve(a) ==
    /\ Visible(a) /\ listed[a] = "OPEN" /\ resolving # a /\ <<noting, draft>> # <<a, NoNote>>
    /\ expanded' = a /\ noting' = a /\ draft' = NoNote
    /\ UNCHANGED <<server, calls, list, filter, linked, resolving, loads, faults>>

\* The form is part of the open row of an alert that is still OPEN in the list.
Form == noting # Nothing /\ noting = expanded /\ Visible(noting) /\ listed[noting] = "OPEN"

TypeNote(n) ==
    /\ Form /\ n # draft /\ draft' = n
    /\ UNCHANGED <<server, calls, list, row, resolving, noting, loads, faults>>

CancelResolve ==
    /\ Form /\ resolving # noting /\ noting' = Nothing /\ draft' = NoNote
    /\ UNCHANGED <<server, calls, list, row, resolving, loads, faults>>

\* An empty note is not sent.
ResolveAlert ==
    /\ Form /\ resolving # noting /\ resolving' = noting
    /\ Sends(noting, draft, TRUE)
    /\ UNCHANGED <<alert, said, list, row, noting, draft, loads, faults>>

\* What is on the page is never changed by hand: the list is loaded again.
Resolved(c) ==
    /\ c.step = "answered" /\ resolves' = resolves \ {c}
    /\ IF c.here THEN /\ noting' = Nothing /\ draft' = NoNote /\ UNCHANGED resolving
                      /\ Asked("reload", {c.of})
       ELSE UNCHANGED <<composer, loads>>
    /\ UNCHANGED <<server, resolveNr, list, row, faults>>

NotFound(c) ==
    /\ c.step = "gone" /\ resolves' = resolves \ {c}
    /\ IF c.here THEN Asked("reload", {}) ELSE UNCHANGED loads
    /\ UNCHANGED <<server, resolveNr, list, row, composer, faults>>

\* The request is lost, or its answer.
ResolveFails(c) ==
    /\ c.here /\ c.step \in {"find", "answered"} /\ Fault
    /\ resolves' = resolves \ {c} /\ resolving' = Nothing
    /\ UNCHANGED <<server, resolveNr, list, row, noting, draft, loads>>

\* F5
ReopenAlerts ==
    /\ readNr < MaxReads /\ readNr' = readNr + 1 /\ reads' = {Read("load", readNr', {})}
    /\ resolves' = {[c EXCEPT !.here = FALSE] : c \in resolves}
    /\ listed' = NoList /\ listError' = FALSE /\ behind' = FALSE
    /\ expanded' = linked
    /\ resolving' = Nothing /\ noting' = Nothing /\ draft' = NoNote
    /\ UNCHANGED <<server, resolveNr, freshest, told, filter, linked, answered, faults>>

AlertsNext ==
    \/ \E a \in Alerts : \/ Raise(a) \/ Purge(a) \/ ToggleRow(a) \/ StartResolve(a)
                         \/ \E n \in Notes \cup {NoNote} : Other(a, n)
    \/ \E r \in reads : FindAll(r) \/ ListArrives(r) \/ ListFails(r)
    \/ \E c \in resolves : \/ FindAlert(c) \/ SaveAlert(c)
                           \/ Resolved(c) \/ NotFound(c) \/ ResolveFails(c)
    \/ \E f \in {"all", "OPEN"} : SetFilter(f)
    \/ \E n \in Notes : TypeNote(n)
    \/ AutoRefresh \/ ClearFiltersAndShow
    \/ CancelResolve \/ ResolveAlert \/ ReopenAlerts

-----------------------------------------------------------------------------
(* Properties *)

\* "No note sent = keep the old one" (alerts.service.ts:443): a note that was recorded is not lost to whoever resolves
\* the alert again without one, unless the two requests overlap (AlertsService.resolve reads and
\* saves in two steps).
NoteIsKept == \A a \in Alerts \ raced : alert[a].note = said[a]

\* An alert that was resolved here and loaded again since is RESOLVED in the list, or gone from
\* it, unless a refresh that was under way brings an older list (resolveAlert, useAutoRefresh).
ResolvedIsListed == ~behind => \A a \in told \cap DOMAIN listed : listed[a] = "RESOLVED"

ResolutionIsTrue == NoteIsKept /\ ResolvedIsListed
=============================================================================
