---------------------------- MODULE SettingsPage ----------------------------
(***************************************************************************)
(* The Settings page of one admin over Accounts: a table of users loaded   *)
(* by GET /admin/users, actions on them, some behind a dialog.  An action  *)
(* that succeeds loads the table again; what was being loaded is then      *)
(* ignored.  Other admins are at work at the same time.                    *)
(***************************************************************************)
EXTENDS Accounts

CONSTANTS Viewer,   \* the admin whose page this is
          MaxLoads  \* bound: times the table is loaded

VARIABLES
    table,   \* users: what the table shows, NoTable if nothing
    loading, \* loading
    loads,   \* requests for users: what each has read so far
    current, \* the one that is not cancelled
    pending, \* the key of the action in flight that was started last
    dialog,  \* the action that waits for confirmation
    own,     \* slots in which an action of this page runs
    told     \* changes[p] as it was when an action on p was last reported as done

page == <<table, loading, loads, current, pending, dialog, own, told>>

NoTable == <<>>
NoKey == <<"none", Nobody>>
Unread == {"unread"}
Load(n) == [nr |-> n, members |-> Unread, users |-> Unread]

\* enable and disable share a key.
KeyOf(op, p) == <<IF op \in AccountOps THEN "account" ELSE op, p>>

PageTypeOK ==
    /\ loading <=> \E l \in loads : l.nr = current
    /\ own \subseteq {c \in Slots : call[c].who = Viewer}
    /\ \A p \in People : told[p] <= changes[p]

PageInit ==
    /\ table = NoTable /\ loading = ("page" \in may) /\ current = 1
    /\ loads = IF loading THEN {Load(1)} ELSE {}
    /\ pending = NoKey /\ dialog = NoKey /\ own = {}
    /\ told = [p \in People |-> 0]

-----------------------------------------------------------------------------
(* loadAll, AdminController.listUsers *)

\* Users and members of a role are read by separate requests to Keycloak.
ReadUsers(l) ==
    /\ l.users = Unread
    /\ loads' = (loads \ {l}) \cup {[l EXCEPT !.users = enabled]}
    /\ UNCHANGED <<accounts, table, loading, current, pending, dialog, own, told>>

ReadMembers(l) ==
    /\ l.members = Unread
    /\ loads' = (loads \ {l}) \cup {[l EXCEPT !.members = admins]}
    /\ UNCHANGED <<accounts, table, loading, current, pending, dialog, own, told>>

Cancelled_Never(l) == FALSE
Cancelled(l) == l.nr # current

Loaded(l) ==
    /\ Unread \notin {l.users, l.members}
    /\ loads' = loads \ {l}
    /\ IF Cancelled(l) THEN UNCHANGED <<table, loading>>
       ELSE table' = [enabled |-> l.users, admins |-> l.members] /\ loading' = FALSE
    /\ UNCHANGED <<accounts, current, pending, dialog, own, told>>

\* An error message takes the place of the table.
LoadFails(l) ==
    /\ Fault("keycloak") /\ loads' = loads \ {l}
    /\ IF Cancelled(l) THEN UNCHANGED <<table, loading>> ELSE table' = NoTable /\ loading' = FALSE
    /\ UNCHANGED <<keycloak, tokens, call, trail, overlap, asked, may, current, pending, dialog, own, told>>

LoadAgain ==
    /\ current < MaxLoads /\ current' = current + 1
    /\ loads' = loads \cup {Load(current')} /\ loading' = TRUE

Refresh ==
    /\ ~loading /\ "page" \in may /\ LoadAgain
    /\ UNCHANGED <<accounts, table, pending, dialog, own, told>>

-----------------------------------------------------------------------------
(* Actions on the table *)

Shown == ~loading /\ table # NoTable

Offered(op, p) ==
    CASE op = "assign"  -> p \notin table.admins
      [] op = "remove"  -> p \in table.admins
      [] op = "enable"  -> p # Viewer /\ p \notin table.enabled
      [] op = "disable" -> p # Viewer /\ p \in table.enabled

\* runAction
RunAction(c, op, p) ==
    /\ Begin(c, Viewer, op, p)
    /\ own' = own \cup {c} /\ pending' = KeyOf(op, p)

\* Only the control of the action started last is blocked.
OpenDialog(op, p) ==
    /\ Shown /\ dialog = NoKey /\ Offered(op, p) /\ pending # KeyOf(op, p)
    /\ dialog' = <<op, p>>
    /\ UNCHANGED <<accounts, table, loading, loads, current, pending, own, told>>

CloseDialog ==
    /\ dialog # NoKey /\ pending = NoKey /\ dialog' = NoKey
    /\ UNCHANGED <<accounts, table, loading, loads, current, pending, own, told>>

Confirm(c) ==
    /\ dialog # NoKey /\ pending # KeyOf(dialog[1], dialog[2])
    /\ RunAction(c, dialog[1], dialog[2])
    /\ UNCHANGED <<table, loading, loads, current, dialog, told>>

SetEnabled(c, p) ==
    /\ Shown /\ dialog = NoKey /\ Offered("enable", p) /\ pending # KeyOf("enable", p)
    /\ RunAction(c, "enable", p)
    /\ UNCHANGED <<table, loading, loads, current, dialog, told>>

\* What was done is loaded again, never assumed; an error leaves the table as it is.
Returns(c) ==
    /\ c \in own /\ Finish(c)
    /\ own' = own \ {c} /\ pending' = NoKey
    /\ dialog' = IF call[c].op = "enable" THEN dialog ELSE NoKey
    /\ IF call[c].ok
       THEN LoadAgain /\ told' = [told EXCEPT ![call[c].target] = changes[call[c].target]]
       ELSE UNCHANGED <<loading, loads, current, told>>
    /\ UNCHANGED table

PageNext ==
    \/ \E l \in loads : ReadUsers(l) \/ ReadMembers(l) \/ Loaded(l) \/ LoadFails(l)
    \/ Refresh \/ CloseDialog
    \/ \E op \in {"assign", "remove", "disable"}, p \in People : OpenDialog(op, p)
    \/ \E c \in Slots : Confirm(c) \/ Returns(c) \/ \E p \in People : SetEnabled(c, p)

\* Tokens are not renewed while a page is looked at (a bound).
AccountsNext ==
    /\ \/ may \cap Pages = {} /\ \E p \in People : Renew(p)
       \/ \E c \in Slots : \/ CallStep(c)
                           \/ c \notin own /\ Finish(c)
                           \/ \E p \in People \ {Viewer}, op \in Ops, q \in People : Begin(c, p, op, q)
    /\ UNCHANGED page

-----------------------------------------------------------------------------
(* Properties *)

\* What the admin was told is done, and nobody has changed since, is what the table shows,
\* whichever of several loads comes back last (loadAll, runAction).
DoneIsShown ==
    Shown => \A p \in People : told[p] > 0 /\ told[p] = changes[p] =>
                /\ p \in table.admins <=> p \in admins
                /\ p \in table.enabled <=> p \in enabled
=============================================================================
