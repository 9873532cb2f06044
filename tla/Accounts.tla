------------------------------ MODULE Accounts ------------------------------
(***************************************************************************)
(* Administration of accounts: AdminController changes roles and accounts  *)
(* in Keycloak, ErasureService makes the audit trail of a person           *)
(* anonymous, and every request leaves rows in audit_access.               *)
(*                                                                         *)
(* Requests run at the same time; each query and each call of Keycloak is  *)
(* a step.  Who may ask is read from the access token, which says what     *)
(* the roles were when it was issued.  Of the five roles only admin is     *)
(* guarded and counted; it stands alone here.                              *)
(***************************************************************************)
EXTENDS Integers, FiniteSets

CONSTANTS People,    \* users of the realm
          FirstAdmins, FirstEnabled, FirstRows, \* members, accounts and the trail at the start
          Slots,     \* bound: requests under way at once
          MaxCalls,  \* bound: requests
          MaxFaults, \* bound: number of failures
          Scenarios  \* bound: sets of operations and failures, of which a behaviour has one

RoleOps == {"assign", "remove"}
AccountOps == {"enable", "disable"}
Ops == RoleOps \cup AccountOps \cup {"erase"}
FaultKinds == {"keycloak", \* a call of Keycloak fails, before or after it took effect
               "db",       \* a statement fails
               "abort"}    \* the client closes the connection early
Pages == {"page",    \* somebody has the Settings page open
          "reports", \* the Reports page
          "board",   \* the first page of the dashboard
          "batches"} \* there are batches (a bound: only where they are looked at)
Topic == {"key",     \* Vault has the key of the pseudonyms
          "trail"}   \* rows of audit_access are kept (a bound: only where they are looked at)

ASSUME AccountsConstants ==
    /\ IsFiniteSet(People) /\ {MaxCalls, MaxFaults} \subseteq Nat
    /\ \A s \in Scenarios : s \subseteq Ops \cup FaultKinds \cup Pages \cup Topic

\* The realm comes with an active admin; erasures that are over have failed.
ASSUME AccountsStart ==
    /\ {FirstAdmins, FirstEnabled} \subseteq SUBSET People /\ FirstAdmins \cap FirstEnabled # {}
    /\ IsFiniteSet(FirstRows)
    /\ \A r \in FirstRows :
          /\ DOMAIN r = {"nr", "owner", "hidden", "names", "form", "masked", "op"}
          /\ r.nr \in 1 .. Cardinality(FirstRows) /\ r.owner \in People /\ ~r.hidden
          /\ r.masked \in BOOLEAN /\ (r.op = "erase" => r.masked)
    /\ \A r, s \in FirstRows : r.nr = s.nr => r = s

VARIABLES
    admins,  \* Keycloak: members of the realm role
    enabled, \* Keycloak: enabled accounts
    tokens,  \* people whose token carries the role admin
    changes, \* how often each person has been changed in Keycloak
    call,    \* the request in each slot
    rows,    \* audit_access
    written, \* rows ever written
    tombs,   \* erasure_log
    overlap, \* a guarded change was made on a check that was out of date
    asked,   \* requests so far
    may,     \* the scenario
    faults   \* failures so far

keycloak == <<admins, enabled, changes>>
trail == <<rows, written, tombs>>
bounds == <<asked, may, faults>>
accounts == <<keycloak, tokens, call, trail, overlap, bounds>>

Nobody == "nobody"
Url == "url"      \* forms of the resource of a row
Label == "user:"
\* mine, naming: the rows an erasure has changed so far; only its commit shows that.
Free == [pc |-> "free", who |-> Nobody, op |-> "none", target |-> Nobody, ok |-> FALSE,
         stale |-> FALSE, logged |-> FALSE, since |-> 0, mine |-> {}, naming |-> {}]

Active == admins \cap enabled

Busy(c) == call[c].pc # "free"
Goto(c, pc) == call' = [call EXCEPT ![c].pc = pc]
Fails(c) == Goto(c, "finish")
Succeeds(c) == call' = [call EXCEPT ![c].pc = "finish", ![c].ok = TRUE]
Fault(k) == k \in may /\ faults < MaxFaults /\ faults' = faults + 1

AccountsTypeOK ==
    /\ {admins, enabled, tokens} \subseteq SUBSET People
    /\ \A c \in Slots : call[c].who \in People \cup {Nobody} /\ call[c].op \in Ops \cup {"none"}
    /\ \A r \in rows : r.nr \in 1 .. written /\ r.owner \in People
                       /\ r.names \in People \cup {Nobody} /\ r.form \in {Url, Label}
    /\ \A r, s \in rows : r.nr = s.nr => r = s
    /\ \A t \in tombs : t.of \in People /\ t.deleted \in Nat

-----------------------------------------------------------------------------
(* audit_access *)

\* hidden: the owner is a pseudonym; masked: the person named is one.  The resource names a
\* person in one of two forms: a URL with the id as a segment, or "user:<id> role:<role>".
NewRow(nr, owner, names, form, masked, op) ==
    [nr |-> nr, owner |-> owner, hidden |-> FALSE, names |-> names, form |-> form,
     masked |-> masked, op |-> op]
Row(owner, names, form, masked, op) == NewRow(written + 1, owner, names, form, masked, op)

AccountsInit ==
    /\ admins = FirstAdmins /\ enabled = FirstEnabled /\ tokens = FirstAdmins \cap FirstEnabled
    /\ changes = [p \in People |-> 0]
    /\ call = [c \in Slots |-> Free]
    /\ may \in Scenarios
    /\ rows = IF "trail" \in may THEN FirstRows ELSE {}
    /\ written = Cardinality(rows) /\ tombs = {}
    /\ overlap = FALSE /\ faults = 0
    /\ asked = IF "reports" \in may THEN 1 ELSE 0

Wrote(row) == IF "trail" \in may THEN rows' = rows \cup {row} /\ written' = written + 1
              ELSE UNCHANGED <<rows, written>>

\* AuditService.log swallows its errors.
Audit(row) ==
    \/ Wrote(row) /\ UNCHANGED faults
    \/ Fault("db") /\ UNCHANGED <<rows, written>>

-----------------------------------------------------------------------------
(* AdminController *)

\* A token lasts until it is renewed, whatever has become of the role and the account.
Renew(p) ==
    /\ tokens' = IF p \in Active THEN tokens \cup {p} ELSE tokens \ {p}
    /\ UNCHANGED <<keycloak, call, trail, overlap, bounds>>

Forbidden(who, op, target) ==
    \/ who \notin tokens
    \/ who = target /\ op \in {"remove", "enable", "disable"}

NeedsCheck(op) == op \in {"remove", "disable"}

FirstStep(who, op, target) ==
    CASE Forbidden(who, op, target) -> "finish"
      [] op = "erase" /\ ~Forbidden(who, op, target) -> IF "key" \in may THEN "owned" ELSE "finish"
      [] OTHER -> IF NeedsCheck(op) THEN "check" ELSE "act"

Begin(c, who, op, target) ==
    /\ ~Busy(c) /\ op \in may /\ asked < MaxCalls /\ asked' = asked + 1
    /\ call' = [call EXCEPT ![c] = [Free EXCEPT !.pc = FirstStep(who, op, target),
                                                !.who = who, !.op = op, !.target = target]]
    /\ UNCHANGED <<keycloak, tokens, trail, overlap, may, faults>>

CountsAsLast_AnyAdmin(p) == p \in Active /\ Cardinality(admins) <= 1
CountsAsLast(p) == p \in Active /\ Cardinality(Active) <= 1

\* assertNotLastAdmin
Check(c) ==
    /\ call[c].pc = "check"
    /\ Goto(c, IF CountsAsLast(call[c].target) THEN "finish" ELSE "act")
    /\ UNCHANGED <<keycloak, tokens, trail, overlap, bounds>>

Applied(c) ==
    LET p == call[c].target IN
    CASE call[c].op = "assign"  -> admins' = admins \cup {p} /\ UNCHANGED enabled
      [] call[c].op = "remove"  -> admins' = admins \ {p} /\ UNCHANGED enabled
      [] call[c].op = "enable"  -> enabled' = enabled \cup {p} /\ UNCHANGED admins
      [] call[c].op = "disable" -> enabled' = enabled \ {p} /\ UNCHANGED admins

\* The checks that other requests have made are out of date from here on.
Changes(c, pc) ==
    /\ Applied(c)
    /\ changes' = [changes EXCEPT ![call[c].target] = @ + 1]
    /\ overlap' = (overlap \/ call[c].stale)
    /\ call' = [d \in Slots |->
          IF d = c THEN [call[c] EXCEPT !.pc = pc]
          ELSE [call[d] EXCEPT !.stale = @ \/ (call[d].pc = "act" /\ NeedsCheck(call[d].op)
                                              /\ NeedsCheck(call[c].op))]]

Act(c) ==
    /\ call[c].pc = "act" /\ Changes(c, "audit")
    /\ UNCHANGED <<tokens, trail, bounds>>

\* The answer is an error although the change may have been made; then no row says so.
KeycloakFails(c) ==
    /\ call[c].pc \in {"check", "act"} /\ Fault("keycloak")
    /\ \/ Fails(c) /\ UNCHANGED <<keycloak, overlap>>
       \/ call[c].pc = "act" /\ Changes(c, "finish")
    /\ UNCHANGED <<tokens, trail, asked, may>>

WriteAudit(c) ==
    /\ call[c].pc = "audit"
    /\ Audit(Row(call[c].who, call[c].target, Label, FALSE, call[c].op))
    /\ Succeeds(c)
    /\ UNCHANGED <<keycloak, tokens, tombs, overlap, asked, may>>

-----------------------------------------------------------------------------
(* ErasureService.eraseUser: one transaction of two updates and an insert *)

Locked(c) == UNION {call[d].mine \cup call[d].naming : d \in Slots \ {c}}
Numbers(S) == {r.nr : r \in S}

Owned(p) == Numbers({r \in rows : r.owner = p /\ ~r.hidden})
\* resourcePattern: an id counts where the resource begins, after "/" or after "=", so not in a Label.
Naming(p) == Numbers({r \in rows : r.names = p /\ r.form = Url /\ ~r.masked})
Wanted(c) == IF call[c].pc = "owned" THEN Owned(call[c].target) ELSE Naming(call[c].target)

\* A statement waits for rows that another transaction has changed; it locks its rows at once.
EraseOwned(c) ==
    /\ call[c].pc = "owned" /\ Wanted(c) \cap Locked(c) = {}
    /\ call' = [call EXCEPT ![c].pc = "naming", ![c].mine = Wanted(c), ![c].since = written]
    /\ UNCHANGED <<keycloak, tokens, trail, overlap, bounds>>

EraseNaming(c) ==
    /\ call[c].pc = "naming" /\ Wanted(c) \cap Locked(c) = {}
    /\ call' = [call EXCEPT ![c].pc = "commit", ![c].naming = Wanted(c)]
    /\ UNCHANGED <<keycloak, tokens, trail, overlap, bounds>>

Rewritten(c) ==
    {[r EXCEPT !.hidden = @ \/ r.nr \in call[c].mine, !.masked = @ \/ r.nr \in call[c].naming] : r \in rows}

\* Rows that came in after the first statement are neither counted nor changed by it.
Counted_AtCommit(c) == Cardinality({r \in rows : r.owner = call[c].target})
Counted(c) == Cardinality(call[c].mine)

Tombstone(c) == [of |-> call[c].target, by |-> call[c].who, deleted |-> Counted(c),
                 since |-> call[c].since, nr |-> Cardinality(tombs) + 1]

Unlocked(c, ok) ==
    call' = [call EXCEPT ![c].pc = "finish", ![c].ok = ok, ![c].mine = {}, ![c].naming = {}]

EraseCommit(c) ==
    /\ call[c].pc = "commit" /\ call[c].mine # {}
    /\ rows' = Rewritten(c) /\ tombs' = tombs \cup {Tombstone(c)}
    /\ Unlocked(c, TRUE)
    /\ UNCHANGED <<keycloak, tokens, written, overlap, bounds>>

\* Somebody who owns no row is unknown: what names them is left as it was.
EraseNotFound(c) ==
    /\ call[c].pc = "commit" /\ call[c].mine = {}
    /\ Unlocked(c, FALSE)
    /\ UNCHANGED <<keycloak, tokens, trail, overlap, bounds>>

Waits(c, d) == call[c].pc \in {"owned", "naming"} /\ Wanted(c) \cap (call[d].mine \cup call[d].naming) # {}

\* A failure, or two transactions that wait for each other: everything is rolled back.
EraseFails(c) ==
    /\ call[c].pc \in {"owned", "naming", "commit"}
    /\ \/ Fault("db")
       \/ (\E d \in Slots \ {c} : Waits(c, d) /\ Waits(d, c)) /\ UNCHANGED faults
    /\ Unlocked(c, FALSE)
    /\ UNCHANGED <<keycloak, tokens, trail, overlap, asked, may>>

-----------------------------------------------------------------------------
(* AuditMiddleware *)

\* The URL names the person, except that of an erasure: a pseudonym if it went through, the route if not.
Resource(c) ==
    LET k == call[c] IN
    IF k.op = "erase" THEN Row(k.who, IF k.ok THEN k.target ELSE Nobody, Url, TRUE, k.op)
    ELSE Row(k.who, k.target, Url, FALSE, k.op)

\* "close" of a connection that the client gives up; the request goes on.
Close(c) ==
    /\ call[c].pc \notin {"free", "finish"} /\ ~call[c].logged
    /\ "abort" \in may /\ faults < MaxFaults /\ faults' = faults + 1
    /\ Wrote(Resource(c))
    /\ call' = [call EXCEPT ![c].logged = TRUE]
    /\ UNCHANGED <<keycloak, tokens, tombs, overlap, asked, may>>

\* "finish": the request is answered; it is written down once.
Finish(c) ==
    /\ call[c].pc = "finish"
    /\ IF call[c].logged THEN UNCHANGED <<rows, written, faults>> ELSE Audit(Resource(c))
    /\ call' = [call EXCEPT ![c] = Free]
    /\ UNCHANGED <<keycloak, tokens, tombs, overlap, asked, may>>

CallStep(c) ==
    \/ Check(c) \/ Act(c) \/ KeycloakFails(c) \/ WriteAudit(c)
    \/ EraseOwned(c) \/ EraseNaming(c) \/ EraseCommit(c) \/ EraseNotFound(c) \/ EraseFails(c)
    \/ Close(c)

-----------------------------------------------------------------------------
(* Properties *)

\* "System must keep at least one active admin" (admin.controller.ts:210).
NeverLockedOut == Active # {}

\* As long as no two guarded changes overlap, an active admin remains, even though tokens
\* outlive the role and the account of who holds them, and a disabled admin counts for
\* nothing (assertNotLastAdmin and the guards against oneself).
OneAtATimeKeepsAnAdmin == ~overlap => NeverLockedOut

Sum(S, f(_)) == LET total[T \in SUBSET S] ==
                        IF T = {} THEN 0 ELSE LET x == CHOOSE y \in T : TRUE IN f(x) + total[T \ {x}]
                IN  total[S]

\* The tombstones of a person count exactly the rows that carry the pseudonym in place of
\* the person, although rows come in while the erasure runs, and two erasures meet (eraseUser).
TombstoneIsProof ==
    \A p \in People :
        Sum({t \in tombs : t.of = p}, LAMBDA t : t.deleted)
            = Cardinality({r \in rows : r.owner = p /\ r.hidden})

\* Of what was in the trail when the erasure of a person began no row is theirs any more and no URL
\* names them; and what the erasure itself leaves never names them, not even when it fails or its
\* client has gone (eraseUser, AuditMiddleware.resourceOf).  The rows that AdminController wrote about
\* them name them in the other form, and go on doing so, although erasure.service.ts:48 has them in mind.
ErasedIsUnnamed ==
    /\ \A t \in tombs : \A r \in rows : r.nr <= t.since =>
            /\ r.owner = t.of => r.hidden
            /\ r.names = t.of /\ r.form = Url => r.masked
    /\ \A r \in rows : r.op = "erase" => r.masked

\* Erasure is proof of itself: the tombstones count what is hidden, and no row that the erasure is
\* able to rewrite still names the person (eraseUser).
ErasureIsProven == TombstoneIsProof /\ ErasedIsUnnamed
=============================================================================
