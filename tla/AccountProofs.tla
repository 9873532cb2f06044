---------------------------- MODULE AccountProofs ----------------------------
(***************************************************************************)
(* Theorems about Accounts, the Settings page and the report, with the     *)
(* other pages at work beside them, for any people, slots, failures and    *)
(* requests: that guarded changes made one at a time never remove the last *)
(* active admin, that the page shows what it reported as done, that        *)
(* no row or URL that was in the trail when an erasure began still names   *)
(* the person and the tombstones count what was made anonymous, and that   *)
(* the report and the first page count what they say they count.           *)
(***************************************************************************)
EXTENDS DashboardPage, FiniteSetTheorems, TLAPS

SlotFields == {"pc", "who", "op", "target", "ok", "stale", "logged", "since", "mine", "naming"}
GuardOps == RoleOps \cup AccountOps

SlotTypes ==
    /\ DOMAIN call = Slots
    /\ \A c \in Slots : DOMAIN call[c] = SlotFields

\* A request that is about to change something names what and whom.
CallInv ==
    \A c \in Slots :
       /\ call[c].pc = "check" => NeedsCheck(call[c].op)
       /\ call[c].pc \in {"check", "act"} => call[c].op \in GuardOps /\ call[c].target \in People
       /\ call[c].pc = "audit" => call[c].op # "erase"

RealmTypes ==
    /\ admins \subseteq People /\ enabled \subseteq People
    /\ changes \in [People -> Nat]

\* A check that is not out of date has seen another active admin, who is still there.
AdminInv ==
    ~overlap =>
       /\ Active # {}
       /\ \A c \in Slots : call[c].pc = "act" /\ NeedsCheck(call[c].op) /\ ~call[c].stale
                           => Active \ {call[c].target} # {}

\* What the actions of the admins keep, and what those of the page leave to them.
RealmInv == SlotTypes /\ CallInv /\ RealmTypes /\ AdminInv

-----------------------------------------------------------------------------
(* Requests *)

\* A step that moves a request on without touching what it is about.
Moves(c, pcs) ==
    /\ DOMAIN call' = Slots /\ DOMAIN call'[c] = SlotFields
    /\ call'[c].pc \in pcs
    /\ call'[c].op = call[c].op /\ call'[c].target = call[c].target
    /\ call'[c].stale = call[c].stale
    /\ \A d \in Slots : d # c => call'[d] = call[d]

LEMMA MovesKeep ==
    ASSUME RealmInv, NEW c \in Slots, Moves(c, {"finish", "naming", "commit", call[c].pc}),
           UNCHANGED <<keycloak, overlap>>
    PROVE  RealmInv'
BY DEF RealmInv, SlotTypes, CallInv, RealmTypes, AdminInv, Moves, keycloak, Active, NeedsCheck

\* The count of active admins is of those that are left when the person asked about is gone.
LEMMA CheckedIsNotLast ==
    ASSUME RealmTypes, Active # {}, NEW p \in People, ~CountsAsLast(p)
    PROVE  Active \ {p} # {}
<1>1. CASE p \notin Active
    BY <1>1
<1>2. CASE p \in Active
    <2>1. IsFiniteSet(Active) /\ Cardinality(Active) \in Nat
        BY AccountsConstants, FS_Subset, FS_CardinalityType DEF RealmTypes, Active
    <2>2. Cardinality(Active) > 1
        BY <1>2, <2>1 DEF CountsAsLast
    <2>3. Cardinality({p}) = 1
        BY FS_Singleton
    <2>4. Active # {p}
        BY <2>2, <2>3
    <2> QED
        BY <1>2, <2>4
<1> QED
    BY <1>1, <1>2

LEMMA CheckKeeps ==
    ASSUME RealmInv, NEW c \in Slots, Check(c)
    PROVE  RealmInv'
<1>1. UNCHANGED <<keycloak, overlap>>
    BY DEF Check
<1>2. /\ DOMAIN call' = Slots /\ DOMAIN call'[c] = SlotFields
      /\ call'[c].pc = IF CountsAsLast(call[c].target) THEN "finish" ELSE "act"
      /\ call'[c].op = call[c].op /\ call'[c].target = call[c].target
      /\ call'[c].stale = call[c].stale
      /\ \A d \in Slots : d # c => call'[d] = call[d]
    BY DEF Check, Goto, RealmInv, SlotTypes, SlotFields
<1>3. CASE CountsAsLast(call[c].target)
    BY <1>1, <1>2, <1>3, MovesKeep DEF Moves
<1>4. CASE ~CountsAsLast(call[c].target)
    <2>1. call[c].pc = "check" /\ call[c].op \in GuardOps /\ call[c].target \in People
        BY DEF Check, RealmInv, CallInv
    <2>2. Active # {} => Active \ {call[c].target} # {}
        BY <1>4, <2>1, CheckedIsNotLast DEF RealmInv
    <2>3. SlotTypes' /\ CallInv' /\ RealmTypes'
        BY <1>1, <1>2, <1>4, <2>1 DEF RealmInv, SlotTypes, CallInv, RealmTypes, keycloak
    <2>4. AdminInv'
        BY <1>1, <1>2, <2>2 DEF RealmInv, AdminInv, Active, keycloak
    <2> QED
        BY <2>3, <2>4 DEF RealmInv
<1> QED
    BY <1>3, <1>4

LEMMA BeginKeeps ==
    ASSUME RealmInv, NEW c \in Slots, NEW who, NEW op \in Ops, NEW target \in People,
           Begin(c, who, op, target)
    PROVE  RealmInv'
<1>1. /\ UNCHANGED <<keycloak, overlap>>
      /\ call' = [call EXCEPT ![c] = [Free EXCEPT !.pc = FirstStep(who, op, target),
                                                  !.who = who, !.op = op, !.target = target]]
    BY DEF Begin
<1>2. /\ DOMAIN call' = Slots /\ DOMAIN call'[c] = SlotFields
      /\ call'[c].pc = FirstStep(who, op, target)
      /\ call'[c].op = op /\ call'[c].target = target /\ call'[c].stale = FALSE
      /\ \A d \in Slots : d # c => call'[d] = call[d]
    BY <1>1 DEF RealmInv, SlotTypes, SlotFields, Free
<1>3. /\ FirstStep(who, op, target) \in {"finish", "owned", "check", "act"}
      /\ FirstStep(who, op, target) = "check" => NeedsCheck(op)
      /\ FirstStep(who, op, target) = "act" => ~NeedsCheck(op)
      /\ FirstStep(who, op, target) \in {"check", "act"} => op # "erase"
    BY DEF FirstStep
<1>4. SlotTypes' /\ RealmTypes'
    BY <1>1, <1>2 DEF RealmInv, SlotTypes, RealmTypes, keycloak
<1>5. CallInv'
    BY <1>2, <1>3 DEF RealmInv, CallInv, Ops, GuardOps
<1>6. AdminInv'
    BY <1>1, <1>2, <1>3 DEF RealmInv, AdminInv, Active, keycloak
<1> QED
    BY <1>4, <1>5, <1>6 DEF RealmInv

\* The effect of a change on the realm and on the requests.
LEMMA ChangesEffect ==
    ASSUME RealmInv, NEW c \in Slots, NEW pc, Changes(c, pc), call[c].pc = "act"
    PROVE  /\ RealmTypes'
           /\ call[c].target \in People
           /\ changes' = [changes EXCEPT ![call[c].target] = @ + 1]
           /\ \A p \in People : p # call[c].target => (p \in admins' <=> p \in admins)
                                                      /\ (p \in enabled' <=> p \in enabled)
           /\ ~NeedsCheck(call[c].op) => Active \subseteq Active'
           /\ Active \ {call[c].target} \subseteq Active'
<1>1. call[c].op \in GuardOps /\ call[c].target \in People
    BY DEF RealmInv, CallInv
<1>2. changes' = [changes EXCEPT ![call[c].target] = @ + 1] /\ Applied(c)
    BY DEF Changes
<1>3. changes' \in [People -> Nat]
    BY <1>1, <1>2 DEF RealmInv, RealmTypes
<1>4. call[c].op \in {"assign", "remove", "enable", "disable"}
    BY <1>1 DEF GuardOps, RoleOps, AccountOps
<1>5. CASE call[c].op = "assign"
    <2>1. admins' = admins \cup {call[c].target} /\ enabled' = enabled
        BY <1>2, <1>5 DEF Applied
    <2> QED
        BY <1>1, <1>2, <1>3, <2>1 DEF RealmInv, RealmTypes, Active
<1>6. CASE call[c].op = "remove"
    <2>1. admins' = admins \ {call[c].target} /\ enabled' = enabled
        BY <1>2, <1>6 DEF Applied
    <2> QED
        BY <1>1, <1>2, <1>3, <1>6, <2>1 DEF RealmInv, RealmTypes, Active, NeedsCheck
<1>7. CASE call[c].op = "enable"
    <2>1. enabled' = enabled \cup {call[c].target} /\ admins' = admins
        BY <1>2, <1>7 DEF Applied
    <2> QED
        BY <1>1, <1>2, <1>3, <2>1 DEF RealmInv, RealmTypes, Active
<1>8. CASE call[c].op = "disable"
    <2>1. enabled' = enabled \ {call[c].target} /\ admins' = admins
        BY <1>2, <1>8 DEF Applied
    <2> QED
        BY <1>1, <1>2, <1>3, <1>8, <2>1 DEF RealmInv, RealmTypes, Active, NeedsCheck
<1> QED
    BY <1>4, <1>5, <1>6, <1>7, <1>8

LEMMA ChangesKeep ==
    ASSUME RealmInv, NEW c \in Slots, NEW pc \in {"audit", "finish"}, Changes(c, pc),
           call[c].pc = "act"
    PROVE  RealmInv'
<1>1. /\ overlap' = (overlap \/ call[c].stale)
      /\ call' = [d \in Slots |->
            IF d = c THEN [call[c] EXCEPT !.pc = pc]
            ELSE [call[d] EXCEPT !.stale = @ \/ (call[d].pc = "act" /\ NeedsCheck(call[d].op)
                                                /\ NeedsCheck(call[c].op))]]
    BY DEF Changes
<1>2. /\ DOMAIN call' = Slots /\ \A d \in Slots : DOMAIN call'[d] = SlotFields
      /\ call'[c].pc = pc /\ call'[c].op = call[c].op
      /\ \A d \in Slots : d # c => /\ call'[d].pc = call[d].pc /\ call'[d].op = call[d].op
                                   /\ call'[d].target = call[d].target
    BY <1>1 DEF RealmInv, SlotTypes, SlotFields
<1>3. ASSUME NEW d \in Slots, d # c, call[d].pc = "act", NeedsCheck(call[d].op), ~call'[d].stale
      PROVE  ~call[d].stale /\ ~NeedsCheck(call[c].op)
    BY <1>1, <1>3 DEF RealmInv, SlotTypes, SlotFields
<1>4. RealmTypes'
    BY ChangesEffect
<1>5. SlotTypes' /\ CallInv'
    BY <1>2 DEF RealmInv, SlotTypes, CallInv, GuardOps, RoleOps, AccountOps
<1>6. AdminInv'
    <2> SUFFICES ASSUME ~overlap' PROVE AdminInv'
        BY DEF AdminInv
    <2>1. ~overlap /\ ~call[c].stale
        BY <1>1
    <2>2. Active # {} /\ (NeedsCheck(call[c].op) => Active \ {call[c].target} # {})
        BY <2>1 DEF RealmInv, AdminInv
    <2>3. /\ ~NeedsCheck(call[c].op) => Active \subseteq Active'
          /\ Active \ {call[c].target} \subseteq Active'
        BY ChangesEffect
    <2>4. Active' # {}
        BY <2>2, <2>3
    <2>5. ASSUME NEW d \in Slots, call'[d].pc = "act", NeedsCheck(call'[d].op), ~call'[d].stale
          PROVE  Active' \ {call'[d].target} # {}
        <3>1. d # c
            BY <1>2, <2>5
        <3>2. /\ call[d].pc = "act" /\ NeedsCheck(call[d].op) /\ call'[d].target = call[d].target
            BY <1>2, <2>5, <3>1
        <3>3. ~call[d].stale /\ ~NeedsCheck(call[c].op)
            BY <1>3, <2>5, <3>1, <3>2
        <3>4. Active \ {call[d].target} # {}
            BY <2>1, <3>2, <3>3 DEF RealmInv, AdminInv
        <3> QED
            BY <2>3, <3>2, <3>3, <3>4
    <2> QED
        BY <2>4, <2>5 DEF AdminInv
<1> QED
    BY <1>4, <1>5, <1>6 DEF RealmInv

\* Only the change itself touches the realm.
RealmStep ==
    \/ UNCHANGED keycloak
    \/ \E t \in People :
          /\ changes' = [changes EXCEPT ![t] = @ + 1]
          /\ \A p \in People : p # t => (p \in admins' <=> p \in admins)
                                        /\ (p \in enabled' <=> p \in enabled)

LEMMA RequestKeeps ==
    ASSUME RealmInv, NEW c \in Slots, CallStep(c) \/ Finish(c)
    PROVE  RealmInv' /\ RealmStep
<1>1. CASE Check(c)
    BY <1>1, CheckKeeps DEF Check, RealmStep
<1>2. ASSUME call[c].pc = "act", NEW pc \in {"audit", "finish"}, Changes(c, pc)
      PROVE  RealmInv' /\ RealmStep
    BY <1>2, ChangesKeep, ChangesEffect DEF RealmStep
<1>3. CASE Act(c)
    BY <1>2, <1>3 DEF Act
<1>4. CASE KeycloakFails(c)
    <2>1. CASE Fails(c) /\ UNCHANGED <<keycloak, overlap>>
        <3>1. Moves(c, {"finish"})
            BY <2>1 DEF Fails, Goto, Moves, RealmInv, SlotTypes, SlotFields
        <3> QED
            BY <2>1, <3>1, MovesKeep DEF Moves, RealmStep
    <2> QED
        BY <1>2, <1>4, <2>1 DEF KeycloakFails
<1>5. CASE WriteAudit(c)
    <2>1. UNCHANGED <<keycloak, overlap>> /\ Moves(c, {"finish"})
        BY <1>5 DEF WriteAudit, Succeeds, Moves, RealmInv, SlotTypes, SlotFields
    <2> QED
        BY <2>1, MovesKeep DEF Moves, RealmStep
<1>6. CASE EraseOwned(c)
    <2>1. UNCHANGED <<keycloak, overlap>> /\ Moves(c, {"naming"})
        BY <1>6 DEF EraseOwned, Moves, RealmInv, SlotTypes, SlotFields
    <2> QED
        BY <2>1, MovesKeep DEF Moves, RealmStep
<1>7. CASE EraseNaming(c)
    <2>1. UNCHANGED <<keycloak, overlap>> /\ Moves(c, {"commit"})
        BY <1>7 DEF EraseNaming, Moves, RealmInv, SlotTypes, SlotFields
    <2> QED
        BY <2>1, MovesKeep DEF Moves, RealmStep
<1>8. CASE EraseCommit(c) \/ EraseNotFound(c) \/ EraseFails(c)
    <2>1. UNCHANGED <<keycloak, overlap>> /\ \E ok \in BOOLEAN : Unlocked(c, ok)
        BY <1>8 DEF EraseCommit, EraseNotFound, EraseFails
    <2>2. Moves(c, {"finish"})
        BY <2>1 DEF Unlocked, Moves, RealmInv, SlotTypes, SlotFields
    <2> QED
        BY <2>1, <2>2, MovesKeep DEF Moves, RealmStep
<1>9. CASE Close(c)
    <2>1. UNCHANGED <<keycloak, overlap>> /\ Moves(c, {call[c].pc})
        BY <1>9 DEF Close, Moves, RealmInv, SlotTypes, SlotFields
    <2> QED
        BY <2>1, MovesKeep DEF Moves, RealmStep
<1>10. CASE Finish(c)
    <2>1. UNCHANGED <<keycloak, overlap>> /\ call' = [call EXCEPT ![c] = Free]
        BY <1>10 DEF Finish
    <2>2. /\ DOMAIN call' = Slots /\ DOMAIN call'[c] = SlotFields /\ call'[c].pc = "free"
          /\ \A d \in Slots : d # c => call'[d] = call[d]
        BY <2>1 DEF RealmInv, SlotTypes, SlotFields, Free
    <2>3. RealmInv'
        BY <2>1, <2>2 DEF RealmInv, SlotTypes, CallInv, RealmTypes, AdminInv, Active, keycloak
    <2> QED
        BY <2>1, <2>3 DEF RealmStep
<1> QED
    BY <1>1, <1>3, <1>4, <1>5, <1>6, <1>7, <1>8, <1>9, <1>10 DEF CallStep

-----------------------------------------------------------------------------
(* The Settings page *)

PageTypes ==
    /\ told \in [People -> Nat] /\ \A p \in People : told[p] <= changes[p]
    /\ dialog # NoKey => dialog[1] \in Ops /\ dialog[2] \in People
    /\ current \in Nat
    /\ \A l \in loads : DOMAIN l = {"nr", "members", "users"} /\ l.nr \in Nat /\ l.nr <= current

\* The last action on p was reported as done, and nobody has changed p since.
Settled(p) == told[p] > 0 /\ told[p] = changes[p]

\* What the load that counts has read of such a person is still so: it began later.
ReadInv ==
    \A p \in People : Settled(p) => \A l \in loads : l.nr = current =>
        /\ l.users # Unread => (p \in l.users <=> p \in enabled)
        /\ l.members # Unread => (p \in l.members <=> p \in admins)

PageInv == PageTypes /\ ReadInv /\ DoneIsShown

\* Another admin changes somebody, or nobody does, while the page stands still.
LEMMA RealmStepKeepsPage ==
    ASSUME RealmTypes, PageInv, RealmStep, UNCHANGED page
    PROVE  PageInv'
<1> USE DEF page, PageInv
<1>1. CASE UNCHANGED keycloak
    BY <1>1 DEF keycloak, PageTypes, ReadInv, DoneIsShown, Settled, Shown
<1>2. ASSUME NEW t \in People, changes' = [changes EXCEPT ![t] = @ + 1],
             \A p \in People : p # t => (p \in admins' <=> p \in admins)
                                        /\ (p \in enabled' <=> p \in enabled)
      PROVE  PageInv'
    <2>1. /\ \A p \in People : p # t => changes'[p] = changes[p]
          /\ changes'[t] = changes[t] + 1 /\ changes[t] \in Nat
        BY <1>2 DEF RealmTypes
    <2>2. ASSUME NEW p \in People
          PROVE  told[p] <= changes'[p] /\ told[p] \in Nat /\ (p = t => told[p] # changes'[p])
        <3>1. told[p] \in Nat /\ told[p] <= changes[p] /\ changes[p] \in Nat
            BY DEF PageTypes, RealmTypes
        <3> QED
            BY <2>1, <3>1
    <2>3. \A p \in People : Settled(p)' => p # t /\ Settled(p)
        BY <2>1, <2>2 DEF Settled
    <2>4. PageTypes'
        BY <2>2 DEF PageTypes
    <2>5. ReadInv'
        BY <1>2, <2>3 DEF ReadInv
    <2>6. DoneIsShown'
        BY <1>2, <2>3 DEF DoneIsShown, Shown, Settled
    <2> QED
        BY <2>4, <2>5, <2>6
<1> QED
    BY <1>1, <1>2 DEF RealmStep

LEMMA ReadKeeps ==
    ASSUME PageInv, NEW l \in loads, ReadUsers(l) \/ ReadMembers(l)
    PROVE  PageInv' /\ UNCHANGED accounts
<1>1. UNCHANGED <<accounts, table, loading, current, dialog, told>>
    BY DEF ReadUsers, ReadMembers
<1>2. UNCHANGED <<admins, enabled, changes>>
    BY <1>1 DEF accounts, keycloak
<1>3. PICK m : /\ loads' = (loads \ {l}) \cup {m}
               /\ \/ l.users = Unread /\ m = [l EXCEPT !.users = enabled]
                  \/ l.members = Unread /\ m = [l EXCEPT !.members = admins]
    BY DEF ReadUsers, ReadMembers
<1>4. /\ DOMAIN m = {"nr", "members", "users"} /\ m.nr = l.nr
      /\ m.users \in {l.users, enabled} /\ m.members \in {l.members, admins}
    BY <1>3 DEF PageInv, PageTypes
<1>5. PageTypes'
    BY <1>1, <1>2, <1>3, <1>4 DEF PageInv, PageTypes
<1>6. ReadInv'
    <2> SUFFICES ASSUME NEW p \in People, Settled(p), NEW k \in loads', k.nr = current
                 PROVE  /\ k.users # Unread => (p \in k.users <=> p \in enabled)
                        /\ k.members # Unread => (p \in k.members <=> p \in admins)
        BY <1>1, <1>2 DEF ReadInv, Settled
    <2>1. CASE k \in loads
        BY <2>1 DEF PageInv, ReadInv
    <2>2. CASE k = m
        BY <1>4, <2>2 DEF PageInv, ReadInv
    <2> QED
        BY <1>3, <2>1, <2>2
<1>7. DoneIsShown'
    BY <1>1, <1>2 DEF PageInv, DoneIsShown, Shown
<1> QED
    BY <1>1, <1>5, <1>6, <1>7 DEF PageInv

\* What counts is shown as it was read; what is cancelled is forgotten.
LEMMA LoadedKeeps ==
    ASSUME PageInv, NEW l \in loads, Loaded(l) \/ LoadFails(l)
    PROVE  PageInv' /\ UNCHANGED <<keycloak, tokens, call, trail, overlap>>
<1>1. /\ UNCHANGED <<keycloak, tokens, call, trail, overlap, dialog, current, told>>
      /\ loads' = loads \ {l}
    BY DEF Loaded, LoadFails, accounts
<1>2. PageTypes' /\ ReadInv'
    BY <1>1 DEF PageInv, PageTypes, ReadInv, Settled, keycloak
<1>3. DoneIsShown'
    <2>1. CASE UNCHANGED <<table, loading>>
        BY <1>1, <2>1 DEF PageInv, DoneIsShown, Shown, keycloak
    <2>2. CASE table' = NoTable
        BY <2>2 DEF DoneIsShown, Shown
    <2>3. CASE /\ ~Cancelled(l) /\ Unread \notin {l.users, l.members}
               /\ table' = [enabled |-> l.users, admins |-> l.members]
        <3>1. ASSUME NEW p \in People, Settled(p)
              PROVE  (p \in l.users <=> p \in enabled) /\ (p \in l.members <=> p \in admins)
            BY <2>3, <3>1 DEF PageInv, ReadInv, Cancelled
        <3> QED
            BY <1>1, <2>3, <3>1 DEF DoneIsShown, Settled, keycloak
    <2> QED
        BY <2>1, <2>2, <2>3 DEF Loaded, LoadFails
<1> QED
    BY <1>1, <1>2, <1>3 DEF PageInv

\* A load that begins has read nothing yet, and nothing is shown until it is back.
LEMMA LoadAgainKeeps ==
    ASSUME PageTypes, LoadAgain, UNCHANGED keycloak, told' \in [People -> Nat],
           \A p \in People : told'[p] <= changes[p],
           dialog' \in {dialog, NoKey}
    PROVE  PageInv'
<1>1. /\ current' = current + 1 /\ loads' = loads \cup {Load(current')} /\ loading' = TRUE
    BY DEF LoadAgain
<1>2. DoneIsShown'
    BY <1>1 DEF DoneIsShown, Shown
<1>3. /\ DOMAIN Load(current') = {"nr", "members", "users"} /\ Load(current').nr = current'
      /\ Load(current').users = Unread /\ Load(current').members = Unread
    BY DEF Load
<1>4. PageTypes'
    <2>1. current' \in Nat /\ current <= current'
        BY <1>1 DEF PageTypes
    <2>2. ASSUME NEW l \in loads'
          PROVE  DOMAIN l = {"nr", "members", "users"} /\ l.nr \in Nat /\ l.nr <= current'
        BY <1>1, <1>3, <2>1, <2>2 DEF PageTypes
    <2>3. told' \in [People -> Nat] /\ \A p \in People : told'[p] <= changes'[p]
        BY DEF keycloak
    <2>4. dialog' # NoKey => dialog'[1] \in Ops /\ dialog'[2] \in People
        BY DEF PageTypes
    <2> QED
        BY <2>1, <2>2, <2>3, <2>4 DEF PageTypes
<1>5. ReadInv'
    <2>1. ASSUME NEW l \in loads', l.nr = current' PROVE l = Load(current')
        <3>1. ASSUME l \in loads PROVE FALSE
            BY <1>1, <2>1, <3>1 DEF PageTypes
        <3> QED
            BY <1>1, <3>1
    <2>2. \A l \in loads' : l.nr = current' => l.users = Unread /\ l.members = Unread
        BY <1>3, <2>1
    <2> QED
        BY <2>2 DEF ReadInv
<1> QED
    BY <1>2, <1>4, <1>5 DEF PageInv

\* Dialogs and what is only started change neither the table nor what was reported.
LEMMA DialogKeeps ==
    ASSUME PageInv, UNCHANGED <<keycloak, table, loading, loads, current, told>>,
           dialog' # NoKey => dialog'[1] \in Ops /\ dialog'[2] \in People
    PROVE  PageInv'
BY DEF PageInv, PageTypes, ReadInv, DoneIsShown, Shown, Settled, keycloak

LEMMA ReturnsKeeps ==
    ASSUME PageInv, RealmTypes, NEW c \in Slots, Returns(c)
    PROVE  PageInv'
<1>1. UNCHANGED keycloak /\ dialog' \in {dialog, NoKey}
    BY DEF Returns, Finish
<1>2. CASE call[c].ok
    <2>1. LoadAgain /\ told' = [told EXCEPT ![call[c].target] = changes[call[c].target]]
        BY <1>2 DEF Returns
    <2>2. told' \in [People -> Nat] /\ \A p \in People : told'[p] <= changes[p]
        <3>1. told \in [People -> Nat] /\ changes \in [People -> Nat]
            BY DEF PageInv, PageTypes, RealmTypes
        <3>2. ASSUME NEW p \in People
              PROVE  told'[p] \in Nat /\ told'[p] <= changes[p]
            <4>1. told'[p] \in {told[p], changes[p]}
                BY <2>1, <3>1
            <4> QED
                BY <3>1, <4>1 DEF PageInv, PageTypes
        <3> QED
            BY <2>1, <3>1, <3>2
    <2> QED
        BY <1>1, <2>1, <2>2, LoadAgainKeeps DEF PageInv
<1>3. CASE ~call[c].ok
    <2>1. UNCHANGED <<table, loading, loads, current, told>>
        BY <1>3 DEF Returns
    <2>2. dialog' # NoKey => dialog'[1] \in Ops /\ dialog'[2] \in People
        BY <1>1 DEF PageInv, PageTypes
    <2> QED
        BY <1>1, <2>1, <2>2, DialogKeeps
<1> QED
    BY <1>2, <1>3

-----------------------------------------------------------------------------
(* Every step *)

SettingsInv == RealmInv /\ PageInv

\* The reports and the first page of the dashboard only look on.
LEMMA OnlookersKeep ==
    ASSUME SettingsInv, UNCHANGED <<keycloak, call, overlap, page>>
    PROVE  SettingsInv'
<1>1. RealmInv'
    BY DEF SettingsInv, RealmInv, SlotTypes, CallInv, RealmTypes, AdminInv, Active, keycloak
<1>2. PageInv'
    BY RealmStepKeepsPage DEF SettingsInv, RealmInv, RealmStep
<1> QED
    BY <1>1, <1>2 DEF SettingsInv

LEMMA ReportsLookOn ==
    ASSUME ReportsNext
    PROVE  UNCHANGED <<keycloak, call, overlap, page>>
<1> USE DEF accounts, bounds
<1>1. CASE Tick
    BY <1>1 DEF Tick
<1>2. CASE Reload
    BY <1>2 DEF Reload, AskAgain
<1>3. CASE \E a \in asks : ReadAudit(a) \/ ReadErasure(a)
    BY <1>3 DEF ReadAudit, ReadErasure
<1>4. CASE \E a \in asks : Arrives(a) \/ Refuses(a)
    BY <1>4 DEF Arrives, Refuses, Answered
<1>5. CASE \E a \in asks : QueryFails(a)
    BY <1>5 DEF QueryFails
<1>6. CASE \E d \in Picks : SetFrom(d) \/ SetTo(d)
    BY <1>6 DEF SetFrom, SetTo, AskAgain
<1> QED
    BY <1>1, <1>2, <1>3, <1>4, <1>5, <1>6 DEF ReportsNext

LEMMA BoardLooksOn ==
    ASSUME BoardNext
    PROVE  UNCHANGED elsewhere
<1>1. CASE Elapse \/ AutoRefresh \/ FirstArrives \/ FirstFails \/ \E r \in Ranges : PickRange(r)
    BY <1>1 DEF Elapse, AutoRefresh, FirstArrives, FirstFails, PickRange
<1>2. ASSUME NEW p \in polls, PlanChart(p) \/ ReadChart(p)
      PROVE  UNCHANGED elsewhere
    BY <1>2 DEF PlanChart, ReadChart, Answers
<1>3. ASSUME NEW p \in polls, \/ ChartArrives(p) \/ ChartFails(p)
                              \/ RefreshArrives(p) \/ RefreshFails(p)
      PROVE  UNCHANGED elsewhere
    BY <1>3 DEF ChartArrives, ChartFails, RefreshArrives, RefreshFails
<1> QED
    BY <1>1, <1>2, <1>3 DEF BoardNext

LEMMA AccountsKeep ==
    ASSUME SettingsInv, AccountsNext
    PROVE  SettingsInv'
<1>1. UNCHANGED page
    BY DEF AccountsNext
<1>2. CASE \E p \in People : Renew(p)
    BY <1>1, <1>2, OnlookersKeep DEF Renew
<1>3. ASSUME NEW c \in Slots, CallStep(c) \/ Finish(c)
      PROVE  SettingsInv'
    BY <1>1, <1>3, RequestKeeps, RealmStepKeepsPage DEF SettingsInv, RealmInv
<1>4. ASSUME NEW c \in Slots, NEW who, NEW op \in Ops, NEW q \in People, Begin(c, who, op, q)
      PROVE  SettingsInv'
    <2>1. RealmStep
        BY <1>4 DEF Begin, RealmStep
    <2> QED
        BY <1>1, <1>4, <2>1, BeginKeeps, RealmStepKeepsPage DEF SettingsInv, RealmInv
<1> QED
    BY <1>2, <1>3, <1>4 DEF AccountsNext

LEMMA PageKeeps ==
    ASSUME SettingsInv, PageNext
    PROVE  SettingsInv'
<1>1. ASSUME UNCHANGED <<keycloak, call, overlap>> PROVE RealmInv'
    BY <1>1 DEF SettingsInv, RealmInv, SlotTypes, CallInv, RealmTypes, AdminInv, Active, keycloak
<1>2. ASSUME NEW l \in loads, ReadUsers(l) \/ ReadMembers(l)
      PROVE  SettingsInv'
    BY <1>1, <1>2, ReadKeeps DEF SettingsInv, accounts
<1>3. ASSUME NEW l \in loads, Loaded(l) \/ LoadFails(l)
      PROVE  SettingsInv'
    BY <1>1, <1>3, LoadedKeeps DEF SettingsInv
<1>4. CASE Refresh
    <2>1. LoadAgain /\ UNCHANGED <<keycloak, call, overlap, told, dialog>>
        BY <1>4 DEF Refresh, accounts
    <2>2. told' \in [People -> Nat] /\ \A p \in People : told'[p] <= changes[p]
        BY <2>1 DEF SettingsInv, PageInv, PageTypes
    <2>3. PageInv'
        BY <2>1, <2>2, LoadAgainKeeps DEF SettingsInv, PageInv
    <2> QED
        BY <1>1, <2>1, <2>3 DEF SettingsInv
<1>5. ASSUME CloseDialog \/ \E op \in {"assign", "remove", "disable"}, p \in People : OpenDialog(op, p)
      PROVE  SettingsInv'
    <2>1. UNCHANGED <<keycloak, call, overlap, table, loading, loads, current, told>>
        BY <1>5 DEF CloseDialog, OpenDialog, accounts
    <2>2. dialog' # NoKey => dialog'[1] \in Ops /\ dialog'[2] \in People
        BY <1>5 DEF CloseDialog, OpenDialog, Ops, RoleOps, AccountOps
    <2> QED
        BY <1>1, <2>1, <2>2, DialogKeeps DEF SettingsInv
<1>6. ASSUME NEW c \in Slots, NEW op \in Ops, NEW p \in People, Begin(c, Viewer, op, p),
             UNCHANGED <<table, loading, loads, current, dialog, told>>
      PROVE  SettingsInv'
    <2>1. RealmInv'
        BY <1>6, BeginKeeps DEF SettingsInv
    <2>2. UNCHANGED keycloak
        BY <1>6 DEF Begin
    <2>3. PageInv'
        BY <1>6, <2>2, DialogKeeps DEF SettingsInv, PageInv, PageTypes
    <2> QED
        BY <2>1, <2>3 DEF SettingsInv
<1>7. ASSUME NEW c \in Slots, Confirm(c)
      PROVE  SettingsInv'
    <2>1. dialog[1] \in Ops /\ dialog[2] \in People
        BY <1>7 DEF Confirm, SettingsInv, PageInv, PageTypes
    <2> QED
        BY <1>6, <1>7, <2>1 DEF Confirm, RunAction
<1>8. ASSUME NEW c \in Slots, NEW p \in People, SetEnabled(c, p)
      PROVE  SettingsInv'
    BY <1>6, <1>8 DEF SetEnabled, RunAction, Ops, AccountOps
<1>9. ASSUME NEW c \in Slots, Returns(c)
      PROVE  SettingsInv'
    <2>1. Finish(c)
        BY <1>9 DEF Returns
    <2> QED
        BY <1>9, <2>1, RequestKeeps, ReturnsKeeps DEF SettingsInv, RealmInv
<1> QED
    BY <1>2, <1>3, <1>4, <1>5, <1>7, <1>8, <1>9 DEF PageNext

LEMMA SettingsInit == Init => SettingsInv
<1> SUFFICES ASSUME Init PROVE SettingsInv
    OBVIOUS
<1> USE DEF Init, AccountsInit, PageInit
<1>1. SlotTypes /\ CallInv
    BY DEF SlotTypes, SlotFields, CallInv, Free
<1>2. RealmTypes /\ Active # {}
    BY AccountsStart DEF RealmTypes, Active
<1>3. \A c \in Slots : call[c].pc = "free"
    BY DEF Free
<1>4. AdminInv
    BY <1>2, <1>3 DEF AdminInv
<1>5. told \in [People -> Nat] /\ \A p \in People : told[p] = 0 /\ changes[p] = 0
    OBVIOUS
<1>6. \A l \in loads : DOMAIN l = {"nr", "members", "users"} /\ l.nr = 1
    BY DEF Load
<1>7. PageTypes
    BY <1>5, <1>6 DEF PageTypes
<1>8. ReadInv /\ DoneIsShown
    BY <1>5 DEF ReadInv, DoneIsShown, Settled
<1> QED
    BY <1>1, <1>2, <1>4, <1>7, <1>8 DEF SettingsInv, RealmInv, PageInv

\* The inductive invariant of the accounts and of the Settings page.
THEOREM SettingsInvariant == Spec => []SettingsInv
<1>1. SettingsInv /\ [Next]_<<elsewhere, board>> => SettingsInv'
    <2> SUFFICES ASSUME SettingsInv, [Next]_<<elsewhere, board>> PROVE SettingsInv'
        OBVIOUS
    <2>1. CASE UNCHANGED elsewhere
        BY <2>1, OnlookersKeep DEF elsewhere, accounts
    <2> QED
        BY <2>1, AccountsKeep, PageKeeps, ReportsLookOn, BoardLooksOn, OnlookersKeep DEF Next
<1> QED
    BY <1>1, SettingsInit, PTL DEF Spec

\* Unless two guarded changes overlap, an active admin remains, whatever fails and however long
\* tokens outlive what they say (assertNotLastAdmin).
THEOREM AnAdminRemains == Spec => []OneAtATimeKeepsAnAdmin
<1>1. SettingsInv => OneAtATimeKeepsAnAdmin
    BY DEF SettingsInv, RealmInv, AdminInv, OneAtATimeKeepsAnAdmin, NeverLockedOut
<1> QED
    BY <1>1, SettingsInvariant, PTL

\* What the page reported as done, and nobody has changed since, is what it shows, in whatever
\* order its loads come back (loadAll, runAction).
THEOREM DoneStaysShown == Spec => []DoneIsShown
<1>1. SettingsInv => DoneIsShown
    BY DEF SettingsInv, PageInv
<1> QED
    BY <1>1, SettingsInvariant, PTL

-----------------------------------------------------------------------------
(* Sums *)

\* Sum adds up what the elements count for, one after the other; where that is the sizes of disjoint
\* parts, the sum is the size of their union.
Any(T) == CHOOSE y \in T : TRUE
Parted(P, S) ==
    /\ IsFiniteSet(S)
    /\ \A x \in S : IsFiniteSet(P[x])
    /\ \A x, y \in S : x # y => P[x] \cap P[y] = {}
Together(P, T) == UNION {P[x] : x \in T}
OneByOne(N, S, h) == [T \in SUBSET S |-> IF T = {} THEN 0 ELSE N[Any(T)] + h[T \ {Any(T)}]]

LEMMA TogetherIsFinite ==
    ASSUME NEW S, NEW P, Parted(P, S)
    PROVE  IsFiniteSet(Together(P, S)) /\ Cardinality(Together(P, S)) \in Nat
<1> DEFINE f == [x \in S |-> P[x]]
<1>1. f \in Surjection(S, {P[x] : x \in S})
    BY DEF Surjection
<1>2. IsFiniteSet({P[x] : x \in S})
    BY <1>1, FS_Surjection DEF Parted
<1>3. \A Q \in {P[x] : x \in S} : IsFiniteSet(Q)
    BY DEF Parted
<1> QED
    BY <1>2, <1>3, FS_UNION, FS_CardinalityType DEF Together

LEMMA OneMorePart ==
    ASSUME NEW S, NEW P, Parted(P, S), NEW T \in SUBSET S, NEW x \in T
    PROVE  Cardinality(Together(P, T)) = Cardinality(P[x]) + Cardinality(Together(P, T \ {x}))
<1> DEFINE U == T \ {x}
<1>1. Parted(P, U) /\ IsFiniteSet(P[x])
    BY FS_Subset DEF Parted
<1>2. Together(P, T) = P[x] \cup Together(P, U)
    BY DEF Together
<1>3. P[x] \cap Together(P, U) = {}
    BY DEF Together, Parted
<1> HIDE DEF U
<1>4. IsFiniteSet(Together(P, U)) /\ Cardinality(Together(P, U)) \in Nat /\ Cardinality(P[x]) \in Nat
    BY <1>1, TogetherIsFinite, FS_CardinalityType
<1>5. Cardinality({}) = 0
    BY FS_EmptySet
<1>6. Cardinality(P[x] \cup Together(P, U))
        = Cardinality(P[x]) + Cardinality(Together(P, U)) - Cardinality(P[x] \cap Together(P, U))
    BY <1>1, <1>4, FS_Union
<1>7. \A m, n \in Nat : m + n - 0 = m + n
    OBVIOUS
<1>8. Cardinality(Together(P, T)) = Cardinality(P[x]) + Cardinality(Together(P, U))
    BY <1>2, <1>3, <1>4, <1>5, <1>6, <1>7
<1> QED
    BY <1>8 DEF U

LEMMA SumExists ==
    ASSUME NEW S, NEW P, Parted(P, S), NEW N, \A x \in S : N[x] = Cardinality(P[x])
    PROVE  \E h : h = OneByOne(N, S, h)
<1> DEFINE g == [T \in SUBSET S |-> Cardinality(Together(P, T))]
<1>1. g[{}] = 0
    BY FS_EmptySet DEF Together
<1>2. ASSUME NEW T \in SUBSET S, T # {}
      PROVE  g[T] = N[Any(T)] + g[T \ {Any(T)}]
    <2>1. Any(T) \in T
        BY <1>2 DEF Any
    <2>2. T \ {Any(T)} \in SUBSET S /\ Any(T) \in S
        BY <2>1
    <2> QED
        BY <2>1, <2>2, OneMorePart
<1>3. \A T \in SUBSET S : g[T] = OneByOne(N, S, g)[T]
    <2> HIDE DEF g
    <2> QED
        BY <1>1, <1>2 DEF OneByOne
<1>4. g = OneByOne(N, S, g)
    <2>1. \A T \in SUBSET S : g[T] = IF T = {} THEN 0 ELSE N[Any(T)] + g[T \ {Any(T)}]
        BY <1>3 DEF OneByOne
    <2>2. g = [T \in SUBSET S |-> g[T]]
        OBVIOUS
    <2> HIDE DEF g
    <2> QED
        BY <2>1, <2>2 DEF OneByOne
<1> QED
    BY <1>4

LEMMA SumOfParts ==
    ASSUME NEW S, NEW P, Parted(P, S), NEW N, \A x \in S : N[x] = Cardinality(P[x]),
           NEW h, h = OneByOne(N, S, h)
    PROVE  h[S] = Cardinality(Together(P, S))
<1> DEFINE Bad == {T \in SUBSET S : h[T] # Cardinality(Together(P, T))}
<1>1. \A T \in SUBSET S : h[T] = IF T = {} THEN 0 ELSE N[Any(T)] + h[T \ {Any(T)}]
    BY DEF OneByOne
<1>2. ASSUME Bad # {} PROVE FALSE
    <2>1. Bad \subseteq FiniteSubsetsOf(S)
        BY FS_Subset DEF FiniteSubsetsOf, Parted
    <2>2. PICK T \in Bad : \A U \in Bad : <<U, T>> \notin StrictSubsetOrdering(S)
        <3> HIDE DEF Bad
        <3> QED
            BY <1>2, <2>1, FS_StrictSubsetOrderingWellFounded, WFMin
    <2>3. T # {}
        BY <1>1, FS_EmptySet DEF Together
    <2>4. Any(T) \in T
        BY <2>3 DEF Any
    <2>5. <<T \ {Any(T)}, T>> \in StrictSubsetOrdering(S)
        BY <2>4 DEF StrictSubsetOrdering
    <2>6. h[T \ {Any(T)}] = Cardinality(Together(P, T \ {Any(T)}))
        BY <2>2, <2>5
    <2>7. Cardinality(Together(P, T)) = Cardinality(P[Any(T)]) + Cardinality(Together(P, T \ {Any(T)}))
        BY <2>4, OneMorePart
    <2> QED
        BY <1>1, <2>3, <2>4, <2>6, <2>7
<1> QED
    BY <1>2

\* What a tombstone counts, as a set of pairs.
Block(t) == {t} \X (1 .. t.deleted)
Blocks(T) == UNION {Block(t) : t \in T}

LEMMA BlockSize ==
    ASSUME NEW t, t.deleted \in Nat
    PROVE  IsFiniteSet(Block(t)) /\ Cardinality(Block(t)) = t.deleted
<1>1. IsFiniteSet({t}) /\ Cardinality({t}) = 1
    BY FS_Singleton
<1>2. IsFiniteSet(1 .. t.deleted) /\ Cardinality(1 .. t.deleted) = t.deleted
    <2>1. 1 \in Int /\ t.deleted \in Int
        OBVIOUS
    <2>2. IsFiniteSet(1 .. t.deleted)
          /\ Cardinality(1 .. t.deleted) = IF 1 > t.deleted THEN 0 ELSE t.deleted - 1 + 1
        BY <2>1, FS_Interval
    <2> QED
        BY <2>2
<1>3. /\ IsFiniteSet({t} \X (1 .. t.deleted))
      /\ Cardinality({t} \X (1 .. t.deleted)) = Cardinality({t}) * Cardinality(1 .. t.deleted)
    BY <1>1, <1>2, FS_Product
<1>4. 1 * t.deleted = t.deleted
    OBVIOUS
<1> QED
    BY <1>1, <1>2, <1>3, <1>4 DEF Block

LEMMA BlocksArePart ==
    ASSUME NEW T, IsFiniteSet(T), \A t \in T : t.deleted \in Nat
    PROVE  /\ Parted([t \in T |-> Block(t)], T)
           /\ \A U \in SUBSET T : Together([t \in T |-> Block(t)], U) = Blocks(U)
<1>1. \A t, u \in T : t # u => Block(t) \cap Block(u) = {}
    BY DEF Block
<1> QED
    BY <1>1, BlockSize DEF Parted, Together, Blocks

LEMMA BlocksAdd ==
    ASSUME NEW T, IsFiniteSet(T), NEW x, x \notin T, \A t \in T \cup {x} : t.deleted \in Nat
    PROVE  Cardinality(Blocks(T \cup {x})) = Cardinality(Blocks(T)) + x.deleted
<1> DEFINE S == T \cup {x}
           P == [t \in S |-> Block(t)]
<1>1. /\ IsFiniteSet(S) /\ \A t \in S : t.deleted \in Nat
      /\ T = S \ {x} /\ x \in S /\ T \in SUBSET S /\ S \in SUBSET S
    BY FS_AddElement
<1>2. P[x] = Block(x)
    OBVIOUS
<1> HIDE DEF S
<1>3. Parted(P, S) /\ Together(P, S) = Blocks(S) /\ Together(P, T) = Blocks(T)
    BY <1>1, BlocksArePart
<1>4. Cardinality(Block(x)) = x.deleted /\ x.deleted \in Nat
    BY <1>1, BlockSize
<1> HIDE DEF P
<1>5. Cardinality(Together(P, S)) = Cardinality(P[x]) + Cardinality(Together(P, T))
    BY <1>1, <1>3, OneMorePart
<1>6. Parted(P, T)
    BY <1>1, <1>3 DEF Parted
<1>7. Cardinality(Together(P, T)) \in Nat
    BY <1>6, TogetherIsFinite
<1>8. \A m, n \in Nat : m + n = n + m
    OBVIOUS
<1>9. Cardinality(Blocks(S)) = Cardinality(Blocks(T)) + x.deleted
    BY <1>2, <1>3, <1>4, <1>5, <1>7, <1>8
<1> QED
    BY <1>9 DEF S

LEMMA SumCountsBlocks ==
    ASSUME NEW S, IsFiniteSet(S), \A t \in S : t.deleted \in Nat
    PROVE  Sum(S, LAMBDA t : t.deleted) = Cardinality(Blocks(S))
<1> DEFINE P == [t \in S |-> Block(t)]
           N == [t \in S |-> t.deleted]
           Step(h) == [T \in SUBSET S |-> IF T = {} THEN 0
                                          ELSE LET x == CHOOSE y \in T : TRUE
                                               IN  x.deleted + h[T \ {x}]]
           total == CHOOSE h : h = Step(h)
<1>1. /\ Parted(P, S) /\ Together(P, S) = Blocks(S)
      /\ \A t \in S : N[t] = Cardinality(P[t])
    BY BlocksArePart, BlockSize
<1>2. ASSUME NEW h PROVE Step(h) = OneByOne(N, S, h)
    BY DEF OneByOne, Any
<1>3. total = OneByOne(N, S, total)
    <2> HIDE DEF Step, N, P
    <2>1. PICK h : h = OneByOne(N, S, h)
        BY <1>1, SumExists
    <2>2. h = Step(h)
        BY <1>2, <2>1
    <2>3. total = Step(total)
        BY <2>2
    <2> QED
        BY <1>2, <2>3
<1>4. Sum(S, LAMBDA t : t.deleted) = total[S]
    BY DEF Sum
<1> HIDE DEF P, N, total
<1> QED
    BY <1>1, <1>3, <1>4, SumOfParts

LEMMA NumbersCount ==
    ASSUME NEW Q, IsFiniteSet(Q), \A r, s \in Q : r.nr = s.nr => r = s
    PROVE  IsFiniteSet(Numbers(Q)) /\ Cardinality(Numbers(Q)) = Cardinality(Q)
<1> DEFINE f == [r \in Q |-> r.nr]
<1>1. f \in Surjection(Q, Numbers(Q))
    BY DEF Surjection, Numbers
<1>2. f \in Injection(Q, Numbers(Q))
    BY <1>1 DEF Injection, IsInjective, Surjection
<1> QED
    BY <1>1, <1>2, FS_Surjection

-----------------------------------------------------------------------------
(* Erasure *)

RowFields == {"nr", "owner", "hidden", "names", "form", "masked", "op"}

TrailTypes ==
    /\ written \in Nat
    /\ \A r \in rows : DOMAIN r = RowFields /\ r.nr \in Nat /\ r.nr <= written
    /\ \A c \in Slots : call[c].since \in Nat /\ call[c].since <= written
    /\ \A t \in tombs : t.since \in Nat /\ t.since <= written

\* Of what was in the trail when it began, an erasure under way has in hand whatever another
\* one has not yet made anonymous: first the rows of the person, then those whose URL names the
\* person.
HandsInv ==
    \A c \in Slots :
       /\ call[c].pc \in {"naming", "commit"} =>
             \A r \in rows : r.nr <= call[c].since /\ r.owner = call[c].target
                             => r.hidden \/ r.nr \in call[c].mine
       /\ call[c].pc = "commit" =>
             \A r \in rows : r.nr <= call[c].since /\ r.names = call[c].target /\ r.form = Url
                             => r.masked \/ r.nr \in call[c].naming

Erases(c) == call[c].pc \in {"naming", "commit"}
Hidden(p) == Numbers({r \in rows : r.owner = p /\ r.hidden})
TombsOf(p) == {t \in tombs : t.of = p}

\* A number is that of one row, and the next tombstone is a new one.
NumberInv ==
    /\ IsFiniteSet(rows) /\ IsFiniteSet(tombs)
    /\ \A r, s \in rows : r.nr = s.nr => r = s
    /\ \A t \in tombs : t.deleted \in Nat /\ t.nr \in Nat /\ t.nr <= Cardinality(tombs)

\* What an erasure has counted names its owner until the commit, and no other erasure counts it.
MineInv ==
    \A c \in Slots : Erases(c) =>
       /\ call[c].mine \subseteq Owned(call[c].target)
       /\ \A d \in Slots : d # c /\ Erases(d) => call[c].mine \cap call[d].mine = {}

CountInv ==
    \A p \in People : Cardinality(Blocks(TombsOf(p))) = Cardinality(Hidden(p))

TombInv == NumberInv /\ MineInv /\ CountInv

ErasureInv == TrailTypes /\ HandsInv /\ ErasedIsUnnamed /\ TombInv

\* At most one row is added, under the next number, and no erasure gets ahead.
Grows ==
    /\ UNCHANGED tombs
    /\ \/ UNCHANGED <<rows, written>>
       \/ /\ written' = written + 1
          /\ \E row : /\ rows' = rows \cup {row} /\ DOMAIN row = RowFields
                      /\ row.nr = written + 1 /\ row.hidden = FALSE
                      /\ (row.op = "erase" => row.masked)

ErasuresStand ==
    \A d \in Slots :
       /\ call'[d].since \in {call[d].since, 0}
       /\ call'[d].pc \in {"naming", "commit"} =>
             /\ call'[d].pc = call[d].pc /\ call'[d].target = call[d].target
             /\ call'[d].since = call[d].since
             /\ call'[d].mine = call[d].mine /\ call'[d].naming = call[d].naming

LEMMA NumberedAreFinite ==
    ASSUME NumberInv, NEW p
    PROVE  /\ IsFiniteSet(Hidden(p)) /\ IsFiniteSet(Owned(p))
           /\ Cardinality(Hidden(p)) = Cardinality({r \in rows : r.owner = p /\ r.hidden})
           /\ IsFiniteSet(TombsOf(p))
<1>1. \A Q \in SUBSET rows : IsFiniteSet(Q) /\ \A r, s \in Q : r.nr = s.nr => r = s
    BY FS_Subset DEF NumberInv
<1>2. /\ {r \in rows : r.owner = p /\ r.hidden} \in SUBSET rows
      /\ {r \in rows : r.owner = p /\ ~r.hidden} \in SUBSET rows
    OBVIOUS
<1>3. TombsOf(p) \in SUBSET tombs
    BY DEF TombsOf
<1>4. IsFiniteSet(TombsOf(p))
    BY <1>3, FS_Subset DEF NumberInv
<1> QED
    BY <1>1, <1>2, <1>4, NumbersCount DEF Hidden, Owned

\* A row that comes in under the name of its owner is counted by nobody.
LEMMA TombsStand ==
    ASSUME TrailTypes, TombInv, Grows, ErasuresStand
    PROVE  TombInv'
<1> USE DEF TombInv
<1>1. tombs' = tombs
    BY DEF Grows
<1>2. CASE UNCHANGED <<rows, written>>
    <2>1. NumberInv' /\ CountInv'
        BY <1>1, <1>2 DEF NumberInv, CountInv, TombsOf, Hidden
    <2>2. MineInv'
        BY <1>2 DEF MineInv, ErasuresStand, Erases, Owned
    <2> QED
        BY <2>1, <2>2
<1>3. ASSUME NEW row, rows' = rows \cup {row}, row.nr = written + 1, row.hidden = FALSE
      PROVE  TombInv'
    <2>1. \A r \in rows : r.nr # row.nr
        <3> SUFFICES ASSUME NEW r \in rows, r.nr = row.nr PROVE FALSE
            OBVIOUS
        <3>1. r.nr \in Nat /\ r.nr <= written /\ written \in Nat
            BY DEF TrailTypes
        <3> QED
            BY <1>3, <3>1
    <2>2. NumberInv'
        <3>1. IsFiniteSet(rows')
            BY <1>3, FS_AddElement DEF NumberInv
        <3>2. \A r, s \in rows' : r.nr = s.nr => r = s
            BY <1>3, <2>1 DEF NumberInv
        <3> QED
            BY <1>1, <3>1, <3>2 DEF NumberInv
    <2>3. \A p : Owned(p) \subseteq Owned(p)' /\ Hidden(p)' = Hidden(p)
        BY <1>3 DEF Owned, Hidden, Numbers
    <2>4. MineInv'
        <3> SUFFICES ASSUME NEW c \in Slots, Erases(c)'
                     PROVE  /\ call'[c].mine \subseteq Owned(call[c].target)'
                            /\ \A d \in Slots : d # c /\ Erases(d)'
                                                => call'[c].mine \cap call'[d].mine = {}
            BY DEF MineInv
        <3>1. \A d \in Slots : Erases(d)' => /\ Erases(d) /\ call'[d].mine = call[d].mine
                                             /\ call'[d].target = call[d].target
            BY DEF ErasuresStand, Erases
        <3>2. call'[c].mine \subseteq Owned(call[c].target)
            BY <3>1 DEF MineInv
        <3>3. Owned(call[c].target)'
                = {r.nr : r \in {s \in rows' : s.owner = call[c].target /\ ~s.hidden}}
            BY <3>1 DEF Owned, Numbers
        <3>4. call'[c].mine \subseteq Owned(call[c].target)'
            BY <1>3, <3>2, <3>3 DEF Owned, Numbers
        <3> QED
            BY <3>1, <3>4 DEF MineInv
    <2>5. CountInv'
        BY <1>1, <2>3 DEF CountInv, TombsOf
    <2> QED
        BY <2>2, <2>4, <2>5
<1> QED
    BY <1>2, <1>3 DEF Grows

\* A row that comes in later is none of an erasure's business.
LEMMA GrowsKeep ==
    ASSUME ErasureInv, Grows, ErasuresStand
    PROVE  ErasureInv'
<1> USE DEF ErasureInv
<1>1. written' \in Nat /\ written <= written'
    BY DEF Grows, TrailTypes
<1>2. ASSUME NEW r \in rows'
      PROVE  \/ r \in rows
             \/ /\ r.nr = written + 1 /\ r.nr = written' /\ DOMAIN r = RowFields
                /\ r.op = "erase" => r.masked
    BY <1>2 DEF Grows
<1>3. TrailTypes'
    <2>1. ASSUME NEW c \in Slots PROVE call'[c].since \in Nat /\ call'[c].since <= written'
        <3>1. call[c].since \in Nat /\ call[c].since <= written /\ written \in Nat
            BY DEF TrailTypes
        <3>2. call'[c].since \in {call[c].since, 0}
            BY DEF ErasuresStand
        <3> QED
            BY <1>1, <3>1, <3>2
    <2>2. ASSUME NEW r \in rows' PROVE DOMAIN r = RowFields /\ r.nr \in Nat /\ r.nr <= written'
        BY <1>1, <1>2, <2>2 DEF TrailTypes
    <2>3. ASSUME NEW t \in tombs' PROVE t.since \in Nat /\ t.since <= written'
        <3>1. t.since \in Nat /\ t.since <= written /\ written \in Nat
            BY <2>3 DEF Grows, TrailTypes
        <3> QED
            BY <1>1, <3>1
    <2> QED
        BY <1>1, <2>1, <2>2, <2>3 DEF TrailTypes
<1>4. HandsInv'
    <2> SUFFICES ASSUME NEW c \in Slots, call'[c].pc \in {"naming", "commit"},
                        NEW r \in rows', r.nr <= call'[c].since
                 PROVE  /\ r.owner = call'[c].target => r.hidden \/ r.nr \in call'[c].mine
                        /\ call'[c].pc = "commit" =>
                              (r.names = call'[c].target /\ r.form = Url => r.masked \/ r.nr \in call'[c].naming)
        BY DEF HandsInv
    <2>1. /\ call'[c].pc = call[c].pc /\ call'[c].target = call[c].target
          /\ call'[c].since = call[c].since
          /\ call'[c].mine = call[c].mine /\ call'[c].naming = call[c].naming
        BY DEF ErasuresStand
    <2>2. r \in rows
        BY <1>2, <2>1 DEF TrailTypes
    <2> QED
        BY <2>1, <2>2 DEF HandsInv
<1>5. ErasedIsUnnamed'
    <2>1. tombs' = tombs
        BY DEF Grows
    <2>2. ASSUME NEW t \in tombs, NEW r \in rows', r.nr <= t.since
          PROVE  (r.owner = t.of => r.hidden) /\ (r.names = t.of /\ r.form = Url => r.masked)
        <3>1. t.since \in Nat /\ t.since <= written /\ written \in Nat
            BY DEF TrailTypes
        <3>2. r \in rows
            BY <1>2, <2>2, <3>1
        <3> QED
            BY <2>2, <3>2 DEF ErasedIsUnnamed
    <2>3. \A r \in rows' : r.op = "erase" => r.masked
        BY <1>2 DEF ErasedIsUnnamed
    <2> QED
        BY <2>1, <2>2, <2>3 DEF ErasedIsUnnamed
<1>6. TombInv'
    BY TombsStand
<1> QED
    BY <1>3, <1>4, <1>5, <1>6

LEMMA RowGrows ==
    ASSUME NEW owner, NEW names, NEW form, NEW masked \in BOOLEAN, NEW op, op = "erase" => masked,
           UNCHANGED tombs,
           Wrote(Row(owner, names, form, masked, op)) \/ Audit(Row(owner, names, form, masked, op))
    PROVE  Grows
<1> DEFINE row == Row(owner, names, form, masked, op)
<1>1. /\ DOMAIN row = RowFields /\ row.nr = written + 1 /\ row.op = op
      /\ row.masked = masked /\ row.hidden = FALSE
    BY DEF Row, NewRow, RowFields
<1>2. \/ UNCHANGED <<rows, written>>
      \/ written' = written + 1 /\ rows' = rows \cup {row}
    BY DEF Wrote, Audit
<1> HIDE DEF row
<1> QED
    BY <1>1, <1>2 DEF Grows

\* Requests that only move on, of whatever kind, leave the erasures where they are.
LEMMA QuietRequest ==
    ASSUME SettingsInv, ErasureInv, NEW c \in Slots,
           \/ Check(c) \/ Act(c) \/ KeycloakFails(c) \/ WriteAudit(c) \/ EraseNotFound(c)
           \/ EraseFails(c) \/ Close(c) \/ Finish(c)
    PROVE  ErasureInv' /\ Grows
<1> USE DEF SettingsInv, RealmInv, SlotTypes, SlotFields
<1>1. ASSUME Grows, call'[c].pc \notin {"naming", "commit"}, call'[c].since \in {call[c].since, 0},
             \A d \in Slots : d # c => call'[d] = call[d]
      PROVE  ErasureInv' /\ Grows
    BY <1>1, GrowsKeep DEF ErasuresStand
<1>2. CASE Check(c)
    <2>1. Grows
        BY <1>2 DEF Check, Grows, trail
    <2> QED
        BY <1>1, <1>2, <2>1 DEF Check, Goto
<1>3. ASSUME NEW pc \in {"audit", "finish"}, Changes(c, pc), UNCHANGED trail
      PROVE  ErasureInv' /\ Grows
    <2>1. Grows
        BY <1>3 DEF Grows, trail
    <2>2. ErasuresStand
        <3>1. /\ call'[c].pc = pc /\ call'[c].since = call[c].since
              /\ \A d \in Slots : d # c => /\ call'[d].pc = call[d].pc
                                           /\ call'[d].target = call[d].target
                                           /\ call'[d].since = call[d].since
                                           /\ call'[d].mine = call[d].mine
                                           /\ call'[d].naming = call[d].naming
            BY <1>3 DEF Changes
        <3> QED
            BY <3>1 DEF ErasuresStand
    <2> QED
        BY <2>1, <2>2, GrowsKeep
<1>4. CASE Act(c)
    BY <1>3, <1>4 DEF Act
<1>5. CASE KeycloakFails(c)
    <2>1. Grows
        BY <1>5 DEF KeycloakFails, Grows, trail
    <2>2. CASE Fails(c)
        BY <1>1, <2>1, <2>2 DEF Fails, Goto
    <2> QED
        BY <1>3, <1>5, <2>2 DEF KeycloakFails
<1>6. CASE WriteAudit(c)
    <2>1. call[c].op # "erase"
        BY <1>6 DEF WriteAudit, CallInv
    <2>2. UNCHANGED tombs /\ Audit(Row(call[c].who, call[c].target, Label, FALSE, call[c].op))
        BY <1>6 DEF WriteAudit
    <2>3. Grows
        BY <2>1, <2>2, RowGrows
    <2> QED
        BY <1>1, <1>6, <2>3 DEF WriteAudit, Succeeds
<1>7. CASE EraseNotFound(c) \/ EraseFails(c)
    <2>1. Grows
        BY <1>7 DEF EraseNotFound, EraseFails, Grows, trail
    <2> QED
        BY <1>1, <1>7, <2>1 DEF EraseNotFound, EraseFails, Unlocked
<1>8. ASSUME UNCHANGED tombs,
             Wrote(Resource(c)) \/ Audit(Resource(c)) \/ UNCHANGED <<rows, written>>
      PROVE  Grows
    <2>1. CASE UNCHANGED <<rows, written>>
        BY <1>8, <2>1 DEF Grows
    <2>2. CASE call[c].op = "erase" /\ (Wrote(Resource(c)) \/ Audit(Resource(c)))
        <3>1. Resource(c) = Row(call[c].who, IF call[c].ok THEN call[c].target ELSE Nobody, Url, TRUE,
                              "erase")
            BY <2>2 DEF Resource
        <3> QED
            BY <1>8, <2>2, <3>1, RowGrows
    <2>3. CASE call[c].op # "erase" /\ (Wrote(Resource(c)) \/ Audit(Resource(c)))
        <3>1. Resource(c) = Row(call[c].who, call[c].target, Url, FALSE, call[c].op)
            BY <2>3 DEF Resource
        <3> QED
            BY <1>8, <2>3, <3>1, RowGrows
    <2> QED
        BY <1>8, <2>1, <2>2, <2>3
<1>9. CASE Close(c)
    <2>1. Grows
        BY <1>8, <1>9 DEF Close
    <2>2. ErasuresStand
        <3>1. call' = [call EXCEPT ![c].logged = TRUE]
            BY <1>9 DEF Close
        <3> QED
            BY <3>1 DEF ErasuresStand
    <2> QED
        BY <2>1, <2>2, GrowsKeep
<1>10. CASE Finish(c)
    <2>1. Grows
        BY <1>8, <1>10 DEF Finish
    <2> QED
        BY <1>1, <1>10, <2>1 DEF Finish, Free
<1> QED
    BY <1>2, <1>4, <1>5, <1>6, <1>7, <1>9, <1>10

LEMMA BeginErasure ==
    ASSUME SettingsInv, ErasureInv, NEW c \in Slots, NEW who, NEW op, NEW target,
           Begin(c, who, op, target)
    PROVE  ErasureInv' /\ Grows
<1>1. Grows
    BY DEF Begin, Grows, trail
<1>2. /\ call'[c].pc = FirstStep(who, op, target) /\ call'[c].since = 0
      /\ \A d \in Slots : d # c => call'[d] = call[d]
    BY DEF Begin, Free, SettingsInv, RealmInv, SlotTypes, SlotFields
<1>3. FirstStep(who, op, target) \notin {"naming", "commit"}
    BY DEF FirstStep
<1> QED
    BY <1>1, <1>2, <1>3, GrowsKeep DEF ErasuresStand

\* Each statement takes in hand what is in the trail at that moment.
LEMMA StatementsKeep ==
    ASSUME SettingsInv, ErasureInv, NEW c \in Slots, EraseOwned(c) \/ EraseNaming(c)
    PROVE  ErasureInv'
<1> USE DEF ErasureInv
<1>1. UNCHANGED trail
    BY DEF EraseOwned, EraseNaming
<1>2. \A r \in rows : /\ r.owner = call[c].target => r.hidden \/ r.nr \in Owned(call[c].target)
                      /\ r.names = call[c].target /\ r.form = Url => r.masked \/ r.nr \in Naming(call[c].target)
    BY DEF Owned, Naming, Numbers
<1>3. CASE EraseOwned(c)
    <2>1. /\ call'[c].pc = "naming" /\ call'[c].mine = Owned(call[c].target)
          /\ call'[c].since = written /\ call'[c].target = call[c].target
          /\ \A d \in Slots : d # c => call'[d] = call[d]
        BY <1>3 DEF EraseOwned, Wanted, SettingsInv, RealmInv, SlotTypes, SlotFields
    <2>2. TrailTypes'
        BY <1>1, <2>1 DEF TrailTypes, trail
    <2>3. HandsInv'
        BY <1>1, <1>2, <2>1 DEF HandsInv, trail
    <2>4. NumberInv' /\ CountInv'
        BY <1>1 DEF TombInv, NumberInv, CountInv, TombsOf, Hidden, trail
    <2>5. \A d \in Slots : d # c => call[d].mine \cap Owned(call[c].target) = {}
        BY <1>3 DEF EraseOwned, Wanted, Locked
    <2>6. MineInv'
        BY <1>1, <2>1, <2>5 DEF TombInv, MineInv, Erases, Owned, trail
    <2> QED
        BY <1>1, <2>2, <2>3, <2>4, <2>6 DEF TombInv, ErasedIsUnnamed, trail
<1>4. CASE EraseNaming(c)
    <2>1. /\ call[c].pc = "naming" /\ call'[c].pc = "commit"
          /\ call'[c].naming = Naming(call[c].target) /\ call'[c].mine = call[c].mine
          /\ call'[c].since = call[c].since /\ call'[c].target = call[c].target
          /\ \A d \in Slots : d # c => call'[d] = call[d]
        BY <1>4 DEF EraseNaming, Wanted, SettingsInv, RealmInv, SlotTypes, SlotFields
    <2>2. TrailTypes'
        BY <1>1, <2>1 DEF TrailTypes, trail
    <2>3. HandsInv'
        BY <1>1, <1>2, <2>1 DEF HandsInv, trail
    <2>4. NumberInv' /\ CountInv'
        BY <1>1 DEF TombInv, NumberInv, CountInv, TombsOf, Hidden, trail
    <2>5. MineInv'
        BY <1>1, <2>1 DEF TombInv, MineInv, Erases, Owned, trail
    <2> QED
        BY <1>1, <2>2, <2>3, <2>4, <2>5 DEF TombInv, ErasedIsUnnamed, trail
<1> QED
    BY <1>3, <1>4

\* The tombstone counts what the commit makes anonymous: it was still to be seen under the name of
\* the person, and no row is made anonymous twice.
LEMMA TombsCount ==
    ASSUME SettingsInv, TrailTypes, TombInv, NEW c \in Slots, EraseCommit(c)
    PROVE  TombInv'
<1> DEFINE mine == call[c].mine
           p == call[c].target
           new(r) == [r EXCEPT !.hidden = @ \/ r.nr \in mine,
                               !.masked = @ \/ r.nr \in call[c].naming]
           t == Tombstone(c)
<1> USE DEF TombInv
<1>1. /\ Erases(c) /\ rows' = {new(r) : r \in rows} /\ tombs' = tombs \cup {t}
      /\ Unlocked(c, TRUE)
    BY DEF EraseCommit, Rewritten, Erases
<1>2. \A d \in Slots : Erases(d)' => d # c /\ call'[d] = call[d]
    BY <1>1 DEF Unlocked, Erases, SettingsInv, RealmInv, SlotTypes, SlotFields
<1>3. ASSUME NEW r \in rows
      PROVE  /\ new(r).nr = r.nr /\ new(r).owner = r.owner
             /\ new(r).hidden = (r.hidden \/ r.nr \in mine)
    <2>1. DOMAIN r = RowFields
        BY DEF TrailTypes
    <2> QED
        BY <2>1 DEF RowFields
<1> HIDE DEF new
<1>4. mine \subseteq Owned(p) /\ IsFiniteSet(mine) /\ Cardinality(mine) \in Nat
    <2>1. mine \subseteq Owned(p)
        BY <1>1 DEF MineInv
    <2> QED
        BY <2>1, NumberedAreFinite, FS_Subset, FS_CardinalityType
<1>5. t.of = p /\ t.deleted = Cardinality(mine) /\ t.nr = Cardinality(tombs) + 1
    BY DEF Tombstone, Counted
<1> HIDE DEF t
<1>6. Cardinality(tombs) \in Nat /\ t \notin tombs
    <2>1. Cardinality(tombs) \in Nat
        BY FS_CardinalityType DEF NumberInv
    <2>2. ASSUME t \in tombs PROVE FALSE
        <3>1. t.nr <= Cardinality(tombs)
            BY <2>2 DEF NumberInv
        <3> QED
            BY <1>5, <2>1, <3>1
    <2> QED
        BY <2>1, <2>2
<1>7. NumberInv'
    <2>1. IsFiniteSet(rows')
        <3> DEFINE f == [r \in rows |-> new(r)]
        <3>1. f \in Surjection(rows, rows')
            BY <1>1 DEF Surjection
        <3> QED
            BY <3>1, FS_Surjection DEF NumberInv
    <2>2. \A q, s \in rows' : q.nr = s.nr => q = s
        BY <1>1, <1>3 DEF NumberInv
    <2>3. IsFiniteSet(tombs') /\ Cardinality(tombs') = Cardinality(tombs) + 1
        BY <1>1, <1>6, FS_AddElement DEF NumberInv
    <2>4. ASSUME NEW u \in tombs'
          PROVE  u.deleted \in Nat /\ u.nr \in Nat /\ u.nr <= Cardinality(tombs')
        <3>1. CASE u \in tombs
            <4>1. u.deleted \in Nat /\ u.nr \in Nat /\ u.nr <= Cardinality(tombs)
                BY <3>1 DEF NumberInv
            <4> QED
                BY <1>6, <2>3, <4>1
        <3>2. CASE u = t
            BY <1>4, <1>5, <1>6, <2>3, <3>2
        <3> QED
            BY <1>1, <3>1, <3>2
    <2> QED
        BY <2>1, <2>2, <2>3, <2>4 DEF NumberInv
<1>8. ASSUME NEW d \in Slots, Erases(d)'
      PROVE  /\ call'[d].mine \subseteq Owned(call[d].target)'
             /\ \A e \in Slots : e # d /\ Erases(e)' => call'[d].mine \cap call'[e].mine = {}
    <2>1. \A e \in Slots : Erases(e)' => e # c /\ Erases(e) /\ call'[e] = call[e]
        BY <1>2 DEF Erases
    <2>2. call[d].mine \subseteq Owned(call[d].target) /\ call[d].mine \cap mine = {}
        BY <1>1, <1>8, <2>1 DEF MineInv
    <2>3. ASSUME NEW n \in call[d].mine
          PROVE  \E q \in rows' : q.nr = n /\ q.owner = call[d].target /\ ~q.hidden
        <3>1. PICK r \in rows : r.nr = n /\ r.owner = call[d].target /\ ~r.hidden
            BY <2>2, <2>3 DEF Owned, Numbers
        <3>2. new(r) \in rows' /\ r.nr \notin mine
            BY <1>1, <2>2, <2>3, <3>1
        <3> QED
            BY <1>3, <3>1, <3>2
    <2>4. call'[d].mine \subseteq Owned(call[d].target)'
        BY <1>8, <2>1, <2>3 DEF Owned, Numbers
    <2> QED
        BY <1>8, <2>1, <2>4 DEF MineInv
<1>9. ASSUME NEW o
      PROVE  Hidden(o)' = IF o = p THEN Hidden(o) \cup mine ELSE Hidden(o)
    <2>1. \A r \in rows : r.nr \in mine => r.owner = p
        BY <1>4 DEF Owned, Numbers, NumberInv
    <2>2. \A n \in mine : \E r \in rows : r.nr = n /\ r.owner = p
        BY <1>4 DEF Owned, Numbers
    <2>3. ASSUME NEW n
          PROVE  n \in Hidden(o)' <=> \E q \in rows' : q.nr = n /\ q.owner = o /\ q.hidden
        BY DEF Hidden, Numbers
    <2>4. ASSUME NEW n
          PROVE  n \in Hidden(o)' <=> \E r \in rows : /\ r.nr = n /\ r.owner = o
                                                      /\ r.hidden \/ r.nr \in mine
        <3>1. ASSUME NEW q \in rows', q.nr = n, q.owner = o, q.hidden
              PROVE  \E r \in rows : r.nr = n /\ r.owner = o /\ (r.hidden \/ r.nr \in mine)
            <4>1. PICK r \in rows : q = new(r)
                BY <1>1, <3>1
            <4>2. new(r).hidden = (r.hidden \/ r.nr \in mine)
                BY <1>3
            <4>3. r.hidden \/ r.nr \in mine
                BY <3>1, <4>1, <4>2
            <4> QED
                BY <1>3, <3>1, <4>1, <4>3
        <3>2. ASSUME NEW r \in rows, r.nr = n, r.owner = o, r.hidden \/ r.nr \in mine
              PROVE  \E q \in rows' : q.nr = n /\ q.owner = o /\ q.hidden
            <4>1. new(r) \in rows' /\ new(r).hidden = (r.hidden \/ r.nr \in mine)
                BY <1>1, <1>3
            <4>2. new(r).hidden
                BY <3>2, <4>1
            <4> QED
                BY <1>3, <3>2, <4>1, <4>2
        <3> QED
            BY <2>3, <3>1, <3>2
    <2>5. ASSUME NEW n
          PROVE  n \in Hidden(o) <=> \E r \in rows : r.nr = n /\ r.owner = o /\ r.hidden
        BY DEF Hidden, Numbers
    <2>6. ASSUME NEW n
          PROVE  n \in Hidden(o)' <=> n \in Hidden(o) \/ (o = p /\ n \in mine)
        BY <2>1, <2>2, <2>4, <2>5
    <2> QED
        BY <2>6
<1>10. Hidden(p) \cap mine = {}
    BY <1>4 DEF Hidden, Owned, Numbers, NumberInv
<1>11. ASSUME NEW o \in People
       PROVE  Cardinality(Blocks(TombsOf(o)')) = Cardinality(Hidden(o)')
    <2>1. Cardinality(Blocks(TombsOf(o))) = Cardinality(Hidden(o))
        BY DEF CountInv
    <2>2. CASE o # p
        <3>1. TombsOf(o)' = TombsOf(o)
            BY <1>1, <1>5, <2>2 DEF TombsOf
        <3> QED
            BY <1>9, <2>1, <2>2, <3>1
    <2>3. CASE o = p
        <3>1. TombsOf(o)' = TombsOf(o) \cup {t} /\ t \notin TombsOf(o)
            BY <1>1, <1>5, <1>6, <2>3 DEF TombsOf
        <3>2. IsFiniteSet(TombsOf(o)) /\ IsFiniteSet(Hidden(o))
            BY NumberedAreFinite
        <3>3. \A u \in TombsOf(o) \cup {t} : u.deleted \in Nat
            BY <1>4, <1>5 DEF TombsOf, NumberInv
        <3>4. Cardinality(Blocks(TombsOf(o) \cup {t})) = Cardinality(Blocks(TombsOf(o))) + t.deleted
            BY <3>1, <3>2, <3>3, BlocksAdd
        <3>5. Cardinality(Hidden(o) \cup mine)
                = Cardinality(Hidden(o)) + Cardinality(mine) - Cardinality(Hidden(o) \cap mine)
            BY <1>4, <3>2, FS_Union
        <3>6. Cardinality(Hidden(o) \cap mine) = 0 /\ Cardinality(Hidden(o)) \in Nat
            BY <1>10, <2>3, <3>2, FS_EmptySet, FS_CardinalityType
        <3>7. \A m, n \in Nat : m + n - 0 = m + n
            OBVIOUS
        <3>8. Cardinality(Hidden(o) \cup mine) = Cardinality(Hidden(o)) + Cardinality(mine)
            BY <1>4, <3>5, <3>6, <3>7
        <3> QED
            BY <1>5, <1>9, <2>1, <2>3, <3>1, <3>4, <3>8
    <2> QED
        BY <2>2, <2>3
<1> QED
    BY <1>7, <1>8, <1>11 DEF MineInv, CountInv

\* The commit makes anonymous what the erasure has in hand, and takes nothing back.
LEMMA CommitKeeps ==
    ASSUME SettingsInv, ErasureInv, NEW c \in Slots, EraseCommit(c)
    PROVE  ErasureInv'
<1> USE DEF ErasureInv
<1>1. /\ call[c].pc = "commit" /\ rows' = Rewritten(c) /\ tombs' = tombs \cup {Tombstone(c)}
      /\ written' = written /\ Unlocked(c, TRUE)
    BY DEF EraseCommit
<1>2. /\ call'[c].pc = "finish" /\ call'[c].since = call[c].since
      /\ \A d \in Slots : d # c => call'[d] = call[d]
    BY <1>1 DEF Unlocked, SettingsInv, RealmInv, SlotTypes, SlotFields
<1>3. ASSUME NEW q \in rows'
      PROVE  \E r \in rows :
                /\ DOMAIN q = RowFields /\ q.nr = r.nr /\ q.owner = r.owner
                /\ q.names = r.names /\ q.form = r.form /\ q.op = r.op
                /\ (r.hidden => q.hidden) /\ (r.masked => q.masked)
                /\ (r.nr \in call[c].mine => q.hidden) /\ (r.nr \in call[c].naming => q.masked)
    <2>1. PICK r \in rows : q = [r EXCEPT !.hidden = @ \/ r.nr \in call[c].mine,
                                          !.masked = @ \/ r.nr \in call[c].naming]
        BY <1>1, <1>3 DEF Rewritten
    <2>2. DOMAIN r = RowFields
        BY DEF TrailTypes
    <2> QED
        BY <2>1, <2>2 DEF RowFields
<1>4. Tombstone(c).of = call[c].target /\ Tombstone(c).since = call[c].since
    BY DEF Tombstone
<1>5. TrailTypes'
    <2>1. \A q \in rows' : DOMAIN q = RowFields /\ q.nr \in Nat /\ q.nr <= written
        BY <1>3 DEF TrailTypes
    <2>2. \A t \in tombs' : t.since \in Nat /\ t.since <= written
        BY <1>1, <1>4 DEF TrailTypes
    <2> QED
        BY <1>1, <1>2, <2>1, <2>2 DEF TrailTypes
<1>6. HandsInv'
    <2> SUFFICES ASSUME NEW d \in Slots, d # c, NEW q \in rows', q.nr <= call[d].since
                 PROVE  /\ call[d].pc \in {"naming", "commit"} =>
                              (q.owner = call[d].target => q.hidden \/ q.nr \in call[d].mine)
                        /\ call[d].pc = "commit" =>
                              (q.names = call[d].target /\ q.form = Url => q.masked \/ q.nr \in call[d].naming)
        BY <1>2 DEF HandsInv
    <2> QED
        BY <1>3 DEF HandsInv
<1>7. ErasedIsUnnamed'
    <2>1. ASSUME NEW t \in tombs', NEW q \in rows', q.nr <= t.since
          PROVE  (q.owner = t.of => q.hidden) /\ (q.names = t.of /\ q.form = Url => q.masked)
        <3>1. CASE t \in tombs
            BY <1>3, <2>1, <3>1 DEF ErasedIsUnnamed
        <3>2. CASE t = Tombstone(c)
            BY <1>1, <1>3, <1>4, <2>1, <3>2 DEF HandsInv
        <3> QED
            BY <1>1, <3>1, <3>2
    <2>2. \A q \in rows' : q.op = "erase" => q.masked
        BY <1>3 DEF ErasedIsUnnamed
    <2> QED
        BY <2>1, <2>2 DEF ErasedIsUnnamed
<1>8. TombInv'
    BY TombsCount
<1> QED
    BY <1>5, <1>6, <1>7, <1>8

LEMMA StillKeeps ==
    ASSUME ErasureInv, Grows, UNCHANGED call
    PROVE  ErasureInv'
BY GrowsKeep DEF ErasuresStand

\* What a report leaves in the trail is a row like any other.
LEMMA ReportsWrite ==
    ASSUME ErasureInv, ReportsNext
    PROVE  ErasureInv' /\ Grows
<1>1. UNCHANGED call
    BY ReportsLookOn
<1>2. CASE \E a \in asks : Arrives(a) \/ Refuses(a)
    <2>1. PICK a \in asks : Arrives(a) \/ Refuses(a)
        BY <1>2
    <2>2. UNCHANGED tombs /\ Audit(Row(Viewer, Nobody, Url, FALSE, "report"))
        BY <2>1 DEF Arrives, Refuses, Answered
    <2>3. Grows
        <3>1. PICK op \in {"report"}, masked \in {FALSE} : TRUE
            OBVIOUS
        <3>2. op # "erase" /\ masked \in BOOLEAN
            BY <3>1
        <3>3. Audit(Row(Viewer, Nobody, Url, masked, op))
            BY <2>2, <3>1
        <3> QED
            BY <2>2, <3>2, <3>3, RowGrows
    <2> QED
        BY <1>1, <2>3, StillKeeps
<1>3. CASE ~\E a \in asks : Arrives(a) \/ Refuses(a)
    <2>1. UNCHANGED trail
        <3> USE DEF accounts
        <3>1. CASE Tick
            BY <3>1 DEF Tick
        <3>2. CASE Reload
            BY <3>2 DEF Reload, AskAgain
        <3>3. CASE \E a \in asks : ReadAudit(a) \/ ReadErasure(a) \/ QueryFails(a)
            BY <3>3 DEF ReadAudit, ReadErasure, QueryFails
        <3>4. CASE \E d \in Picks : SetFrom(d) \/ SetTo(d)
            BY <3>4 DEF SetFrom, SetTo, AskAgain
        <3> QED
            BY <1>3, <3>1, <3>2, <3>3, <3>4 DEF ReportsNext
    <2> QED
        BY <1>1, <2>1, StillKeeps DEF Grows, trail
<1> QED
    BY <1>2, <1>3

LEMMA ErasureInSteps ==
    ASSUME SettingsInv, ErasureInv, [Next]_<<elsewhere, board>>
    PROVE  ErasureInv'
<1>1. ASSUME UNCHANGED <<trail, call>> PROVE ErasureInv'
    BY <1>1, StillKeeps DEF Grows, trail
<1>2. CASE UNCHANGED elsewhere \/ BoardNext
    <2>1. UNCHANGED elsewhere
        BY <1>2, BoardLooksOn
    <2> QED
        BY <1>1, <2>1 DEF elsewhere, accounts
<1>3. CASE ReportsNext
    BY <1>3, ReportsWrite
<1>4. ASSUME NEW c \in Slots, CallStep(c) \/ Finish(c)
      PROVE  ErasureInv'
    BY <1>4, QuietRequest, StatementsKeep, CommitKeeps DEF CallStep
<1>5. CASE AccountsNext
    <2>1. CASE \E p \in People : Renew(p)
        BY <1>1, <2>1 DEF Renew
    <2> QED
        BY <1>4, <1>5, <2>1, BeginErasure DEF AccountsNext
<1>6. CASE PageNext
    <2>1. CASE \E l \in loads : ReadUsers(l) \/ ReadMembers(l) \/ Loaded(l) \/ LoadFails(l)
        BY <1>1, <2>1 DEF ReadUsers, ReadMembers, Loaded, LoadFails, accounts
    <2>2. CASE \/ Refresh \/ CloseDialog
               \/ \E op \in {"assign", "remove", "disable"}, p \in People : OpenDialog(op, p)
        BY <1>1, <2>2 DEF Refresh, CloseDialog, OpenDialog, accounts
    <2>3. ASSUME NEW c \in Slots, Confirm(c) \/ \E p \in People : SetEnabled(c, p)
          PROVE  ErasureInv'
        BY <2>3, BeginErasure DEF Confirm, SetEnabled, RunAction
    <2>4. ASSUME NEW c \in Slots, Returns(c)
          PROVE  ErasureInv'
        BY <1>4, <2>4 DEF Returns
    <2> QED
        BY <1>6, <2>1, <2>2, <2>3, <2>4 DEF PageNext
<1> QED
    BY <1>2, <1>3, <1>5, <1>6 DEF Next

LEMMA ErasureInit == Init => ErasureInv
<1> SUFFICES ASSUME Init PROVE ErasureInv
    OBVIOUS
<1> USE DEF Init, AccountsInit
<1>1. rows \subseteq FirstRows /\ written = Cardinality(rows) /\ tombs = {}
    OBVIOUS
<1>2. \A c \in Slots : call[c].pc = "free" /\ call[c].since = 0
    BY DEF Free
<1>3. written \in Nat /\ \A r \in rows : r.nr \in Nat /\ r.nr <= written /\ DOMAIN r = RowFields
    <2>1. CASE rows = FirstRows
        <3>1. written = Cardinality(FirstRows) /\ Cardinality(FirstRows) \in Nat
            BY <1>1, <2>1, AccountsStart, FS_CardinalityType
        <3>2. \A r \in rows : r.nr \in 1 .. Cardinality(FirstRows) /\ DOMAIN r = RowFields
            BY <2>1, AccountsStart DEF RowFields
        <3> QED
            BY <3>1, <3>2
    <2>2. CASE rows = {}
        BY <1>1, <2>2, FS_EmptySet
    <2> QED
        BY <2>1, <2>2
<1>4. TrailTypes
    BY <1>1, <1>2, <1>3 DEF TrailTypes
<1>5. HandsInv
    BY <1>2 DEF HandsInv
<1>6. ErasedIsUnnamed
    BY <1>1, AccountsStart DEF ErasedIsUnnamed
<1>7. NumberInv
    BY <1>1, AccountsStart, FS_Subset, FS_EmptySet DEF NumberInv
<1>8. MineInv
    BY <1>2 DEF MineInv, Erases
<1>9. CountInv
    <2>1. \A p : TombsOf(p) = {} /\ Hidden(p) = {} /\ Blocks({}) = {}
        BY <1>1, AccountsStart DEF TombsOf, Hidden, Numbers, Blocks
    <2> QED
        BY <2>1 DEF CountInv
<1> QED
    BY <1>4, <1>5, <1>6, <1>7, <1>8, <1>9 DEF ErasureInv, TombInv

\* An erasure under way holds, of what was in the trail when it began, all rows of the
\* person and all URLs that name the person, but for those another one is making anonymous.
THEOREM ErasureInvariant == Spec => []ErasureInv
<1>1. SettingsInv /\ ErasureInv /\ [Next]_<<elsewhere, board>> => ErasureInv'
    BY ErasureInSteps
<1> QED
    BY <1>1, ErasureInit, SettingsInvariant, PTL DEF Spec

\* Of what was in the trail when the erasure of a person began no row is theirs and no URL names
\* them, and no row about an erasure names anybody, whatever comes in meanwhile, fails or is given
\* up (eraseUser, resourcePattern, AuditMiddleware.resourceOf).
THEOREM ErasedStayUnnamed == Spec => []ErasedIsUnnamed
<1>1. ErasureInv => ErasedIsUnnamed
    BY DEF ErasureInv
<1> QED
    BY <1>1, ErasureInvariant, PTL

\* Erasure is proof of itself: the tombstones of a person count exactly the rows that carry the
\* pseudonym, although rows come in while erasures run and erasures of one person meet, and no row
\* or URL that the erasure is able to rewrite still names the person (eraseUser).
THEOREM TombstonesAreProof == Spec => []ErasureIsProven
<1>1. ErasureInv => ErasureIsProven
    <2> SUFFICES ASSUME ErasureInv, NEW p \in People
                 PROVE  Sum({t \in tombs : t.of = p}, LAMBDA t : t.deleted)
                            = Cardinality({r \in rows : r.owner = p /\ r.hidden})
        BY DEF ErasureIsProven, TombstoneIsProof, ErasureInv
    <2>1. NumberInv /\ CountInv
        BY DEF ErasureInv, TombInv
    <2>2. IsFiniteSet(TombsOf(p)) /\ \A t \in TombsOf(p) : t.deleted \in Nat
        BY <2>1, NumberedAreFinite DEF NumberInv, TombsOf
    <2>3. Sum(TombsOf(p), LAMBDA t : t.deleted) = Cardinality(Blocks(TombsOf(p)))
        BY <2>2, SumCountsBlocks
    <2>4. Cardinality(Blocks(TombsOf(p))) = Cardinality(Hidden(p))
        BY <2>1 DEF CountInv
    <2>5. Cardinality(Hidden(p)) = Cardinality({r \in rows : r.owner = p /\ r.hidden})
        BY <2>1, NumberedAreFinite
    <2> QED
        BY <2>3, <2>4, <2>5 DEF TombsOf
<1> QED
    BY <1>1, ErasureInvariant, PTL

-----------------------------------------------------------------------------
(* The report *)

\* What the clock has stamped: rows and tombstones carry numbers from 1 on, one for each.
StampInv ==
    /\ now \in Nat
    /\ rowTime \in Seq(Nat) /\ Len(rowTime) = written
    /\ tombTime \in Seq(Nat) /\ Len(tombTime) = Cardinality(tombs)
    /\ \A r \in rows : r.nr \in 1 .. written
    /\ \A k \in 1 .. written : \E r \in rows : r.nr = k
    /\ \A e \in tombs : e.nr \in 1 .. Cardinality(tombs)
    /\ \A e, f \in tombs : e.nr = f.nr => e = f
    /\ \A k \in 1 .. Cardinality(tombs) : \E e \in tombs : e.nr = k

\* The first n rows, or tombstones, by day and by action.
RowsTo(n, d) == {k \in 1 .. n : SqlDay(rowTime[k]) = d}
RowsBy(n, d, op) == {k \in RowsTo(n, d) : \E r \in rows : r.nr = k /\ r.op = op}
ErasedTo(n, d) == {k \in 1 .. n : SqlDay(tombTime[k]) = d}

InAudit(A, d, op) == IF d \in DOMAIN A /\ op \in DOMAIN A[d] THEN A[d][op] ELSE 0
InErasure(E, d) == IF d \in DOMAIN E THEN Cardinality(E[d]) ELSE 0

\* Both answers are of a moment at which there were n rows, or n tombstones.
AuditIs(A, n, f, t) ==
    /\ \A d \in DOMAIN A : DOMAIN A[d] \subseteq {r.op : r \in rows}
    /\ \A d \in f .. t : \A op : InAudit(A, d, op) = Cardinality(RowsBy(n, d, op))
ErasureIs(E, n, f, t) ==
    /\ DOMAIN E \subseteq f .. t
    /\ \A d \in f .. t : InErasure(E, d) = Cardinality(ErasedTo(n, d))
AuditSince(A, n, f, t) == \E m \in n .. written : AuditIs(A, m, f, t)
ErasureSince(E, n, f, t) == \E m \in n .. Cardinality(tombs) : ErasureIs(E, m, f, t)

AskFields == {"nr", "from", "to", "asked", "audit", "erasure"}

\* An answer is of a moment after the question, and what counts is about the days in the inputs.
AskInv ==
    /\ latest \in Nat /\ from \in Int /\ to \in Int
    /\ \A a \in asks :
          /\ DOMAIN a = AskFields /\ a.nr \in Nat /\ a.nr <= latest
          /\ a.from \in Int /\ a.to \in Int
          /\ a.nr = latest => a.from = from /\ a.to = to
          /\ a.asked.rows \in Nat /\ a.asked.rows <= written
          /\ a.asked.tombs \in Nat /\ a.asked.tombs <= Cardinality(tombs)
          /\ a.audit # NoReport => AuditSince(a.audit[1], a.asked.rows, a.from, a.to)
          /\ a.erasure # NoReport => ErasureSince(a.erasure[1], a.asked.tombs, a.from, a.to)

ShownInv ==
    report # NoReport =>
       /\ report.asked.rows \in Nat /\ report.asked.tombs \in Nat
       /\ report.period[1] \in Int /\ report.period[2] \in Int
       /\ AuditSince(report.audit, report.asked.rows, report.period[1], report.period[2])
       /\ ErasureSince(report.erasure, report.asked.tombs, report.period[1], report.period[2])
       /\ ~busy /\ problem = "none" => report.period = <<from, to>>

ReportInv == StampInv /\ AskInv /\ ShownInv

\* What a step does to the trail: a row comes in, or rows are made anonymous under a new tombstone.
Rewrites ==
    /\ UNCHANGED written
    /\ \A r \in rows : \E q \in rows' : q.nr = r.nr /\ q.op = r.op
    /\ \A q \in rows' : \E r \in rows : q.nr = r.nr /\ q.op = r.op
    /\ \E e : tombs' = tombs \cup {e} /\ e.nr = Cardinality(tombs) + 1

LEMMA CommitRewrites ==
    ASSUME TrailTypes, NEW c \in Slots, EraseCommit(c)
    PROVE  Rewrites
<1>1. /\ rows' = Rewritten(c) /\ tombs' = tombs \cup {Tombstone(c)} /\ written' = written
    BY DEF EraseCommit
<1>2. Tombstone(c).nr = Cardinality(tombs) + 1
    BY DEF Tombstone
<1> DEFINE new(r) == [r EXCEPT !.hidden = @ \/ r.nr \in call[c].mine,
                               !.masked = @ \/ r.nr \in call[c].naming]
<1>3. rows' = {new(r) : r \in rows}
    BY <1>1 DEF Rewritten
<1>4. \A r \in rows : new(r).nr = r.nr /\ new(r).op = r.op
    BY DEF TrailTypes, RowFields
<1> HIDE DEF new
<1> QED
    BY <1>1, <1>2, <1>3, <1>4 DEF Rewrites

LEMMA StampAdded ==
    ASSUME NEW s \in Seq(Nat), NEW x \in Nat
    PROVE  /\ Append(s, x) \in Seq(Nat) /\ Len(Append(s, x)) = Len(s) + 1
           /\ \A k \in 1 .. Len(s) : Append(s, x)[k] = s[k]
OBVIOUS

\* Rows and tombstones get the time at which they come in.
LEMMA StampsKeep ==
    ASSUME ErasureInv, StampInv, Grows \/ Rewrites, Stamped
    PROVE  /\ StampInv'
           /\ written <= written' /\ Cardinality(tombs) <= Cardinality(tombs')
           /\ \A k \in 1 .. written : rowTime'[k] = rowTime[k]
           /\ \A k \in 1 .. Cardinality(tombs) : tombTime'[k] = tombTime[k]
<1>1. written \in Nat /\ Cardinality(tombs) \in Nat /\ IsFiniteSet(tombs)
    BY FS_CardinalityType DEF ErasureInv, TrailTypes, TombInv, NumberInv
<1>2. now' = now /\ now \in Nat
    BY DEF Stamped, StampInv
<1>3. /\ rowTime' \in Seq(Nat) /\ Len(rowTime') = written' /\ written <= written'
      /\ \A k \in 1 .. written : rowTime'[k] = rowTime[k]
    <2>1. CASE written' = written + 1
        <3>1. rowTime' = Append(rowTime, now)
            BY <1>1, <2>1 DEF Stamped
        <3>2. rowTime \in Seq(Nat) /\ Len(rowTime) = written
            BY DEF StampInv
        <3> QED
            BY <1>1, <1>2, <2>1, <3>1, <3>2, StampAdded
    <2>2. CASE written' = written
        BY <1>1, <2>2 DEF Stamped, StampInv
    <2> QED
        BY <2>1, <2>2 DEF Grows, Rewrites
<1>4. CASE Grows
    <2>1. tombs' = tombs /\ tombTime' = tombTime
        BY <1>4 DEF Grows, Stamped
    <2>2. /\ \A r \in rows' : r.nr \in 1 .. written'
          /\ \A k \in 1 .. written' : \E r \in rows' : r.nr = k
        <3>1. CASE UNCHANGED <<rows, written>>
            BY <3>1 DEF StampInv
        <3>2. ASSUME NEW row, rows' = rows \cup {row}, row.nr = written + 1, written' = written + 1
              PROVE  (\A r \in rows' : r.nr \in 1 .. written')
                     /\ (\A k \in 1 .. written' : \E r \in rows' : r.nr = k)
            <4>1. \A k : k \in 1 .. written' <=> k \in 1 .. written \/ k = written + 1
                BY <1>1, <3>2
            <4> QED
                BY <3>2, <4>1 DEF StampInv
        <3> QED
            BY <1>4, <3>1, <3>2 DEF Grows
    <2> QED
        BY <1>1, <1>2, <1>3, <2>1, <2>2 DEF StampInv
<1>5. CASE Rewrites
    <2>1. PICK e : tombs' = tombs \cup {e} /\ e.nr = Cardinality(tombs) + 1
        BY <1>5 DEF Rewrites
    <2>2. \A f \in tombs : f.nr # e.nr
        BY <1>1, <2>1 DEF StampInv
    <2>3. e \notin tombs
        BY <2>2
    <2>4. Cardinality(tombs') = Cardinality(tombs) + 1
        BY <1>1, <2>1, <2>3, FS_AddElement
    <2>5. tombTime' = Append(tombTime, now)
        BY <2>1, <2>3 DEF Stamped
    <2>6. /\ tombTime' \in Seq(Nat) /\ Len(tombTime') = Cardinality(tombs')
          /\ \A k \in 1 .. Cardinality(tombs) : tombTime'[k] = tombTime[k]
        <3>1. tombTime \in Seq(Nat) /\ Len(tombTime) = Cardinality(tombs)
            BY DEF StampInv
        <3> QED
            BY <1>2, <2>4, <2>5, <3>1, StampAdded
    <2>7. \A f \in tombs' : f.nr \in 1 .. Cardinality(tombs')
        <3>1. \A k : k \in 1 .. Cardinality(tombs')
                     <=> k \in 1 .. Cardinality(tombs) \/ k = Cardinality(tombs) + 1
            BY <1>1, <2>4
        <3> QED
            BY <2>1, <3>1 DEF StampInv
    <2>8. \A k \in 1 .. Cardinality(tombs') : \E f \in tombs' : f.nr = k
        <3>1. \A k : k \in 1 .. Cardinality(tombs')
                     <=> k \in 1 .. Cardinality(tombs) \/ k = Cardinality(tombs) + 1
            BY <1>1, <2>4
        <3> QED
            BY <2>1, <3>1 DEF StampInv
    <2>9. \A f, g \in tombs' : f.nr = g.nr => f = g
        BY <2>1, <2>2 DEF StampInv
    <2>10. /\ \A r \in rows' : r.nr \in 1 .. written'
           /\ \A k \in 1 .. written' : \E r \in rows' : r.nr = k
        BY <1>5 DEF Rewrites, StampInv
    <2>11. Cardinality(tombs) <= Cardinality(tombs')
        BY <1>1, <2>4
    <2>12. StampInv'
        BY <1>2, <1>3, <2>6, <2>7, <2>8, <2>9, <2>10 DEF StampInv
    <2> QED
        BY <1>3, <2>6, <2>11, <2>12
<1> QED
    BY <1>4, <1>5

\* An answer stays one of its moment, whatever comes in or is made anonymous later.
LEMMA AnswersLast ==
    ASSUME ErasureInv, StampInv, Grows \/ Rewrites, Stamped, NEW A, NEW n \in Nat, NEW f, NEW t
    PROVE  /\ AuditSince(A, n, f, t) => AuditSince(A, n, f, t)'
           /\ ErasureSince(A, n, f, t) => ErasureSince(A, n, f, t)'
<1>1. /\ written <= written' /\ Cardinality(tombs) <= Cardinality(tombs')
      /\ \A k \in 1 .. written : rowTime'[k] = rowTime[k]
      /\ \A k \in 1 .. Cardinality(tombs) : tombTime'[k] = tombTime[k]
      /\ StampInv'
    BY StampsKeep
<1>2. /\ written \in Nat /\ Cardinality(tombs) \in Nat
      /\ written' \in Nat /\ Cardinality(tombs') \in Nat
    <2>1. Len(rowTime') \in Nat /\ Len(tombTime') \in Nat
        BY <1>1 DEF StampInv
    <2> QED
        BY <1>1, <2>1, FS_CardinalityType DEF StampInv, ErasureInv, TrailTypes, TombInv, NumberInv
<1>3. ASSUME NEW m \in n .. written, AuditIs(A, m, f, t)
      PROVE  m \in n .. written' /\ AuditIs(A, m, f, t)'
    <2>1. m \in n .. written' /\ m \in Nat /\ m <= written
        BY <1>1, <1>2, <1>3
    <2>2. \A k \in 1 .. m : k \in 1 .. written
        BY <1>2, <2>1
    <2>3. ASSUME NEW k \in 1 .. m, NEW op
          PROVE  (\E r \in rows' : r.nr = k /\ r.op = op) <=> (\E r \in rows : r.nr = k /\ r.op = op)
        <3>1. CASE Rewrites
            BY <3>1 DEF Rewrites
        <3>2. CASE Grows
            <4>1. k # written + 1
                BY <1>2, <2>2
            <4> QED
                BY <3>2, <4>1 DEF Grows
        <3> QED
            BY <3>1, <3>2
    <2>4. ASSUME NEW d, NEW op
          PROVE  RowsBy(m, d, op)' = RowsBy(m, d, op)
        BY <1>1, <2>2, <2>3 DEF RowsBy, RowsTo, SqlDay
    <2>5. {r.op : r \in rows} \subseteq {r.op : r \in rows'}
        BY DEF Grows, Rewrites
    <2> QED
        BY <1>3, <2>1, <2>4, <2>5 DEF AuditIs, InAudit
<1>4. ASSUME NEW m \in n .. Cardinality(tombs), ErasureIs(A, m, f, t)
      PROVE  m \in n .. Cardinality(tombs') /\ ErasureIs(A, m, f, t)'
    <2>1. m \in n .. Cardinality(tombs') /\ m \in Nat /\ m <= Cardinality(tombs)
        BY <1>1, <1>2, <1>4
    <2>2. \A k \in 1 .. m : k \in 1 .. Cardinality(tombs)
        BY <1>2, <2>1
    <2>3. ASSUME NEW d
          PROVE  ErasedTo(m, d)' = ErasedTo(m, d)
        BY <1>1, <2>2 DEF ErasedTo, SqlDay
    <2> QED
        BY <1>4, <2>1, <2>3 DEF ErasureIs, InErasure
<1> QED
    BY <1>3, <1>4 DEF AuditSince, ErasureSince

\* A query counts every row there is on a day of its range.
LEMMA AuditRead ==
    ASSUME ErasureInv, StampInv, NEW f \in Int, NEW t \in Int
    PROVE  AuditIs(AuditByDay(f, t), written, f, t)
<1> DEFINE Day(r) == SqlDay(rowTime[r.nr])
           In == {r \in rows : Within(f, t, Day(r))}
           A == AuditByDay(f, t)
<1>1. /\ DOMAIN A = {Day(r) : r \in In}
      /\ \A d \in DOMAIN A : /\ DOMAIN A[d] = {r.op : r \in {q \in In : Day(q) = d}}
                             /\ \A op \in DOMAIN A[d] :
                                   A[d][op] = Cardinality({r \in {q \in In : Day(q) = d} : r.op = op})
    BY DEF AuditByDay
<1> HIDE DEF A
<1>2. ASSUME NEW d \in f .. t, NEW op
      PROVE  InAudit(A, d, op) = Cardinality(RowsBy(written, d, op))
    <2> DEFINE On == {r \in {q \in In : Day(q) = d} : r.op = op}
    <2>1. On = {r \in rows : Day(r) = d /\ r.op = op}
        BY <1>2 DEF Within
    <2>2. Numbers(On) = RowsBy(written, d, op)
        <3>1. \A r \in rows : r.nr \in 1 .. written
            BY DEF StampInv
        <3> QED
            BY <2>1, <3>1 DEF Numbers, RowsBy, RowsTo
    <2>3. Cardinality(On) = Cardinality(RowsBy(written, d, op))
        <3>1. IsFiniteSet(On) /\ \A r, s \in On : r.nr = s.nr => r = s
            <4>1. On \in SUBSET rows
                OBVIOUS
            <4> QED
                BY <4>1, FS_Subset DEF ErasureInv, TombInv, NumberInv
        <3> HIDE DEF On
        <3> QED
            BY <2>2, <3>1, NumbersCount
    <2>4. On # {} <=> d \in DOMAIN A /\ op \in DOMAIN A[d]
        BY <1>1
    <2>5. CASE On = {}
        BY <2>3, <2>4, <2>5, FS_EmptySet DEF InAudit
    <2>6. CASE On # {}
        BY <1>1, <2>3, <2>4, <2>6 DEF InAudit
    <2> QED
        BY <2>5, <2>6
<1>3. \A d \in DOMAIN A : DOMAIN A[d] \subseteq {r.op : r \in rows}
    BY <1>1
<1> QED
    BY <1>2, <1>3 DEF A, AuditIs

\* And every tombstone; database and service agree on the day.
LEMMA ErasureRead ==
    ASSUME ErasureInv, StampInv, NEW f \in Int, NEW t \in Int
    PROVE  ErasureIs(ErasureByDay(f, t), Cardinality(tombs), f, t)
<1> DEFINE n == Cardinality(tombs)
           In == {k \in DOMAIN tombTime : Within(f, t, SqlDay(tombTime[k]))}
           E == ErasureByDay(f, t)
<1>1. n \in Nat /\ IsFiniteSet(tombs)
    BY FS_CardinalityType DEF ErasureInv, TombInv, NumberInv
<1>2. DOMAIN tombTime = 1 .. n
    BY DEF StampInv
<1>3. /\ DOMAIN E = {SqlDay(tombTime[k]) : k \in In}
      /\ \A d \in DOMAIN E : E[d] = {e \in tombs : e.nr \in In /\ SqlDay(tombTime[e.nr]) = d}
    BY DEF ErasureByDay, SqlDay, BangkokDay
<1> HIDE DEF E
<1>4. DOMAIN E \subseteq f .. t
    <2>1. ASSUME NEW k \in In PROVE SqlDay(tombTime[k]) \in f .. t
        <3>1. tombTime[k] \in Nat
            BY <1>2 DEF StampInv
        <3>2. SqlDay(tombTime[k]) \in Int
            BY <3>1 DEF SqlDay
        <3> QED
            BY <3>2 DEF Within
    <2> QED
        BY <1>3, <2>1
<1>5. ASSUME NEW d \in f .. t
      PROVE  InErasure(E, d) = Cardinality(ErasedTo(n, d))
    <2> DEFINE On == {e \in tombs : e.nr \in In /\ SqlDay(tombTime[e.nr]) = d}
    <2>1. Numbers(On) = ErasedTo(n, d)
        <3>1. \A k \in 1 .. n : k \in In /\ SqlDay(tombTime[k]) = d <=> SqlDay(tombTime[k]) = d
            BY <1>2, <1>5 DEF Within
        <3>2. \A k \in 1 .. n : \E e \in tombs : e.nr = k
            BY DEF StampInv
        <3>3. \A e \in tombs : e.nr \in 1 .. n
            BY DEF StampInv
        <3> HIDE DEF In, n
        <3> QED
            BY <3>1, <3>2, <3>3 DEF Numbers, ErasedTo
    <2>2. Cardinality(On) = Cardinality(ErasedTo(n, d))
        <3>1. IsFiniteSet(On) /\ \A e, g \in On : e.nr = g.nr => e = g
            <4>1. On \in SUBSET tombs
                OBVIOUS
            <4> QED
                BY <1>1, <4>1, FS_Subset DEF StampInv
        <3> HIDE DEF On
        <3> QED
            BY <2>1, <3>1, NumbersCount
    <2>3. CASE d \in DOMAIN E
        BY <1>3, <2>2, <2>3 DEF InErasure
    <2>4. CASE d \notin DOMAIN E
        <3>1. On = {}
            BY <1>3, <2>4
        <3> QED
            BY <2>2, <2>4, <3>1, FS_EmptySet DEF InErasure
    <2> QED
        BY <2>3, <2>4
<1> QED
    BY <1>4, <1>5 DEF E, ErasureIs

-----------------------------------------------------------------------------
(* Steps of the report *)

LEMMA AccountsMove ==
    ASSUME SettingsInv, ErasureInv, AccountsNext \/ PageNext
    PROVE  Grows \/ Rewrites
<1>1. ASSUME UNCHANGED trail PROVE Grows
    BY <1>1 DEF Grows, trail
<1>2. ASSUME NEW c \in Slots, CallStep(c) \/ Finish(c)
      PROVE  Grows \/ Rewrites
    <2>1. CASE EraseCommit(c)
        BY <2>1, CommitRewrites DEF ErasureInv
    <2>2. CASE EraseOwned(c) \/ EraseNaming(c)
        BY <1>1, <2>2 DEF EraseOwned, EraseNaming
    <2> QED
        BY <1>2, <2>1, <2>2, QuietRequest DEF CallStep
<1>3. CASE AccountsNext
    <2>1. CASE \E p \in People : Renew(p)
        BY <1>1, <2>1 DEF Renew
    <2> QED
        BY <1>2, <1>3, <2>1, BeginErasure DEF AccountsNext
<1>4. CASE PageNext
    <2>1. CASE \E l \in loads : ReadUsers(l) \/ ReadMembers(l) \/ Loaded(l) \/ LoadFails(l)
        BY <1>1, <2>1 DEF ReadUsers, ReadMembers, Loaded, LoadFails, accounts
    <2>2. CASE \/ Refresh \/ CloseDialog
               \/ \E op \in {"assign", "remove", "disable"}, p \in People : OpenDialog(op, p)
        BY <1>1, <2>2 DEF Refresh, CloseDialog, OpenDialog, accounts
    <2>3. ASSUME NEW c \in Slots, Confirm(c) \/ \E p \in People : SetEnabled(c, p)
          PROVE  Grows
        BY <2>3, BeginErasure DEF Confirm, SetEnabled, RunAction
    <2>4. ASSUME NEW c \in Slots, Returns(c)
          PROVE  Grows \/ Rewrites
        BY <1>2, <2>4 DEF Returns
    <2> QED
        BY <1>4, <2>1, <2>2, <2>3, <2>4 DEF PageNext
<1> QED
    BY <1>3, <1>4

\* What every step leaves of the answers that were read.
AnswersStay ==
    /\ written' \in Nat /\ written <= written'
    /\ Cardinality(tombs') \in Nat /\ Cardinality(tombs) <= Cardinality(tombs')
    /\ \A A, f, t : \A n \in Nat :
          /\ AuditSince(A, n, f, t) => AuditSince(A, n, f, t)'
          /\ ErasureSince(A, n, f, t) => ErasureSince(A, n, f, t)'

LEMMA StampedStay ==
    ASSUME ErasureInv, StampInv, Grows \/ Rewrites, Stamped
    PROVE  StampInv' /\ AnswersStay
<1>1. /\ StampInv'
      /\ written <= written' /\ Cardinality(tombs) <= Cardinality(tombs')
    BY StampsKeep
<1>2. written' \in Nat /\ Cardinality(tombs') \in Nat
    <2>1. Len(rowTime') \in Nat /\ Len(tombTime') \in Nat
        BY <1>1 DEF StampInv
    <2> QED
        BY <1>1, <2>1 DEF StampInv
<1> QED
    BY <1>1, <1>2, AnswersLast DEF AnswersStay

LEMMA UntouchedStay ==
    ASSUME ErasureInv, StampInv, UNCHANGED <<trail, rowTime, tombTime>>, now' \in Nat
    PROVE  StampInv' /\ AnswersStay
<1>1. UNCHANGED <<rows, written, tombs, rowTime, tombTime>>
    BY DEF trail
<1>2. written \in Nat /\ Cardinality(tombs) \in Nat
    BY FS_CardinalityType DEF ErasureInv, TrailTypes, TombInv, NumberInv
<1>3. StampInv'
    BY <1>1 DEF StampInv
<1>4. ASSUME NEW A, NEW f, NEW t, NEW n \in Nat
      PROVE  /\ AuditSince(A, n, f, t)' <=> AuditSince(A, n, f, t)
             /\ ErasureSince(A, n, f, t)' <=> ErasureSince(A, n, f, t)
    BY <1>1 DEF AuditSince, ErasureSince, AuditIs, ErasureIs, InAudit, InErasure, RowsBy, RowsTo,
                ErasedTo, SqlDay
<1> QED
    BY <1>1, <1>2, <1>3, <1>4 DEF AnswersStay

LEMMA AsksKeep ==
    ASSUME ErasureInv, AskInv, AnswersStay, asks' \subseteq asks, UNCHANGED <<from, to, latest>>
    PROVE  AskInv'
<1>1. written \in Nat /\ Cardinality(tombs) \in Nat
    BY FS_CardinalityType DEF ErasureInv, TrailTypes, TombInv, NumberInv
<1> SUFFICES ASSUME NEW a \in asks'
             PROVE  /\ DOMAIN a = AskFields /\ a.nr \in Nat /\ a.nr <= latest
                    /\ a.from \in Int /\ a.to \in Int
                    /\ a.nr = latest => a.from = from /\ a.to = to
                    /\ a.asked.rows \in Nat /\ a.asked.rows <= written'
                    /\ a.asked.tombs \in Nat /\ a.asked.tombs <= Cardinality(tombs')
                    /\ a.audit # NoReport => AuditSince(a.audit[1], a.asked.rows, a.from, a.to)'
                    /\ a.erasure # NoReport => ErasureSince(a.erasure[1], a.asked.tombs, a.from, a.to)'
    BY DEF AskInv
<1>2. a \in asks
    OBVIOUS
<1>3. /\ DOMAIN a = AskFields /\ a.nr \in Nat /\ a.nr <= latest
      /\ a.from \in Int /\ a.to \in Int
      /\ a.nr = latest => a.from = from /\ a.to = to
      /\ a.asked.rows \in Nat /\ a.asked.rows <= written
      /\ a.asked.tombs \in Nat /\ a.asked.tombs <= Cardinality(tombs)
      /\ a.audit # NoReport => AuditSince(a.audit[1], a.asked.rows, a.from, a.to)
      /\ a.erasure # NoReport => ErasureSince(a.erasure[1], a.asked.tombs, a.from, a.to)
    BY <1>2 DEF AskInv
<1>4. a.asked.rows <= written' /\ a.asked.tombs <= Cardinality(tombs')
    BY <1>1, <1>3 DEF AnswersStay
<1>5. /\ a.audit # NoReport => AuditSince(a.audit[1], a.asked.rows, a.from, a.to)'
      /\ a.erasure # NoReport => ErasureSince(a.erasure[1], a.asked.tombs, a.from, a.to)'
    BY <1>3 DEF AnswersStay
<1> QED
    BY <1>3, <1>4, <1>5

LEMMA ShownKeeps ==
    ASSUME ShownInv, AnswersStay, UNCHANGED report,
           ~busy' /\ problem' = "none" => ~busy /\ problem = "none" /\ UNCHANGED <<from, to>>
    PROVE  ShownInv'
<1> SUFFICES ASSUME report # NoReport PROVE ShownInv'
    BY DEF ShownInv
<1>1. PICK q : q = report
    OBVIOUS
<1>2. /\ q.asked.rows \in Nat /\ q.asked.tombs \in Nat
      /\ q.period[1] \in Int /\ q.period[2] \in Int
      /\ AuditSince(q.audit, q.asked.rows, q.period[1], q.period[2])
      /\ ErasureSince(q.erasure, q.asked.tombs, q.period[1], q.period[2])
      /\ ~busy /\ problem = "none" => q.period = <<from, to>>
    BY <1>1 DEF ShownInv
<1>3. /\ AuditSince(q.audit, q.asked.rows, q.period[1], q.period[2])'
      /\ ErasureSince(q.erasure, q.asked.tombs, q.period[1], q.period[2])'
    BY <1>2 DEF AnswersStay
<1>4. q = report'
    BY <1>1
<1> QED
    BY <1>2, <1>3, <1>4 DEF ShownInv

\* A request that gets an answer, or none, is forgotten; only the last one may be shown.
LEMMA AnsweredKeeps ==
    ASSUME SettingsInv, ErasureInv, ReportInv, NEW a \in asks,
           Arrives(a) \/ Refuses(a) \/ QueryFails(a)
    PROVE  ReportInv'
<1>1. asks' = asks \ {a} /\ UNCHANGED <<from, to, latest>>
    BY DEF Arrives, Refuses, QueryFails, Answered
<1>2. StampInv' /\ AnswersStay
    <2>1. CASE Arrives(a) \/ Refuses(a)
        <3>1. ReportsNext
            BY <2>1 DEF ReportsNext
        <3>2. Grows
            BY <3>1, ReportsWrite
        <3>3. Stamped
            BY <2>1 DEF Arrives, Refuses, Answered
        <3> QED
            BY <3>2, <3>3, StampedStay DEF ReportInv
    <2>2. CASE QueryFails(a)
        <3>1. UNCHANGED <<trail, rowTime, tombTime>> /\ now' = now
            BY <2>2 DEF QueryFails, times
        <3>2. now' \in Nat
            BY <3>1 DEF ReportInv, StampInv
        <3> QED
            BY <3>1, <3>2, UntouchedStay DEF ReportInv
    <2> QED
        BY <2>1, <2>2
<1>3. AskInv'
    BY <1>1, <1>2, AsksKeep DEF ReportInv
<1>4. ShownInv'
    <2>1. CASE UNCHANGED report /\ (UNCHANGED <<busy, problem>> \/ problem' # "none")
        BY <1>1, <1>2, <2>1, ShownKeeps DEF ReportInv
    <2>2. CASE /\ Arrives(a) /\ ~Outdated(a)
        <3>1. /\ report' = [period |-> <<a.from, a.to>>, asked |-> a.asked,
                            audit |-> a.audit[1], erasure |-> a.erasure[1]]
              /\ a.audit # NoReport /\ a.erasure # NoReport /\ a.nr = latest
            BY <2>2 DEF Arrives, Outdated
        <3>2. /\ a.from \in Int /\ a.to \in Int /\ a.from = from /\ a.to = to
              /\ a.asked.rows \in Nat /\ a.asked.tombs \in Nat
              /\ AuditSince(a.audit[1], a.asked.rows, a.from, a.to)
              /\ ErasureSince(a.erasure[1], a.asked.tombs, a.from, a.to)
            BY <3>1 DEF ReportInv, AskInv
        <3>3. PICK A, E : A = a.audit[1] /\ E = a.erasure[1]
            OBVIOUS
        <3>4. /\ AuditSince(A, a.asked.rows, a.from, a.to)'
              /\ ErasureSince(E, a.asked.tombs, a.from, a.to)'
            BY <1>2, <3>2, <3>3 DEF AnswersStay
        <3>5. /\ report'.audit = A /\ report'.erasure = E /\ report'.asked = a.asked
              /\ report'.period = <<a.from, a.to>>
            BY <3>1, <3>3
        <3>6. /\ AuditSince(report.audit, report.asked.rows, report.period[1], report.period[2])'
              /\ ErasureSince(report.erasure, report.asked.tombs, report.period[1], report.period[2])'
            BY <3>4, <3>5
        <3> QED
            BY <1>1, <3>2, <3>5, <3>6 DEF ShownInv
    <2> QED
        BY <2>1, <2>2 DEF Arrives, Refuses, QueryFails
<1> QED
    BY <1>2, <1>3, <1>4 DEF ReportInv

LEMMA QueriesKeep ==
    ASSUME ErasureInv, ReportInv, NEW a \in asks, ReadAudit(a) \/ ReadErasure(a)
    PROVE  ReportInv'
<1>1. /\ UNCHANGED <<trail, times, from, to, latest, busy, report, problem>>
      /\ now' \in Nat
    BY DEF ReadAudit, ReadErasure, accounts, times, ReportInv, StampInv
<1>2. StampInv' /\ AnswersStay
    BY <1>1, UntouchedStay DEF times, ReportInv
<1>3. ShownInv'
    BY <1>1, <1>2, ShownKeeps DEF ReportInv
<1>4. /\ DOMAIN a = AskFields /\ a.nr \in Nat /\ a.nr <= latest
      /\ a.from \in Int /\ a.to \in Int
      /\ a.nr = latest => a.from = from /\ a.to = to
      /\ a.asked.rows \in Nat /\ a.asked.rows <= written
      /\ a.asked.tombs \in Nat /\ a.asked.tombs <= Cardinality(tombs)
      /\ a.audit # NoReport => AuditSince(a.audit[1], a.asked.rows, a.from, a.to)
      /\ a.erasure # NoReport => ErasureSince(a.erasure[1], a.asked.tombs, a.from, a.to)
    BY DEF ReportInv, AskInv
<1>5. written \in Nat /\ Cardinality(tombs) \in Nat
    BY FS_CardinalityType DEF ErasureInv, TrailTypes, TombInv, NumberInv
<1>6. PICK b : /\ asks' = (asks \ {a}) \cup {b}
               /\ \/ b = [a EXCEPT !.audit = <<AuditByDay(a.from, a.to)>>]
                  \/ b = [a EXCEPT !.erasure = <<ErasureByDay(a.from, a.to)>>]
    BY DEF ReadAudit, ReadErasure
<1>7. /\ DOMAIN b = AskFields /\ b.nr = a.nr /\ b.from = a.from /\ b.to = a.to /\ b.asked = a.asked
      /\ b.audit \in {a.audit, <<AuditByDay(a.from, a.to)>>}
      /\ b.erasure \in {a.erasure, <<ErasureByDay(a.from, a.to)>>}
    BY <1>4, <1>6 DEF AskFields
<1>8. /\ AuditSince(AuditByDay(a.from, a.to), a.asked.rows, a.from, a.to)
      /\ ErasureSince(ErasureByDay(a.from, a.to), a.asked.tombs, a.from, a.to)
    <2>1. /\ written \in a.asked.rows .. written
          /\ Cardinality(tombs) \in a.asked.tombs .. Cardinality(tombs)
        BY <1>4, <1>5
    <2>2. /\ AuditIs(AuditByDay(a.from, a.to), written, a.from, a.to)
          /\ ErasureIs(ErasureByDay(a.from, a.to), Cardinality(tombs), a.from, a.to)
        BY <1>4, AuditRead, ErasureRead DEF ReportInv
    <2> QED
        BY <2>1, <2>2 DEF AuditSince, ErasureSince
<1>9. /\ b.audit # NoReport => AuditSince(b.audit[1], b.asked.rows, b.from, b.to)
      /\ b.erasure # NoReport => ErasureSince(b.erasure[1], b.asked.tombs, b.from, b.to)
    <2>1. /\ b.audit = <<AuditByDay(a.from, a.to)>> => b.audit[1] = AuditByDay(a.from, a.to)
          /\ b.erasure = <<ErasureByDay(a.from, a.to)>> => b.erasure[1] = ErasureByDay(a.from, a.to)
        OBVIOUS
    <2> QED
        BY <1>4, <1>7, <1>8, <2>1
<1>10. /\ b.audit # NoReport => AuditSince(b.audit[1], b.asked.rows, b.from, b.to)'
       /\ b.erasure # NoReport => ErasureSince(b.erasure[1], b.asked.tombs, b.from, b.to)'
    BY <1>2, <1>4, <1>7, <1>9 DEF AnswersStay
<1>11. UNCHANGED <<written, tombs, from, to, latest>>
    BY <1>1 DEF trail
<1>12. \A k \in asks \ {a} :
          /\ k.audit # NoReport => AuditSince(k.audit[1], k.asked.rows, k.from, k.to)'
          /\ k.erasure # NoReport =>
                               ErasureSince(k.erasure[1], k.asked.tombs, k.from, k.to)'
    BY <1>2 DEF AnswersStay, ReportInv, AskInv
<1>13. AskInv'
    <2> SUFFICES ASSUME NEW k \in asks'
                 PROVE  /\ DOMAIN k = AskFields /\ k.nr \in Nat /\ k.nr <= latest
                        /\ k.from \in Int /\ k.to \in Int
                        /\ k.nr = latest => k.from = from /\ k.to = to
                        /\ k.asked.rows \in Nat /\ k.asked.rows <= written
                        /\ k.asked.tombs \in Nat /\ k.asked.tombs <= Cardinality(tombs)
                        /\ k.audit # NoReport => AuditSince(k.audit[1], k.asked.rows, k.from, k.to)'
                        /\ k.erasure # NoReport =>
                               ErasureSince(k.erasure[1], k.asked.tombs, k.from, k.to)'
        BY <1>11 DEF ReportInv, AskInv
    <2>1. CASE k = b
        BY <1>4, <1>7, <1>10, <2>1
    <2>2. CASE k \in asks \ {a}
        BY <1>12, <2>2 DEF ReportInv, AskInv
    <2> QED
        BY <1>6, <2>1, <2>2
<1> QED
    BY <1>2, <1>3, <1>13 DEF ReportInv

\* A change of an input asks again; until that is answered nothing is shown.
LEMMA AskingKeeps ==
    ASSUME ErasureInv, ReportInv, AskAgain, from' \in Int, to' \in Int
    PROVE  ReportInv'
<1>1. /\ UNCHANGED <<trail, times, report>> /\ busy' = TRUE /\ latest' = latest + 1
      /\ asks' = asks \cup {Ask(from', to', latest')}
    BY DEF AskAgain
<1>2. StampInv' /\ AnswersStay
    <2>1. now' \in Nat /\ UNCHANGED <<rowTime, tombTime>>
        BY <1>1 DEF times, ReportInv, StampInv
    <2> QED
        BY <1>1, <2>1, UntouchedStay DEF ReportInv
<1>3. ShownInv'
    BY <1>1, <1>2, ShownKeeps DEF ReportInv
<1>4. written \in Nat /\ Cardinality(tombs) \in Nat /\ latest \in Nat
    BY FS_CardinalityType DEF ErasureInv, TrailTypes, TombInv, NumberInv, ReportInv, AskInv
<1>5. PICK b : b = Ask(from', to', latest')
    OBVIOUS
<1>6. /\ DOMAIN b = AskFields /\ b.nr = latest' /\ b.from = from' /\ b.to = to'
      /\ b.asked.rows = written /\ b.asked.tombs = Cardinality(tombs)
      /\ b.audit = NoReport /\ b.erasure = NoReport
    BY <1>1, <1>5 DEF Ask, AskFields, trail
<1>7. UNCHANGED <<written, tombs>>
    BY <1>1 DEF trail
<1>8. \A k \in asks :
          /\ k.audit # NoReport => AuditSince(k.audit[1], k.asked.rows, k.from, k.to)'
          /\ k.erasure # NoReport =>
                               ErasureSince(k.erasure[1], k.asked.tombs, k.from, k.to)'
    BY <1>2 DEF AnswersStay, ReportInv, AskInv
<1>9. AskInv'
    <2> SUFFICES ASSUME NEW k \in asks'
                 PROVE  /\ DOMAIN k = AskFields /\ k.nr \in Nat /\ k.nr <= latest'
                        /\ k.from \in Int /\ k.to \in Int
                        /\ k.nr = latest' => k.from = from' /\ k.to = to'
                        /\ k.asked.rows \in Nat /\ k.asked.rows <= written
                        /\ k.asked.tombs \in Nat /\ k.asked.tombs <= Cardinality(tombs)
                        /\ k.audit # NoReport => AuditSince(k.audit[1], k.asked.rows, k.from, k.to)'
                        /\ k.erasure # NoReport =>
                               ErasureSince(k.erasure[1], k.asked.tombs, k.from, k.to)'
        BY <1>1, <1>4, <1>7 DEF AskInv
    <2>1. CASE k = b
        BY <1>1, <1>4, <1>6, <2>1
    <2>2. CASE k \in asks
        <3>1. /\ DOMAIN k = AskFields /\ k.nr \in Nat /\ k.nr <= latest
              /\ k.from \in Int /\ k.to \in Int
              /\ k.asked.rows \in Nat /\ k.asked.rows <= written
              /\ k.asked.tombs \in Nat /\ k.asked.tombs <= Cardinality(tombs)
            BY <2>2 DEF ReportInv, AskInv
        <3>2. k.nr <= latest' /\ k.nr # latest'
            BY <1>1, <1>4, <3>1
        <3> QED
            BY <1>8, <2>2, <3>1, <3>2
    <2> QED
        BY <1>1, <1>5, <2>1, <2>2
<1> QED
    BY <1>2, <1>3, <1>9 DEF ReportInv

LEMMA ReportInSteps ==
    ASSUME SettingsInv, ErasureInv, ReportInv, [Next]_<<elsewhere, board>>
    PROVE  ReportInv'
<1>1. CASE (AccountsNext \/ PageNext) /\ Stamped /\ UNCHANGED view
    <2>1. StampInv' /\ AnswersStay
        BY <1>1, AccountsMove, StampedStay DEF ReportInv
    <2>2. UNCHANGED <<from, to, asks, latest, busy, report, problem>>
        BY <1>1 DEF view
    <2>3. AskInv' /\ ShownInv'
        BY <2>1, <2>2, AsksKeep, ShownKeeps DEF ReportInv
    <2> QED
        BY <2>1, <2>3 DEF ReportInv
<1>2. CASE Tick \/ UNCHANGED elsewhere \/ BoardNext
    <2>1. UNCHANGED <<trail, rowTime, tombTime, from, to, asks, latest, busy, report, problem>>
        BY <1>2, BoardLooksOn DEF Tick, elsewhere, accounts, reports, times, view
    <2>2. now' \in Nat
        BY <1>2, BoardLooksOn DEF Tick, elsewhere, reports, times, ReportInv, StampInv
    <2>3. StampInv' /\ AnswersStay
        BY <2>1, <2>2, UntouchedStay DEF ReportInv
    <2>4. AskInv' /\ ShownInv'
        BY <2>1, <2>3, AsksKeep, ShownKeeps DEF ReportInv
    <2> QED
        BY <2>3, <2>4 DEF ReportInv
<1>3. CASE Reload \/ \E d \in Picks : SetFrom(d) \/ SetTo(d)
    <2>1. AskAgain
        BY <1>3 DEF Reload, SetFrom, SetTo
    <2>2. from' \in Int /\ to' \in Int
        BY <1>3, ReportsConstants DEF Reload, SetFrom, SetTo, Cleared, ReportInv, AskInv
    <2> QED
        BY <2>1, <2>2, AskingKeeps
<1>4. CASE ReportsNext
    BY <1>2, <1>3, <1>4, AnsweredKeeps, QueriesKeep DEF ReportsNext
<1> QED
    BY <1>1, <1>2, <1>4 DEF Next

LEMMA ReportStart == Init => ReportInv
<1> SUFFICES ASSUME Init PROVE ReportInv
    OBVIOUS
<1> USE DEF Init, AccountsInit, ReportsInit
<1>1. ErasureInv
    BY ErasureInit
<1>2. tombs = {} /\ Cardinality(tombs) = 0 /\ written \in Nat /\ Start \in Nat
    BY <1>1, FS_EmptySet, ReportsConstants DEF ErasureInv, TrailTypes
<1>3. (\A r \in rows : r.nr \in 1 .. written) /\ (\A k \in 1 .. written : \E r \in rows : r.nr = k)
    <2>1. \A r \in rows : r.nr \in 1 .. written
        BY AccountsStart
    <2>2. IsFiniteSet(rows) /\ written = Cardinality(rows) /\ \A r, s \in rows : r.nr = s.nr => r = s
        BY <1>1 DEF ErasureInv, TombInv, NumberInv
    <2>3. IsFiniteSet(Numbers(rows)) /\ Cardinality(Numbers(rows)) = written
        BY <2>2, NumbersCount
    <2>4. IsFiniteSet(1 .. written) /\ Cardinality(1 .. written) = written
        <3>1. 1 \in Int /\ written \in Int
            BY <1>2
        <3>2. IsFiniteSet(1 .. written)
              /\ Cardinality(1 .. written) = IF 1 > written THEN 0 ELSE written - 1 + 1
            BY <3>1, FS_Interval
        <3> QED
            BY <1>2, <3>2
    <2>5. Numbers(rows) \in SUBSET (1 .. written)
        BY <2>1 DEF Numbers
    <2>6. Numbers(rows) = 1 .. written
        BY <2>3, <2>4, <2>5, FS_Subset
    <2> QED
        BY <2>1, <2>6 DEF Numbers
<1>4. StampInv
    <2>1. rowTime \in Seq(Nat) /\ Len(rowTime) = written
        BY <1>2
    <2>2. tombTime \in Seq(Nat) /\ Len(tombTime) = 0 /\ now \in Nat
        BY <1>2
    <2> QED
        BY <1>2, <1>3, <2>1, <2>2 DEF StampInv
<1>5. from \in Int /\ to \in Int
    BY <1>2 DEF BangkokDay, DefaultFrom
<1>6. AskInv
    <2>1. ASSUME NEW a \in asks
          PROVE  a = [nr |-> 1, from |-> from, to |-> to,
                      asked |-> [rows |-> written, tombs |-> Cardinality(tombs)],
                      audit |-> NoReport, erasure |-> NoReport]
        BY DEF Ask
    <2> QED
        BY <1>2, <1>5, <2>1 DEF AskInv, AskFields
<1>7. ShownInv
    BY DEF ShownInv
<1> QED
    BY <1>4, <1>6, <1>7 DEF ReportInv

-----------------------------------------------------------------------------
(* What the report shows *)

LEMMA StampedAreFinite ==
    ASSUME NEW n \in Nat, NEW d
    PROVE  /\ IsFiniteSet(RowsTo(n, d)) /\ IsFiniteSet(ErasedTo(n, d))
           /\ \A op : IsFiniteSet(RowsBy(n, d, op))
<1>1. IsFiniteSet(1 .. n)
    BY FS_Interval
<1>2. /\ RowsTo(n, d) \in SUBSET (1 .. n) /\ ErasedTo(n, d) \in SUBSET (1 .. n)
      /\ \A op : RowsBy(n, d, op) \in SUBSET (1 .. n)
    BY DEF RowsTo, ErasedTo, RowsBy
<1> QED
    BY <1>1, <1>2, FS_Subset

\* The actions of a day add up to its rows.
LEMMA RowsAddUp ==
    ASSUME ErasureInv, StampInv, NEW m \in 0 .. written, AuditIs(report.audit, m, from, to),
           NEW d \in from .. to
    PROVE  RowsOn(d) = Cardinality(RowsTo(m, d))
<1> DEFINE S == AuditActions
           P == [op \in S |-> RowsBy(m, d, op)]
           N == [op \in S |-> Cell(d, op)]
           Step(h) == [T \in SUBSET S |-> IF T = {} THEN 0
                                          ELSE LET op == CHOOSE y \in T : TRUE
                                               IN  Cell(d, op) + h[T \ {op}]]
           total == CHOOSE h : h = Step(h)
<1>1. \A op : Cell(d, op) = InAudit(report.audit, d, op)
    BY DEF Cell, InAudit
<1>2. \A op : Cell(d, op) = Cardinality(RowsBy(m, d, op))
    BY <1>1 DEF AuditIs
<1>3. written \in Nat /\ IsFiniteSet(rows) /\ \A r, s \in rows : r.nr = s.nr => r = s
    BY DEF ErasureInv, TrailTypes, TombInv, NumberInv
<1>4. m \in Nat /\ m <= written
    BY <1>3
<1>5. IsFiniteSet(S)
    <2> DEFINE f == [r \in rows |-> r.op]
    <2>1. f \in Surjection(rows, {r.op : r \in rows})
        BY DEF Surjection
    <2>2. IsFiniteSet({r.op : r \in rows})
        BY <1>3, <2>1, FS_Surjection
    <2>3. S \in SUBSET {r.op : r \in rows}
        BY DEF AuditActions, AuditIs
    <2> QED
        BY <2>2, <2>3, FS_Subset
<1>6. Parted(P, S)
    <2>1. \A op \in S : IsFiniteSet(P[op])
        BY <1>4, StampedAreFinite
    <2>2. ASSUME NEW x, NEW y, x # y PROVE RowsBy(m, d, x) \cap RowsBy(m, d, y) = {}
        BY <1>3, <2>2 DEF RowsBy
    <2>3. \A x, y \in S : x # y => P[x] \cap P[y] = {}
        BY <2>2
    <2> QED
        BY <1>5, <2>1, <2>3 DEF Parted
<1>7. \A op \in S : N[op] = Cardinality(P[op])
    BY <1>2
<1>8. Together(P, S) = RowsTo(m, d)
    <2>1. \A op \in S : P[op] \subseteq RowsTo(m, d)
        BY DEF RowsBy
    <2>2. ASSUME NEW k \in RowsTo(m, d) PROVE \E op \in S : k \in P[op]
        <3>1. k \in 1 .. written
            BY <1>3, <1>4 DEF RowsTo
        <3>2. PICK r \in rows : r.nr = k
            BY <3>1 DEF StampInv
        <3>3. k \in RowsBy(m, d, r.op)
            BY <3>2 DEF RowsBy
        <3>4. Cardinality(RowsBy(m, d, r.op)) # 0
            BY <1>4, <3>3, StampedAreFinite, FS_EmptySet
        <3>5. InAudit(report.audit, d, r.op) # 0
            BY <1>1, <1>2, <3>4
        <3>6. r.op \in S
            BY <3>5 DEF InAudit, AuditActions
        <3> QED
            BY <3>3, <3>6
    <2> QED
        BY <2>1, <2>2 DEF Together
<1>9. ASSUME NEW h PROVE Step(h) = OneByOne(N, S, h)
    <2> HIDE DEF S
    <2> QED
        BY DEF OneByOne, Any
<1>10. total = OneByOne(N, S, total)
    <2> HIDE DEF Step, N, P, S
    <2>1. PICK h : h = OneByOne(N, S, h)
        BY <1>6, <1>7, SumExists
    <2>2. h = Step(h)
        BY <1>9, <2>1
    <2>3. total = Step(total)
        BY <2>2
    <2> QED
        BY <1>9, <2>3
<1>11. RowsOn(d) = total[S]
    BY DEF RowsOn, Sum
<1> HIDE DEF P, N, total, S
<1> QED
    BY <1>6, <1>7, <1>8, <1>10, <1>11, SumOfParts

\* The days add up to the total, those without an erasure included.
LEMMA ErasuresAddUp ==
    ASSUME NEW m \in Nat, ErasureIs(report.erasure, m, from, to), from \in Int, to \in Int
    PROVE  ErasureTotal = Sum(Days, LAMBDA d : InErasure(report.erasure, d))
<1> DEFINE S == DOMAIN report.erasure
           P == [d \in Days |-> ErasedTo(m, d)]
           N == [d \in Days |-> InErasure(report.erasure, d)]
           StepS(h) == [T \in SUBSET S |-> IF T = {} THEN 0
                                           ELSE LET d == CHOOSE y \in T : TRUE
                                                IN  Cardinality(report.erasure[d]) + h[T \ {d}]]
           StepD(h) == [T \in SUBSET Days |-> IF T = {} THEN 0
                                              ELSE LET d == CHOOSE y \in T : TRUE
                                                   IN  InErasure(report.erasure, d) + h[T \ {d}]]
           totalS == CHOOSE h : h = StepS(h)
           totalD == CHOOSE h : h = StepD(h)
<1>1. IsFiniteSet(Days) /\ S \in SUBSET Days
    BY FS_Interval DEF Days, ErasureIs
<1>2. \A d \in Days : N[d] = Cardinality(P[d])
    BY DEF ErasureIs, Days
<1>3. Parted(P, Days) /\ Parted(P, S)
    <2>1. \A x, y \in Days : x # y => P[x] \cap P[y] = {}
        BY DEF ErasedTo
    <2>2. \A x \in Days : IsFiniteSet(P[x])
        BY StampedAreFinite
    <2>3. IsFiniteSet(S)
        BY <1>1, FS_Subset
    <2> QED
        BY <1>1, <2>1, <2>2, <2>3 DEF Parted
<1>4. Together(P, S) = Together(P, Days)
    <2>1. ASSUME NEW d \in Days, d \notin S PROVE P[d] = {}
        <3>1. Cardinality(P[d]) = 0
            BY <1>2, <2>1 DEF InErasure
        <3>2. IsFiniteSet(P[d])
            BY <1>3 DEF Parted
        <3> QED
            BY <3>1, <3>2, FS_EmptySet
    <2> HIDE DEF P, S
    <2> QED
        BY <1>1, <2>1 DEF Together
<1>5. ASSUME NEW h PROVE StepS(h) = OneByOne(N, S, h) /\ StepD(h) = OneByOne(N, Days, h)
    <2>1. \A d \in S : N[d] = Cardinality(report.erasure[d])
        BY <1>1 DEF InErasure
    <2>2. \A d \in Days : N[d] = InErasure(report.erasure, d)
        OBVIOUS
    <2> HIDE DEF N, S
    <2> QED
        BY <2>1, <2>2 DEF OneByOne, Any
<1>6. totalS = OneByOne(N, S, totalS)
    <2>1. \A d \in S : N[d] = Cardinality(P[d])
        BY <1>1, <1>2
    <2> HIDE DEF StepS, StepD, N, P, S
    <2>2. PICK h : h = OneByOne(N, S, h)
        BY <1>3, <2>1, SumExists
    <2>3. h = StepS(h)
        BY <1>5, <2>2
    <2>4. totalS = StepS(totalS)
        BY <2>3
    <2> QED
        BY <1>5, <2>4
<1>7. totalD = OneByOne(N, Days, totalD)
    <2> HIDE DEF StepS, StepD, N, P, S
    <2>1. PICK h : h = OneByOne(N, Days, h)
        BY <1>2, <1>3, SumExists
    <2>2. h = StepD(h)
        BY <1>5, <2>1
    <2>3. totalD = StepD(totalD)
        BY <2>2
    <2> QED
        BY <1>5, <2>3
<1>8. ErasureTotal = totalS[S]
    BY DEF ErasureTotal, Sum
<1>9. Sum(Days, LAMBDA d : InErasure(report.erasure, d)) = totalD[Days]
    BY DEF Sum
<1>10. totalS[S] = Cardinality(Together(P, S))
    <2>1. \A d \in S : N[d] = Cardinality(P[d])
        BY <1>1, <1>2
    <2> HIDE DEF totalS, N, P, S
    <2> QED
        BY <1>3, <1>6, <2>1, SumOfParts
<1>11. totalD[Days] = Cardinality(Together(P, Days))
    <2> HIDE DEF totalD, N, P
    <2> QED
        BY <1>2, <1>3, <1>7, SumOfParts
<1> HIDE DEF totalS, totalD
<1> QED
    BY <1>4, <1>8, <1>9, <1>10, <1>11

LEMMA CountBetween ==
    ASSUME NEW Q, NEW R, NEW T, Q \subseteq R, R \subseteq T, IsFiniteSet(T)
    PROVE  Within(Cardinality(Q), Cardinality(T), Cardinality(R))
BY FS_Subset DEF Within

LEMMA ReportsAreTrue ==
    ASSUME ErasureInv, ReportInv
    PROVE  ReportIsTrue
<1> SUFFICES ASSUME ReportShown PROVE ReportIsTrue
    BY DEF ReportIsTrue
<1>1. report # NoReport /\ ~busy /\ problem = "none"
    BY DEF ReportShown
<1>2. /\ report.period = <<from, to>> /\ from \in Int /\ to \in Int
      /\ report.asked.rows \in Nat /\ report.asked.tombs \in Nat
    BY <1>1 DEF ReportInv, ShownInv, AskInv
<1>3. report.period[1] = from /\ report.period[2] = to
    BY <1>2
<1>4. PICK m \in report.asked.rows .. written : AuditIs(report.audit, m, from, to)
    BY <1>1, <1>3 DEF ReportInv, ShownInv, AuditSince
<1>5. PICK n \in report.asked.tombs .. Cardinality(tombs) : ErasureIs(report.erasure, n, from, to)
    BY <1>1, <1>3 DEF ReportInv, ShownInv, ErasureSince
<1>6. /\ written \in Nat /\ Cardinality(tombs) \in Nat /\ Len(tombTime) = Cardinality(tombs)
    BY FS_CardinalityType DEF ErasureInv, TrailTypes, TombInv, NumberInv, ReportInv, StampInv
<1>7. /\ m \in 0 .. written /\ m \in Nat /\ n \in Nat
      /\ report.asked.rows <= m /\ m <= written /\ report.asked.tombs <= n /\ n <= Cardinality(tombs)
    BY <1>2, <1>4, <1>5, <1>6
<1>8. ASSUME NEW d \in Days
      PROVE  Within(Cardinality(RowsTo(report.asked.rows, d)), Cardinality(RowsTo(written, d)),
                    RowsOn(d))
    <2>1. RowsOn(d) = Cardinality(RowsTo(m, d))
        BY <1>4, <1>7, RowsAddUp DEF Days, ReportInv
    <2>2. /\ RowsTo(report.asked.rows, d) \subseteq RowsTo(m, d)
          /\ RowsTo(m, d) \subseteq RowsTo(written, d)
        BY <1>2, <1>6, <1>7 DEF RowsTo
    <2>3. IsFiniteSet(RowsTo(written, d))
        BY <1>6, StampedAreFinite
    <2> QED
        BY <2>1, <2>2, <2>3, CountBetween
<1>9. ASSUME NEW d \in Days
      PROVE  Within(Cardinality(ErasedTo(report.asked.tombs, d)),
                    Cardinality(ErasedTo(Len(tombTime), d)), InErasure(report.erasure, d))
    <2>1. InErasure(report.erasure, d) = Cardinality(ErasedTo(n, d))
        BY <1>5 DEF ErasureIs, Days
    <2>2. /\ ErasedTo(report.asked.tombs, d) \subseteq ErasedTo(n, d)
          /\ ErasedTo(n, d) \subseteq ErasedTo(Len(tombTime), d)
        BY <1>2, <1>6, <1>7 DEF ErasedTo
    <2>3. IsFiniteSet(ErasedTo(Len(tombTime), d))
        BY <1>6, StampedAreFinite
    <2> QED
        BY <2>1, <2>2, <2>3, CountBetween
<1>10. DOMAIN report.erasure \subseteq Days
    BY <1>5 DEF ErasureIs, Days
<1>11. ErasureTotal = Sum(Days, LAMBDA d : InErasure(report.erasure, d))
    BY <1>2, <1>5, <1>7, ErasuresAddUp
<1> QED
    BY <1>2, <1>8, <1>9, <1>10, <1>11 DEF ReportIsTrue, RowsTo, ErasedTo, InErasure

\* The inductive invariant of the report: every answer on its way, and the one that is shown, is of
\* one moment after it was asked for, and the one that counts is about the days in the inputs.
THEOREM ReportInvariant == Spec => []ReportInv
<1>1. SettingsInv /\ ErasureInv /\ ReportInv /\ [Next]_<<elsewhere, board>> => ReportInv'
    BY ReportInSteps
<1> QED
    BY <1>1, ReportStart, SettingsInvariant, ErasureInvariant, PTL DEF Spec

\* What the page of the report shows is about the days in its inputs: every row and every tombstone
\* of a day that was there when the page asked is counted, none twice or on another day, and the
\* total says the same, whichever answer comes last (Reports.tsx, getAuditByDay, getErasureByDay).
THEOREM ReportStaysTrue == Spec => []ReportIsTrue
<1>1. ErasureInv /\ ReportInv => ReportIsTrue
    BY ReportsAreTrue
<1> QED
    BY <1>1, ErasureInvariant, ReportInvariant, PTL

-----------------------------------------------------------------------------
(* Least elements, and folds as sums *)

\* A finite set of numbers has a least one: the one with the smallest set below it.
LEMMA MinExists ==
    ASSUME NEW S, IsFiniteSet(S), S # {}, S \subseteq Int
    PROVE  Min(S) \in S /\ \A y \in S : Min(S) <= y
<1> DEFINE Below(x) == {y \in S : y < x}
           B == {Below(x) : x \in S}
<1>1. B \subseteq FiniteSubsetsOf(S) /\ B # {}
    <2>1. \A x \in S : Below(x) \in SUBSET S /\ IsFiniteSet(Below(x))
        BY FS_Subset
    <2>2. B # {}
        OBVIOUS
    <2> HIDE DEF Below
    <2> QED
        BY <2>1, <2>2 DEF FiniteSubsetsOf
<1>2. PICK T \in B : \A U \in B : <<U, T>> \notin StrictSubsetOrdering(S)
    <2> HIDE DEF B
    <2> QED
        BY <1>1, FS_StrictSubsetOrderingWellFounded, WFMin
<1>3. PICK x \in S : T = Below(x)
    BY <1>2
<1>4. ASSUME NEW y \in S PROVE x <= y
    <2> SUFFICES ASSUME ~ (x <= y)
                 PROVE  FALSE
        OBVIOUS
    <2>1. y < x /\ x \in Int /\ y \in Int
        OBVIOUS
    <2>2. y \in Below(x) /\ y \notin Below(y) /\ Below(y) \subseteq Below(x)
        <3>1. ~ (y < y) /\ \A z \in Int : z < y => z < x
            BY <2>1
        <3> QED
            BY <2>1, <3>1
    <2>3. <<Below(y), T>> \in StrictSubsetOrdering(S)
        BY <1>3, <2>2 DEF StrictSubsetOrdering
    <2> QED
        BY <1>2, <2>3
<1> QED
    BY <1>4 DEF Min

\* What MapThenSumSet and FoldFunction come to.
Total(N, S) == (CHOOSE h : h = OneByOne(N, S, h))[S]

LEMMA FoldOfParts ==
    ASSUME NEW S, NEW P, Parted(P, S), NEW N, \A x \in S : N[x] = Cardinality(P[x])
    PROVE  Total(N, S) = Cardinality(Together(P, S))
<1> DEFINE total == CHOOSE h : h = OneByOne(N, S, h)
<1>1. Total(N, S) = total[S]
    BY DEF Total
<1>2. total = OneByOne(N, S, total)
    <2>1. PICK h : h = OneByOne(N, S, h)
        BY SumExists
    <2> QED
        BY <2>1
<1> HIDE DEF total
<1> QED
    BY <1>1, <1>2, SumOfParts

-----------------------------------------------------------------------------
(* The calendar *)

MonthsBefore(d) == Cardinality({m \in DOMAIN MonthEnds : MonthEnds[m] <= d})

\* The day d of the year is one of the month m (both from 0).
InMonth(d, m) ==
    m \in 0 .. 11 /\ (m > 0 => MonthEnds[m] <= d) /\ d < MonthEnds[m + 1]

LEMMA MonthOfDay ==
    ASSUME NEW d \in 0 .. 364
    PROVE  InMonth(d, MonthsBefore(d))
<1>1. DOMAIN MonthEnds = 1 .. 12
    BY DEF MonthEnds
<1>2. \E m \in 0 .. 11 : (m > 0 => MonthEnds[m] <= d) /\ d < MonthEnds[m + 1]
    <2>1. d < MonthEnds[1] =>
              \E m \in 0 .. 11 : (m > 0 => MonthEnds[m] <= d) /\ d < MonthEnds[m + 1]
        <3>1. 0 + 1 = 1 /\ 0 \in 0 .. 11 /\ ~ (0 > 0)
            OBVIOUS
        <3> QED
            BY <3>1
    <2>2. ASSUME NEW m \in 1 .. 11, MonthEnds[m] <= d, d < MonthEnds[m + 1]
          PROVE  \E n \in 0 .. 11 : (n > 0 => MonthEnds[n] <= d) /\ d < MonthEnds[n + 1]
        BY <2>2
    <2>3. d < MonthEnds[1] \/ \E m \in 1 .. 11 : MonthEnds[m] <= d /\ d < MonthEnds[m + 1]
        BY DEF MonthEnds
    <2> QED
        BY <2>1, <2>2, <2>3
<1>3. PICK m \in 0 .. 11 : (m > 0 => MonthEnds[m] <= d) /\ d < MonthEnds[m + 1]
    BY <1>2
<1>4. \A j, k \in 1 .. 12 : j <= k => MonthEnds[j] <= MonthEnds[k]
    BY DEF MonthEnds
<1>5. \A n \in 1 .. 12 : MonthEnds[n] \in Nat
    BY DEF MonthEnds
<1>6. {n \in DOMAIN MonthEnds : MonthEnds[n] <= d} = 1 .. m
    <2>1. ASSUME NEW n \in 1 .. 12 PROVE MonthEnds[n] <= d <=> n \in 1 .. m
        <3>1. CASE n <= m
            <4>1. MonthEnds[n] <= MonthEnds[m]
                BY <1>4, <3>1
            <4> QED
                BY <1>3, <1>5, <3>1, <4>1
        <3>2. CASE n > m
            <4>1. m + 1 \in 1 .. 12 /\ MonthEnds[m + 1] <= MonthEnds[n]
                BY <1>4, <3>2
            <4> QED
                BY <1>3, <1>5, <3>2, <4>1
        <3> QED
            BY <3>1, <3>2
    <2> QED
        BY <1>1, <2>1
<1>7. Cardinality(1 .. m) = m
    <2>1. m \in Int /\ Cardinality(1 .. m) = IF 1 > m THEN 0 ELSE m - 1 + 1
        BY FS_Interval
    <2> QED
        BY <2>1
<1>8. MonthsBefore(d) = m
    BY <1>6, <1>7 DEF MonthsBefore
<1> QED
    BY <1>3, <1>8 DEF InMonth

\* The day of the year, as Month computes it.
DayOfYear(t) == (t \div 1440) % 365

\* The moment t is in the month m (from 0) and on the day d of the year y.
Dated(t, y, m, d) ==
    /\ y \in Int /\ m \in 0 .. 11 /\ d \in 0 .. 364
    /\ Month(t) = 12 * y + m /\ 365 * y + d = t \div 1440

LEMMA MonthIs ==
    ASSUME NEW t \in Int
    PROVE  Dated(t, Year(t), MonthsBefore(DayOfYear(t)), DayOfYear(t))
<1>1. Year(t) \in Int /\ DayOfYear(t) \in 0 .. 364
    BY DEF Year, DayOfYear
<1>2. MonthsBefore(DayOfYear(t)) \in 0 .. 11
    BY <1>1, MonthOfDay DEF InMonth
<1>3. Month(t) = 12 * Year(t) + MonthsBefore(DayOfYear(t))
    BY DEF Month, MonthsBefore, DayOfYear
<1>4. 365 * Year(t) + DayOfYear(t) = t \div 1440
    BY DEF Year, DayOfYear
<1> QED
    BY <1>1, <1>2, <1>3, <1>4 DEF Dated

LEMMA MonthIsNumber ==
    ASSUME NEW t \in Int
    PROVE  Month(t) \in Int
<1>1. Dated(t, Year(t), MonthsBefore(DayOfYear(t)), DayOfYear(t))
    BY MonthIs
<1> QED
    BY <1>1 DEF Dated

LEMMA MonthsGrow ==
    ASSUME NEW d \in 0 .. 364, NEW e \in 0 .. 364, d <= e
    PROVE  MonthsBefore(d) <= MonthsBefore(e)
<1>1. \A j, k \in 1 .. 12 : j <= k => MonthEnds[j] <= MonthEnds[k]
    BY DEF MonthEnds
<1>2. \A n \in 1 .. 12 : MonthEnds[n] \in Nat
    BY DEF MonthEnds
<1> DEFINE m == MonthsBefore(d)  n == MonthsBefore(e)
<1>3. InMonth(d, m) /\ InMonth(e, n)
    BY MonthOfDay
<1> HIDE DEF m, n
<1>4. ASSUME m > n PROVE FALSE
    <2>1. n + 1 \in 1 .. 12 /\ m \in 1 .. 12 /\ MonthEnds[n + 1] <= MonthEnds[m]
        BY <1>1, <1>3, <1>4 DEF InMonth
    <2> QED
        BY <1>2, <1>3, <1>4, <2>1 DEF InMonth
<1>5. m <= n
    BY <1>3, <1>4 DEF InMonth
<1> QED
    BY <1>5 DEF m, n

LEMMA MonthMonotone ==
    ASSUME NEW t \in Int, NEW u \in Int, t <= u
    PROVE  Month(t) <= Month(u)
<1>1. t \div 1440 <= u \div 1440
    OBVIOUS
<1>2. Year(t) <= Year(u)
    BY DEF Year
<1> DEFINE y == Year(t)  z == Year(u)  d == DayOfYear(t)  e == DayOfYear(u)
           m == MonthsBefore(d)  n == MonthsBefore(e)
<1>3. Dated(t, y, m, d)
    BY MonthIs
<1>4. Dated(u, z, n, e)
    BY MonthIs
<1>5. d <= e => m <= n
    <2>1. d \in 0 .. 364 /\ e \in 0 .. 364
        BY <1>3, <1>4 DEF Dated
    <2> HIDE DEF d, e
    <2> QED
        BY <2>1, MonthsGrow
<1> HIDE DEF y, z, d, e, m, n
<1>6. y <= z
    BY <1>2 DEF y, z
<1>7. y = z => d <= e
    BY <1>1, <1>3, <1>4 DEF Dated
<1> QED
    BY <1>3, <1>4, <1>5, <1>6, <1>7 DEF Dated

\* 59 months of 30 days reach into no more than 60 months of the calendar.
LEMMA MonthsOfSpan ==
    ASSUME NEW t \in Int, NEW u \in Int, t <= u, u - t <= 59 * 43200
    PROVE  Month(u) - Month(t) <= 59
<1> DEFINE y == Year(t)  z == Year(u)  d == DayOfYear(t)  e == DayOfYear(u)
           m == MonthsBefore(d)  n == MonthsBefore(e)
<1>1. u \div 1440 - t \div 1440 <= 1770
    OBVIOUS
<1>2. /\ y \in Int /\ z \in Int /\ d \in 0 .. 364 /\ e \in 0 .. 364
      /\ m \in 0 .. 11 /\ n \in 0 .. 11
      /\ Month(t) = 12 * y + m /\ Month(u) = 12 * z + n
      /\ 365 * y + d = t \div 1440 /\ 365 * z + e = u \div 1440
    <2>1. Dated(t, y, m, d) /\ Dated(u, z, n, e)
        BY MonthIs
    <2> HIDE DEF y, z, d, e, m, n
    <2> QED
        BY <2>1 DEF Dated
<1>3. InMonth(d, m) /\ InMonth(e, n)
    <2>1. d \in 0 .. 364 /\ e \in 0 .. 364
        BY <1>2
    <2> HIDE DEF y, z, d, e
    <2> QED
        BY <2>1, MonthOfDay
<1> HIDE DEF y, z, d, e, m, n
<1>4. 365 * z + e <= 365 * y + d + 1770
    BY <1>1, <1>2
<1>5. z <= y + 5
    BY <1>2, <1>4
<1>6. CASE z <= y + 4
    BY <1>2, <1>6
<1>7. CASE z = y + 5
    <2>1. e + 55 <= d
        BY <1>2, <1>4, <1>7
    <2>2. n < m
        <3> SUFFICES ASSUME m <= n
                     PROVE  FALSE
            BY <1>2
        <3>1. CASE n = 0
            <4>1. m = 0 /\ d < MonthEnds[1]
                BY <1>2, <1>3, <3>1 DEF InMonth
            <4> QED
                BY <1>2, <2>1, <4>1 DEF MonthEnds
        <3>2. CASE n > 0
            <4>1. \A j \in 1 .. 11, k \in 0 .. 11 : k <= j => MonthEnds[k + 1] <= MonthEnds[j] + 31
                BY DEF MonthEnds
            <4>2. MonthEnds[m + 1] <= MonthEnds[n] + 31
                BY <1>2, <3>2, <4>1
            <4>3. MonthEnds[m + 1] \in Nat /\ MonthEnds[n] \in Nat
                BY <1>2, <3>2 DEF MonthEnds
            <4> QED
                BY <1>2, <1>3, <2>1, <3>2, <4>2, <4>3 DEF InMonth
        <3> QED
            BY <1>2, <3>1, <3>2
    <2> QED
        BY <1>2, <1>7, <2>2
<1> QED
    BY <1>2, <1>5, <1>6, <1>7
-----------------------------------------------------------------------------
(* Buckets *)

Bins == 1 .. 6  \* the buckets of a fixed width

LEMMA KeysAre ==
    /\ KeyIndices = 1 .. 8 /\ DOMAIN Width = 1 .. 8 /\ Bins \subseteq KeyIndices
    /\ \A k \in KeyIndices : k \in Bins <=> Keys[k] \notin {"1mo", "1y"}
    /\ Keys[7] = "1mo" /\ Keys[8] = "1y"
    /\ \A k \in KeyIndices : Width[k] \in Nat \ {0}
BY SMT DEF KeyIndices, Keys, Width, Bins

Binned(t) ==
    /\ Bucket(1, t) = t \div 5 /\ Bucket(2, t) = t \div 15 /\ Bucket(3, t) = t \div 60
    /\ Bucket(4, t) = t \div 360 /\ Bucket(5, t) = t \div 1440
    /\ Bucket(6, t) = (t - 5760) \div 10080 /\ Bucket(7, t) = Month(t)
    /\ Bucket(8, t) = Year(t)

LEMMA BucketIs ==
    ASSUME NEW t \in Int
    PROVE  Binned(t)
<1>1. /\ \A k \in 1 .. 5 : Keys[k] \notin {"1y", "1mo", "1w"}
      /\ Keys[6] = "1w" /\ Keys[7] = "1mo" /\ Keys[8] = "1y"
    BY DEF Keys
<1>2. /\ Width[1] = 5 /\ Width[2] = 15 /\ Width[3] = 60 /\ Width[4] = 360 /\ Width[5] = 1440
      /\ Width[6] = 10080
    BY SMT DEF Width
<1>3. ASSUME NEW k, Keys[k] # "1y", Keys[k] # "1mo"
      PROVE  Bucket(k, t) = (t - Origin(k)) \div Width[k]
    BY <1>3 DEF Bucket
<1>4. ASSUME NEW k \in 1 .. 5 PROVE Bucket(k, t) = t \div Width[k]
    <2>1. Origin(k) = 0 /\ Bucket(k, t) = (t - Origin(k)) \div Width[k]
        BY <1>1, <1>3 DEF Origin
    <2>2. t - 0 = t
        OBVIOUS
    <2> QED
        BY <2>1, <2>2
<1>5. Bucket(6, t) = (t - 5760) \div 10080
    <2>1. Origin(6) = 5760
        BY <1>1, SMT DEF Origin
    <2>2. Bucket(6, t) = (t - Origin(6)) \div Width[6]
        BY <1>1, <1>3
    <2> QED
        BY <1>2, <2>1, <2>2, SMT
<1>6. ASSUME NEW k, Keys[k] = "1mo" PROVE Bucket(k, t) = Month(t)
    BY <1>6 DEF Bucket
<1>7. ASSUME NEW k, Keys[k] = "1y" PROVE Bucket(k, t) = Year(t)
    BY <1>7 DEF Bucket
<1>8. Bucket(7, t) = Month(t) /\ Bucket(8, t) = Year(t)
    BY <1>1, <1>6, <1>7
<1> QED
    BY <1>2, <1>4, <1>5, <1>8, SMT DEF Binned

LEMMA BucketMonotone ==
    ASSUME NEW k \in KeyIndices, NEW t \in Int, NEW u \in Int, t <= u
    PROVE  Bucket(k, t) \in Int /\ Bucket(k, u) \in Int /\ Bucket(k, t) <= Bucket(k, u)
<1>9. Binned(t) /\ Binned(u)
    BY BucketIs
<1>1. CASE k = 1
    BY <1>1, <1>9, SMT DEF Binned
<1>2. CASE k = 2
    BY <1>2, <1>9, SMT DEF Binned
<1>3. CASE k = 3
    BY <1>3, <1>9, SMT DEF Binned
<1>4. CASE k = 4
    BY <1>4, <1>9, SMT DEF Binned
<1>5. CASE k = 5
    BY <1>5, <1>9, SMT DEF Binned
<1>6. CASE k = 6
    BY <1>6, <1>9, SMT DEF Binned
<1>7. CASE k = 7
    <2>1. Month(t) \in Int /\ Month(u) \in Int
        BY MonthIsNumber
    <2>2. Month(t) <= Month(u)
        BY MonthMonotone
    <2> QED
        BY <1>7, <1>9, <2>1, <2>2, SMT DEF Binned
<1>8. CASE k = 8
    BY <1>8, <1>9, SMT DEF Binned, Year
<1> QED
    BY <1>1, <1>2, <1>3, <1>4, <1>5, <1>6, <1>7, <1>8, KeysAre

LEMMA SpanInBins ==
    ASSUME NEW k \in Bins, NEW t \in Int, NEW u \in Int, NEW n \in Nat, u - t <= n * Width[k]
    PROVE  Bucket(k, u) - n <= Bucket(k, t)
<1>0. /\ Width[1] = 5 /\ Width[2] = 15 /\ Width[3] = 60 /\ Width[4] = 360 /\ Width[5] = 1440
      /\ Width[6] = 10080
    BY SMT DEF Width
<1>9. Binned(t) /\ Binned(u)
    BY BucketIs
<1>1. CASE k = 1
    BY <1>1, <1>0, <1>9, SMT DEF Binned
<1>2. CASE k = 2
    BY <1>2, <1>0, <1>9, SMT DEF Binned
<1>3. CASE k = 3
    BY <1>3, <1>0, <1>9, SMT DEF Binned
<1>4. CASE k = 4
    BY <1>4, <1>0, <1>9, SMT DEF Binned
<1>5. CASE k = 5
    BY <1>5, <1>0, <1>9, SMT DEF Binned
<1>6. CASE k = 6
    BY <1>6, <1>0, <1>9, SMT DEF Binned
<1> QED
    BY <1>1, <1>2, <1>3, <1>4, <1>5, <1>6 DEF Bins

LEMMA SpecIs ==
    /\ Specs("1h")  = [bucket |-> 1, points |-> 13]
    /\ Specs("6h")  = [bucket |-> 2, points |-> 25]
    /\ Specs("24h") = [bucket |-> 3, points |-> 25]
    /\ Specs("7d")  = [bucket |-> 4, points |-> 29]
    /\ Specs("30d") = [bucket |-> 5, points |-> 31]
    /\ Specs("6m")  = [bucket |-> 6, points |-> 27]
    /\ Specs("12m") = [bucket |-> 7, points |-> 13]
<1>1. /\ Keys[1] = "5m" /\ Keys[2] = "15m" /\ Keys[3] = "1h" /\ Keys[4] = "6h"
      /\ Keys[5] = "1d" /\ Keys[6] = "1w" /\ Keys[7] = "1mo" /\ Keys[8] = "1y"
    BY DEF Keys
<1>2. ASSUME NEW k \in KeyIndices, NEW n
      PROVE  Plan(Keys[k], n) = [bucket |-> k, points |-> n]
    <2>1. \A j \in KeyIndices : Keys[j] = Keys[k] => j = k
        BY <1>1, KeysAre
    <2> QED
        BY <2>1 DEF Plan
<1>3. /\ Specs("1h")  = Plan(Keys[1], 13) /\ Specs("6h")  = Plan(Keys[2], 25)
      /\ Specs("24h") = Plan(Keys[3], 25) /\ Specs("7d")  = Plan(Keys[4], 29)
      /\ Specs("30d") = Plan(Keys[5], 31) /\ Specs("6m")  = Plan(Keys[6], 27)
      /\ Specs("12m") = Plan(Keys[7], 13)
    BY <1>1 DEF Specs
<1>4. \A k \in 1 .. 8 : \A n : Plan(Keys[k], n) = [bucket |-> k, points |-> n]
    BY <1>2, KeysAre
<1>5. Plan(Keys[1], 13) = [bucket |-> 1, points |-> 13]
    BY <1>4
<1>6. Plan(Keys[2], 25) = [bucket |-> 2, points |-> 25]
    BY <1>4
<1>7. Plan(Keys[3], 25) = [bucket |-> 3, points |-> 25]
    BY <1>4
<1>8. Plan(Keys[4], 29) = [bucket |-> 4, points |-> 29]
    BY <1>4
<1>9. Plan(Keys[5], 31) = [bucket |-> 5, points |-> 31]
    BY <1>4
<1>10. Plan(Keys[6], 27) = [bucket |-> 6, points |-> 27]
    BY <1>4
<1>11. Plan(Keys[7], 13) = [bucket |-> 7, points |-> 13]
    BY <1>4
<1> QED
    BY <1>3, <1>5, <1>6, <1>7, <1>8, <1>9, <1>10, <1>11

LEMMA FunctionOfParts ==
    ASSUME NEW N, NEW P, Parted(P, DOMAIN N), \A x \in DOMAIN N : N[x] = Cardinality(P[x])
    PROVE  FoldFunction(+, 0, N) = Cardinality(Together(P, DOMAIN N))
<1>1. FoldFunction(+, 0, N) = Total(N, DOMAIN N)
    BY DEF FoldFunction, FoldFunctionOnSet, MapThenFoldSet, OneByOne, Any, Total
<1>2. Total(N, DOMAIN N) = Cardinality(Together(P, DOMAIN N))
    BY FoldOfParts
<1> QED
    BY <1>1, <1>2

InBuckets(plan, moment) ==
    {l \in Logs : /\ Bucket(plan.bucket, moment) - plan.points < Bucket(plan.bucket, created[l])
                  /\ Bucket(plan.bucket, created[l]) <= Bucket(plan.bucket, moment)}

LEMMA SeriesAdds ==
    ASSUME IsFiniteSet(Logs), created \in [Logs -> Int], NEW moment \in Int,
           NEW plan, plan.bucket \in KeyIndices, plan.points \in Nat
    PROVE  FoldFunction(+, 0, Series(plan, created, moment)) = Cardinality(InBuckets(plan, moment))
<1> DEFINE k == plan.bucket
           m == plan.points
           last == Bucket(k, moment)
           P == [n \in 1 .. m |-> {l \in Logs : Bucket(k, created[l]) = last - m + n}]
           N == [n \in 1 .. m |-> Cardinality({l \in DOMAIN created :
                                                Bucket(k, created[l]) = last - m + n})]
<1>1. Series(plan, created, moment) = N
    <2>1. plan # NoPlan
        BY KeysAre DEF NoPlan
    <2> QED
        BY <2>1 DEF Series
<1>2. \A l \in Logs : Bucket(k, created[l]) \in Int
    BY BucketMonotone
<1>3. last \in Int
    BY BucketMonotone
<1>4. Parted(P, 1 .. m)
    <2>1. IsFiniteSet(1 .. m)
        BY FS_Interval
    <2>2. ASSUME NEW n \in 1 .. m PROVE IsFiniteSet(P[n])
        <3>1. P[n] \subseteq Logs
            OBVIOUS
        <3> QED
            BY <3>1, FS_Subset
    <2>3. ASSUME NEW n \in 1 .. m, NEW o \in 1 .. m, n # o PROVE P[n] \cap P[o] = {}
        <3> HIDE DEF k, last
        <3>1. last - m + n # last - m + o
            BY <1>3, <2>3
        <3> QED
            BY <3>1
    <2> HIDE DEF P
    <2> QED
        BY <2>1, <2>2, <2>3 DEF Parted
<1>5. DOMAIN N = 1 .. m /\ \A n \in 1 .. m : N[n] = Cardinality(P[n])
    OBVIOUS
<1>6. Together(P, 1 .. m) = InBuckets(plan, moment)
    <2>1. ASSUME NEW l \in Logs
          PROVE  (\E n \in 1 .. m : l \in P[n]) <=> l \in InBuckets(plan, moment)
        <3> DEFINE b == Bucket(k, created[l])
        <3>1. b \in Int
            BY <1>2
        <3>2. (\E n \in 1 .. m : l \in P[n]) <=> \E n \in 1 .. m : b = last - m + n
            OBVIOUS
        <3>3. l \in InBuckets(plan, moment) <=> last - m < b /\ b <= last
            BY DEF InBuckets
        <3> HIDE DEF b, last, k
        <3>4. (\E n \in 1 .. m : b = last - m + n) <=> last - m < b /\ b <= last
            <4>1. ASSUME last - m < b, b <= last
                  PROVE  \E n \in 1 .. m : b = last - m + n
                <5>1. b - last + m \in 1 .. m /\ b = last - m + (b - last + m)
                    BY <1>3, <3>1, <4>1
                <5> QED
                    BY <5>1
            <4>2. ASSUME NEW n \in 1 .. m, b = last - m + n
                  PROVE  last - m < b /\ b <= last
                BY <1>3, <3>1, <4>2
            <4> QED
                BY <4>1, <4>2
        <3> QED
            BY <3>2, <3>3, <3>4
    <2>2. \A n \in 1 .. m : P[n] \subseteq Logs
        OBVIOUS
    <2>3. InBuckets(plan, moment) \subseteq Logs
        BY DEF InBuckets
    <2> HIDE DEF P
    <2> QED
        BY <2>1, <2>2, <2>3 DEF Together
<1> HIDE DEF N, P
<1> QED
    BY <1>1, <1>4, <1>5, <1>6, FunctionOfParts
-----------------------------------------------------------------------------
(* What a chart counts *)

\* No log is older than the buckets of a chart reach back, which is sixty years.
NoneTooOld ==
    \A a \in Arrivals, l \in Logs, n \in DOMAIN Moments :
        Moments[n] - a[l] <= (MAX_BUCKETS - 1) * Width[8]

PlanOf(r, n) == IF r = "all" THEN PlanAllRange(Times, Moments[n]) ELSE Specs(r)
LogsIn(c) == FoldFunction(+, 0, c.points)
Spanned(r, moment) == {l \in Logs : created[l] >= Since(r, Times, moment) /\ created[l] <= moment}

LEMMA TimesAre ==
    ASSUME created \in Arrivals
    PROVE  /\ created \in [Logs -> Int] /\ IsFiniteSet(Logs)
           /\ IsFiniteSet(Times) /\ Times \subseteq Int
<1>1. created \in [Logs -> Int] /\ IsFiniteSet(Logs)
    BY DashboardConstants
<1>2. created \in Surjection(Logs, Times)
    BY <1>1 DEF Surjection, Times
<1> QED
    BY <1>1, <1>2, FS_Surjection DEF Times

LEMMA CeilDivIs ==
    ASSUME NEW k \in Bins, NEW a \in Nat
    PROVE  /\ CeilDiv(a, Width[k]) \in Nat
           /\ a <= CeilDiv(a, Width[k]) * Width[k]
           /\ \A n \in Nat : a <= n * Width[k] => CeilDiv(a, Width[k]) <= n
<1>0. /\ Width[1] = 5 /\ Width[2] = 15 /\ Width[3] = 60 /\ Width[4] = 360 /\ Width[5] = 1440
      /\ Width[6] = 10080
    BY SMT DEF Width
<1>1. CASE k = 1
    BY <1>1, <1>0, SMT DEF CeilDiv
<1>2. CASE k = 2
    BY <1>2, <1>0, SMT DEF CeilDiv
<1>3. CASE k = 3
    BY <1>3, <1>0, SMT DEF CeilDiv
<1>4. CASE k = 4
    BY <1>4, <1>0, SMT DEF CeilDiv
<1>5. CASE k = 5
    BY <1>5, <1>0, SMT DEF CeilDiv
<1>6. CASE k = 6
    BY <1>6, <1>0, SMT DEF CeilDiv
<1> QED
    BY <1>1, <1>2, <1>3, <1>4, <1>5, <1>6 DEF Bins

LEMMA PointsReachBack ==
    ASSUME NEW k \in KeyIndices, NEW first \in Int, NEW moment \in Int, first <= moment,
           moment - first <= 59 * Width[k]
    PROVE  /\ PointsFor(k, first, moment) \in Int /\ PointsFor(k, first, moment) <= 60
           /\ Bucket(k, moment) - Bucket(k, first) < PointsFor(k, first, moment)
<1>1. Bucket(k, first) \in Int /\ Bucket(k, moment) \in Int
    BY BucketMonotone
<1>2. CASE k \in Bins
    <2> DEFINE n == CeilDiv(moment - first, Width[k])
    <2>1. moment - first \in Nat
        OBVIOUS
    <2>2. n \in Nat /\ moment - first <= n * Width[k] /\ n <= 59
        BY <1>2, <2>1, CeilDivIs
    <2>3. PointsFor(k, first, moment) = n + 1
        <3>1. Largest(0, moment - first) = moment - first
            BY <2>1 DEF Largest
        <3> QED
            BY <1>2, <3>1, KeysAre DEF PointsFor
    <2> HIDE DEF n
    <2>4. Bucket(k, moment) - n <= Bucket(k, first)
        BY <1>2, <2>2, SpanInBins
    <2> QED
        BY <1>1, <2>2, <2>3, <2>4
<1>3. CASE k \notin Bins
    <2>1. PointsFor(k, first, moment) = Bucket(k, moment) - Bucket(k, first) + 1
        BY <1>3, KeysAre DEF PointsFor
    <2>2. Bucket(k, moment) - Bucket(k, first) <= 59
        <3>1. Binned(first) /\ Binned(moment)
            BY BucketIs
        <3>2. CASE k = 7
            <4>1. moment - first <= 59 * 43200
                BY <3>2, SMT DEF Width
            <4>2. Month(moment) - Month(first) <= 59
                BY <4>1, MonthsOfSpan
            <4> QED
                BY <3>1, <3>2, <4>2 DEF Binned
        <3>3. CASE k = 8
            <4>1. moment - first <= 59 * 525600
                BY <3>3, SMT DEF Width
            <4>2. Year(moment) - Year(first) <= 59
                BY <4>1, SMT DEF Year
            <4> QED
                BY <3>1, <3>3, <4>2 DEF Binned
        <3> QED
            BY <1>3, <3>2, <3>3, KeysAre DEF Bins
    <2> QED
        BY <1>1, <2>1, <2>2
<1> QED
    BY <1>2, <1>3

LEMMA PointsAreNumbers ==
    ASSUME NEW k \in KeyIndices, NEW first \in Int, NEW moment \in Int
    PROVE  PointsFor(k, first, moment) \in Int
<1>1. Bucket(k, first) \in Int /\ Bucket(k, moment) \in Int
    <2>1. first <= moment \/ moment <= first
        OBVIOUS
    <2> QED
        BY <2>1, BucketMonotone
<1>2. CASE k \in Bins
    <2>1. Largest(0, moment - first) \in Nat
        BY DEF Largest
    <2>2. CeilDiv(Largest(0, moment - first), Width[k]) \in Nat
        BY <1>2, <2>1, CeilDivIs
    <2> QED
        BY <1>2, <2>2, KeysAre DEF PointsFor
<1>3. CASE k \notin Bins
    BY <1>1, <1>3, KeysAre DEF PointsFor
<1> QED
    BY <1>2, <1>3

LEMMA AllIsPlanned ==
    ASSUME created \in Arrivals, NoneTooOld, NEW n \in DOMAIN Moments, Times # {},
           NEW plan, plan = PlanAllRange(Times, Moments[n])
    PROVE  /\ plan.bucket \in KeyIndices /\ plan.points \in Nat
           /\ Spanned("all", Moments[n]) \subseteq InBuckets(plan, Moments[n])
<1> DEFINE moment == Moments[n]
           first == Min(Times)
           span == Largest(0, moment - first)
           fits == {k \in KeyIndices : span <= (MAX_BUCKETS - 1) * Width[k]}
           k == PickBucketForSpan(span)
           points == PointsFor(k, first, moment)
<1>1. moment \in Nat
    BY DashboardConstants
<1>2. first \in Times /\ first \in Int /\ \A t \in Times : first <= t
    BY TimesAre, MinExists
<1>3. MAX_BUCKETS - 1 = 59
    BY DEF MAX_BUCKETS
<1>4. span \in Nat /\ span <= 59 * Width[8] /\ (first <= moment => span = moment - first)
    <2>1. PICK l \in Logs : first = created[l]
        BY <1>2 DEF Times
    <2>2. moment - first <= 59 * Width[8]
        BY <1>3, <2>1 DEF NoneTooOld
    <2>3. Width[8] = 525600
        BY SMT DEF Width
    <2> HIDE DEF moment, first
    <2> QED
        BY <1>1, <1>2, <2>2, <2>3, SMT DEF Largest
<1> HIDE DEF moment, first
<1>5. k \in KeyIndices /\ span <= 59 * Width[k]
    <2>1. 8 \in fits
        BY <1>3, <1>4, KeysAre
    <2>2. IsFiniteSet(fits) /\ fits \subseteq Int
        <3>1. fits \subseteq 1 .. 8
            BY KeysAre
        <3>2. IsFiniteSet(1 .. 8) /\ 1 .. 8 \subseteq Int
            <4>1. \A j \in Nat : IsFiniteSet(1 .. j)
                BY FS_Interval
            <4>2. \A j \in Nat : 1 .. j \subseteq Int
                OBVIOUS
            <4>3. 8 \in Nat
                OBVIOUS
            <4> QED
                BY <4>1, <4>2, <4>3, Zenon
        <3> HIDE DEF fits
        <3> QED
            BY <3>1, <3>2, FS_Subset
    <2>3. Min(fits) \in fits
        <3> HIDE DEF fits
        <3> QED
            BY <2>1, <2>2, MinExists
    <2>4. k = Min(fits)
        BY <2>1 DEF PickBucketForSpan
    <2> QED
        BY <1>3, <2>3, <2>4
<1>6. plan = [bucket |-> k, points |-> Smallest(Largest(points, 1), MAX_BUCKETS)]
    BY DEF PlanAllRange, moment, first
<1> HIDE DEF span, k
<1>7. points \in Int
    BY <1>1, <1>2, <1>5, PointsAreNumbers
<1>8. plan.bucket = k /\ plan.points \in Nat /\ (points <= 60 => points <= plan.points)
    <2>1. plan.points = Smallest(Largest(points, 1), 60) /\ plan.bucket = k
        BY <1>6 DEF MAX_BUCKETS
    <2> HIDE DEF points
    <2> QED
        BY <1>7, <2>1 DEF Smallest, Largest
<1>9. ASSUME NEW l \in Spanned("all", moment) PROVE l \in InBuckets(plan, moment)
    <2>1. l \in Logs /\ created[l] \in Times /\ created[l] \in Int /\ created[l] <= moment
        BY TimesAre DEF Spanned, Times
    <2>2. first <= created[l] /\ first <= moment
        BY <1>1, <1>2, <2>1
    <2>3. moment - first <= 59 * Width[k]
        BY <1>4, <1>5, <2>2
    <2>4. points <= 60 /\ Bucket(k, moment) - Bucket(k, first) < points
        BY <1>1, <1>2, <1>5, <2>2, <2>3, PointsReachBack
    <2>5. /\ Bucket(k, first) \in Int /\ Bucket(k, created[l]) \in Int /\ Bucket(k, moment) \in Int
          /\ Bucket(k, first) <= Bucket(k, created[l]) /\ Bucket(k, created[l]) <= Bucket(k, moment)
        BY <1>1, <1>2, <1>5, <2>1, <2>2, BucketMonotone
    <2> HIDE DEF points
    <2>6. Bucket(k, moment) - plan.points < Bucket(k, created[l])
        BY <1>7, <1>8, <2>4, <2>5
    <2> QED
        BY <1>8, <2>1, <2>5, <2>6 DEF InBuckets
<1> QED
    BY <1>5, <1>8, <1>9 DEF moment

\* The plan of a range has the buckets that the name of the range promises, and one more.
LEMMA PlanHasTheSpan ==
    ASSUME NEW r \in Ranges \ {"all", "12m"}
    PROVE  Minutes(r) = (Specs(r).points - 1) * Width[Specs(r).bucket]
<1>1. /\ Width[1] = 5 /\ Width[2] = 15 /\ Width[3] = 60
      /\ Width[4] = 360 /\ Width[5] = 1440 /\ Width[6] = 10080
    BY DEF Width
<1>2. CASE r = "1h"
    BY <1>1, <1>2, SpecIs DEF Minutes
<1>3. CASE r = "6h"
    BY <1>1, <1>3, SpecIs DEF Minutes
<1>4. CASE r = "24h"
    BY <1>1, <1>4, SpecIs DEF Minutes
<1>5. CASE r = "7d"
    BY <1>1, <1>5, SpecIs DEF Minutes
<1>6. CASE r = "30d"
    BY <1>1, <1>6, SpecIs DEF Minutes
<1>7. CASE r = "6m"
    BY <1>1, <1>7, SpecIs DEF Minutes
<1> QED
    BY <1>2, <1>3, <1>4, <1>5, <1>6, <1>7 DEF Ranges

LEMMA FixedIsPlanned ==
    ASSUME created \in Arrivals, NEW moment \in Nat, NEW r \in Ranges \ {"all"},
           NEW plan, plan = Specs(r)
    PROVE  /\ plan.bucket \in KeyIndices /\ plan.points \in Nat
           /\ Spanned(r, moment) \subseteq InBuckets(plan, moment)
<1>1. /\ plan.bucket \in KeyIndices /\ plan.points \in Nat \ {0}
      /\ r # "12m" => plan.bucket \in Bins
      /\ r = "12m" => plan.bucket = 7 /\ plan.points = 13
    BY SpecIs, KeysAre DEF Ranges, Bins
<1> DEFINE k == plan.bucket
<1>2. ASSUME NEW l \in Spanned(r, moment)
      PROVE  Bucket(k, moment) - plan.points < Bucket(k, created[l])
    <2>1. l \in Logs /\ created[l] \in Int /\ created[l] >= Since(r, Times, moment) /\ created[l] <= moment
        BY TimesAre DEF Spanned
    <2>2. Bucket(k, created[l]) \in Int /\ Bucket(k, moment) \in Int
        BY <1>1, <2>1, BucketMonotone
    <2>3. CASE r # "12m"
        <3>1. Since(r, Times, moment) = moment - (plan.points - 1) * Width[k]
            BY <2>3, PlanHasTheSpan DEF Since
        <3>2. plan.points - 1 \in Nat /\ Width[k] \in Nat
            BY <1>1, KeysAre
        <3> DEFINE m == plan.points - 1  s == m * Width[k]
        <3>3. s \in Nat /\ Since(r, Times, moment) = moment - s
            BY <3>1, <3>2
        <3> HIDE DEF s
        <3>4. moment - created[l] <= s
            BY <2>1, <3>3
        <3>5. moment - created[l] <= m * Width[k]
            BY <3>4 DEF s
        <3> HIDE DEF k
        <3>6. Bucket(k, moment) - m <= Bucket(k, created[l])
            BY <1>1, <2>1, <2>3, <3>2, <3>5, SpanInBins DEF k
        <3> QED
            BY <1>1, <2>2, <3>6
    <2>4. CASE r = "12m"
        <3> DEFINE S == {t \in Times \cup {moment} : Month(moment) - Month(t) <= 12}
        <3>1. Month(moment) \in Int /\ Binned(moment) /\ Binned(created[l])
            BY <2>1, BucketIs, MonthIsNumber
        <3>2. S # {} /\ S \subseteq Int /\ IsFiniteSet(S)
            <4>1. IsFiniteSet(Times \cup {moment}) /\ Times \cup {moment} \subseteq Int
                BY TimesAre, FS_AddElement
            <4>2. Month(moment) - Month(moment) <= 12
                BY <3>1
            <4> QED
                BY <4>1, <4>2, FS_Subset
        <3>3. Min(S) \in S
            <4> HIDE DEF S
            <4> QED
                BY <3>2, MinExists
        <3>4. Since(r, Times, moment) = Min(S)
            BY <2>4 DEF Since
        <3>5. Min(S) \in Int /\ Month(moment) - Month(Min(S)) <= 12
            BY <3>2, <3>3
        <3> HIDE DEF S
        <3>6. Month(Min(S)) \in Int /\ Month(created[l]) \in Int
            BY <2>1, <3>5, MonthIsNumber
        <3>7. Month(Min(S)) <= Month(created[l])
            BY <2>1, <3>4, <3>5, MonthMonotone
        <3>8. Bucket(k, moment) = Month(moment) /\ Bucket(k, created[l]) = Month(created[l])
            BY <1>1, <2>4, <3>1 DEF Binned
        <3>9. plan.points = 13
            BY <1>1, <2>4
        <3> QED
            BY <3>1, <3>5, <3>6, <3>7, <3>8, <3>9
    <2> QED
        BY <2>3, <2>4
<1>3. ASSUME NEW l \in Spanned(r, moment) PROVE l \in InBuckets(plan, moment)
    <2>1. l \in Logs /\ created[l] \in Int /\ created[l] <= moment
        BY TimesAre DEF Spanned
    <2>2. Bucket(k, created[l]) <= Bucket(k, moment)
        BY <1>1, <2>1, BucketMonotone
    <2> QED
        BY <1>2, <2>1, <2>2 DEF InBuckets
<1> QED
    BY <1>1, <1>3

\* A chart was drawn up by the plan of its range, from the logs, at the moment it was read.
ChartOf(c) ==
    /\ c.range \in Ranges /\ c.at \in DOMAIN Moments /\ c.planned \in DOMAIN Moments
    /\ c.points = Series(PlanOf(c.range, c.planned), created, Moments[c.at])

LEMMA ChartCounts ==
    ASSUME created \in Arrivals, NoneTooOld, NEW c, ChartOf(c)
    PROVE  /\ c.planned = c.at =>
                  LogsIn(c) >= Cardinality(Spanned(c.range, Moments[c.at]))
           /\ LogsIn(c) <= Cardinality(Logs)
<1> DEFINE moment == Moments[c.at]
           plan == PlanOf(c.range, c.planned)
<1>1. moment \in Nat /\ Moments[c.planned] \in Nat
    BY DashboardConstants DEF ChartOf
<1>2. created \in [Logs -> Int] /\ IsFiniteSet(Logs)
    BY TimesAre
<1>3. CASE c.range = "all" /\ Times = {}
    <2>1. plan = NoPlan
        BY <1>3 DEF PlanOf, PlanAllRange
    <2>2. c.points = <<>>
        BY <2>1 DEF ChartOf, Series
    <2>3. Logs = {} /\ Spanned(c.range, moment) = {}
        BY <1>3 DEF Times, Spanned
    <2>4. LogsIn(c) = 0
        <3> DEFINE P == [n \in {} |-> {}]
        <3>1. DOMAIN c.points = {}
            BY <2>2
        <3>2. Parted(P, {}) /\ Together(P, {}) = {}
            BY FS_EmptySet DEF Parted, Together
        <3>3. FoldFunction(+, 0, c.points) = Cardinality(Together(P, DOMAIN c.points))
            <4> HIDE DEF P
            <4> QED
                BY <3>1, <3>2, FunctionOfParts
        <3> QED
            BY <3>1, <3>2, <3>3, FS_EmptySet DEF LogsIn
    <2> QED
        BY <2>3, <2>4, FS_EmptySet
<1>4. CASE ~ (c.range = "all" /\ Times = {})
    <2>1. /\ plan.bucket \in KeyIndices /\ plan.points \in Nat
          /\ c.planned = c.at => Spanned(c.range, moment) \subseteq InBuckets(plan, moment)
        <3>1. CASE c.range = "all"
            BY <1>4, <3>1, AllIsPlanned DEF PlanOf, ChartOf
        <3>2. CASE c.range # "all"
            BY <1>1, <3>2, FixedIsPlanned DEF PlanOf, ChartOf
        <3> QED
            BY <3>1, <3>2
    <2> HIDE DEF plan, moment
    <2>2. LogsIn(c) = Cardinality(InBuckets(plan, moment))
        <3>1. c.points = Series(plan, created, moment)
            BY DEF ChartOf, plan, moment
        <3>2. moment \in Int
            BY <1>1 DEF moment
        <3>3. FoldFunction(+, 0, Series(plan, created, moment)) = Cardinality(InBuckets(plan, moment))
            BY <1>2, <2>1, <3>2, SeriesAdds
        <3> QED
            BY <3>1, <3>3 DEF LogsIn
    <2>3. InBuckets(plan, moment) \subseteq Logs
        BY DEF InBuckets
    <2>4. /\ IsFiniteSet(InBuckets(plan, moment))
          /\ Cardinality(InBuckets(plan, moment)) <= Cardinality(Logs)
        BY <1>2, <2>3, FS_Subset
    <2>5. c.planned = c.at =>
              Cardinality(Spanned(c.range, moment)) <= Cardinality(InBuckets(plan, moment))
        BY <2>1, <2>4, FS_Subset
    <2>6. Cardinality(InBuckets(plan, moment)) \in Nat
        BY <2>4, FS_CardinalityType
    <2>7. c.planned = c.at => Cardinality(Spanned(c.range, moment)) \in Nat
        BY <2>1, <2>4, FS_Subset, FS_CardinalityType
    <2> QED
        BY <2>2, <2>4, <2>5, <2>6, <2>7 DEF moment
<1> QED
    BY <1>3, <1>4
-----------------------------------------------------------------------------
(* The charts of the first page *)

\* A request has read what its range asks for, and the load that counts is of the range that is
\* picked; what is shown is of that range too, unless something newer is on its way or has failed.
PollOf(p) ==
    /\ DOMAIN p = {"kind", "nr", "range", "plan", "chart"}
    /\ p.range \in Ranges /\ p.nr \in Nat
    /\ p.plan = NotYet => p.range = "all"
    /\ p.plan # NotYet =>
          /\ p.range = "all" => p.plan[1].at \in DOMAIN Moments
          /\ p.plan[1].plan = PlanOf(p.range, p.plan[1].at)
    /\ p.chart # NotYet => ChartOf(p.chart[1]) /\ p.chart[1].range = p.range
    /\ p.kind = "chart" => p.nr <= newest /\ (p.nr = newest => p.range = range)

BoardInv ==
    /\ created \in Arrivals /\ clock \in DOMAIN Moments /\ newest \in Nat /\ range \in Ranges
    /\ DOMAIN status \subseteq Batches /\ \A b \in DOMAIN status : status[b] \in BATCH_STATUSES
    /\ \A p \in polls : PollOf(p)
    /\ chart # NoChart =>
          /\ ChartOf(chart)
          /\ ~chartLoading /\ ~chartError /\ ~overtaken => chart.range = range

LEMMA ChartStart == Init => BoardInv
<1> SUFFICES ASSUME Init
             PROVE  BoardInv
    OBVIOUS
<1>1. created \in Arrivals
    <2>1. PICK a : a \in Arrivals
        BY DashboardConstants
    <2> QED
        BY <2>1 DEF Init, DashboardInit
<1>2. clock \in DOMAIN Moments
    BY DashboardConstants DEF Init, DashboardInit
<1>3. newest \in Nat /\ range \in Ranges /\ range # "all" /\ chart = NoChart
    BY DEF Init, DashboardInit, DEFAULT_RANGE, Ranges
<1>4. ASSUME NEW p \in polls PROVE PollOf(p)
    <2>1. p = Poll("chart", 1, range) /\ newest = 1
        BY <1>4 DEF Init, DashboardInit
    <2> QED
        BY <1>3, <2>1 DEF PollOf, Poll, NotYet, PlanOf
<1>5. DOMAIN status \subseteq Batches /\ \A b \in DOMAIN status : status[b] \in BATCH_STATUSES
    BY DEF Init, DashboardInit
<1> QED
    BY <1>1, <1>2, <1>3, <1>4, <1>5 DEF BoardInv

LEMMA NewPoll ==
    ASSUME NEW kind, NEW nr \in Nat, NEW r \in Ranges,
           kind = "chart" => nr <= newest' /\ (nr = newest' => r = range')
    PROVE  PollOf(Poll(kind, nr, r))'
<1> DEFINE p == Poll(kind, nr, r)
<1>1. /\ p.range = r /\ p.kind = kind /\ p.nr = nr /\ p.chart = NotYet
      /\ DOMAIN p = {"kind", "nr", "range", "plan", "chart"}
    BY DEF Poll
<1>2. IF r = "all" THEN p.plan = NotYet ELSE p.plan # NotYet /\ p.plan[1].plan = Specs(r)
    BY DEF Poll, NotYet
<1> HIDE DEF p
<1>3. PollOf(p)'
    BY <1>1, <1>2 DEF PollOf, PlanOf
<1> QED
    BY <1>3 DEF p

LEMMA ChartStep ==
    ASSUME BoardInv, [Next]_<<elsewhere, board>>
    PROVE  BoardInv'
<1> USE DEF BoardInv
<1>1. ASSUME stock' = stock
      PROVE  /\ created' = created /\ clock' = clock /\ status' = status
             /\ \A c : ChartOf(c)' <=> ChartOf(c)
             /\ \A r, n : PlanOf(r, n)' = PlanOf(r, n)
    BY <1>1 DEF stock, ChartOf, PlanOf, Times
<1>2. ASSUME stock' = stock, UNCHANGED <<range, newest>>
      PROVE  \A p : PollOf(p)' <=> PollOf(p)
    BY <1>1, <1>2 DEF PollOf
<1>3. CASE UNCHANGED board
    <2>1. /\ stock' = stock
          /\ UNCHANGED <<range, newest, polls, chart, chartLoading, chartError, overtaken>>
        BY <1>3 DEF board, chartVars
    <2> QED
        BY <1>1, <1>2, <2>1
<1>4. CASE Elapse
    <2>1. /\ created' = created /\ clock' \in DOMAIN Moments /\ status' = status
          /\ UNCHANGED <<range, newest, polls, chart, chartLoading, chartError, overtaken>>
        BY <1>4, DashboardConstants DEF Elapse, chartVars
    <2>2. /\ \A c : ChartOf(c)' <=> ChartOf(c)
          /\ \A r, n : PlanOf(r, n)' = PlanOf(r, n)
        BY <2>1 DEF ChartOf, PlanOf, Times
    <2>3. \A p : PollOf(p)' <=> PollOf(p)
        BY <2>1, <2>2 DEF PollOf
    <2> QED
        BY <2>1, <2>2, <2>3
<1>5. CASE FirstArrives \/ FirstFails
    <2>1. /\ stock' = stock
          /\ UNCHANGED <<range, newest, polls, chart, chartLoading, chartError, overtaken>>
        BY <1>5 DEF FirstArrives, FirstFails, chartVars
    <2> QED
        BY <1>1, <1>2, <2>1
<1>6. ASSUME NEW r \in Ranges, PickRange(r) PROVE BoardInv'
    <2>0. PICK n \in Nat : n = newest + 1
        OBVIOUS
    <2>1. /\ stock' = stock /\ range' = r /\ newest' = n
          /\ polls' = polls \cup {Poll("chart", n, r)}
          /\ chartLoading' = TRUE /\ chart' = chart
        BY <1>6, <2>0 DEF PickRange
    <2>2. PollOf(Poll("chart", n, r))'
        BY <2>1, NewPoll
    <2>3. ASSUME NEW p \in polls PROVE PollOf(p)'
        <3>1. PollOf(p) /\ p.nr \in Nat /\ newest \in Nat
            BY DEF PollOf
        <3>2. p.kind = "chart" => p.nr <= newest + 1 /\ p.nr # newest + 1
            BY <3>1 DEF PollOf
        <3> QED
            BY <1>1, <2>0, <2>1, <3>1, <3>2 DEF PollOf
    <2>4. newest' \in Nat /\ range' \in Ranges
        BY <2>1
    <2>5. \A p \in polls' : PollOf(p)'
        BY <2>1, <2>2, <2>3
    <2> QED
        BY <1>1, <2>1, <2>4, <2>5
<1>7. CASE AutoRefresh
    <2>1. /\ stock' = stock /\ polls' = polls \cup {Poll("refresh", 0, range)}
          /\ UNCHANGED <<range, newest, chart, chartLoading, chartError, overtaken>>
        BY <1>7 DEF AutoRefresh, chartVars
    <2>2. PollOf(Poll("refresh", 0, range))'
        BY <2>1, NewPoll
    <2> QED
        BY <1>1, <1>2, <2>1, <2>2
<1>8. ASSUME NEW p \in polls, NEW q, Answers(p, q), PollOf(q) PROVE BoardInv'
    <2>1. /\ stock' = stock /\ polls' \subseteq polls \cup {q}
          /\ UNCHANGED <<range, newest, chart, chartLoading, chartError, overtaken>>
        BY <1>8 DEF Answers, chartVars
    <2> QED
        BY <1>1, <1>2, <1>8, <2>1
<1>9. ASSUME NEW p \in polls, PlanChart(p) PROVE BoardInv'
    <2> DEFINE new == <<[plan |-> PlanAllRange(Times, Now), at |-> clock]>>
               q == [p EXCEPT !.plan = new]
    <2>1. Answers(p, q) /\ p.plan = NotYet /\ p.chart = NotYet
        BY <1>9 DEF PlanChart
    <2>2. PollOf(q)
        <3>1. /\ DOMAIN q = {"kind", "nr", "range", "plan", "chart"} /\ q.plan = new
              /\ q.range = p.range /\ q.nr = p.nr /\ q.kind = p.kind /\ q.chart = p.chart
              /\ PollOf(p) /\ p.range = "all"
            BY <2>1 DEF PollOf
        <3>2. /\ new # NotYet /\ new[1].at = clock /\ new[1].plan = PlanAllRange(Times, Now)
            BY DEF NotYet
        <3> HIDE DEF q, new
        <3>3. new[1].plan = PlanOf(q.range, new[1].at)
            BY <3>1, <3>2 DEF PlanOf, Now
        <3> QED
            BY <2>1, <3>1, <3>2, <3>3 DEF PollOf
    <2> HIDE DEF q
    <2> QED
        BY <1>8, <2>1, <2>2
<1>10. ASSUME NEW p \in polls, ReadChart(p) PROVE BoardInv'
    <2> DEFINE c == [range |-> p.range, at |-> clock,
                     planned |-> IF p.range = "all" THEN p.plan[1].at ELSE clock,
                     points |-> Series(p.plan[1].plan, created, Now)]
               new == <<c>>
               q == [p EXCEPT !.chart = new]
    <2>1. Answers(p, q) /\ p.plan # NotYet
        BY <1>10 DEF ReadChart
    <2>2. PollOf(q)
        <3>1. /\ DOMAIN q = {"kind", "nr", "range", "plan", "chart"} /\ q.chart = new
              /\ q.range = p.range /\ q.nr = p.nr /\ q.kind = p.kind /\ q.plan = p.plan
              /\ PollOf(p)
            BY <2>1 DEF PollOf
        <3>2. new[1] = c
            OBVIOUS
        <3>3. /\ c.range = p.range /\ c.at = clock /\ c.points = Series(p.plan[1].plan, created, Now)
              /\ c.planned = IF p.range = "all" THEN p.plan[1].at ELSE clock
            OBVIOUS
        <3> HIDE DEF q, new, c
        <3>4. PlanOf(c.range, c.planned) = p.plan[1].plan
            BY <2>1, <3>1, <3>3 DEF PollOf, PlanOf
        <3>5. ChartOf(c)
            <4>1. c.planned \in DOMAIN Moments
                BY <2>1, <3>1, <3>3 DEF PollOf
            <4> QED
                BY <3>1, <3>3, <3>4, <4>1 DEF PollOf, ChartOf, Now
        <3> QED
            BY <3>1, <3>2, <3>3, <3>5 DEF PollOf
    <2> HIDE DEF q
    <2> QED
        BY <1>8, <2>1, <2>2
<1>11. ASSUME NEW p \in polls, polls' = polls \ {p}, stock' = stock, UNCHANGED <<range, newest>>,
              \/ UNCHANGED <<chart, chartLoading, chartError, overtaken>>
              \/ chart' = chart /\ chartError' = TRUE
              \/ p.chart # NotYet /\ chart' = p.chart[1] /\ (overtaken' \/ p.range = range)
       PROVE  BoardInv'
    <2>1. PollOf(p) /\ (p.chart # NotYet => ChartOf(p.chart[1])' /\ p.chart[1].range = p.range)
        BY <1>1, <1>11 DEF PollOf
    <2>2. \A q \in polls' : PollOf(q)'
        BY <1>2, <1>11
    <2>3. chart' # NoChart =>
              /\ ChartOf(chart)'
              /\ ~chartLoading' /\ ~chartError' /\ ~overtaken' => chart'.range = range'
        <3>1. CASE UNCHANGED <<chart, chartLoading, chartError, overtaken>>
            BY <1>1, <1>11, <3>1
        <3>2. CASE chart' = chart /\ chartError' = TRUE
            BY <1>1, <1>11, <3>2
        <3>3. CASE p.chart # NotYet /\ chart' = p.chart[1] /\ (overtaken' \/ p.range = range)
            BY <1>11, <2>1, <3>3
        <3> QED
            BY <1>11, <3>1, <3>2, <3>3
    <2> QED
        BY <1>1, <1>11, <2>2, <2>3
<1>12. ASSUME NEW p \in polls,
              ChartArrives(p) \/ ChartFails(p) \/ RefreshArrives(p) \/ RefreshFails(p)
       PROVE  BoardInv'
    <2>1. polls' = polls \ {p} /\ stock' = stock /\ UNCHANGED <<range, newest>>
        BY <1>12 DEF ChartArrives, ChartFails, RefreshArrives, RefreshFails
    <2>2. \/ UNCHANGED <<chart, chartLoading, chartError, overtaken>>
          \/ chart' = chart /\ chartError' = TRUE
          \/ p.chart # NotYet /\ chart' = p.chart[1] /\ (overtaken' \/ p.range = range)
        <3>1. CASE ChartArrives(p)
            BY <3>1 DEF ChartArrives, Complete, Overruled, PollOf, chartVars
        <3>2. CASE ChartFails(p)
            BY <3>2 DEF ChartFails, chartVars
        <3>3. CASE RefreshArrives(p)
            BY <3>3 DEF RefreshArrives, Complete
        <3>4. CASE RefreshFails(p)
            BY <3>4 DEF RefreshFails, chartVars
        <3> QED
            BY <1>12, <3>1, <3>2, <3>3, <3>4
    <2> QED
        BY <1>11, <2>1, <2>2
<1>13. CASE BoardNext
    BY <1>4, <1>5, <1>6, <1>7, <1>9, <1>10, <1>12, <1>13 DEF BoardNext
<1>14. CASE UNCHANGED <<elsewhere, board>>
    BY <1>3, <1>14
<1> QED
    BY <1>3, <1>13, <1>14 DEF Next


-----------------------------------------------------------------------------
(* Rates *)

\* One step of the two sums of ChainIntegrityPct.
AddTotals(daily, S, h) ==
    [T \in SUBSET S |-> IF T = {} THEN 0
                        ELSE LET x == CHOOSE y \in T : TRUE IN daily[x].total + h[T \ {x}]]
AddIntacts(daily, S, h) ==
    [T \in SUBSET S |->
        IF T = {} THEN 0
        ELSE LET x == CHOOSE y \in T : TRUE
             IN  (daily[x].by["CONFIRMED"] + daily[x].by["SEALED"]) + h[T \ {x}]]

LEMMA TotalsAdd ==
    ASSUME NEW S, NEW P, Parted(P, S), NEW daily, \A d \in S : daily[d].total = Cardinality(P[d])
    PROVE  (CHOOSE h : h = AddTotals(daily, S, h))[S] = Cardinality(Together(P, S))
<1> DEFINE N == [d \in S |-> daily[d].total]
           total == CHOOSE h : h = AddTotals(daily, S, h)
<1>1. \A d \in S : N[d] = Cardinality(P[d])
    OBVIOUS
<1>2. ASSUME NEW h PROVE AddTotals(daily, S, h) = OneByOne(N, S, h)
    BY DEF AddTotals, OneByOne, Any
<1>3. total = OneByOne(N, S, total)
    <2> HIDE DEF N
    <2>1. PICK h : h = OneByOne(N, S, h)
        BY <1>1, SumExists
    <2>2. h = AddTotals(daily, S, h)
        BY <1>2, <2>1
    <2>3. total = AddTotals(daily, S, total)
        BY <2>2
    <2> QED
        BY <1>2, <2>3
<1> HIDE DEF N, total
<1>4. total[S] = Cardinality(Together(P, S))
    BY <1>1, <1>3, SumOfParts
<1> QED
    BY <1>4 DEF total

LEMMA IntactsAdd ==
    ASSUME NEW S, NEW P, Parted(P, S), NEW daily,
           \A d \in S : (daily[d].by["CONFIRMED"] + daily[d].by["SEALED"]) = Cardinality(P[d])
    PROVE  (CHOOSE h : h = AddIntacts(daily, S, h))[S] = Cardinality(Together(P, S))
<1> DEFINE N == [d \in S |-> (daily[d].by["CONFIRMED"] + daily[d].by["SEALED"])]
           total == CHOOSE h : h = AddIntacts(daily, S, h)
<1>1. \A d \in S : N[d] = Cardinality(P[d])
    OBVIOUS
<1>2. ASSUME NEW h PROVE AddIntacts(daily, S, h) = OneByOne(N, S, h)
    BY DEF AddIntacts, OneByOne, Any
<1>3. total = OneByOne(N, S, total)
    <2> HIDE DEF N
    <2>1. PICK h : h = OneByOne(N, S, h)
        BY <1>1, SumExists
    <2>2. h = AddIntacts(daily, S, h)
        BY <1>2, <2>1
    <2>3. total = AddIntacts(daily, S, total)
        BY <2>2
    <2> QED
        BY <1>2, <2>3
<1> HIDE DEF N, total
<1>4. total[S] = Cardinality(Together(P, S))
    BY <1>1, <1>3, SumOfParts
<1> QED
    BY <1>4 DEF total

\* The batches of a status, those of them that were sealed on a day, and those that count.
Of(s) == {b \in DOMAIN status : status[b] = s}
OfDay(d, s) == {b \in DOMAIN status : SealedOn[b] = d /\ status[b] = s}
LiveOn(d) == {b \in DOMAIN status : SealedOn[b] = d /\ status[b] # "FAILED"}
IntactOn(d) == OfDay(d, "CONFIRMED") \cup OfDay(d, "SEALED")
Live == Counting(status)
Intact == Of("CONFIRMED") \cup Of("SEALED")
SealDays == {SealedOn[b] : b \in DOMAIN status}
ActiveDays == {d \in SealDays : LiveOn(d) # {}}
RowsCount(daily) ==
    \A d \in SealDays :
        /\ \A s \in BATCH_STATUSES : daily[d].by[s] = Cardinality(OfDay(d, s))
        /\ daily[d].total = Cardinality(LiveOn(d))

LEMMA BatchesAreFinite ==
    ASSUME BoardInv, NEW S, S \subseteq DOMAIN status
    PROVE  IsFiniteSet(S) /\ Cardinality(S) \in Nat /\ (Cardinality(S) > 0 <=> S # {})
<1>1. IsFiniteSet(S)
    BY DashboardConstants, FS_Subset DEF BoardInv
<1>2. Cardinality(S) \in Nat /\ (Cardinality(S) = 0 <=> S = {})
    BY <1>1, FS_CardinalityType, FS_EmptySet
<1> QED
    BY <1>1, <1>2

LEMMA PairIsFinite ==
    ASSUME NEW a, NEW b
    PROVE  IsFiniteSet({a, b})
<1>1. {a, b} = {a} \cup {b} /\ IsFiniteSet({a})
    BY FS_Singleton
<1> QED
    BY <1>1, FS_AddElement

LEMMA StatusesAreFinite == IsFiniteSet(INTACT_STATUSES) /\ IsFiniteSet(BATCH_STATUSES)
<1>1. /\ IsFiniteSet({"CONFIRMED", "SEALED"}) /\ IsFiniteSet({"UNVERIFIED", "TAMPERED"})
      /\ IsFiniteSet({"PENDING", "FAILED"})
    BY PairIsFinite
<1>2. BATCH_STATUSES =
          ({"CONFIRMED", "SEALED"} \cup {"UNVERIFIED", "TAMPERED"}) \cup {"PENDING", "FAILED"}
    BY DEF BATCH_STATUSES
<1>3. IsFiniteSet({"CONFIRMED", "SEALED"} \cup {"UNVERIFIED", "TAMPERED"})
    BY <1>1, FS_Union
<1> QED
    BY <1>1, <1>2, <1>3, FS_Union DEF INTACT_STATUSES

LEMMA TwoAdd ==
    ASSUME NEW A, NEW B, IsFiniteSet(A), IsFiniteSet(B), A \cap B = {}
    PROVE  Cardinality(A \cup B) = Cardinality(A) + Cardinality(B)
<1>1. Cardinality(A \cup B) = Cardinality(A) + Cardinality(B) - Cardinality(A \cap B)
    BY FS_Union
<1>2. Cardinality(A \cap B) = 0 /\ Cardinality(A) \in Nat /\ Cardinality(B) \in Nat
    BY FS_EmptySet, FS_CardinalityType
<1> QED
    BY <1>1, <1>2

LEMMA OverviewCounts ==
    ASSUME BoardInv
    PROVE  LET stats == BatchStats(status, LogCount) IN
           /\ \A s \in BATCH_STATUSES : stats.byStatus[s] = Cardinality(Of(s))
           /\ stats.total = Cardinality(Live) /\ stats.intact = Cardinality(Intact)
           /\ Kpis(Overview).sealed = Cardinality(Intact)
           /\ Kpis(Overview).tone = "danger" <=> Of("TAMPERED") # {}
<1> DEFINE stats == BatchStats(status, LogCount)
           by == ByStatus(status)
           P == [s \in INTACT_STATUSES |-> Of(s)]
<1>1. \A s \in BATCH_STATUSES : by[s] = Cardinality(Of(s)) /\ by[s] \in Nat
    BY BatchesAreFinite DEF ByStatus, Of
<1>2. /\ stats.byStatus = by /\ stats.total = Cardinality(Live)
      /\ stats.intact = MapThenSumSet(LAMBDA s : by[s], INTACT_STATUSES)
    BY DEF BatchStats, Live
<1>3. /\ INTACT_STATUSES \subseteq BATCH_STATUSES
      /\ {"CONFIRMED", "SEALED", "TAMPERED"} \subseteq BATCH_STATUSES
    BY DEF INTACT_STATUSES, BATCH_STATUSES
<1>4. Parted(P, INTACT_STATUSES)
    <2>1. IsFiniteSet(INTACT_STATUSES)
        BY StatusesAreFinite
    <2>2. \A s : IsFiniteSet(Of(s))
        BY BatchesAreFinite DEF Of
    <2>3. \A s, r : s # r => Of(s) \cap Of(r) = {}
        BY DEF Of
    <2> QED
        BY <2>1, <2>2, <2>3 DEF Parted
<1>5. Together(P, INTACT_STATUSES) = Intact
    BY DEF Together, INTACT_STATUSES, Intact
<1>6. \A s \in INTACT_STATUSES : by[s] = Cardinality(P[s])
    BY <1>1, <1>3
<1>7. stats.intact = Cardinality(Intact)
    <2> HIDE DEF by, P, stats
    <2>1. MapThenSumSet(LAMBDA s : by[s], INTACT_STATUSES) = Total(by, INTACT_STATUSES)
        BY DEF MapThenSumSet, MapThenFoldSet, OneByOne, Any, Total
    <2>2. Total(by, INTACT_STATUSES) = Cardinality(Together(P, INTACT_STATUSES))
        BY <1>4, <1>6, FoldOfParts
    <2> QED
        BY <1>2, <1>5, <2>1, <2>2
<1>8. Overview.stats = stats
    BY DEF Overview
<1> HIDE DEF by, P, stats
<1>9. Kpis(Overview).sealed = Cardinality(Intact)
    <2>1. Kpis(Overview).sealed = by["CONFIRMED"] + by["SEALED"]
        BY <1>2, <1>8 DEF Kpis
    <2>2. Of("CONFIRMED") \cap Of("SEALED") = {}
        BY DEF Of
    <2>3. IsFiniteSet(Of("CONFIRMED")) /\ IsFiniteSet(Of("SEALED"))
        BY BatchesAreFinite DEF Of
    <2> QED
        BY <1>1, <1>3, <2>1, <2>2, <2>3, TwoAdd DEF Intact
<1>10. Kpis(Overview).tone = "danger" <=> Of("TAMPERED") # {}
    <2>1. Kpis(Overview).tone = IF by["TAMPERED"] > 0 THEN "danger" ELSE "good"
        BY <1>2, <1>8 DEF Kpis
    <2>2. Cardinality(Of("TAMPERED")) > 0 <=> Of("TAMPERED") # {}
        BY BatchesAreFinite DEF Of
    <2> QED
        BY <1>1, <1>3, <2>1, <2>2
<1> QED
    BY <1>1, <1>2, <1>7, <1>9, <1>10 DEF stats

LEMMA DaysCount ==
    ASSUME BoardInv
    PROVE  /\ DOMAIN IntegrityByDay(status, SealedOn) = SealDays
           /\ RowsCount(IntegrityByDay(status, SealedOn))
<1> DEFINE daily == IntegrityByDay(status, SealedOn)
           StatusOn(d) == [b \in {c \in DOMAIN status : SealedOn[c] = d} |-> status[b]]
<1>1. /\ DOMAIN daily = SealDays
      /\ \A d \in SealDays : /\ daily[d].by = ByStatus(StatusOn(d))
                            /\ daily[d].total = DayTotal(ByStatus(StatusOn(d)))
    BY DEF IntegrityByDay, SealDays
<1>2. ASSUME NEW d \in SealDays, NEW s \in BATCH_STATUSES
      PROVE  ByStatus(StatusOn(d))[s] = Cardinality(OfDay(d, s))
    <2>1. {b \in DOMAIN StatusOn(d) : StatusOn(d)[b] = s} = OfDay(d, s)
        BY DEF OfDay
    <2>2. ByStatus(StatusOn(d))[s] = Cardinality({b \in DOMAIN StatusOn(d) : StatusOn(d)[b] = s})
        BY DEF ByStatus
    <2> QED
        BY <2>1, <2>2
<1>3. ASSUME NEW d \in SealDays PROVE DayTotal(ByStatus(StatusOn(d))) = Cardinality(LiveOn(d))
    <2> DEFINE S == BATCH_STATUSES \ {"FAILED"}
               P == [s \in S |-> OfDay(d, s)]
               by == ByStatus(StatusOn(d))
    <2>1. DayTotal(by) = MapThenSumSet(LAMBDA s : by[s], S)
        BY DEF DayTotal
    <2>2. Parted(P, S)
        <3>1. IsFiniteSet(S)
            BY StatusesAreFinite, FS_RemoveElement
        <3>2. \A s : IsFiniteSet(OfDay(d, s))
            BY BatchesAreFinite DEF OfDay
        <3>3. \A s, r : s # r => OfDay(d, s) \cap OfDay(d, r) = {}
            BY DEF OfDay
        <3> HIDE DEF S
        <3> QED
            BY <3>1, <3>2, <3>3 DEF Parted
    <2>3. Together(P, S) = LiveOn(d)
        BY DEF Together, LiveOn, OfDay, BoardInv
    <2>4. \A s \in S : by[s] = Cardinality(P[s])
        BY <1>2
    <2> HIDE DEF S, P, by
    <2>5. MapThenSumSet(LAMBDA s : by[s], S) = Total(by, S)
        BY DEF MapThenSumSet, MapThenFoldSet, OneByOne, Any, Total
    <2>6. Total(by, S) = Cardinality(Together(P, S))
        BY <2>2, <2>4, FoldOfParts
    <2>7. DayTotal(by) = Cardinality(LiveOn(d))
        BY <2>1, <2>3, <2>5, <2>6
    <2> QED
        BY <2>7 DEF by
<1> HIDE DEF daily, StatusOn
<1>4. RowsCount(daily)
    BY <1>1, <1>2, <1>3 DEF RowsCount
<1> QED
    BY <1>1, <1>4 DEF daily

LEMMA ReportRate ==
    ASSUME BoardInv, NEW daily, DOMAIN daily = SealDays, RowsCount(daily)
    PROVE  ChainIntegrityPct(daily)
               = IF Live # {} THEN Percent(Cardinality(Intact), Cardinality(Live)) ELSE NoRate
<1> DEFINE P == [d \in ActiveDays |-> LiveOn(d)]
           Q == [d \in ActiveDays |-> IntactOn(d)]
<1>1. IsFiniteSet(ActiveDays)
    <2>1. IsFiniteSet(DOMAIN status)
        BY BatchesAreFinite
    <2> DEFINE f == [b \in DOMAIN status |-> SealedOn[b]]
    <2>2. f \in Surjection(DOMAIN status, SealDays)
        BY DEF Surjection, SealDays
    <2>3. IsFiniteSet(SealDays)
        BY <2>1, <2>2, FS_Surjection
    <2> QED
        BY <2>3, FS_Subset DEF ActiveDays
<1>2. \A d : /\ IsFiniteSet(LiveOn(d)) /\ IsFiniteSet(IntactOn(d))
             /\ Cardinality(LiveOn(d)) > 0 <=> LiveOn(d) # {}
    <2>1. \A d : LiveOn(d) \subseteq DOMAIN status /\ IntactOn(d) \subseteq DOMAIN status
        BY DEF LiveOn, IntactOn, OfDay
    <2> QED
        BY <2>1, BatchesAreFinite
<1>3. Parted(P, ActiveDays) /\ Parted(Q, ActiveDays)
    <2>1. \A d, e : d # e => LiveOn(d) \cap LiveOn(e) = {} /\ IntactOn(d) \cap IntactOn(e) = {}
        BY DEF LiveOn, IntactOn, OfDay
    <2> QED
        BY <1>1, <1>2, <2>1 DEF Parted
<1>4. Together(P, ActiveDays) = Live /\ Together(Q, ActiveDays) = Intact
    <2>1. \A b \in Live : b \in LiveOn(SealedOn[b]) /\ SealedOn[b] \in ActiveDays
        BY DEF Live, Counting, LiveOn, ActiveDays, SealDays
    <2>2. \A d : LiveOn(d) \subseteq Live /\ IntactOn(d) \subseteq Intact
        BY DEF Live, Counting, LiveOn, IntactOn, Intact, OfDay, Of
    <2>3. Intact \subseteq Live /\ \A b \in Intact : b \in IntactOn(SealedOn[b])
        BY DEF Live, Counting, IntactOn, Intact, OfDay, Of
    <2> QED
        BY <2>1, <2>2, <2>3 DEF Together
<1>5. {d \in DOMAIN daily : daily[d].total > 0} = ActiveDays
    BY <1>2 DEF ActiveDays, RowsCount
<1>6. MapThenSumSet(LAMBDA d : daily[d].total, ActiveDays) = Cardinality(Live)
    <2>1. \A d \in ActiveDays : daily[d].total = Cardinality(P[d])
        BY DEF RowsCount, ActiveDays
    <2> HIDE DEF P
    <2>2. MapThenSumSet(LAMBDA d : daily[d].total, ActiveDays)
              = (CHOOSE h : h = AddTotals(daily, ActiveDays, h))[ActiveDays]
        BY DEF MapThenSumSet, MapThenFoldSet, AddTotals
    <2>3. (CHOOSE h : h = AddTotals(daily, ActiveDays, h))[ActiveDays]
              = Cardinality(Together(P, ActiveDays))
        BY <1>3, <2>1, TotalsAdd
    <2> QED
        BY <1>4, <2>2, <2>3
<1>7. MapThenSumSet(LAMBDA d : daily[d].by["CONFIRMED"] + daily[d].by["SEALED"], ActiveDays)
          = Cardinality(Intact)
    <2>1. ASSUME NEW d \in ActiveDays
          PROVE  daily[d].by["CONFIRMED"] + daily[d].by["SEALED"] = Cardinality(Q[d])
        <3>1. /\ daily[d].by["CONFIRMED"] = Cardinality(OfDay(d, "CONFIRMED"))
              /\ daily[d].by["SEALED"] = Cardinality(OfDay(d, "SEALED"))
            BY DEF RowsCount, ActiveDays, BATCH_STATUSES
        <3>2. /\ IsFiniteSet(OfDay(d, "CONFIRMED")) /\ IsFiniteSet(OfDay(d, "SEALED"))
              /\ OfDay(d, "CONFIRMED") \cap OfDay(d, "SEALED") = {}
            BY BatchesAreFinite DEF OfDay
        <3>3. Q[d] = OfDay(d, "CONFIRMED") \cup OfDay(d, "SEALED")
            BY DEF IntactOn
        <3> QED
            BY <3>1, <3>2, <3>3, TwoAdd
    <2> HIDE DEF Q
    <2>2. MapThenSumSet(LAMBDA d : daily[d].by["CONFIRMED"] + daily[d].by["SEALED"], ActiveDays)
              = (CHOOSE h : h = AddIntacts(daily, ActiveDays, h))[ActiveDays]
        BY DEF MapThenSumSet, MapThenFoldSet, AddIntacts
    <2>3. (CHOOSE h : h = AddIntacts(daily, ActiveDays, h))[ActiveDays]
              = Cardinality(Together(Q, ActiveDays))
        BY <1>3, <2>1, IntactsAdd
    <2> QED
        BY <1>4, <2>2, <2>3
<1>8. Cardinality(Live) > 0 <=> Live # {}
    BY BatchesAreFinite DEF Live, Counting
<1>9. ChainIntegrityPct(daily)
        = LET active == {d \in DOMAIN daily : daily[d].total > 0}
              total == MapThenSumSet(LAMBDA d : daily[d].total, active)
              intact == MapThenSumSet(LAMBDA d : daily[d].by["CONFIRMED"] + daily[d].by["SEALED"],
                                      active)
          IN  IF total > 0 THEN Percent(intact, total) ELSE NoRate
    BY DEF ChainIntegrityPct
<1> QED
    BY <1>5, <1>6, <1>7, <1>8, <1>9

LEMMA AllIsHundred ==
    ASSUME NEW n \in Nat, n > 0
    PROVE  Percent(n, n) = 100
<1>1. Percent(n, n) = (200 * n + n) \div (2 * n)
    BY DEF Percent
<1>2. 200 * n + n = 100 * (2 * n) + n /\ n < 2 * n
    OBVIOUS
<1> QED
    BY <1>1, <1>2

LEMMA RatesDoAgree ==
    ASSUME BoardInv
    PROVE  RatesAgree
<1> DEFINE stats == BatchStats(status, LogCount)
           daily == IntegrityByDay(status, SealedOn)
           pct == ChainIntegrityPct(daily)
<1>1. /\ stats.total = Cardinality(Live) /\ stats.intact = Cardinality(Intact)
      /\ Kpis(Overview).sealed = Cardinality(Intact)
      /\ Kpis(Overview).tone = "danger" <=> Of("TAMPERED") # {}
    BY OverviewCounts
<1>2. DOMAIN daily = SealDays /\ RowsCount(daily)
    BY DaysCount
<1>3. /\ Cardinality(Live) \in Nat /\ (Cardinality(Live) > 0 <=> Live # {})
      /\ Cardinality(Intact) \in Nat /\ IsFiniteSet(Live) /\ Intact \subseteq Live
    <2>1. Live \subseteq DOMAIN status /\ Intact \subseteq Live
        BY DEF Live, Counting, Intact, Of
    <2> QED
        BY <2>1, BatchesAreFinite
<1> HIDE DEF stats, daily
<1>4. pct = IF Live # {} THEN Percent(Cardinality(Intact), Cardinality(Live)) ELSE NoRate
    BY <1>2, ReportRate
<1>5. Live # {} => pct # NoRate
    <2>1. ASSUME NEW m \in Nat, NEW n \in Nat, n > 0 PROVE Percent(m, n) \in Nat
        BY <2>1 DEF Percent
    <2> QED
        BY <1>3, <1>4, <2>1 DEF NoRate
<1>0. ASSUME NEW s \in BATCH_STATUSES \ {"FAILED"}, NEW d \in DOMAIN daily
      PROVE  /\ daily[d].total > 0 <=> LiveOn(d) # {}
             /\ daily[d].by[s] > 0 <=> OfDay(d, s) # {}
    <2>1. LiveOn(d) \subseteq DOMAIN status /\ OfDay(d, s) \subseteq DOMAIN status
        BY DEF LiveOn, OfDay
    <2> QED
        BY <1>2, <2>1, BatchesAreFinite DEF RowsCount
<1>6. ASSUME NEW s \in BATCH_STATUSES \ {"FAILED"}
      PROVE  (\E d \in DOMAIN daily : daily[d].total > 0 /\ daily[d].by[s] > 0) <=> Of(s) # {}
    <2>1. \A d \in DOMAIN daily : /\ daily[d].total > 0 <=> LiveOn(d) # {}
                                  /\ daily[d].by[s] > 0 <=> OfDay(d, s) # {}
        BY <1>0
    <2>2. \A d : OfDay(d, s) \subseteq LiveOn(d) /\ OfDay(d, s) \subseteq Of(s)
        BY DEF OfDay, LiveOn, Of
    <2>3. \A b \in Of(s) : SealedOn[b] \in DOMAIN daily /\ b \in OfDay(SealedOn[b], s)
        BY <1>2 DEF Of, OfDay, SealDays
    <2> QED
        BY <2>1, <2>2, <2>3
<1>7. {"TAMPERED", "UNVERIFIED", "PENDING"} \subseteq BATCH_STATUSES \ {"FAILED"}
    BY DEF BATCH_STATUSES
<1>8. IntegrityTone(daily)
        = IF Live = {} THEN "neutral"
          ELSE IF Of("TAMPERED") # {} THEN "danger"
          ELSE IF Of("UNVERIFIED") # {} \/ Of("PENDING") # {} THEN "warn" ELSE "good"
    <2> DEFINE Some(s) == \E d \in DOMAIN daily : daily[d].total > 0 /\ daily[d].by[s] > 0
    <2>1. /\ Some("TAMPERED") <=> Of("TAMPERED") # {}
          /\ Some("UNVERIFIED") <=> Of("UNVERIFIED") # {}
          /\ Some("PENDING") <=> Of("PENDING") # {}
        BY <1>6, <1>7
    <2>2. IntegrityTone(daily)
            = CASE pct = NoRate -> "neutral"
                [] pct # NoRate /\ Some("TAMPERED") -> "danger"
                [] OTHER -> IF Some("UNVERIFIED") \/ Some("PENDING") THEN "warn" ELSE "good"
        BY DEF IntegrityTone
    <2>3. pct = NoRate <=> Live = {}
        BY <1>4, <1>5
    <2> HIDE DEF Some, pct
    <2> QED
        BY <2>1, <2>2, <2>3
<1>9. Of("TAMPERED") \subseteq Live
    BY DEF Of, Live, Counting
<1>10. (Of("TAMPERED") = {} /\ Of("UNVERIFIED") = {} /\ Of("PENDING") = {}) <=> Intact = Live
    BY DEF Of, Live, Counting, Intact, BoardInv, BATCH_STATUSES
<1>11. Intact = Live <=> Cardinality(Intact) = Cardinality(Live)
    BY <1>3, FS_Subset
<1>12. /\ IF stats.total = 0 THEN pct = NoRate ELSE pct = IntegrityRate(stats)
       /\ Kpis(Overview).sealed = stats.intact
    BY <1>1, <1>3, <1>4 DEF IntegrityRate
<1>13. IntegrityTone(daily) = "good" <=> stats.total > 0 /\ stats.intact = stats.total
    BY <1>1, <1>3, <1>8, <1>10, <1>11
<1>14. IntegrityTone(daily) = "danger" <=> Kpis(Overview).tone = "danger"
    BY <1>1, <1>8, <1>9
<1> DEFINE active == {d \in DOMAIN daily : daily[d].total > 0}
           On(d, some) == {b \in DOMAIN status : SealedOn[b] = d /\ status[b] \in some}
<1>15. ASSUME NEW d \in active
       PROVE  /\ daily[d].by["TAMPERED"] > 0 <=> On(d, {"TAMPERED"}) # {}
              /\ daily[d].by["UNVERIFIED"] > 0 <=> OfDay(d, "UNVERIFIED") # {}
              /\ On(d, {"TAMPERED", "UNVERIFIED"}) = {}
                    <=> OfDay(d, "TAMPERED") = {} /\ OfDay(d, "UNVERIFIED") = {}
    <2>1. /\ daily[d].by["TAMPERED"] > 0 <=> OfDay(d, "TAMPERED") # {}
          /\ daily[d].by["UNVERIFIED"] > 0 <=> OfDay(d, "UNVERIFIED") # {}
        BY <1>0, <1>7
    <2> QED
        BY <2>1 DEF OfDay
<1>16. \A d \in active :
          /\ DayTone(daily[d]) = "danger" <=> On(d, {"TAMPERED"}) # {}
          /\ DayTone(daily[d]) = "good" <=> On(d, {"TAMPERED", "UNVERIFIED"}) = {}
    BY <1>15 DEF DayTone, OfDay
<1>17. IntegrityTone(daily) = "danger" <=> \E d \in active : DayTone(daily[d]) = "danger"
    <2>1. (\E d \in active : daily[d].by["TAMPERED"] > 0) <=> Of("TAMPERED") # {}
        BY <1>6, <1>7
    <2> QED
        BY <1>8, <1>9, <2>1 DEF DayTone
<1>18. ASSUME IntegrityTone(daily) = "good", NEW d \in active
       PROVE  DayTone(daily[d]) = "good" /\ DayRate(daily[d]) = 100
    <2>1. Intact = Live /\ Of("TAMPERED") = {} /\ Of("UNVERIFIED") = {}
        BY <1>8, <1>10, <1>18
    <2>2. DayTone(daily[d]) = "good"
        BY <1>16, <2>1 DEF Of
    <2>3. LiveOn(d) = OfDay(d, "CONFIRMED") \cup OfDay(d, "SEALED")
        BY <2>1 DEF LiveOn, OfDay, Live, Counting, Intact, Of
    <2>4. /\ IsFiniteSet(OfDay(d, "CONFIRMED")) /\ IsFiniteSet(OfDay(d, "SEALED"))
          /\ OfDay(d, "CONFIRMED") \cap OfDay(d, "SEALED") = {}
        BY BatchesAreFinite DEF OfDay
    <2>5. /\ daily[d].by["CONFIRMED"] = Cardinality(OfDay(d, "CONFIRMED"))
          /\ daily[d].by["SEALED"] = Cardinality(OfDay(d, "SEALED"))
          /\ daily[d].total = Cardinality(LiveOn(d))
        BY <1>2 DEF RowsCount, BATCH_STATUSES
    <2>6. daily[d].by["CONFIRMED"] + daily[d].by["SEALED"] = daily[d].total
        BY <2>3, <2>4, <2>5, TwoAdd
    <2>7. daily[d].total \in Nat /\ daily[d].total > 0
        <3>1. LiveOn(d) \subseteq DOMAIN status
            BY DEF LiveOn
        <3> QED
            BY <2>5, <3>1, BatchesAreFinite
    <2>8. DayRate(daily[d]) = Percent(daily[d].total, daily[d].total)
        BY <2>6, <2>7 DEF DayRate
    <2> QED
        BY <2>2, <2>7, <2>8, AllIsHundred
<1> HIDE DEF On, active
<1> QED
    BY <1>12, <1>13, <1>14, <1>16, <1>17, <1>18 DEF RatesAgree, stats, daily, On, active

\* The inductive invariant of the first page: requests for a chart, the chart that is shown, and
\* the logs and batches they are about.
THEOREM BoardInvariant == Spec => []BoardInv
BY ChartStart, ChartStep, PTL DEF Spec

\* Whatever range is picked and however loads and refreshes overlap, the chart of the first page is
\* of the range that is picked and has every log of the span it promises, once, unless there are
\* logs older than all its buckets reach back; and its rate is the rate of the report, whose badges
\* of days agree with the figure of the period (StatsService, traffic-ranges.ts,
\* compliance.service.ts, Reports.tsx).
THEOREM FiguresStayTrue ==
    ASSUME NoneTooOld
    PROVE  Spec => []FiguresAreTrue
<1>1. BoardInv => FiguresAreTrue
    <2> SUFFICES ASSUME BoardInv, ChartShown
                 PROVE  ChartIsWhatItSays
        BY RatesDoAgree DEF FiguresAreTrue, ChartIsWhatItSays
    <2>1. ChartOf(chart) /\ created \in Arrivals /\ ~chartError
          /\ (~chartLoading /\ ~chartError /\ ~overtaken => chart.range = range)
        BY DEF BoardInv, ChartShown
    <2>2. /\ chart.planned = chart.at =>
                LogsIn(chart) >= Cardinality(Spanned(chart.range, Moments[chart.at]))
          /\ LogsIn(chart) <= Cardinality(Logs)
        BY <2>1, ChartCounts
    <2> QED
        BY <2>1, <2>2 DEF ChartIsWhatItSays, LogsInChart, LogsIn, Spanned
<1> QED
    BY <1>1, BoardInvariant, PTL
=============================================================================
