--------------------------- MODULE IntegrityProofs ---------------------------
(***************************************************************************)
(* Theorems about Integrity, for any number of logs, batches, callers,     *)
(* rounds and failures: types first, then the safety invariants, each of   *)
(* which takes the ones before it as given.                                *)
(***************************************************************************)
EXTENDS Integrity, FiniteSetTheorems, WellFoundedInduction, TLAPS

(***************************************************************************)
(* What the operators of LogRows return: the Merkle root of a set of rows  *)
(* is a root over the rows that are there, and a batch takes no more logs  *)
(* than it has room for.                                                   *)
(***************************************************************************)

\* merkle.buildTree over any rows yields a root, and never the one that means
\* `nothing stored'.
LEMMA RootOfType ==
    ASSUME NEW rows, NEW S \in SUBSET Logs
    PROVE  /\ RootOf(rows, S) \in Roots
           /\ RootOf(rows, S) # NoRoot
<1> DEFINE T == {k \in S : Present(rows[k])}
<1>1. T \in SUBSET Logs
    OBVIOUS
<1>2. RootOf(rows, S) \in [T -> Leaves]
    BY DEF RootOf, Leaves, LeafOf
<1> QED
    BY <1>1, <1>2, NoRootIsNoRoot DEF Roots

\* The leaves of the tree over rows that are all there are these very rows.
LEMMA RootOfPresent ==
    ASSUME NEW rows, NEW S \in SUBSET Logs, \A l \in S : Present(rows[l])
    PROVE  RootOf(rows, S) \in [S -> Leaves]
<1>1. S = {k \in S : Present(rows[k])}
    OBVIOUS
<1> QED
    BY <1>1 DEF RootOf, Leaves, LeafOf

\* `take: batchSize' after `order by': no batch is larger than SEAL_BATCH_SIZE.
LEMMA OldestBounded ==
    ASSUME NEW S \in SUBSET Logs, NEW n \in Nat \ {0}
    PROVE  /\ Oldest(S, n) \subseteq S
           /\ IsFiniteSet(Oldest(S, n))
           /\ Cardinality(Oldest(S, n)) <= n
<1> DEFINE Older(l) == {k \in S : k < l}
           O        == Oldest(S, n)
           Left(l)  == Cardinality(S) - Cardinality(Older(l))
<1>1. S \subseteq Nat /\ IsFiniteSet(S)
    BY LogsAreNumbers, FS_Subset
<1>2. O \subseteq S /\ IsFiniteSet(O)
    BY <1>1, FS_Subset DEF Oldest
<1>3. ASSUME NEW l \in S
      PROVE  /\ IsFiniteSet(Older(l))
             /\ Cardinality(Older(l)) \in Nat
             /\ Left(l) \in Nat
    <2>1. Older(l) \in SUBSET S
        OBVIOUS
    <2>2. IsFiniteSet(Older(l)) /\ Cardinality(Older(l)) <= Cardinality(S)
        BY <1>1, <2>1, FS_Subset
    <2> HIDE DEF Older
    <2> QED
        BY <1>1, <2>2, FS_CardinalityType
<1>4. CASE O = {}
    BY <1>2, <1>4, FS_EmptySet
<1>5. CASE O # {}
    \* the youngest log picked is one with the most logs before it
    <2> DEFINE T == {Left(l) : l \in O}
    <2>1. T \subseteq Nat /\ T # {}
        BY <1>2, <1>3, <1>5
    <2>2. PICK x \in T : \A y \in T : ~ (<<y, x>> \in OpToRel(<, Nat))
        <3> HIDE DEF T
        <3> QED
            BY <2>1, NatLessThanWellFounded, WFMin
    <2>3. \A y \in T : ~ (y < x)
        BY <2>1, <2>2 DEF OpToRel
    <2>4. PICK m \in O : x = Left(m)
        OBVIOUS
    <2>5. ASSUME NEW l \in O PROVE l \in Older(m) \cup {m}
        <3>1. ~ (Left(l) < Left(m))
            BY <2>3, <2>4
        <3>2. l \in S /\ m \in S /\ l \in Nat /\ m \in Nat
            BY <1>1, <1>2
        <3>3. ASSUME m < l PROVE FALSE
            <4>1. Older(m) \cup {m} \in SUBSET Older(l)
                <5>1. ASSUME NEW k \in Older(m) PROVE k \in Older(l)
                    <6>1. k \in S /\ k \in Nat /\ k < m
                        BY <1>1
                    <6> QED
                        BY <6>1, <3>2, <3>3
                <5> QED
                    BY <5>1, <3>2, <3>3
            <4>2. m \notin Older(m)
                BY <3>2
            <4>3. Cardinality(Older(m) \cup {m}) = Cardinality(Older(m)) + 1
                BY <4>2, <1>3, <3>2, FS_AddElement
            <4>4. Cardinality(Older(m)) + 1 <= Cardinality(Older(l))
                BY <4>1, <4>3, <1>3, <3>2, FS_Subset
            <4>5. Cardinality(S) \in Nat
                BY <1>1, FS_CardinalityType
            <4> HIDE DEF Older
            <4> QED
                BY <4>4, <4>5, <3>1, <1>3, <3>2
        <3> QED
            BY <3>2, <3>3
    <2>6. m \in S /\ Cardinality(Older(m)) < n
        BY <1>2 DEF Oldest
    <2>7. /\ IsFiniteSet(Older(m) \cup {m})
          /\ Cardinality(Older(m) \cup {m}) <= Cardinality(Older(m)) + 1
        <3>1. IsFiniteSet(Older(m)) /\ Cardinality(Older(m)) \in Nat
            BY <2>6, <1>3, FS_CardinalityType
        <3> HIDE DEF Older
        <3> QED
            BY <3>1, FS_AddElement
    <2>8. Cardinality(O) <= Cardinality(Older(m) \cup {m})
        <3>1. O \in SUBSET (Older(m) \cup {m})
            BY <2>5
        <3> QED
            BY <2>7, <3>1, FS_Subset
    <2>9. Cardinality(O) \in Nat /\ Cardinality(Older(m)) \in Nat
          /\ Cardinality(Older(m) \cup {m}) \in Nat
        BY <1>2, <1>3, <2>6, <2>7, FS_CardinalityType
    <2> HIDE DEF O, Older
    <2> QED
        BY <1>2, <2>6, <2>7, <2>8, <2>9 DEF O
<1> QED
    BY <1>4, <1>5

\* ... and while logs are pending a batch is not empty.
LEMMA OldestNonEmpty ==
    ASSUME NEW S \in SUBSET Logs, NEW n \in Nat \ {0}, S # {}
    PROVE  Oldest(S, n) # {}
<1>1. S \subseteq Nat
    BY LogsAreNumbers
<1>2. PICK m \in S : \A k \in S : ~ (<<k, m>> \in OpToRel(<, Nat))
    BY <1>1, NatLessThanWellFounded, WFMin
<1>3. {k \in S : k < m} = {}
    BY <1>1, <1>2 DEF OpToRel
<1>4. Cardinality({k \in S : k < m}) < n
    BY <1>3, FS_EmptySet
<1> QED
    BY <1>4 DEF Oldest

-----------------------------------------------------------------------------

(***************************************************************************)
(* Type correctness.  By itself TypeOK is not inductive: root[NoBatch]     *)
(* would be sent if a caller that has created no batch could send, and the *)
(* same goes for a round that has no current entity.                       *)
(***************************************************************************)
Holding == {"anchorWait", "reanchorSend", "reanchorWait", "check", "raise",
            "insert", "settle", "resolve"}

SealType ==
    /\ seal \in [Callers -> SealRecord]
    /\ \A c \in Callers : seal[c].pc \in {"created", "sent", "failed"} =>
                              seal[c].batch \in Batches

RoundType ==
    /\ round \in [Rounds -> RoundRecord]
    /\ \A v \in Rounds : round[v].pc \in Holding => round[v].cur \in Entity

TypeInv == TypeOK /\ SealType /\ RoundType

RoundAction(v) == StartVerifyNow(v) \/ RoundStep(v) \/ RoundFault(v)
SealAction(c)  == SealStep(c) \/ SealFault(c)

-----------------------------------------------------------------------------
(* Rounds *)

\* The entities round v has in memory.
Held(v) == round[v].todo \cup ({round[v].cur} \ {NoEntity})

LEMMA FoundType ==
    ASSUME TypeOK, NEW ss \in SUBSET Live
    PROVE  Found(ss) \in SUBSET Entity
<1> SUFFICES ASSUME NEW b \in Batches, status[b] \in ss
             PROVE  [batch |-> b, status |-> status[b], tx |-> tx[b]] \in Entity
    BY DEF Found
<1>1. tx[b] \in Txs \cup {NoTx}
    BY DEF TypeOK
<1> QED
    BY <1>1 DEF Entity

LEMMA RoundIdleType == RoundIdle \in RoundRecord /\ RoundIdle.pc \notin Holding
BY DEF RoundIdle, RoundRecord, Verdicts, Holding

LEMMA UpdateRound ==
    ASSUME RoundType, NEW v \in Rounds, NEW r \in RoundRecord,
           r.pc \in Holding => r.cur \in Entity,
           round' = [round EXCEPT ![v] = r]
    PROVE  RoundType'
BY DEF RoundType

\* A phase begins or goes on, or the round ends.
LEMMA PhaseType ==
    ASSUME RoundType, NEW v \in Rounds, NEW T \in SUBSET Entity,
           NEW p \in {"idle", "anchor", "reanchor", "verify"},
           round' = [round EXCEPT ![v] = [RoundIdle EXCEPT !.pc = p, !.todo = T]]
    PROVE  RoundType'
<1> DEFINE r == [RoundIdle EXCEPT !.pc = p, !.todo = T]
<1>1. r \in RoundRecord /\ r.pc \notin Holding
    BY DEF RoundIdle, RoundRecord, Verdicts, Holding
<1> HIDE DEF r
<1> QED
    BY <1>1, UpdateRound DEF r

LEMMA ContinueType ==
    ASSUME RoundType, NEW v \in Rounds, NEW p \in {"anchor", "reanchor", "verify"},
           Continue(v, p)
    PROVE  RoundType'
<1>1. round[v].todo \in SUBSET Entity
    BY DEF RoundType, RoundRecord
<1> QED
    BY <1>1, PhaseType DEF Continue

LEMMA DoneType ==
    ASSUME RoundType, NEW v \in Rounds, NEW e, Done(v, e)
    PROVE  RoundType'
<1> DEFINE r == [round[v] EXCEPT !.todo = @ \ {e}]
<1>1. r \in RoundRecord /\ r.pc = round[v].pc /\ r.cur = round[v].cur
    BY DEF RoundType, RoundRecord
<1>2. round' = [round EXCEPT ![v] = r]
    BY DEF Done
<1> HIDE DEF r
<1> QED
    BY <1>1, <1>2, UpdateRound DEF RoundType

LEMMA TakeType ==
    ASSUME RoundType, NEW v \in Rounds, NEW e \in round[v].todo, NEW p \in Holding
    PROVE  Take(v, e, p) \in RoundRecord /\ Take(v, e, p).cur \in Entity
<1>1. e \in Entity /\ round[v] \in RoundRecord
    BY DEF RoundType, RoundRecord
<1>2. Take(v, e, p) = [round[v] EXCEPT !.pc = p, !.cur = e, !.todo = @ \ {e}]
    BY DEF Take
<1> QED
    BY <1>1, <1>2 DEF RoundRecord, Holding

\* The current entity is kept and the round moves to another step of its handling.
LEMMA MoveType ==
    ASSUME RoundType, NEW v \in Rounds, round[v].pc \in Holding,
           NEW p \in Holding, round' = [round EXCEPT ![v].pc = p]
    PROVE  RoundType'
<1> DEFINE r == [round[v] EXCEPT !.pc = p]
<1>1. r \in RoundRecord /\ r.cur = round[v].cur
    BY DEF RoundType, RoundRecord, Holding
<1>2. round[v].cur \in Entity
    BY DEF RoundType
<1>3. round' = [round EXCEPT ![v] = r]
    OBVIOUS
<1> HIDE DEF r
<1> QED
    BY <1>1, <1>2, <1>3, UpdateRound

LEMMA RoundTypeStep ==
    ASSUME TypeInv, NEW v \in Rounds, RoundAction(v)
    PROVE  RoundType'
<1> USE DEF TypeInv
<1>0. \A u \in Rounds : round[u].todo \in SUBSET Entity
    BY DEF RoundType, RoundRecord
<1>1. CASE StartRound(v)
    <2> DEFINE T == IF ready THEN Found({"SEALED"}) ELSE {}
    <2>1. T \in SUBSET Entity
        BY FoundType DEF Live
    <2>2. round' = [round EXCEPT ![v] = [RoundIdle EXCEPT !.pc = "anchor", !.todo = T]]
        BY <1>1 DEF StartRound
    <2> HIDE DEF T
    <2> QED
        BY <2>1, <2>2, PhaseType
<1>2. CASE StartVerifyNow(v)
    <2> DEFINE r == [RoundIdle EXCEPT !.pc = "anchor"]
    <2>1. r \in RoundRecord /\ r.pc \notin Holding
        BY DEF RoundIdle, RoundRecord, Verdicts, Holding
    <2>2. round' = [round EXCEPT ![v] = r]
        BY <1>2 DEF StartVerifyNow
    <2> HIDE DEF r
    <2> QED
        BY <2>1, <2>2, UpdateRound
<1>3. CASE AnchorSend(v)
    <2>1. PICK e \in round[v].todo, t \in Txs :
              round' = [round EXCEPT ![v] = [Take(v, e, "anchorWait") EXCEPT !.tx = t]]
        BY <1>3 DEF AnchorSend
    <2> DEFINE r == [Take(v, e, "anchorWait") EXCEPT !.tx = t]
    <2>2. r \in RoundRecord /\ r.cur \in Entity
        BY TakeType DEF RoundRecord, Holding
    <2> HIDE DEF r
    <2> QED
        BY <2>1, <2>2, UpdateRound DEF r
<1>4. CASE AnchorSendFails(v)
    BY <1>4, DoneType DEF AnchorSendFails
<1>5. CASE AnchorAdopt(v)
    BY <1>5, DoneType DEF AnchorAdopt
<1>6. CASE AnchorConfirm(v) \/ AnchorDefer(v) \/ AnchorSkip(v)
    BY <1>6, ContinueType DEF AnchorConfirm, AnchorDefer, AnchorSkip
<1>7. CASE StartReanchor(v)
    <2> DEFINE T == IF ready /\ AutoReanchor THEN Found({"UNVERIFIED"}) ELSE {}
    <2>1. T \in SUBSET Entity
        BY FoundType DEF Live
    <2>2. round' = [round EXCEPT ![v] = [RoundIdle EXCEPT !.pc = "reanchor", !.todo = T]]
        BY <1>7 DEF StartReanchor
    <2> HIDE DEF T
    <2> QED
        BY <2>1, <2>2, PhaseType
<1>8. CASE ReanchorCheck(v)
    <2>1. PICK e \in round[v].todo :
              \/ round' = [round EXCEPT ![v] = Take(v, e, "reanchorSend")]
              \/ Done(v, e)
        BY <1>8 DEF ReanchorCheck
    <2>2. Take(v, e, "reanchorSend") \in RoundRecord /\ Take(v, e, "reanchorSend").cur \in Entity
        BY TakeType DEF Holding
    <2> QED
        BY <2>1, <2>2, UpdateRound, DoneType
<1>9. CASE ReanchorSend(v)
    <2>1. CASE Continue(v, "reanchor")
        BY <2>1, ContinueType
    <2>2. CASE \E t \in Txs : round' = [round EXCEPT ![v].pc = "reanchorWait", ![v].tx = t]
        <3>1. PICK t \in Txs : round' = [round EXCEPT ![v].pc = "reanchorWait", ![v].tx = t]
            BY <2>2
        <3> DEFINE r == [round[v] EXCEPT !.pc = "reanchorWait", !.tx = t]
        <3>2. round[v].cur \in Entity
            BY <1>9 DEF ReanchorSend, RoundType, Holding
        <3>3. r \in RoundRecord /\ r.cur = round[v].cur
            BY DEF RoundType, RoundRecord
        <3>4. round' = [round EXCEPT ![v] = r]
            BY <3>1 DEF RoundType, RoundRecord
        <3> HIDE DEF r
        <3> QED
            BY <3>2, <3>3, <3>4, UpdateRound
    <2> QED
        BY <1>9, <2>1, <2>2 DEF ReanchorSend
<1>10. CASE ReanchorFails(v)
    BY <1>10, DoneType, ContinueType DEF ReanchorFails
<1>11. CASE ReanchorSave(v) \/ ReanchorSkip(v)
    BY <1>11, ContinueType DEF ReanchorSave, ReanchorSkip
<1>12. CASE StartVerify(v)
    <2>1. round' = [round EXCEPT ![v] = [RoundIdle EXCEPT !.pc = "verify", !.todo = Found(Live)]]
        BY <1>12 DEF StartVerify
    <2> QED
        BY <2>1, FoundType, PhaseType
<1>13. CASE VerifyRead(v)
    <2>1. PICK e \in round[v].todo :
            round' = [round EXCEPT ![v] =
                        [Take(v, e, "check") EXCEPT
                            !.seen = RootOf(row, LogsOf(e.batch)),
                            !.modified = Modified(row, LogsOf(e.batch)) # {}]]
        BY <1>13, Zenon DEF VerifyRead
    <2>2. ASSUME NEW x \in Roots, NEW m \in BOOLEAN
          PROVE  /\ [Take(v, e, "check") EXCEPT !.seen = x, !.modified = m] \in RoundRecord
                 /\ [Take(v, e, "check") EXCEPT !.seen = x, !.modified = m].cur \in Entity
        <3>1. Take(v, e, "check") \in RoundRecord /\ Take(v, e, "check").cur \in Entity
            BY TakeType DEF Holding
        <3>2. CASE m = TRUE
            BY <3>1, <3>2 DEF RoundRecord
        <3>3. CASE m = FALSE
            BY <3>1, <3>3 DEF RoundRecord
        <3> QED
            BY <3>2, <3>3
    <2>3. RootOf(row, LogsOf(e.batch)) \in Roots
        BY RootOfType DEF LogsOf
    <2>4. (Modified(row, LogsOf(e.batch)) # {}) \in BOOLEAN
        OBVIOUS
    <2> QED
        BY <2>1, <2>2, <2>3, <2>4, UpdateRound
<1>14. CASE VerifyCheck(v)
    <2>1. PICK w \in Verdicts :
            round' = [round EXCEPT ![v] =
                        [round[v] EXCEPT !.verdict = w, !.seen = NoRoot, !.modified = FALSE,
                                         !.pc = IF w \in {"bad", "localBad"} THEN "raise" ELSE "settle"]]
        BY <1>14 DEF VerifyCheck, LocalVerdict, ChainVerdict, Verdicts
    <2> DEFINE r == [round[v] EXCEPT !.verdict = w, !.seen = NoRoot, !.modified = FALSE,
                                     !.pc = IF w \in {"bad", "localBad"} THEN "raise" ELSE "settle"]
    <2>2. r \in RoundRecord
        BY DEF RoundType, RoundRecord
    <2>3. r.cur \in Entity
        BY <1>14 DEF VerifyCheck, Holding, RoundType, RoundRecord
    <2> HIDE DEF r
    <2> QED
        BY <2>1, <2>2, <2>3, UpdateRound DEF r
<1>15. CASE RaiseFind(v)
    BY <1>15, MoveType DEF RaiseFind, Holding
<1>16. CASE RaiseInsert(v)
    <2>1. CASE round' = [round EXCEPT ![v] = RoundIdle]
        BY <2>1, RoundIdleType, UpdateRound
    <2> QED
        BY <1>16, <2>1, MoveType DEF RaiseInsert, Holding
<1>17. CASE SettleTampered(v) \/ SettleMissing(v)
    BY <1>17, ContinueType DEF SettleTampered, SettleMissing
<1>18. CASE SettleVerified(v)
    BY <1>18, MoveType DEF SettleVerified, Holding
<1>19. CASE SettleLocal(v)
    BY <1>19, MoveType, ContinueType DEF SettleLocal, Holding
<1>20. CASE ResolveAlerts(v)
    BY <1>20, ContinueType DEF ResolveAlerts
<1>21. CASE EndRound(v) \/ RoundFails(v)
    BY <1>21, RoundIdleType, UpdateRound DEF EndRound, RoundFails
<1> QED
    BY <1>1, <1>2, <1>3, <1>4, <1>5, <1>6, <1>7, <1>8, <1>9, <1>10, <1>11, <1>12, <1>13,
       <1>14, <1>15, <1>16, <1>17, <1>18, <1>19, <1>20, <1>21
    DEF RoundAction, RoundStep, RoundFault

-----------------------------------------------------------------------------
(* Callers *)

LEMMA UpdateSeal ==
    ASSUME SealType, NEW c \in Callers, NEW r \in SealRecord,
           r.pc \in {"created", "sent", "failed"} => r.batch \in Batches,
           seal' = [seal EXCEPT ![c] = r]
    PROVE  SealType'
BY DEF SealType

LEMMA SealIdleType ==
    ASSUME SealType, NEW c \in Callers, seal' = [seal EXCEPT ![c] = SealIdle]
    PROVE  SealType'
<1>1. SealIdle \in SealRecord /\ SealIdle.pc = "idle"
    BY DEF SealIdle, SealRecord
<1> QED
    BY <1>1, UpdateSeal

LEMMA SealTypeStep ==
    ASSUME TypeInv, NEW c \in Callers, SealAction(c)
    PROVE  SealType'
<1> USE DEF TypeInv
<1>1. CASE SealPick(c)
    <2> DEFINE picked == Oldest(PendingLogs, BatchSize)
               merkle == RootOf(row, picked)
               r == [SealIdle EXCEPT !.pc = "picked", !.logs = picked, !.root = merkle]
    <2>1. picked \in SUBSET Logs
        BY DEF Oldest, PendingLogs
    <2>2. merkle \in Roots
        BY <2>1, RootOfType
    <2>3. seal' = [seal EXCEPT ![c] = r]
        BY <1>1 DEF SealPick
    <2> HIDE DEF picked, merkle
    <2>4. r \in SealRecord /\ r.pc = "picked"
        BY <2>1, <2>2 DEF SealIdle, SealRecord
    <2> HIDE DEF r
    <2> QED
        BY <2>3, <2>4, UpdateSeal
<1>2. CASE SealCreate(c)
    <2>1. PICK b \in Batches : seal' = [seal EXCEPT ![c].pc = "created", ![c].batch = b]
        BY <1>2 DEF SealCreate
    <2> DEFINE r == [seal[c] EXCEPT !.pc = "created", !.batch = b]
    <2>2. r \in SealRecord /\ r.batch = b
        BY DEF SealType, SealRecord
    <2>3. seal' = [seal EXCEPT ![c] = r]
        BY <2>1 DEF SealType
    <2> HIDE DEF r
    <2> QED
        BY <2>2, <2>3, UpdateSeal
<1>3. CASE SealSend(c)
    <2>1. PICK t \in Txs : seal' = [seal EXCEPT ![c].pc = "sent", ![c].tx = t]
        BY <1>3 DEF SealSend
    <2> DEFINE r == [seal[c] EXCEPT !.pc = "sent", !.tx = t]
    <2>2. r \in SealRecord /\ r.batch \in Batches
        BY <1>3 DEF SealSend, SealType, SealRecord
    <2>3. seal' = [seal EXCEPT ![c] = r]
        BY <2>1 DEF SealType
    <2> HIDE DEF r
    <2> QED
        BY <2>2, <2>3, UpdateSeal
<1>4. CASE SealSendFails(c) \/ SealCommitFails(c)
    <2> DEFINE r == [seal[c] EXCEPT !.pc = "failed"]
    <2>1. r \in SealRecord /\ r.batch \in Batches
        BY <1>4 DEF SealSendFails, SealCommitFails, SealType, SealRecord
    <2>2. seal' = [seal EXCEPT ![c] = r]
        BY <1>4 DEF SealSendFails, SealCommitFails, SealType
    <2> HIDE DEF r
    <2> QED
        BY <2>1, <2>2, UpdateSeal
<1>5. CASE SealLost(c)
    <2> DEFINE r == [seal[c] EXCEPT !.pc = "failed", !.tx = NoTx]
    <2>1. r \in SealRecord /\ r.batch \in Batches
        BY <1>5 DEF SealLost, SealType, SealRecord
    <2>2. seal' = [seal EXCEPT ![c] = r]
        BY <1>5 DEF SealLost, SealType
    <2> HIDE DEF r
    <2> QED
        BY <2>1, <2>2, UpdateSeal
<1>6. CASE \/ SealSkip(c) \/ SealWithoutAnchor(c) \/ SealWithoutAnchorFails(c)
           \/ SealConfirm(c) \/ SealDefer(c) \/ SealFailed(c) \/ SealFailedFails(c)
    BY <1>6, SealIdleType
    DEF SealSkip, SealWithoutAnchor, SealWithoutAnchorFails, SealConfirm, SealDefer,
        SealFailed, SealFailedFails
<1> QED
    BY <1>1, <1>2, <1>3, <1>4, <1>5, <1>6 DEF SealAction, SealStep, SealFault

-----------------------------------------------------------------------------
(* What a step does to the chain and to the tables *)

\* The network, and what sealing and the rounds send to it.
Sent(b) == \E t \in Txs : Submit(t, b, root[b], Awaited)

ChainStep ==
    \/ UNCHANGED chainVars
    \/ \E b \in Batches : Sent(b)
    \/ \E t \in Txs : Mine(t) \/ Drop(t)
    \/ Reset /\ "reset" \in Faults

LEMMA SubmitType ==
    ASSUME ChainTypeOK, NEW t \in Txs, NEW b \in Batches, NEW r \in Roots \cup {NoRoot}, NEW A,
           Submit(t, b, r, A)
    PROVE  ChainTypeOK'
BY DEF ChainTypeOK, Submit, TxRecord, TxStates

LEMMA ChainTypeStep ==
    ASSUME TypeOK, ChainStep
    PROVE  ChainTypeOK'
<1>0. ChainTypeOK /\ root \in [Batches -> Roots \cup {NoRoot}]
    BY DEF TypeOK
<1>1. CASE UNCHANGED chainVars
    BY <1>0, <1>1 DEF ChainTypeOK, chainVars
<1>2. CASE \E b \in Batches : Sent(b)
    BY <1>0, <1>2, SubmitType DEF Sent
<1>3. CASE \E t \in Txs : Mine(t)
    BY <1>0, <1>3 DEF ChainTypeOK, Mine, TxRecord, TxStates
<1>4. CASE \E t \in Txs : Drop(t)
    BY <1>0, <1>4 DEF ChainTypeOK, Drop, TxRecord, TxStates
<1>5. CASE Reset
    BY <1>0, <1>5 DEF ChainTypeOK, Reset, TxRecord, TxStates
<1> QED
    BY <1>1, <1>2, <1>3, <1>4, <1>5 DEF ChainStep

\* What a round does to the tables: it saves an entity it holds, under another
\* status or with another hash, or it touches the alerts.
SaveHeld(v, s, t) == \E e \in Held(v) : Save([e EXCEPT !.status = s, !.tx = t])

RoundDb(v) ==
    \/ UNCHANGED dbVars
    \/ \E s \in Live, t \in Txs \cup {NoTx} : SaveHeld(v, s, t)
    \/ /\ alert' \in SUBSET Batches
       /\ UNCHANGED <<row, mapping, status, root, tx>>

LEMMA HeldType ==
    ASSUME RoundType, NEW v \in Rounds
    PROVE  /\ Held(v) \in SUBSET Entity
           /\ round[v].todo \in SUBSET Held(v)
           /\ round[v].pc \in Holding => round[v].cur \in Held(v)
<1>1. NoEntity \notin Entity
    BY DEF NoEntity, Entity, Live
<1> QED
    BY <1>1 DEF Held, RoundType, RoundRecord

LEMMA SaveIsHeld ==
    ASSUME RoundType, NEW v \in Rounds, NEW e \in Held(v),
           NEW s \in Live, NEW t \in Txs \cup {NoTx},
           \/ Save([e EXCEPT !.status = s, !.tx = t])
           \/ Save([e EXCEPT !.status = s]) /\ t = e.tx
           \/ Save([e EXCEPT !.tx = t]) /\ s = e.status
    PROVE  SaveHeld(v, s, t)
<1>1. e \in Entity
    BY HeldType
<1>2. /\ t = e.tx => [e EXCEPT !.status = s] = [e EXCEPT !.status = s, !.tx = t]
      /\ s = e.status => [e EXCEPT !.tx = t] = [e EXCEPT !.status = s, !.tx = t]
    BY <1>1 DEF Entity
<1> QED
    BY <1>2 DEF SaveHeld

LEMMA RoundDbStep ==
    ASSUME TypeInv, NEW v \in Rounds, RoundAction(v)
    PROVE  RoundDb(v)
<1> USE DEF TypeInv
<1> DEFINE e == round[v].cur
           t == round[v].tx
<1>0. /\ round[v].pc \in Holding => e \in Held(v) /\ e \in Entity
      /\ t \in Txs \cup {NoTx}
    BY HeldType DEF RoundType, RoundRecord
<1>1. CASE AnchorAdopt(v)
    <2>1. PICK f \in round[v].todo : Save([f EXCEPT !.status = "CONFIRMED"])
        BY <1>1 DEF AnchorAdopt
    <2>2. f \in Held(v) /\ f.tx \in Txs \cup {NoTx}
        BY HeldType DEF Entity
    <2>3. SaveHeld(v, "CONFIRMED", f.tx)
        BY <2>1, <2>2, SaveIsHeld DEF Live
    <2> QED
        BY <2>2, <2>3 DEF RoundDb, Live
<1>2. CASE AnchorConfirm(v)
    <2>1. SaveHeld(v, "CONFIRMED", t)
        BY <1>0, <1>2, SaveIsHeld DEF AnchorConfirm, Holding, Live
    <2> QED
        BY <1>0, <2>1 DEF RoundDb, Live
<1>3. CASE AnchorDefer(v)
    <2>1. SaveHeld(v, "UNVERIFIED", t)
        BY <1>0, <1>3, SaveIsHeld DEF AnchorDefer, Holding, Live
    <2> QED
        BY <1>0, <2>1 DEF RoundDb, Live
<1>4. CASE ReanchorSave(v)
    <2>1. e \in Held(v) /\ e.status \in Live
        BY <1>0, <1>4 DEF ReanchorSave, Holding, Entity
    <2>2. SaveHeld(v, e.status, t)
        BY <1>0, <1>4, <2>1, SaveIsHeld DEF ReanchorSave
    <2> QED
        BY <1>0, <2>1, <2>2 DEF RoundDb
<1>5. CASE \/ SettleTampered(v) \/ SettleMissing(v) \/ SettleVerified(v) \/ SettleLocal(v)
    <2>1. e \in Held(v) /\ e.tx \in Txs \cup {NoTx}
        BY <1>0, <1>5
        DEF SettleTampered, SettleMissing, SettleVerified, SettleLocal, Holding, Entity
    <2>2. \/ UNCHANGED dbVars
          \/ \E s \in Live : Save([e EXCEPT !.status = s])
        BY <1>5 DEF SettleTampered, SettleMissing, SettleVerified, SettleLocal, Live
    <2>3. \A s \in Live : Save([e EXCEPT !.status = s]) => SaveHeld(v, s, e.tx)
        BY <2>1, SaveIsHeld
    <2> QED
        BY <2>1, <2>2, <2>3 DEF RoundDb
<1>6. CASE RaiseInsert(v) \/ ResolveAlerts(v)
    <2>1. e.batch \in Batches
        BY <1>0, <1>6 DEF RaiseInsert, ResolveAlerts, Holding, Entity
    <2>2. alert \in SUBSET Batches
        BY DEF TypeOK
    <2> QED
        BY <1>6, <2>1, <2>2 DEF RaiseInsert, ResolveAlerts, RoundDb
<1>7. CASE \/ StartRound(v) \/ StartVerifyNow(v) \/ AnchorSend(v) \/ AnchorSendFails(v)
           \/ AnchorSkip(v) \/ StartReanchor(v) \/ ReanchorCheck(v) \/ ReanchorSend(v)
           \/ ReanchorFails(v) \/ ReanchorSkip(v) \/ StartVerify(v) \/ VerifyRead(v)
           \/ VerifyCheck(v) \/ RaiseFind(v) \/ EndRound(v) \/ RoundFails(v)
    BY <1>7
    DEF StartRound, StartVerifyNow, AnchorSend, AnchorSendFails, AnchorSkip, StartReanchor,
        ReanchorCheck, ReanchorSend, ReanchorFails, ReanchorSkip, StartVerify, VerifyRead,
        VerifyCheck, RaiseFind, EndRound, RoundFails, RoundDb
<1> QED
    BY <1>1, <1>2, <1>3, <1>4, <1>5, <1>6, <1>7 DEF RoundAction, RoundStep, RoundFault

\* What a round sends, and what it leaves alone.
RoundFrame(v) ==
    /\ UNCHANGED <<ready, seal>>
    /\ \A u \in Rounds \ {v} : round'[u] = round[u]
    /\ UNCHANGED chainVars \/ (UNCHANGED dbVars /\ \E e \in Held(v) : Sent(e.batch))
    /\ UNCHANGED envVars \/ \E k \in Faults : Fault(k)

LEMMA RoundFrameStep ==
    ASSUME TypeInv, NEW v \in Rounds, RoundAction(v)
    PROVE  RoundFrame(v)
<1> USE DEF TypeInv
<1>0. /\ \A e \in round[v].todo : e \in Held(v)
      /\ round[v].pc \in Holding => round[v].cur \in Held(v)
    BY HeldType
<1>1. UNCHANGED <<ready, seal>>
    BY DEF RoundAction, RoundStep, RoundFault, StartRound, StartVerifyNow, AnchorSend,
        AnchorSendFails, AnchorAdopt, AnchorConfirm, AnchorDefer, AnchorSkip, StartReanchor,
        ReanchorCheck, ReanchorSend, ReanchorFails, ReanchorSave, ReanchorSkip, StartVerify,
        VerifyRead, VerifyCheck, RaiseFind, RaiseInsert, SettleTampered, SettleMissing,
        SettleVerified, SettleLocal, ResolveAlerts, EndRound, RoundFails
<1>2. \A u \in Rounds \ {v} : round'[u] = round[u]
    <2>1. \E r : round' = [round EXCEPT ![v] = r]
        BY DEF RoundAction, RoundStep, RoundFault, Continue, Done, StartRound, StartVerifyNow,
            AnchorSend, AnchorSendFails, AnchorAdopt, AnchorConfirm, AnchorDefer, AnchorSkip,
            StartReanchor, ReanchorCheck, ReanchorSend, ReanchorFails, ReanchorSave,
            ReanchorSkip, StartVerify, VerifyRead, VerifyCheck, RaiseFind, RaiseInsert,
            SettleTampered, SettleMissing, SettleVerified, SettleLocal, ResolveAlerts,
            EndRound, RoundFails
    <2> QED
        BY <2>1 DEF RoundType
<1>3. UNCHANGED chainVars \/ (UNCHANGED dbVars /\ \E e \in Held(v) : Sent(e.batch))
    BY <1>0 DEF RoundAction, RoundStep, RoundFault, Sent, Holding, StartRound, StartVerifyNow,
        AnchorSend, AnchorSendFails, AnchorAdopt, AnchorConfirm, AnchorDefer, AnchorSkip,
        StartReanchor, ReanchorCheck, ReanchorSend, ReanchorFails, ReanchorSave, ReanchorSkip,
        StartVerify, VerifyRead, VerifyCheck, RaiseFind, RaiseInsert, SettleTampered,
        SettleMissing, SettleVerified, SettleLocal, ResolveAlerts, EndRound, RoundFails
<1>4. UNCHANGED envVars \/ \E k \in Faults : Fault(k)
    BY DEF RoundAction, RoundStep, RoundFault, Fault, StartRound, StartVerifyNow, AnchorSend,
        AnchorSendFails, AnchorAdopt, AnchorConfirm, AnchorDefer, AnchorSkip, StartReanchor,
        ReanchorCheck, ReanchorSend, ReanchorFails, ReanchorSave, ReanchorSkip, StartVerify,
        VerifyRead, VerifyCheck, RaiseFind, RaiseInsert, SettleTampered, SettleMissing,
        SettleVerified, SettleLocal, ResolveAlerts, EndRound, RoundFails
<1> QED
    BY <1>1, <1>2, <1>3, <1>4 DEF RoundFrame

\* What a call of sealBatch does to the tables, what it sends and what it leaves alone.
SealDb(c) ==
    \/ UNCHANGED dbVars
    \/ SealCreate(c)
    \/ /\ seal[c].pc \in {"created", "sent"}
       /\ \E s \in {"SEALED", "UNVERIFIED", "CONFIRMED"} : WriteMapping(c, s)
    \/ SealFailed(c)

SealFrame(c) ==
    /\ UNCHANGED <<row, alert, ready, round>>
    /\ \A d \in Callers \ {c} : seal'[d] = seal[d]
    /\ \/ UNCHANGED chainVars
       \/ seal[c].pc = "created" /\ Sent(seal[c].batch) /\ UNCHANGED dbVars
    /\ UNCHANGED envVars \/ \E k \in Faults : Fault(k)

LEMMA SealDbStep ==
    ASSUME TypeInv, NEW c \in Callers, SealAction(c)
    PROVE  SealDb(c)
<1>1. CASE SealConfirm(c) \/ SealDefer(c) \/ SealWithoutAnchor(c)
    BY <1>1 DEF SealConfirm, SealDefer, SealWithoutAnchor, SealDb
<1>2. CASE SealCommitFails(c)
    BY <1>2 DEF SealCommitFails, SealDb
<1>3. CASE SealFailed(c) \/ SealCreate(c)
    BY <1>3 DEF SealDb
<1>4. CASE \/ SealPick(c) \/ SealSkip(c) \/ SealWithoutAnchorFails(c) \/ SealSend(c)
           \/ SealSendFails(c) \/ SealLost(c) \/ SealFailedFails(c)
    BY <1>4 DEF SealPick, SealSkip, SealWithoutAnchorFails, SealSend, SealSendFails, SealLost,
        SealFailedFails, SealDb
<1> QED
    BY <1>1, <1>2, <1>3, <1>4 DEF SealAction, SealStep, SealFault

LEMMA SealFrameStep ==
    ASSUME TypeInv, NEW c \in Callers, SealAction(c)
    PROVE  SealFrame(c)
<1> USE DEF TypeInv
<1>1. UNCHANGED <<row, alert, ready, round>>
    BY DEF SealAction, SealStep, SealFault, SealPick, SealSkip, SealCreate, SealWithoutAnchor,
        SealWithoutAnchorFails, SealSend, SealSendFails, SealConfirm, SealDefer, SealLost,
        SealCommitFails, SealFailed, SealFailedFails, WriteMapping, dbVars
<1>2. \A d \in Callers \ {c} : seal'[d] = seal[d]
    BY DEF SealAction, SealStep, SealFault, SealPick, SealSkip, SealCreate, SealWithoutAnchor,
        SealWithoutAnchorFails, SealSend, SealSendFails, SealConfirm, SealDefer, SealLost,
        SealCommitFails, SealFailed, SealFailedFails, SealType
<1>3. \/ UNCHANGED chainVars
      \/ seal[c].pc = "created" /\ Sent(seal[c].batch) /\ UNCHANGED dbVars
    <2>1. CASE SealSend(c) \/ SealSendFails(c)
        BY <2>1 DEF SealSend, SealSendFails, Sent
    <2>2. CASE SealWithoutAnchor(c) \/ SealWithoutAnchorFails(c)
        BY <2>2 DEF SealWithoutAnchor, SealWithoutAnchorFails
    <2>3. CASE SealPick(c) \/ SealSkip(c) \/ SealCreate(c) \/ SealConfirm(c) \/ SealDefer(c)
               \/ SealLost(c) \/ SealCommitFails(c) \/ SealFailed(c) \/ SealFailedFails(c)
        BY <2>3 DEF SealPick, SealSkip, SealCreate, SealConfirm, SealDefer, SealLost,
            SealCommitFails, SealFailed, SealFailedFails
    <2> QED
        BY <2>1, <2>2, <2>3 DEF SealAction, SealStep, SealFault
<1>4. UNCHANGED envVars \/ \E k \in Faults : Fault(k)
    BY DEF SealAction, SealStep, SealFault, SealPick, SealSkip, SealCreate, SealWithoutAnchor,
        SealWithoutAnchorFails, SealSend, SealSendFails, SealConfirm, SealDefer, SealLost,
        SealCommitFails, SealFailed, SealFailedFails, Fault
<1> QED
    BY <1>1, <1>2, <1>3, <1>4 DEF SealFrame

-----------------------------------------------------------------------------
(* TypeOK *)

DbType ==
    /\ row \in [Logs -> RowStates]
    /\ mapping \in [Logs -> Batches \cup {NoBatch}]
    /\ status \in [Batches -> Statuses]
    /\ root \in [Batches -> Roots \cup {NoRoot}]
    /\ tx \in [Batches -> Txs \cup {NoTx}]
    /\ alert \in SUBSET Batches

EnvType == edits \in 0 .. MaxEdits /\ faults \in 0 .. MaxFaults

LEMMA DbTypeOfRound ==
    ASSUME TypeInv, NEW v \in Rounds, RoundDb(v)
    PROVE  DbType'
<1>1. DbType
    BY DEF DbType, TypeInv, TypeOK
<1>2. CASE UNCHANGED dbVars
    BY <1>1, <1>2 DEF DbType, dbVars
<1>3. CASE \E s \in Live, t \in Txs \cup {NoTx} : SaveHeld(v, s, t)
    <2>1. PICK s \in Live, t \in Txs \cup {NoTx} :
              \E e \in Held(v) : Save([e EXCEPT !.status = s, !.tx = t])
        BY <1>3 DEF SaveHeld
    <2>2. PICK e \in Entity : Save([e EXCEPT !.status = s, !.tx = t])
        BY <2>1, HeldType DEF TypeInv
    <2>3. /\ status' = [status EXCEPT ![e.batch] = s]
          /\ tx' = [tx EXCEPT ![e.batch] = t]
          /\ UNCHANGED <<row, mapping, root, alert>>
        BY <2>2 DEF Save, Entity
    <2> QED
        BY <1>1, <2>3 DEF DbType, Statuses
<1>4. CASE alert' \in SUBSET Batches /\ UNCHANGED <<row, mapping, status, root, tx>>
    BY <1>1, <1>4 DEF DbType
<1> QED
    BY <1>2, <1>3, <1>4 DEF RoundDb

LEMMA DbTypeOfSeal ==
    ASSUME TypeInv, NEW c \in Callers, SealDb(c)
    PROVE  DbType'
<1>1. DbType
    BY DEF DbType, TypeInv, TypeOK
<1>2. seal[c] \in SealRecord
    BY DEF TypeInv, SealType
<1>3. CASE UNCHANGED dbVars
    BY <1>1, <1>3 DEF DbType, dbVars
<1>4. CASE SealCreate(c)
    BY <1>1, <1>2, <1>4 DEF DbType, SealCreate, SealRecord, Statuses
<1>5. CASE \E s \in {"SEALED", "UNVERIFIED", "CONFIRMED"} : WriteMapping(c, s)
    BY <1>1, <1>2, <1>5 DEF DbType, WriteMapping, SealRecord, Statuses, Live
<1>6. CASE SealFailed(c)
    BY <1>1, <1>2, <1>6 DEF DbType, SealFailed, SealRecord, Statuses
<1> QED
    BY <1>3, <1>4, <1>5, <1>6 DEF SealDb

LEMMA FaultType ==
    ASSUME TypeOK, UNCHANGED envVars \/ \E k \in Faults : Fault(k)
    PROVE  EnvType'
BY IntegrityConstants DEF TypeOK, Fault, EnvType, envVars

LEMMA TypeParts ==
    /\ TypeInv <=> /\ ChainTypeOK /\ DbType /\ ready \in BOOLEAN
                   /\ SealType /\ RoundType /\ EnvType
    /\ TypeInv' <=> /\ ChainTypeOK' /\ DbType' /\ ready' \in BOOLEAN
                    /\ SealType' /\ RoundType' /\ EnvType'
BY DEF TypeInv, TypeOK, DbType, EnvType, SealType, RoundType

LEMMA InitType == Init => TypeInv
<1> SUFFICES ASSUME Init PROVE TypeInv
    OBVIOUS
<1>1. ChainTypeOK
    BY DEF Init, ChainInit, ChainTypeOK, UnusedTx, TxRecord, TxStates
<1>2. DbType
    BY DEF Init, DbType, RowStates, Statuses
<1>3. SealType
    BY DEF Init, SealType, SealIdle, SealRecord
<1>4. RoundType
    BY RoundIdleType DEF Init, RoundType
<1>5. EnvType
    BY IntegrityConstants DEF Init, EnvType
<1>6. ready \in BOOLEAN
    BY DEF Init
<1> QED
    BY <1>1, <1>2, <1>3, <1>4, <1>5, <1>6 DEF TypeInv, TypeOK, DbType, EnvType, SealType, RoundType

LEMMA StepType == TypeInv /\ [Next]_vars => TypeInv'
<1> SUFFICES ASSUME TypeInv, [Next]_vars PROVE TypeInv'
    OBVIOUS
<1>0. /\ TypeOK /\ ChainTypeOK /\ DbType /\ SealType /\ RoundType /\ EnvType
      /\ ready \in BOOLEAN
    BY TypeParts DEF TypeInv
<1> USE DEF dbVars, chainVars, envVars
<1>1. ASSUME NEW l \in Logs, Ingest(l) PROVE TypeInv'
    <2>1. DbType'
        BY <1>0, <1>1 DEF Ingest, DbType, RowStates
    <2> QED
        BY <1>0, <1>1, <2>1, TypeParts DEF Ingest, ChainTypeOK, SealType, RoundType, EnvType
<1>2. ASSUME NEW l \in Logs, NEW s \in Edits, EditRow(l, s) PROVE TypeInv'
    <2>1. s \in RowStates
        BY <1>2, IntegrityConstants DEF EditRow
    <2>2. DbType'
        BY <1>0, <1>2, <2>1 DEF EditRow, DbType
    <2>3. EnvType'
        BY <1>0, <1>2, IntegrityConstants DEF EditRow, EnvType
    <2> QED
        BY <1>0, <1>2, <2>2, <2>3, TypeParts DEF EditRow, ChainTypeOK, SealType, RoundType
<1>3. ASSUME NEW b \in Batches, CloseAlert(b) PROVE TypeInv'
    <2>1. DbType'
        BY <1>0, <1>3 DEF CloseAlert, DbType
    <2>2. EnvType'
        BY <1>0, <1>3, IntegrityConstants DEF CloseAlert, EnvType
    <2> QED
        BY <1>0, <1>3, <2>1, <2>2, TypeParts DEF CloseAlert, ChainTypeOK, SealType, RoundType
<1>4. CASE Connect
    BY <1>0, <1>4, TypeParts DEF Connect, ChainTypeOK, DbType, SealType, RoundType, EnvType
<1>5. CASE Network
    <2>1. ChainTypeOK'
        BY <1>0, <1>5, ChainTypeStep DEF Network, ChainStep, Fault
    <2>2. EnvType'
        BY <1>0, <1>5, FaultType DEF Network, Fault
    <2> QED
        BY <1>0, <1>5, <2>1, <2>2, TypeParts DEF Network, DbType, SealType, RoundType
<1>6. CASE Crash
    <2>1. SealType'
        BY <1>6 DEF Crash, SealType, SealIdle, SealRecord
    <2>2. RoundType'
        BY <1>6, RoundIdleType DEF Crash, RoundType
    <2>3. EnvType'
        BY <1>0, <1>6, FaultType DEF Crash, Fault
    <2> QED
        BY <1>0, <1>6, <2>1, <2>2, <2>3, TypeParts DEF Crash, ChainTypeOK, DbType
<1>7. ASSUME NEW c \in Callers, SealAction(c) PROVE TypeInv'
    <2>1. SealFrame(c)
        BY <1>7, SealFrameStep
    <2>2. seal[c].pc = "created" => seal[c].batch \in Batches
        BY <1>0 DEF SealType
    <2>3. ChainTypeOK'
        BY <1>0, <2>1, <2>2, ChainTypeStep DEF SealFrame, ChainStep
    <2>4. DbType'
        BY <1>7, SealDbStep, DbTypeOfSeal
    <2>5. SealType'
        BY <1>7, SealTypeStep
    <2>6. RoundType'
        BY <1>0, <2>1 DEF SealFrame, RoundType
    <2>7. EnvType' /\ ready' \in BOOLEAN
        BY <1>0, <2>1, FaultType DEF SealFrame
    <2> QED
        BY <2>3, <2>4, <2>5, <2>6, <2>7, TypeParts
<1>8. ASSUME NEW v \in Rounds, RoundAction(v) PROVE TypeInv'
    <2>1. RoundFrame(v)
        BY <1>8, RoundFrameStep
    <2>2. \A e \in Held(v) : e.batch \in Batches
        BY <1>0, HeldType DEF Entity
    <2>3. ChainTypeOK'
        BY <1>0, <2>1, <2>2, ChainTypeStep DEF RoundFrame, ChainStep
    <2>4. DbType'
        BY <1>8, RoundDbStep, DbTypeOfRound
    <2>5. RoundType'
        BY <1>8, RoundTypeStep
    <2>6. SealType'
        BY <1>0, <2>1 DEF RoundFrame, SealType
    <2>7. EnvType' /\ ready' \in BOOLEAN
        BY <1>0, <2>1, FaultType DEF RoundFrame
    <2> QED
        BY <2>3, <2>4, <2>5, <2>6, <2>7, TypeParts
<1>9. CASE UNCHANGED vars
    BY <1>0, <1>9, TypeParts DEF vars, ChainTypeOK, DbType, SealType, RoundType, EnvType
<1> QED
    BY <1>1, <1>2, <1>3, <1>4, <1>5, <1>6, <1>7, <1>8, <1>9 DEF Next, SealAction, RoundAction

\* Every state the service and its environment can reach has well-typed tables, chain
\* and bookkeeping, and whoever is about to send or save has something to send or save.
THEOREM TypeCorrect == Spec => []TypeInv
<1>1. TypeInv /\ [Next]_vars => TypeInv'
    BY StepType
<1> QED
    BY InitType, <1>1, PTL DEF Spec

\* The type invariant of the runs.
THEOREM TypeCorrectness == Spec => []TypeOK
<1>1. TypeInv => TypeOK
    BY DEF TypeInv
<1> QED
    BY TypeCorrect, <1>1, PTL

-----------------------------------------------------------------------------
(***************************************************************************)
(* Sealing.  One call at a time is past the queue; the logs it picked stay *)
(* unmapped and its batch stays PENDING until it writes the mapping, since *)
(* the rounds hold no batch that is still PENDING.                         *)
(***************************************************************************)
OneSeal == \A c, d \in Callers : seal[c].pc # "idle" /\ seal[d].pc # "idle" => c = d

PickedPending ==
    \A c \in Callers : seal[c].pc \in {"picked", "created", "sent"} =>
        /\ seal[c].logs # {}
        /\ Cardinality(seal[c].logs) <= BatchSize
        /\ \A l \in seal[c].logs : row[l] # "none" /\ mapping[l] = NoBatch
        /\ seal[c].root \in [seal[c].logs -> Leaves]

CreatedPending ==
    \A c \in Callers : seal[c].pc \in {"created", "sent"} =>
        /\ status[seal[c].batch] = "PENDING"
        /\ root[seal[c].batch] = seal[c].root

FailedExists ==
    \A c \in Callers : seal[c].pc = "failed" => status[seal[c].batch] # "none"

OpenIsEmpty == \A b \in Batches : status[b] \in {"none", "PENDING"} => LogsOf(b) = {}

HeldClosed == \A v \in Rounds : \A e \in Held(v) : status[e.batch] \notin {"none", "PENDING"}

SealInv == /\ OneSeal /\ PickedPending /\ CreatedPending /\ FailedExists
           /\ OpenIsEmpty /\ HeldClosed

\* A round comes to hold an entity only by reading it from the table.
LEMMA HeldStep ==
    ASSUME TypeInv, NEW v \in Rounds, RoundAction(v)
    PROVE  \A e \in Held(v)' : e \in Held(v) \/ e \in Found(Live)
<1> USE DEF TypeInv
<1>0. /\ round \in [Rounds -> RoundRecord]
      /\ round[v] \in RoundRecord
      /\ \A e \in round[v].todo : e \in Held(v)
      /\ round[v].cur # NoEntity => round[v].cur \in Held(v)
    BY HeldType DEF RoundType, Held
<1>a. Found({"SEALED"}) \in SUBSET Found(Live) /\ Found({"UNVERIFIED"}) \in SUBSET Found(Live)
    BY DEF Found, Live
<1>b. ASSUME NEW e, Done(v, e)
      PROVE  round'[v].todo \in SUBSET round[v].todo /\ round'[v].cur = round[v].cur
    BY <1>0, <1>b DEF Done, RoundRecord
<1>c. ASSUME NEW p, Continue(v, p)
      PROVE  round'[v].todo = round[v].todo /\ round'[v].cur = NoEntity
    BY <1>0, <1>c DEF Continue, RoundIdle
<1>1. SUFFICES /\ \A e \in round'[v].todo : e \in Held(v) \/ e \in Found(Live)
               /\ round'[v].cur # NoEntity => round'[v].cur \in Held(v)
    BY DEF Held
<1>2. CASE StartRound(v) \/ StartVerifyNow(v)
    <2>1. /\ round'[v].todo = {} \/ round'[v].todo = Found({"SEALED"})
          /\ round'[v].cur = NoEntity
        <3>1. CASE StartRound(v)
            BY <1>0, <3>1 DEF StartRound, RoundIdle
        <3>2. CASE StartVerifyNow(v)
            BY <1>0, <3>2 DEF StartVerifyNow, RoundIdle
        <3> QED
            BY <1>2, <3>1, <3>2
    <2> QED
        BY <1>a, <2>1
<1>3. CASE AnchorSend(v)
    <2>1. PICK e \in round[v].todo, t \in Txs :
              round' = [round EXCEPT ![v] = [Take(v, e, "anchorWait") EXCEPT !.tx = t]]
        BY <1>3 DEF AnchorSend
    <2>2. round'[v].todo = round[v].todo \ {e} /\ round'[v].cur = e
        BY <1>0, <2>1 DEF Take, RoundRecord
    <2> QED
        BY <1>0, <2>2
<1>4. CASE AnchorSendFails(v) \/ AnchorAdopt(v)
    <2>1. \E e : Done(v, e)
        BY <1>4 DEF AnchorSendFails, AnchorAdopt
    <2> QED
        BY <1>0, <1>b, <2>1
<1>5. CASE \/ AnchorConfirm(v) \/ AnchorDefer(v) \/ AnchorSkip(v) \/ ReanchorSave(v)
           \/ ReanchorSkip(v) \/ SettleTampered(v) \/ SettleMissing(v) \/ ResolveAlerts(v)
    <2>1. \E p : Continue(v, p)
        BY <1>5 DEF AnchorConfirm, AnchorDefer, AnchorSkip, ReanchorSave, ReanchorSkip,
            SettleTampered, SettleMissing, ResolveAlerts
    <2> QED
        BY <1>0, <1>c, <2>1
<1>6. CASE StartReanchor(v) \/ StartVerify(v)
    <2>1. /\ \/ round'[v].todo = {} \/ round'[v].todo = Found({"UNVERIFIED"})
             \/ round'[v].todo = Found(Live)
          /\ round'[v].cur = NoEntity
        <3>1. CASE StartReanchor(v)
            <4>1. PICK T \in {{}, Found({"UNVERIFIED"})} :
                    round' = [round EXCEPT ![v] = [RoundIdle EXCEPT !.pc = "reanchor", !.todo = T]]
                BY <3>1, Zenon DEF StartReanchor
            <4> QED
                BY <1>0, <4>1 DEF RoundIdle
        <3>2. CASE StartVerify(v)
            BY <1>0, <3>2 DEF StartVerify, RoundIdle
        <3> QED
            BY <1>6, <3>1, <3>2
    <2> QED
        BY <1>a, <2>1
<1>7. CASE ReanchorCheck(v)
    <2>1. PICK e \in round[v].todo :
              \/ round' = [round EXCEPT ![v] = Take(v, e, "reanchorSend")]
              \/ Done(v, e)
        BY <1>7 DEF ReanchorCheck
    <2>2. CASE round' = [round EXCEPT ![v] = Take(v, e, "reanchorSend")]
        <3>1. round'[v].todo = round[v].todo \ {e} /\ round'[v].cur = e
            BY <1>0, <2>2 DEF Take, RoundRecord
        <3> QED
            BY <1>0, <3>1
    <2> QED
        BY <1>0, <1>b, <2>1, <2>2
<1>8. CASE ReanchorSend(v)
    <2>1. CASE \E t : round' = [round EXCEPT ![v].pc = "reanchorWait", ![v].tx = t]
        <3>1. round'[v].todo = round[v].todo /\ round'[v].cur = round[v].cur
            BY <1>0, <2>1 DEF RoundRecord
        <3> QED
            BY <1>0, <3>1
    <2> QED
        BY <1>0, <1>c, <1>8, <2>1 DEF ReanchorSend
<1>9. CASE ReanchorFails(v)
    <2>1. (\E e : Done(v, e)) \/ Continue(v, "reanchor")
        BY <1>9 DEF ReanchorFails
    <2> QED
        BY <1>0, <1>b, <1>c, <2>1
<1>10. CASE VerifyRead(v)
    <2>1. PICK e \in round[v].todo :
            round' = [round EXCEPT ![v] =
                        [Take(v, e, "check") EXCEPT
                            !.seen = RootOf(row, LogsOf(e.batch)),
                            !.modified = Modified(row, LogsOf(e.batch)) # {}]]
        BY <1>10 DEF VerifyRead
    <2>2. round'[v].todo = round[v].todo \ {e} /\ round'[v].cur = e
        BY <1>0, <2>1 DEF Take, RoundRecord
    <2> QED
        BY <1>0, <2>2
<1>11. CASE VerifyCheck(v)
    <2>1. PICK w \in Verdicts :
            round' = [round EXCEPT ![v] =
                        [round[v] EXCEPT !.verdict = w, !.seen = NoRoot, !.modified = FALSE,
                                         !.pc = IF w \in {"bad", "localBad"} THEN "raise" ELSE "settle"]]
        BY <1>11 DEF VerifyCheck, LocalVerdict, ChainVerdict, Verdicts
    <2>2. round'[v].todo = round[v].todo /\ round'[v].cur = round[v].cur
        BY <1>0, <2>1 DEF RoundRecord
    <2> QED
        BY <1>0, <2>2
<1>12. CASE RaiseFind(v) \/ SettleVerified(v)
    <2>1. round'[v].todo = round[v].todo /\ round'[v].cur = round[v].cur
        BY <1>0, <1>12 DEF RaiseFind, SettleVerified, RoundRecord
    <2> QED
        BY <1>0, <2>1
<1>13. CASE RaiseInsert(v) \/ SettleLocal(v)
    <2>1. \/ round'[v].todo = round[v].todo /\ round'[v].cur = round[v].cur
          \/ round'[v] = RoundIdle
          \/ Continue(v, "verify")
        BY <1>0, <1>13 DEF RaiseInsert, SettleLocal, RoundRecord
    <2> QED
        BY <1>0, <1>c, <2>1 DEF RoundIdle
<1>14. CASE EndRound(v) \/ RoundFails(v)
    BY <1>0, <1>14 DEF EndRound, RoundFails, RoundIdle
<1> QED
    BY <1>2, <1>3, <1>4, <1>5, <1>6, <1>7, <1>8, <1>9, <1>10, <1>11, <1>12, <1>13, <1>14
    DEF RoundAction, RoundStep, RoundFault

\* Saves of a round, seen from the table batches.
LEMMA SaveHeldEffect ==
    ASSUME TypeInv, NEW v \in Rounds, RoundDb(v)
    PROVE  /\ UNCHANGED <<row, mapping, root>>
           /\ \/ UNCHANGED status
              \/ \E e \in Held(v), s \in Live : status' = [status EXCEPT ![e.batch] = s]
<1>1. CASE UNCHANGED dbVars \/ UNCHANGED <<row, mapping, status, root, tx>>
    BY <1>1 DEF dbVars
<1>2. CASE \E s \in Live, t \in Txs \cup {NoTx} : SaveHeld(v, s, t)
    <2>1. PICK s \in Live, t \in Txs \cup {NoTx} :
              \E e \in Held(v) : Save([e EXCEPT !.status = s, !.tx = t])
        BY <1>2 DEF SaveHeld
    <2>2. PICK e \in Held(v) : Save([e EXCEPT !.status = s, !.tx = t])
        BY <2>1
    <2>3. e \in Entity
        BY HeldType DEF TypeInv
    <2> QED
        BY <2>2, <2>3 DEF Save, Entity
<1> QED
    BY <1>1, <1>2 DEF RoundDb

LEMMA InitSeal == Init => SealInv
BY DEF Init, SealInv, OneSeal, PickedPending, CreatedPending, FailedExists, OpenIsEmpty,
    HeldClosed, Held, LogsOf, SealIdle, RoundIdle, NoBatch, Batches

\* Nothing a round does disturbs sealing.
LEMMA RoundKeepsSealInv ==
    ASSUME TypeInv, SealInv, NEW v \in Rounds, RoundAction(v)
    PROVE  SealInv'
<1>1. RoundFrame(v) /\ RoundDb(v)
    BY RoundFrameStep, RoundDbStep
<1>2. /\ UNCHANGED <<row, mapping, root, seal>>
      /\ \/ UNCHANGED status
         \/ \E e \in Held(v), s \in Live : status' = [status EXCEPT ![e.batch] = s]
    BY <1>1, SaveHeldEffect DEF RoundFrame
<1>3. status \in [Batches -> Statuses]
    BY DEF TypeInv, TypeOK
\* a status that is written was neither none nor PENDING, and is not afterwards
<1>4. \A b \in Batches : status[b] \in {"none", "PENDING"} \/ status'[b] \in {"none", "PENDING"}
                            => status'[b] = status[b]
    BY <1>2, <1>3 DEF SealInv, HeldClosed, Live
<1>5. \A e \in Entity : e.batch \in Batches
    BY DEF Entity
<1>6. OneSeal' /\ PickedPending' /\ CreatedPending' /\ FailedExists'
    <2>1. \A c \in Callers : seal[c].pc \in {"created", "sent", "failed"} =>
                                 seal[c].batch \in Batches
        BY DEF TypeInv, SealType
    <2> QED
        BY <1>2, <1>4, <2>1
        DEF SealInv, OneSeal, PickedPending, CreatedPending, FailedExists
<1>7. OpenIsEmpty'
    BY <1>2, <1>4 DEF SealInv, OpenIsEmpty, LogsOf
<1>8. HeldClosed'
    <2> SUFFICES ASSUME NEW u \in Rounds, NEW e \in Held(u)'
                 PROVE  status'[e.batch] \notin {"none", "PENDING"}
        BY DEF HeldClosed
    <2>1. e \in Held(u) \/ e \in Found(Live)
        BY <1>1, HeldStep DEF RoundFrame, Held
    <2>2. e.batch \in Batches /\ status[e.batch] \notin {"none", "PENDING"}
        <3>1. CASE e \in Held(u)
            BY <1>5, <3>1, HeldType DEF TypeInv, SealInv, HeldClosed
        <3>2. CASE e \in Found(Live)
            BY <3>2 DEF Found, Live
        <3> QED
            BY <2>1, <3>1, <3>2
    <2> QED
        BY <1>4, <2>2
<1> QED
    BY <1>6, <1>7, <1>8 DEF SealInv

\* What a mapping write does: the batch gets the picked logs and no log leaves a batch.
LEMMA WriteMappingEffect ==
    ASSUME TypeInv, SealInv, NEW c \in Callers, NEW s, seal[c].pc \in {"created", "sent"},
           WriteMapping(c, s), NEW b, b = seal[c].batch
    PROVE  /\ LogsOf(b)' = seal[c].logs
           /\ \A a \in Batches \ {b} : LogsOf(a)' = LogsOf(a)
           /\ b \in Batches /\ LogsOf(b) = {} /\ status[b] = "PENDING"
           /\ status' = [status EXCEPT ![b] = s]
           /\ UNCHANGED <<row, root>>
<1>1. b \in Batches /\ seal[c].logs \in SUBSET Logs
    BY DEF TypeInv, SealType, SealRecord
<1>2. /\ \A l \in seal[c].logs : mapping[l] = NoBatch
      /\ LogsOf(b) = {} /\ status[b] = "PENDING"
    BY <1>1 DEF SealInv, PickedPending, CreatedPending, OpenIsEmpty
<1>3. /\ mapping' = [l \in Logs |-> IF l \in seal[c].logs THEN b ELSE mapping[l]]
      /\ status' = [status EXCEPT ![b] = s]
      /\ UNCHANGED <<row, root>>
    BY DEF WriteMapping
<1>4. NoBatch \notin Batches
    BY DEF NoBatch, Batches
<1>5. LogsOf(b)' = seal[c].logs
    BY <1>1, <1>2, <1>3 DEF LogsOf
<1>6. \A a \in Batches \ {b} : LogsOf(a)' = LogsOf(a)
    BY <1>1, <1>2, <1>3, <1>4 DEF LogsOf
<1> QED
    BY <1>1, <1>2, <1>3, <1>5, <1>6

LEMMA SealKeepsSealInv ==
    ASSUME TypeInv, SealInv, NEW c \in Callers, SealAction(c)
    PROVE  SealInv'
<1>1. SealFrame(c) /\ SealDb(c)
    BY SealFrameStep, SealDbStep
<1>2. /\ UNCHANGED row
      /\ \A d \in Callers \ {c} : seal'[d] = seal[d]
      /\ \A v \in Rounds : Held(v)' = Held(v)
    BY <1>1 DEF SealFrame, Held
<1>3. /\ status \in [Batches -> Statuses] /\ root \in [Batches -> Roots \cup {NoRoot}]
      /\ seal \in [Callers -> SealRecord] /\ seal' \in [Callers -> SealRecord]
      /\ \A d \in Callers : seal[d].pc \in {"created", "sent", "failed"} =>
                                seal[d].batch \in Batches
      /\ \A v \in Rounds : \A e \in Held(v) : e.batch \in Batches
    BY SealTypeStep, HeldType DEF TypeInv, TypeOK, SealType, Entity
<1> USE DEF SealInv
\* while a call is past the queue every other one is idle
<1>4. seal[c].pc # "idle" => \A d \in Callers \ {c} : seal[d].pc = "idle"
    BY DEF OneSeal
<1>5. ASSUME SealPick(c) PROVE SealInv'
    <2> DEFINE picked == Oldest(PendingLogs, BatchSize)
    <2>1. PendingLogs \in SUBSET Logs
        BY DEF PendingLogs
    <2>2. /\ picked \in SUBSET PendingLogs
          /\ Cardinality(picked) <= BatchSize
        BY <2>1, OldestBounded, IntegrityConstants
    <2>3. picked # {}
        BY <1>5, <2>1, OldestNonEmpty, IntegrityConstants DEF SealPick
    <2>4. RootOf(row, picked) \in [picked -> Leaves]
        BY <2>1, <2>2, RootOfPresent DEF PendingLogs
    <2>5. /\ seal'[c].pc = "picked" /\ seal'[c].logs = picked
          /\ seal'[c].root = RootOf(row, picked)
          /\ \A d \in Callers : seal[d].pc = "idle"
          /\ UNCHANGED dbVars
        BY <1>3, <1>5 DEF SealPick, SealIdle, SealQueueFree
    <2>6. \A l \in picked : row[l] # "none" /\ mapping[l] = NoBatch
        BY <2>2 DEF PendingLogs, Present
    <2> HIDE DEF picked
    <2>7. OneSeal' /\ PickedPending'
        BY <1>2, <2>2, <2>3, <2>4, <2>5, <2>6 DEF OneSeal, PickedPending, dbVars
    <2> QED
        BY <1>2, <2>5, <2>7
        DEF CreatedPending, FailedExists, OpenIsEmpty, HeldClosed, LogsOf, dbVars
<1>6. ASSUME SealCreate(c) PROVE SealInv'
    <2>1. PICK b \in Batches :
            /\ status[b] = "none"
            /\ status' = [status EXCEPT ![b] = "PENDING"]
            /\ root' = [root EXCEPT ![b] = seal[c].root]
            /\ seal' = [seal EXCEPT ![c].pc = "created", ![c].batch = b]
        BY <1>6 DEF SealCreate
    <2>2. seal[c].pc = "picked" /\ UNCHANGED <<row, mapping>>
        BY <1>6 DEF SealCreate
    <2>3. /\ seal'[c].pc = "created" /\ seal'[c].batch = b
          /\ seal'[c].logs = seal[c].logs /\ seal'[c].root = seal[c].root
        BY <1>3, <2>1 DEF SealRecord
    <2>4. OneSeal' /\ PickedPending'
        BY <1>2, <1>4, <2>2, <2>3 DEF OneSeal, PickedPending
    <2>5. CreatedPending' /\ FailedExists'
        BY <1>2, <1>3, <1>4, <2>1, <2>2, <2>3 DEF CreatedPending, FailedExists
    <2>6. OpenIsEmpty'
        BY <1>3, <2>1, <2>2 DEF OpenIsEmpty, LogsOf
    <2>7. HeldClosed'
        BY <1>2, <1>3, <2>1 DEF HeldClosed
    <2> QED
        BY <2>4, <2>5, <2>6, <2>7
<1>7. ASSUME NEW s \in {"SEALED", "UNVERIFIED", "CONFIRMED"}, WriteMapping(c, s),
             seal[c].pc \in {"created", "sent"}, seal'[c].pc \in {"idle", "failed"},
             seal'[c].batch = seal[c].batch \/ seal'[c].pc = "idle"
      PROVE  SealInv'
    <2> DEFINE b == seal[c].batch
    <2>0. PICK b0 : b0 = b
        OBVIOUS
    <2>1. /\ LogsOf(b0)' = seal[c].logs
          /\ \A a \in Batches \ {b0} : LogsOf(a)' = LogsOf(a)
          /\ b0 \in Batches /\ status[b0] = "PENDING"
          /\ status' = [status EXCEPT ![b0] = s]
          /\ UNCHANGED <<row, root>>
        BY <1>7, <2>0, WriteMappingEffect
    <2>2. \A d \in Callers \ {c} : seal'[d].pc = "idle"
        BY <1>2, <1>4, <1>7
    <2>3. OneSeal' /\ PickedPending' /\ CreatedPending'
        BY <1>7, <2>2 DEF OneSeal, PickedPending, CreatedPending
    <2>4. FailedExists'
        BY <1>3, <1>7, <2>0, <2>1, <2>2 DEF FailedExists
    <2>5. OpenIsEmpty'
        BY <1>3, <2>1 DEF OpenIsEmpty
    <2>6. HeldClosed'
        BY <1>2, <1>3, <2>1 DEF HeldClosed
    <2> QED
        BY <2>3, <2>4, <2>5, <2>6
<1>8. ASSUME SealConfirm(c) \/ SealDefer(c) \/ SealWithoutAnchor(c) PROVE SealInv'
    BY <1>3, <1>7, <1>8 DEF SealConfirm, SealDefer, SealWithoutAnchor, SealIdle
<1>9. ASSUME SealCommitFails(c), ~ UNCHANGED dbVars PROVE SealInv'
    <2>1. seal'[c].pc = "failed" /\ seal'[c].batch = seal[c].batch
        BY <1>3, <1>9 DEF SealCommitFails, SealRecord
    <2> QED
        BY <1>7, <1>9, <2>1 DEF SealCommitFails
<1>10. ASSUME SealFailed(c) PROVE SealInv'
    <2>1. /\ seal[c].pc = "failed" /\ seal'[c].pc = "idle"
          /\ status' = [status EXCEPT ![seal[c].batch] = "FAILED"]
          /\ UNCHANGED <<mapping, root>>
        BY <1>3, <1>10 DEF SealFailed, SealIdle
    <2>2. \A d \in Callers : seal'[d].pc = "idle"
        BY <1>2, <1>4, <2>1
    <2>3. OneSeal' /\ PickedPending' /\ CreatedPending' /\ FailedExists'
        BY <2>2 DEF OneSeal, PickedPending, CreatedPending, FailedExists
    <2>4. OpenIsEmpty'
        BY <1>3, <2>1 DEF OpenIsEmpty, LogsOf
    <2>5. HeldClosed'
        BY <1>2, <1>3, <2>1 DEF HeldClosed
    <2> QED
        BY <2>3, <2>4, <2>5
\* the steps that leave the tables alone and advance or give up the call
<1>11. ASSUME UNCHANGED dbVars,
              \/ seal'[c].pc = "idle"
              \/ /\ seal[c].pc = "created" /\ seal'[c].pc = "sent"
                 /\ seal'[c].logs = seal[c].logs /\ seal'[c].root = seal[c].root
                 /\ seal'[c].batch = seal[c].batch
              \/ /\ seal[c].pc \in {"created", "sent"} /\ seal'[c].pc = "failed"
                 /\ seal'[c].batch = seal[c].batch
       PROVE  SealInv'
    <2>1. OneSeal'
        BY <1>2, <1>4, <1>11 DEF OneSeal
    <2>2. PickedPending'
        BY <1>2, <1>11 DEF PickedPending, dbVars
    <2>3. CreatedPending'
        BY <1>2, <1>11 DEF CreatedPending, dbVars
    <2>4. FailedExists'
        BY <1>2, <1>11 DEF CreatedPending, FailedExists, dbVars
    <2>5. OpenIsEmpty' /\ HeldClosed'
        BY <1>2, <1>11 DEF OpenIsEmpty, HeldClosed, LogsOf, dbVars
    <2> QED
        BY <2>1, <2>2, <2>3, <2>4, <2>5
<1>12. ASSUME SealSkip(c) \/ SealWithoutAnchorFails(c) \/ SealFailedFails(c) PROVE SealInv'
    BY <1>3, <1>11, <1>12 DEF SealSkip, SealWithoutAnchorFails, SealFailedFails, SealIdle
<1>13. ASSUME SealSend(c) PROVE SealInv'
    <2>1. /\ seal'[c].pc = "sent" /\ seal'[c].batch = seal[c].batch
          /\ seal'[c].logs = seal[c].logs /\ seal'[c].root = seal[c].root
        BY <1>3, <1>13 DEF SealSend, SealRecord
    <2> QED
        BY <1>11, <1>13, <2>1 DEF SealSend
<1>14. ASSUME SealSendFails(c) \/ SealLost(c) \/ (SealCommitFails(c) /\ UNCHANGED dbVars)
       PROVE  SealInv'
    <2>1. /\ seal'[c].pc = "failed" /\ seal'[c].batch = seal[c].batch
        BY <1>3, <1>14 DEF SealSendFails, SealLost, SealCommitFails, SealRecord
    <2> QED
        BY <1>11, <1>14, <2>1 DEF SealSendFails, SealLost, SealCommitFails
<1> QED
    BY <1>5, <1>6, <1>8, <1>9, <1>10, <1>12, <1>13, <1>14 DEF SealAction, SealStep, SealFault

LEMMA StepSeal == TypeInv /\ SealInv /\ [Next]_vars => SealInv'
<1> SUFFICES ASSUME TypeInv, SealInv, [Next]_vars PROVE SealInv'
    OBVIOUS
<1> USE DEF SealInv, OneSeal, PickedPending, CreatedPending, FailedExists, OpenIsEmpty,
        HeldClosed
<1>0. \A b : LogsOf(b) = {l \in Logs : mapping[l] = b} /\ LogsOf(b)' = {l \in Logs : mapping'[l] = b}
    BY DEF LogsOf
<1>1. ASSUME NEW l \in Logs, \/ Ingest(l)
                             \/ \E s \in Edits : EditRow(l, s)
      PROVE  SealInv'
    <2>1. /\ UNCHANGED <<mapping, status, root, seal, round>>
          /\ \A k \in Logs : row[k] # "none" => row'[k] # "none"
        BY <1>1, IntegrityConstants DEF Ingest, EditRow, TypeInv, TypeOK
    <2>2. \A c \in Callers : seal[c].logs \in SUBSET Logs
        BY DEF TypeInv, SealType, SealRecord
    <2> QED
        BY <1>0, <2>1, <2>2 DEF Held
<1>2. ASSUME \/ \E b \in Batches : CloseAlert(b)
             \/ Connect \/ Network \/ UNCHANGED vars
      PROVE  SealInv'
    <2>1. UNCHANGED <<row, mapping, status, root, seal, round>>
        BY <1>2 DEF CloseAlert, Connect, Network, vars, dbVars
    <2> QED
        BY <1>0, <2>1 DEF Held
<1>3. CASE Crash
    <2>1. /\ UNCHANGED <<row, mapping, status, root>>
          /\ \A c \in Callers : seal'[c].pc = "idle"
          /\ \A v \in Rounds : Held(v)' = {}
        BY <1>3 DEF Crash, SealIdle, RoundIdle, Held, dbVars
    <2> QED
        BY <1>0, <2>1
<1>4. ASSUME NEW c \in Callers, SealAction(c) PROVE SealInv'
    BY <1>4, SealKeepsSealInv
<1>5. ASSUME NEW v \in Rounds, RoundAction(v) PROVE SealInv'
    BY <1>5, RoundKeepsSealInv
<1> QED
    BY <1>1, <1>2, <1>3, <1>4, <1>5 DEF Next, SealAction, RoundAction

\* Until the mapping of a batch is written, its logs are pending and no other call
\* works on them, and no round can have got hold of the batch.
THEOREM SealingIsExclusive == Spec => []SealInv
<1>1. TypeInv /\ SealInv /\ [Next]_vars /\ TypeInv' => SealInv'
    BY StepSeal
<1> QED
    BY InitSeal, <1>1, TypeCorrect, PTL DEF Spec

(***************************************************************************)
(* The refinement.  A mapping write closes a batch of the ledger, an       *)
(* ingested row is a log that arrives, and every other step is a stutter.  *)
(***************************************************************************)
LedgerVars == <<{l \in Logs : row[l] # "none"}, [b \in Batches |-> LogsOf(b)]>>

LEMMA LedgerInit == Init => Ledger!Init
<1> SUFFICES ASSUME Init PROVE Ledger!Init
    OBVIOUS
<1>1. \A b \in Batches : LogsOf(b) = {}
    BY DEF Init, LogsOf, NoBatch, Batches
<1>2. {l \in Logs : row[l] # "none"} = {}
    BY DEF Init
<1> QED
    BY <1>1, <1>2 DEF Ledger!Init

LEMMA LedgerStutter ==
    ASSUME UNCHANGED mapping, \A l \in Logs : row[l] = "none" <=> row'[l] = "none"
    PROVE  UNCHANGED LedgerVars
<1>1. \A b : LogsOf(b)' = LogsOf(b)
    BY DEF LogsOf
<1> QED
    BY <1>1 DEF LedgerVars

LEMMA LedgerClose ==
    ASSUME TypeInv, SealInv, NEW c \in Callers, NEW s, seal[c].pc \in {"created", "sent"},
           WriteMapping(c, s)
    PROVE  Ledger!Next
<1>1. PICK b \in Batches : b = seal[c].batch
    BY DEF TypeInv, SealType
<1>2. /\ LogsOf(b)' = seal[c].logs
      /\ \A a \in Batches \ {b} : LogsOf(a)' = LogsOf(a)
      /\ LogsOf(b) = {}
      /\ UNCHANGED row
    BY <1>1, WriteMappingEffect
<1>3. /\ seal[c].logs \in SUBSET Logs
      /\ seal[c].logs # {} /\ Cardinality(seal[c].logs) <= BatchSize
      /\ \A l \in seal[c].logs : row[l] # "none" /\ mapping[l] = NoBatch
    BY DEF TypeInv, SealType, SealRecord, SealInv, PickedPending
<1>4. seal[c].logs \subseteq {l \in Logs : row[l] # "none"} \ Ledger!Held
    BY <1>3 DEF Ledger!Held, LogsOf, NoBatch, Batches
<1>5. [a \in Batches |-> LogsOf(a)]' = [[a \in Batches |-> LogsOf(a)] EXCEPT ![b] = seal[c].logs]
    BY <1>1, <1>2
<1>6. Ledger!Cardinality(seal[c].logs) = Cardinality(seal[c].logs)
    BY DEF Ledger!Cardinality, Cardinality
<1>7. Ledger!Close(b, seal[c].logs)
    BY <1>1, <1>2, <1>3, <1>4, <1>5, <1>6 DEF Ledger!Close
<1> QED
    BY <1>1, <1>3, <1>7 DEF Ledger!Next

LEMMA LedgerStep == TypeInv /\ SealInv /\ [Next]_vars => [Ledger!Next]_LedgerVars
<1> SUFFICES ASSUME TypeInv, SealInv, [Next]_vars
             PROVE  Ledger!Next \/ UNCHANGED LedgerVars
    OBVIOUS
<1>1. ASSUME NEW l \in Logs, Ingest(l) PROVE Ledger!Next
    <2>1. /\ row[l] = "none" /\ row' = [row EXCEPT ![l] = "ok"] /\ UNCHANGED mapping
          /\ row \in [Logs -> RowStates]
        BY <1>1 DEF Ingest, TypeInv, TypeOK
    <2>2. {k \in Logs : row'[k] # "none"} = {k \in Logs : row[k] # "none"} \cup {l}
        BY <2>1
    <2>3. \A b : LogsOf(b)' = LogsOf(b)
        BY <2>1 DEF LogsOf
    <2>4. Ledger!Arrive(l)
        BY <2>1, <2>2, <2>3 DEF Ledger!Arrive
    <2> QED
        BY <2>4 DEF Ledger!Next
<1>2. ASSUME NEW l \in Logs, NEW s \in Edits, EditRow(l, s) PROVE UNCHANGED LedgerVars
    <2>1. /\ UNCHANGED mapping
          /\ \A k \in Logs : row[k] = "none" <=> row'[k] = "none"
        BY <1>2, IntegrityConstants DEF EditRow, TypeInv, TypeOK
    <2> QED
        BY <2>1, LedgerStutter
<1>3. CASE \/ \E b \in Batches : CloseAlert(b)
           \/ Connect \/ Network \/ Crash \/ UNCHANGED vars
    <2>1. UNCHANGED <<row, mapping>>
        BY <1>3 DEF CloseAlert, Connect, Network, Crash, vars, dbVars
    <2> QED
        BY <2>1, LedgerStutter
<1>4. ASSUME NEW c \in Callers, SealAction(c) PROVE Ledger!Next \/ UNCHANGED LedgerVars
    <2>1. SealDb(c)
        BY <1>4, SealDbStep
    <2>2. CASE UNCHANGED dbVars \/ SealCreate(c) \/ SealFailed(c)
        BY <2>2, LedgerStutter DEF dbVars, SealCreate, SealFailed
    <2> QED
        BY <2>1, <2>2, LedgerClose DEF SealDb
<1>5. ASSUME NEW v \in Rounds, RoundAction(v) PROVE UNCHANGED LedgerVars
    <2>1. UNCHANGED <<row, mapping>>
        BY <1>5, RoundDbStep, SaveHeldEffect
    <2> QED
        BY <2>1, LedgerStutter
<1> QED
    BY <1>1, <1>2, <1>3, <1>4, <1>5 DEF Next, SealAction, RoundAction

\* Sealing implements the ledger: a log that arrived gets into at most one batch, of at
\* most SEAL_BATCH_SIZE logs, for good, whatever is retried, fails or crashes.
THEOREM SealingRefinesLedger == Spec => ImplementsLedger
<1>1. TypeInv /\ SealInv /\ [Next]_vars => [Ledger!Next]_LedgerVars
    BY LedgerStep
<1> QED
    BY LedgerInit, <1>1, TypeCorrect, SealingIsExclusive, PTL
    DEF Spec, ImplementsLedger, Ledger!Spec, LedgerVars

-----------------------------------------------------------------------------
(***************************************************************************)
(* Anchored roots.  Every transaction carries the merkle_root column of    *)
(* its batch, and that column is written once, before anything is sent.    *)
(***************************************************************************)
TxCarriesRoot ==
    \A t \in Txs : txs[t].state # "unused" =>
        /\ txs[t].batch \in Batches
        /\ status[txs[t].batch] # "none"
        /\ txs[t].root = root[txs[t].batch]

NothingAnchoredYet == \A b \in Batches : status[b] = "none" => chain[b] = NoRoot

AnchorInv == TxCarriesRoot /\ NothingAnchoredYet /\ AnchoredRootIsSealed

LEMMA InitAnchor == Init => AnchorInv
BY DEF Init, ChainInit, AnchorInv, TxCarriesRoot, NothingAnchoredYet, AnchoredRootIsSealed,
    UnusedTx

\* Steps of the tables do not unmake a batch or change its root ...
LEMMA DbKeepsAnchorInv ==
    ASSUME AnchorInv, UNCHANGED chainVars, UNCHANGED root,
           \A b \in Batches : status[b] = "none" <=> status'[b] = "none"
    PROVE  AnchorInv'
BY DEF AnchorInv, TxCarriesRoot, NothingAnchoredYet, AnchoredRootIsSealed, chainVars

\* ... and steps of the chain keep to the roots the transactions carry.
LEMMA ChainKeepsAnchorInv ==
    ASSUME TypeInv, AnchorInv, UNCHANGED <<status, root>>,
           \/ UNCHANGED chainVars
           \/ \E b \in Batches : status[b] # "none" /\ Sent(b)
           \/ \E t \in Txs : Mine(t) \/ Drop(t)
           \/ Reset
    PROVE  AnchorInv'
<1>0. ChainTypeOK
    BY DEF TypeInv, TypeOK
<1> USE DEF AnchorInv, TxCarriesRoot, NothingAnchoredYet, AnchoredRootIsSealed
<1>1. CASE UNCHANGED chainVars
    BY <1>1 DEF chainVars
<1>2. ASSUME NEW b \in Batches, status[b] # "none", Sent(b) PROVE AnchorInv'
    BY <1>0, <1>2 DEF Sent, Submit, ChainTypeOK
<1>3. ASSUME NEW t \in Txs, Mine(t) \/ Drop(t) PROVE AnchorInv'
    <2>1. txs[t].state = "pending"
        BY <1>3 DEF Mine, Drop
    <2>2. \A u \in Txs : /\ txs'[u].batch = txs[u].batch /\ txs'[u].root = txs[u].root
                         /\ txs'[u].state # "unused" => txs[u].state # "unused"
        BY <1>0, <1>3, <2>1 DEF Mine, Drop, ChainTypeOK, TxRecord
    <2>3. \A b \in Batches : \/ chain'[b] = chain[b]
                             \/ b = txs[t].batch /\ chain'[b] = txs[t].root
        BY <1>0, <1>3 DEF Mine, Drop, ChainTypeOK
    <2> QED
        BY <2>1, <2>2, <2>3
<1>4. CASE Reset
    <2>1. \A u \in Txs : /\ txs'[u].batch = txs[u].batch /\ txs'[u].root = txs[u].root
                         /\ txs'[u].state # "unused" => txs[u].state # "unused"
        BY <1>0, <1>4 DEF Reset, ChainTypeOK, TxRecord
    <2>2. \A b \in Batches : chain'[b] = NoRoot
        BY <1>4 DEF Reset
    <2> QED
        BY <2>1, <2>2
<1> QED
    BY <1>1, <1>2, <1>3, <1>4

LEMMA StepAnchor == TypeInv /\ SealInv /\ AnchorInv /\ [Next]_vars => AnchorInv'
<1> SUFFICES ASSUME TypeInv, SealInv, AnchorInv, [Next]_vars PROVE AnchorInv'
    OBVIOUS
<1>1. CASE \/ \E l \in Logs : Ingest(l)
           \/ \E l \in Logs, s \in Edits : EditRow(l, s)
           \/ \E b \in Batches : CloseAlert(b)
           \/ Connect \/ Network \/ Crash \/ UNCHANGED vars
    <2>1. UNCHANGED <<status, root>>
        BY <1>1 DEF Ingest, EditRow, CloseAlert, Connect, Network, Crash, vars, dbVars
    <2>2. \/ UNCHANGED chainVars
          \/ \E t \in Txs : Mine(t) \/ Drop(t)
          \/ Reset
        BY <1>1 DEF Ingest, EditRow, CloseAlert, Connect, Network, Crash, vars
    <2> QED
        BY <2>1, <2>2, ChainKeepsAnchorInv
<1>2. ASSUME NEW c \in Callers, SealAction(c) PROVE AnchorInv'
    <2>1. SealFrame(c) /\ SealDb(c)
        BY <1>2, SealFrameStep, SealDbStep
    <2>2. /\ status \in [Batches -> Statuses] /\ root \in [Batches -> Roots \cup {NoRoot}]
          /\ seal[c].pc \in {"created", "sent", "failed"} => seal[c].batch \in Batches
          /\ seal[c].pc \in {"created", "sent"} => status[seal[c].batch] = "PENDING"
          /\ seal[c].pc = "failed" => status[seal[c].batch] # "none"
        BY DEF TypeInv, TypeOK, SealType, SealInv, CreatedPending, FailedExists
    <2>3. CASE UNCHANGED dbVars
        BY <2>1, <2>2, <2>3, ChainKeepsAnchorInv DEF SealFrame, dbVars
    <2>4. CASE UNCHANGED chainVars /\ SealCreate(c)
        <3>1. PICK b \in Batches : /\ status[b] = "none"
                                   /\ status' = [status EXCEPT ![b] = "PENDING"]
                                   /\ root' = [root EXCEPT ![b] = seal[c].root]
            BY <2>4 DEF SealCreate
        <3> QED
            BY <2>2, <2>4, <3>1
            DEF AnchorInv, TxCarriesRoot, NothingAnchoredYet, AnchoredRootIsSealed, chainVars
    <2>5. CASE UNCHANGED chainVars /\ ~ SealCreate(c)
        <3>1. CASE UNCHANGED dbVars
            BY <2>3, <3>1
        <3>2. CASE ~ UNCHANGED dbVars
            <4>1. /\ UNCHANGED root
                  /\ \A b \in Batches : status[b] = "none" <=> status'[b] = "none"
                BY <2>1, <2>2, <2>5, <3>2 DEF SealDb, SealFailed, WriteMapping
            <4> QED
                BY <2>5, <4>1, DbKeepsAnchorInv
        <3> QED
            BY <3>1, <3>2
    <2> QED
        BY <2>1, <2>3, <2>4, <2>5 DEF SealFrame
<1>3. ASSUME NEW v \in Rounds, RoundAction(v) PROVE AnchorInv'
    <2>1. RoundFrame(v) /\ RoundDb(v)
        BY <1>3, RoundFrameStep, RoundDbStep
    <2>2. \A e \in Held(v) : e.batch \in Batches /\ status[e.batch] # "none"
        BY HeldType DEF TypeInv, Entity, SealInv, HeldClosed
    <2>3. CASE UNCHANGED dbVars
        BY <2>1, <2>2, <2>3, ChainKeepsAnchorInv DEF RoundFrame, dbVars
    <2>4. CASE UNCHANGED chainVars
        <3>1. /\ UNCHANGED root
              /\ \/ UNCHANGED status
                 \/ \E e \in Held(v), s \in Live : status' = [status EXCEPT ![e.batch] = s]
            BY <2>1, SaveHeldEffect
        <3>2. \A b \in Batches : status[b] = "none" <=> status'[b] = "none"
            BY <2>2, <3>1 DEF Live, TypeInv, TypeOK
        <3> QED
            BY <2>4, <3>1, <3>2, DbKeepsAnchorInv
    <2> QED
        BY <2>1, <2>3, <2>4 DEF RoundFrame
<1> QED
    BY <1>1, <1>2, <1>3 DEF Next, SealAction, RoundAction

\* Every transaction ever broadcast, mined or not, carries the merkle_root column of a
\* batch that exists.
THEOREM AnchorsAreSound == Spec => []AnchorInv
<1>1. TypeInv /\ SealInv /\ AnchorInv /\ [Next]_vars => AnchorInv'
    BY StepAnchor
<1> QED
    BY InitAnchor, <1>1, TypeCorrect, SealingIsExclusive, PTL DEF Spec

\* The contract never holds a root other than the one the batch was sealed with, chain
\* resets, re-anchors and edited rows included.
THEOREM AnchoredRootsAreSealed == Spec => []AnchoredRootIsSealed
<1>1. AnchorInv => AnchoredRootIsSealed
    BY DEF AnchorInv
<1> QED
    BY AnchorsAreSound, <1>1, PTL

-----------------------------------------------------------------------------
(***************************************************************************)
(* The mapping.  A COMMIT that is acknowledged if and only if it happened  *)
(* is what the theorem needs: with a lost acknowledgement a batch that has *)
(* its mapping ends FAILED.                                                *)
(***************************************************************************)
FailedPending == \A c \in Callers : seal[c].pc = "failed" => status[seal[c].batch] = "PENDING"

HeldLive == \A v \in Rounds : \A e \in Held(v) : status[e.batch] \in Live

MapInv == MappingMatchesTree /\ FailedPending /\ HeldLive

LEMMA InitMap == Init => MapInv
BY DEF Init, MapInv, MappingMatchesTree, FailedPending, HeldLive, Held, LogsOf, SealIdle,
    RoundIdle, NoBatch, Batches, Live

LEMMA RoundKeepsMapInv ==
    ASSUME TypeInv, SealInv, MapInv, NEW v \in Rounds, RoundAction(v)
    PROVE  MapInv'
<1>1. RoundFrame(v) /\ RoundDb(v)
    BY RoundFrameStep, RoundDbStep
<1>2. /\ UNCHANGED <<row, mapping, root, seal>>
      /\ \/ UNCHANGED status
         \/ \E e \in Held(v), s \in Live : status' = [status EXCEPT ![e.batch] = s]
    BY <1>1, SaveHeldEffect DEF RoundFrame
<1>3. \A u \in Rounds : \A e \in Held(u) : e.batch \in Batches /\ status[e.batch] \in Live
    BY HeldType DEF TypeInv, Entity, MapInv, HeldLive
\* a batch that is live stays live, any other keeps its status
<1>4. \A b \in Batches : \/ status[b] \in Live /\ status'[b] \in Live
                         \/ status[b] \notin Live /\ status'[b] = status[b]
    BY <1>2, <1>3 DEF TypeInv, TypeOK
<1>5. MappingMatchesTree'
    BY <1>2, <1>4 DEF MapInv, MappingMatchesTree, LogsOf
<1>6. FailedPending'
    BY <1>2, <1>4 DEF MapInv, FailedPending, TypeInv, SealType, Live
<1>7. HeldLive'
    <2> SUFFICES ASSUME NEW u \in Rounds, NEW e \in Held(u)'
                 PROVE  status'[e.batch] \in Live
        BY DEF HeldLive
    <2>1. e \in Held(u) \/ e \in Found(Live)
        BY <1>1, HeldStep DEF RoundFrame, Held
    <2>2. e.batch \in Batches /\ status[e.batch] \in Live
        BY <1>3, <2>1 DEF Found
    <2> QED
        BY <1>4, <2>2
<1> QED
    BY <1>5, <1>6, <1>7 DEF MapInv

LEMMA SealKeepsMapInv ==
    ASSUME "ack" \notin Faults,
           TypeInv, SealInv, MapInv, NEW c \in Callers, SealAction(c)
    PROVE  MapInv'
<1>1. /\ SealFrame(c) /\ SealDb(c) /\ SealInv'
    BY SealFrameStep, SealDbStep, SealKeepsSealInv
<1>2. /\ \A d \in Callers \ {c} : seal'[d] = seal[d]
      /\ \A v \in Rounds : Held(v)' = Held(v)
    BY <1>1 DEF SealFrame, Held
<1>3. /\ status \in [Batches -> Statuses] /\ root \in [Batches -> Roots \cup {NoRoot}]
      /\ seal \in [Callers -> SealRecord]
      /\ \A d \in Callers : seal[d].pc \in {"created", "sent", "failed"} =>
                                seal[d].batch \in Batches
      /\ \A v \in Rounds : \A e \in Held(v) : e.batch \in Batches
    BY HeldType DEF TypeInv, TypeOK, SealType, Entity
<1>4. seal[c].pc # "idle" => \A d \in Callers \ {c} : seal[d].pc = "idle"
    BY DEF SealInv, OneSeal
<1> USE DEF MapInv
<1>5. ASSUME UNCHANGED dbVars PROVE MapInv'
    <2>1. MappingMatchesTree' /\ HeldLive'
        BY <1>2, <1>5 DEF MappingMatchesTree, HeldLive, LogsOf, dbVars
    <2>2. \/ seal'[c].pc # "failed"
          \/ /\ seal[c].pc \in {"created", "sent"}
             /\ seal'[c].batch = seal[c].batch
        <3>1. CASE SealSendFails(c) \/ SealLost(c) \/ SealCommitFails(c)
            BY <1>3, <3>1 DEF SealSendFails, SealLost, SealCommitFails, SealRecord
        <3>2. CASE SealCreate(c) \/ SealSend(c)
            BY <1>3, <3>2 DEF SealCreate, SealSend, SealRecord
        <3>4. CASE SealPick(c)
            <4>1. \E L, r : seal' = [seal EXCEPT ![c] = [SealIdle EXCEPT !.pc   = "picked",
                                                                        !.logs = L,
                                                                        !.root = r]]
                BY <3>4 DEF SealPick
            <4> QED
                BY <1>3, <4>1 DEF SealIdle
        <3>3. CASE \/ SealSkip(c) \/ SealWithoutAnchor(c) \/ SealWithoutAnchorFails(c)
                   \/ SealConfirm(c) \/ SealDefer(c) \/ SealFailed(c) \/ SealFailedFails(c)
            BY <1>3, <3>3 DEF SealSkip, SealWithoutAnchor, SealWithoutAnchorFails, SealConfirm,
                SealDefer, SealFailed, SealFailedFails, SealIdle
        <3> QED
            BY <3>1, <3>2, <3>3, <3>4 DEF SealAction, SealStep, SealFault
    <2>3. FailedPending'
        BY <1>2, <1>5, <2>2 DEF FailedPending, SealInv, CreatedPending, dbVars
    <2> QED
        BY <2>1, <2>3
<1>6. ASSUME SealCreate(c) PROVE MapInv'
    <2>1. PICK b \in Batches :
            /\ status[b] = "none"
            /\ status' = [status EXCEPT ![b] = "PENDING"]
            /\ root' = [root EXCEPT ![b] = seal[c].root]
            /\ seal' = [seal EXCEPT ![c].pc = "created", ![c].batch = b]
        BY <1>6 DEF SealCreate
    <2>2. seal[c].pc = "picked" /\ seal'[c].pc = "created" /\ UNCHANGED mapping
        BY <1>3, <1>6, <2>1 DEF SealCreate, SealRecord
    <2>3. MappingMatchesTree'
        BY <1>3, <2>1, <2>2 DEF MappingMatchesTree, LogsOf, Live
    <2>4. FailedPending'
        BY <1>2, <1>4, <2>2 DEF FailedPending
    <2>5. HeldLive'
        BY <1>2, <1>3, <2>1 DEF HeldLive, Live
    <2> QED
        BY <2>3, <2>4, <2>5
<1>7. ASSUME NEW s \in {"SEALED", "UNVERIFIED", "CONFIRMED"}, WriteMapping(c, s),
             seal[c].pc \in {"created", "sent"}, ~ UNCHANGED dbVars
      PROVE  MapInv'
    <2>1. PICK b \in Batches : b = seal[c].batch
        BY <1>3, <1>7
    <2>2. /\ LogsOf(b)' = seal[c].logs
          /\ \A a \in Batches \ {b} : LogsOf(a)' = LogsOf(a)
          /\ status[b] = "PENDING"
          /\ status' = [status EXCEPT ![b] = s]
          /\ UNCHANGED root
        BY <1>7, <2>1, WriteMappingEffect
    <2>3. DOMAIN root[b] = seal[c].logs
        BY <1>7, <2>1 DEF SealInv, PickedPending, CreatedPending
    <2>4. MappingMatchesTree'
        BY <1>3, <2>2, <2>3 DEF MappingMatchesTree, Live
    \* without a lost acknowledgement the call is over
    <2>5. seal'[c].pc = "idle"
        <3>1. SealWithoutAnchor(c) \/ SealConfirm(c) \/ SealDefer(c)
            BY <1>7 DEF SealAction, SealStep, SealFault, SealPick, SealSkip, SealCreate,
                SealWithoutAnchorFails, SealSend, SealSendFails, SealLost, SealCommitFails,
                SealFailed, SealFailedFails, Fault
        <3> QED
            BY <1>3, <3>1 DEF SealWithoutAnchor, SealConfirm, SealDefer, SealIdle
    <2>6. FailedPending'
        BY <1>2, <1>4, <1>7, <2>5 DEF FailedPending
    <2>7. HeldLive'
        BY <1>2, <1>3, <2>2 DEF HeldLive, Live
    <2> QED
        BY <2>4, <2>6, <2>7
<1>8. ASSUME SealFailed(c) PROVE MapInv'
    <2>1. /\ seal[c].pc = "failed" /\ seal'[c].pc = "idle"
          /\ status' = [status EXCEPT ![seal[c].batch] = "FAILED"]
          /\ status[seal[c].batch] = "PENDING"
          /\ UNCHANGED <<mapping, root>>
        BY <1>3, <1>8 DEF SealFailed, SealIdle, FailedPending
    <2>2. MappingMatchesTree'
        BY <1>3, <2>1 DEF MappingMatchesTree, LogsOf, Live
    <2>3. FailedPending'
        BY <1>2, <1>4, <2>1 DEF FailedPending
    <2>4. HeldLive'
        BY <1>2, <1>3, <2>1 DEF HeldLive, Live
    <2> QED
        BY <2>2, <2>3, <2>4
<1> QED
    BY <1>1, <1>5, <1>6, <1>7, <1>8 DEF SealDb

LEMMA StepMap ==
    ASSUME "ack" \notin Faults
    PROVE  TypeInv /\ SealInv /\ MapInv /\ [Next]_vars => MapInv'
<1> SUFFICES ASSUME TypeInv, SealInv, MapInv, [Next]_vars PROVE MapInv'
    OBVIOUS
<1>1. CASE \/ \E l \in Logs : Ingest(l)
           \/ \E l \in Logs, s \in Edits : EditRow(l, s)
           \/ \E b \in Batches : CloseAlert(b)
           \/ Connect \/ Network \/ UNCHANGED vars
    <2>1. UNCHANGED <<mapping, status, root, seal, round>>
        BY <1>1 DEF Ingest, EditRow, CloseAlert, Connect, Network, vars, dbVars
    <2> QED
        BY <2>1 DEF MapInv, MappingMatchesTree, FailedPending, HeldLive, LogsOf, Held
<1>2. CASE Crash
    <2>1. /\ UNCHANGED <<mapping, status, root>>
          /\ \A c \in Callers : seal'[c].pc = "idle"
          /\ \A v \in Rounds : Held(v)' = {}
        BY <1>2 DEF Crash, SealIdle, RoundIdle, Held, dbVars
    <2> QED
        BY <2>1 DEF MapInv, MappingMatchesTree, FailedPending, HeldLive, LogsOf
<1>3. ASSUME NEW c \in Callers, SealAction(c) PROVE MapInv'
    BY <1>3, SealKeepsMapInv
<1>4. ASSUME NEW v \in Rounds, RoundAction(v) PROVE MapInv'
    BY <1>4, RoundKeepsMapInv
<1> QED
    BY <1>1, <1>2, <1>3, <1>4 DEF Next, SealAction, RoundAction

\* Unless the acknowledgement of a COMMIT is lost, a live batch covers exactly the logs
\* of its Merkle tree and any other batch covers none, at every instant.
THEOREM MappingIsTheTree ==
    ASSUME "ack" \notin Faults
    PROVE  Spec => []MappingMatchesTree
<1>1. TypeInv /\ SealInv /\ MapInv /\ [Next]_vars => MapInv'
    BY StepMap
<1>2. MapInv => MappingMatchesTree
    BY DEF MapInv
<1> QED
    BY InitMap, <1>1, <1>2, TypeCorrect, SealingIsExclusive, PTL DEF Spec

-----------------------------------------------------------------------------
(***************************************************************************)
(* CONFIRMED.  As long as the chain forgets nothing, a batch whose root    *)
(* was once on the contract keeps it there; what remains is that everybody *)
(* who is about to write CONFIRMED, or holds a copy that says so, has seen *)
(* that root: by a mined transaction of that very batch or by checkRoot.   *)
(***************************************************************************)
MinedIsAnchored ==
    \A t \in Txs : txs[t].state = "mined" => chain[txs[t].batch] = txs[t].root

Owns(t, b) == t \in Txs /\ txs[t].state # "unused" /\ txs[t].batch = b

SealOwnsTx == \A c \in Callers : seal[c].pc = "sent" => Owns(seal[c].tx, seal[c].batch)

RoundOwnsTx ==
    \A v \in Rounds : round[v].pc = "anchorWait" => Owns(round[v].tx, round[v].cur.batch)

HeldConfirmed ==
    \A v \in Rounds : \A e \in Held(v) :
        e.status = "CONFIRMED" => chain[e.batch] = root[e.batch]

GoodIsAnchored ==
    \A v \in Rounds : round[v].pc = "settle" /\ round[v].verdict = "good" =>
        chain[round[v].cur.batch] = root[round[v].cur.batch]

BadIsRaised ==
    \A v \in Rounds : round[v].pc \in {"raise", "insert"} =>
        round[v].verdict \in {"bad", "localBad"}

RoundEvidence == RoundOwnsTx /\ HeldConfirmed /\ GoodIsAnchored /\ BadIsRaised

ConfirmInv == ConfirmedIsAnchored /\ MinedIsAnchored /\ SealOwnsTx /\ RoundEvidence

LEMMA InitConfirm == Init => ConfirmInv
BY DEF Init, ChainInit, ConfirmInv, ConfirmedIsAnchored, MinedIsAnchored, SealOwnsTx,
    RoundEvidence, RoundOwnsTx, HeldConfirmed, GoodIsAnchored, BadIsRaised, Held, SealIdle,
    RoundIdle, UnusedTx

\* No step but a reset takes a root away, and none changes the root of a batch that exists.
LEMMA RootsStay ==
    ASSUME "reset" \notin Faults, TypeInv, SealInv, [Next]_vars
    PROVE  /\ \A b \in Batches : status[b] # "none" => status'[b] # "none" /\ root'[b] = root[b]
           /\ \/ UNCHANGED chainVars
              \/ \E b \in Batches : Sent(b)
              \/ \E t \in Txs : Mine(t) \/ Drop(t)
<1>0. status \in [Batches -> Statuses] /\ root \in [Batches -> Roots \cup {NoRoot}]
    BY DEF TypeInv, TypeOK
<1>1. CASE \/ \E l \in Logs : Ingest(l)
           \/ \E l \in Logs, s \in Edits : EditRow(l, s)
           \/ \E b \in Batches : CloseAlert(b)
           \/ Connect \/ Network \/ Crash \/ UNCHANGED vars
    <2>1. UNCHANGED <<status, root>>
        BY <1>1 DEF Ingest, EditRow, CloseAlert, Connect, Network, Crash, vars, dbVars
    <2>2. UNCHANGED chainVars \/ \E t \in Txs : Mine(t) \/ Drop(t)
        BY <1>1 DEF Ingest, EditRow, CloseAlert, Connect, Network, Crash, Fault, vars
    <2> QED
        BY <2>1, <2>2
<1>2. ASSUME NEW c \in Callers, SealAction(c)
      PROVE  /\ \A b \in Batches : status[b] # "none" => status'[b] # "none" /\ root'[b] = root[b]
             /\ UNCHANGED chainVars \/ \E b \in Batches : Sent(b)
    <2>1. SealFrame(c) /\ SealDb(c)
        BY <1>2, SealFrameStep, SealDbStep
    <2>2. seal[c].pc = "created" => seal[c].batch \in Batches
        BY DEF TypeInv, SealType
    <2>3. \A b \in Batches : status[b] # "none" => status'[b] # "none" /\ root'[b] = root[b]
        BY <1>0, <2>1 DEF SealDb, SealCreate, SealFailed, WriteMapping, dbVars
    <2> QED
        BY <2>1, <2>2, <2>3 DEF SealFrame
<1>3. ASSUME NEW v \in Rounds, RoundAction(v)
      PROVE  /\ \A b \in Batches : status[b] # "none" => status'[b] # "none" /\ root'[b] = root[b]
             /\ UNCHANGED chainVars \/ \E b \in Batches : Sent(b)
    <2>1. RoundFrame(v) /\ RoundDb(v)
        BY <1>3, RoundFrameStep, RoundDbStep
    <2>2. \A e \in Held(v) : e.batch \in Batches
        BY HeldType DEF TypeInv, Entity
    <2>3. \A b \in Batches : status[b] # "none" => status'[b] # "none" /\ root'[b] = root[b]
        BY <1>0, <2>1, SaveHeldEffect DEF Live
    <2> QED
        BY <2>1, <2>2, <2>3 DEF RoundFrame
<1> QED
    BY <1>1, <1>2, <1>3 DEF Next, SealAction, RoundAction

\* Hence what is anchored stays anchored, a transaction that is waited for stays the
\* batch's own, and a mined one has left its root on the contract.
LEMMA EvidenceStays ==
    ASSUME "reset" \notin Faults, TypeInv, SealInv, AnchorInv, MinedIsAnchored, [Next]_vars
    PROVE  /\ \A b \in Batches : status[b] # "none" /\ chain[b] = root[b] => chain'[b] = root'[b]
           /\ \A t \in Awaited, b \in Batches : Owns(t, b) => Owns(t, b)'
           /\ MinedIsAnchored'
<1>0. ChainTypeOK
    BY DEF TypeInv, TypeOK
<1>1. \A b \in Batches : status[b] # "none" => root'[b] = root[b]
    BY RootsStay
<1>2. \A t \in Txs : txs[t].state # "unused" =>
          /\ txs[t].batch \in Batches /\ status[txs[t].batch] # "none"
          /\ txs[t].root = root[txs[t].batch]
    BY DEF AnchorInv, TxCarriesRoot
<1> USE DEF MinedIsAnchored
<1>3. CASE UNCHANGED chainVars
    BY <1>1, <1>3 DEF chainVars, Owns
<1>4. ASSUME NEW b \in Batches, NEW t \in Txs, Submit(t, b, root[b], Awaited)
      PROVE  /\ UNCHANGED chain
             /\ \A a \in Batches : \A u \in Awaited : Owns(u, a) => Owns(u, a)'
             /\ MinedIsAnchored'
    <2>1. /\ UNCHANGED chain /\ t \notin Awaited
          /\ \A u \in Txs : u # t => txs'[u] = txs[u]
          /\ txs'[t].state = "pending"
        BY <1>0, <1>4 DEF Submit, Fresh, Free, ChainTypeOK
    <2> QED
        BY <2>1 DEF Owns
<1>5. ASSUME NEW t \in Txs, Mine(t) \/ Drop(t)
      PROVE  /\ \A b \in Batches : chain'[b] = chain[b] \/ chain'[b] = root[b]
             /\ \A a \in Batches : \A u \in Txs : Owns(u, a) => Owns(u, a)'
             /\ MinedIsAnchored'
    <2>1. /\ txs[t].state = "pending" /\ txs[t].batch \in Batches
          /\ txs[t].root = root[txs[t].batch]
        BY <1>2, <1>5 DEF Mine, Drop
    <2>2. \A u \in Txs : /\ txs'[u].batch = txs[u].batch /\ txs'[u].root = txs[u].root
                         /\ u # t => txs'[u].state = txs[u].state
        BY <1>0, <1>5 DEF Mine, Drop, ChainTypeOK, TxRecord
    <2>3. /\ txs'[t].state # "unused"
          /\ txs'[t].state = "mined" => chain'[txs[t].batch] = txs[t].root
        BY <1>0, <1>5, <2>1 DEF Mine, Drop, ChainTypeOK, TxRecord
    <2>4. \A b \in Batches : \/ chain'[b] = chain[b]
                             \/ b = txs[t].batch /\ chain'[b] = txs[t].root
        BY <1>0, <1>5 DEF Mine, Drop, ChainTypeOK
    <2>5. MinedIsAnchored'
        BY <1>2, <2>1, <2>2, <2>3, <2>4
    <2>6. \A a \in Batches : \A u \in Txs : Owns(u, a) => Owns(u, a)'
        BY <2>2, <2>3 DEF Owns
    <2> QED
        BY <2>1, <2>4, <2>5, <2>6
<1>6. CASE \E b \in Batches : Sent(b)
    BY <1>1, <1>4, <1>6 DEF Sent
<1>7. CASE \E t \in Txs : Mine(t) \/ Drop(t)
    BY <1>1, <1>5, <1>7 DEF Owns
<1> QED
    BY <1>3, <1>6, <1>7, RootsStay

\* Who writes CONFIRMED has seen the root on the contract.
LEMMA SealConfirmsAnchored ==
    ASSUME TypeInv, SealInv, AnchorInv, MinedIsAnchored, SealOwnsTx,
           NEW c \in Callers, SealAction(c), NEW b \in Batches, status'[b] = "CONFIRMED"
    PROVE  status[b] = "CONFIRMED" \/ (status[b] # "none" /\ chain[b] = root[b])
<1>1. SealDb(c) /\ status \in [Batches -> Statuses]
    BY SealDbStep DEF TypeInv, TypeOK
<1>2. CASE status'[b] = status[b]
    BY <1>2
<1>3. CASE status'[b] # status[b]
    <2>1. b = seal[c].batch /\ WriteMapping(c, "CONFIRMED")
        BY <1>1, <1>3 DEF SealDb, SealCreate, SealFailed, WriteMapping, dbVars
    <2>2. seal[c].pc = "sent" /\ Mined(seal[c].tx)
        <3>1. CASE SealConfirm(c)
            BY <3>1 DEF SealConfirm
        <3>2. CASE SealWithoutAnchor(c) \/ SealDefer(c)
            BY <1>1, <1>3, <2>1, <3>2 DEF SealWithoutAnchor, SealDefer, WriteMapping
        <3>3. CASE SealCommitFails(c)
            BY <1>1, <1>3, <2>1, <3>3 DEF SealCommitFails, WriteMapping, dbVars
        <3>4. CASE \/ SealCreate(c) \/ SealFailed(c)
            BY <1>1, <1>3, <3>4 DEF SealCreate, SealFailed
        <3>5. CASE \/ SealPick(c) \/ SealSkip(c) \/ SealWithoutAnchorFails(c) \/ SealSend(c)
                   \/ SealSendFails(c) \/ SealLost(c) \/ SealFailedFails(c)
            BY <1>3, <3>5 DEF SealPick, SealSkip, SealWithoutAnchorFails, SealSend,
                SealSendFails, SealLost, SealFailedFails, dbVars
        <3> QED
            BY <3>1, <3>2, <3>3, <3>4, <3>5 DEF SealAction, SealStep, SealFault
    <2>3. chain[b] = root[b]
        BY <2>1, <2>2 DEF SealOwnsTx, Owns, Mined, MinedIsAnchored, AnchorInv, TxCarriesRoot
    <2>4. status[b] # "none"
        BY <2>1, <2>2 DEF SealInv, CreatedPending
    <2> QED
        BY <2>3, <2>4
<1> QED
    BY <1>2, <1>3

LEMMA RoundConfirmsAnchored ==
    ASSUME TypeInv, SealInv, AnchorInv, MinedIsAnchored, RoundEvidence,
           NEW v \in Rounds, RoundAction(v), NEW b \in Batches, status'[b] = "CONFIRMED"
    PROVE  status[b] = "CONFIRMED" \/ chain[b] = root[b]
<1> DEFINE e == round[v].cur
<1>0. /\ status \in [Batches -> Statuses]
      /\ round[v].pc \in Holding => e \in Held(v) /\ e \in Entity
      /\ \A f \in round[v].todo : f \in Held(v) /\ f \in Entity
    BY HeldType DEF TypeInv, TypeOK, RoundType
<1>1. CASE UNCHANGED status
    BY <1>1
<1>2. CASE ~ UNCHANGED status
    <2>1. CASE AnchorAdopt(v)
        <3>1. PICK f \in round[v].todo : /\ ~ CanSend(f.batch)
                                         /\ CheckRoot(f.batch, root[f.batch]) = "MATCH"
                                         /\ Save([f EXCEPT !.status = "CONFIRMED"])
            BY <2>1 DEF AnchorAdopt
        <3>2. chain[f.batch] = root[f.batch]
            BY <3>1 DEF CheckRoot
        <3>3. status' = [status EXCEPT ![f.batch] = "CONFIRMED"]
            BY <1>0, <3>1 DEF Save, Entity
        <3> QED
            BY <1>0, <3>2, <3>3
    <2>2. CASE AnchorConfirm(v)
        <3>1. Owns(round[v].tx, e.batch) /\ Mined(round[v].tx) /\ e \in Entity
            BY <1>0, <2>2 DEF AnchorConfirm, RoundEvidence, RoundOwnsTx, Holding
        <3>2. chain[e.batch] = root[e.batch]
            BY <3>1 DEF Owns, Mined, MinedIsAnchored, AnchorInv, TxCarriesRoot
        <3>3. status' = [status EXCEPT ![e.batch] = "CONFIRMED"]
            BY <2>2, <3>1 DEF AnchorConfirm, Save, Entity
        <3> QED
            BY <1>0, <3>2, <3>3
    <2>3. CASE ReanchorSave(v)
        <3>1. e \in Held(v) /\ e \in Entity
            BY <1>0, <2>3 DEF ReanchorSave, Holding
        <3>2. status' = [status EXCEPT ![e.batch] = e.status]
            BY <2>3, <3>1 DEF ReanchorSave, Save, Entity
        <3>3. e.status = "CONFIRMED" => chain[e.batch] = root[e.batch]
            BY <3>1 DEF RoundEvidence, HeldConfirmed
        <3> QED
            BY <1>0, <3>2, <3>3
    <2>4. CASE SettleVerified(v)
        <3>1. /\ e \in Entity /\ chain[e.batch] = root[e.batch]
            BY <1>0, <2>4 DEF SettleVerified, RoundEvidence, GoodIsAnchored, Holding
        <3>2. status' = [status EXCEPT ![e.batch] = "CONFIRMED"]
            BY <1>2, <2>4, <3>1 DEF SettleVerified, Save, Entity, dbVars
        <3> QED
            BY <1>0, <3>1, <3>2
    <2>5. CASE AnchorDefer(v) \/ SettleTampered(v) \/ SettleMissing(v) \/ SettleLocal(v)
        <3>1. e \in Entity
            BY <1>0, <2>5 DEF AnchorDefer, SettleTampered, SettleMissing, SettleLocal, Holding
        <3>2. \E s \in {"UNVERIFIED", "TAMPERED", "SEALED"} :
                  status' = [status EXCEPT ![e.batch] = s]
            BY <1>2, <2>5, <3>1 DEF AnchorDefer, SettleTampered, SettleMissing, SettleLocal,
                Save, Entity, dbVars
        <3> QED
            BY <1>0, <3>2
    <2>6. CASE \/ StartRound(v) \/ StartVerifyNow(v) \/ AnchorSend(v) \/ AnchorSendFails(v)
               \/ AnchorSkip(v) \/ StartReanchor(v) \/ ReanchorCheck(v) \/ ReanchorSend(v)
               \/ ReanchorFails(v) \/ ReanchorSkip(v) \/ StartVerify(v) \/ VerifyRead(v)
               \/ VerifyCheck(v) \/ RaiseFind(v) \/ RaiseInsert(v) \/ ResolveAlerts(v)
               \/ EndRound(v) \/ RoundFails(v)
        BY <1>2, <2>6
        DEF StartRound, StartVerifyNow, AnchorSend, AnchorSendFails, AnchorSkip, StartReanchor,
            ReanchorCheck, ReanchorSend, ReanchorFails, ReanchorSkip, StartVerify, VerifyRead,
            VerifyCheck, RaiseFind, RaiseInsert, ResolveAlerts, EndRound, RoundFails, dbVars
    <2> QED
        BY <2>1, <2>2, <2>3, <2>4, <2>5, <2>6 DEF RoundAction, RoundStep, RoundFault
<1> QED
    BY <1>1, <1>2

\* What a round has seen of its current batch when it moves on.
LEMMA RoundKeepsOwnEvidence ==
    ASSUME TypeInv, SealInv, AnchorInv, RoundEvidence, NEW v \in Rounds, RoundAction(v)
    PROVE  /\ round'[v].pc = "anchorWait" => Owns(round[v].tx, round[v].cur.batch)'
           /\ round'[v].pc = "settle" /\ round'[v].verdict = "good" =>
                  chain'[round'[v].cur.batch] = root'[round'[v].cur.batch]
           /\ round'[v].pc \in {"raise", "insert"} => round'[v].verdict \in {"bad", "localBad"}
<1>0. /\ round \in [Rounds -> RoundRecord] /\ round[v] \in RoundRecord
      /\ round[v].pc \in Holding => round[v].cur \in Entity
      /\ \A f \in round[v].todo : f \in Entity
      /\ ChainTypeOK
    BY HeldType DEF TypeInv, RoundType, TypeOK
<1>1. CASE AnchorSend(v)
    <2>1. PICK e \in round[v].todo, t \in Txs :
              /\ Submit(t, e.batch, root[e.batch], Awaited)
              /\ round' = [round EXCEPT ![v] = [Take(v, e, "anchorWait") EXCEPT !.tx = t]]
        BY <1>1 DEF AnchorSend
    <2>2. round'[v].pc = "anchorWait" /\ round'[v].cur = e /\ round'[v].tx = t
        BY <1>0, <2>1 DEF Take, RoundRecord
    <2>3. txs'[t].state = "pending" /\ txs'[t].batch = e.batch
        BY <1>0, <2>1 DEF Submit, ChainTypeOK
    <2> QED
        BY <2>2, <2>3 DEF Owns
<1>2. CASE VerifyCheck(v)
    <2>1. PICK w \in {LocalVerdict(v), ChainVerdict(v)} :
            round' = [round EXCEPT ![v] =
                        [round[v] EXCEPT !.verdict = w, !.seen = NoRoot, !.modified = FALSE,
                                         !.pc = IF w \in {"bad", "localBad"} THEN "raise" ELSE "settle"]]
        BY <1>2 DEF VerifyCheck
    <2>2. /\ round'[v].cur = round[v].cur /\ round'[v].verdict = w
          /\ round'[v].pc = IF w \in {"bad", "localBad"} THEN "raise" ELSE "settle"
        BY <1>0, <2>1 DEF RoundRecord
    <2>3. UNCHANGED <<root, chain>> /\ round[v].cur \in Entity
        BY <1>0, <1>2 DEF VerifyCheck, dbVars, chainVars, Holding
    <2>4. w = "good" => CheckRoot(round[v].cur.batch, round[v].seen) = "MATCH"
        BY <2>1 DEF LocalVerdict, ChainVerdict, CheckRoot
    <2>5. w = "good" => chain[round[v].cur.batch] = root[round[v].cur.batch]
        BY <2>3, <2>4 DEF CheckRoot, AnchorInv, AnchoredRootIsSealed, Entity
    <2> QED
        BY <2>2, <2>3, <2>5
<1>3. CASE RaiseFind(v) \/ RaiseInsert(v)
    <2>1. /\ round[v].verdict \in {"bad", "localBad"}
          /\ \/ round'[v].pc \in {"settle", "insert"} /\ round'[v].verdict = round[v].verdict
             \/ round'[v].pc = "idle"
        BY <1>0, <1>3 DEF RaiseFind, RaiseInsert, RoundRecord, RoundIdle, RoundEvidence, BadIsRaised
    <2> QED
        BY <2>1
<1>4. CASE ~ (AnchorSend(v) \/ VerifyCheck(v) \/ RaiseFind(v) \/ RaiseInsert(v))
    <2>1. CASE StartVerifyNow(v) \/ EndRound(v) \/ RoundFails(v)
        BY <1>0, <2>1 DEF StartVerifyNow, EndRound, RoundFails, RoundIdle
    <2>2. CASE StartRound(v) \/ StartReanchor(v) \/ StartVerify(v)
        <3>1. \E p \in {"anchor", "reanchor", "verify"} : \E T :
                  round' = [round EXCEPT ![v] = [RoundIdle EXCEPT !.pc = p, !.todo = T]]
            BY <2>2 DEF StartRound, StartReanchor, StartVerify
        <3> QED
            BY <1>0, <3>1 DEF RoundIdle
    <2>3. CASE \E p \in {"anchor", "reanchor", "verify"} : Continue(v, p)
        BY <1>0, <2>3 DEF Continue, RoundIdle
    <2>4. CASE round[v].pc \in {"anchor", "reanchor"} /\ \E e : Done(v, e)
        BY <1>0, <2>4 DEF Done, RoundRecord
    <2>5. CASE ReanchorCheck(v)
        <3>1. PICK e \in round[v].todo :
                \/ round' = [round EXCEPT ![v] = Take(v, e, "reanchorSend")]
                \/ Done(v, e)
            BY <2>5 DEF ReanchorCheck
        <3>2. CASE round' = [round EXCEPT ![v] = Take(v, e, "reanchorSend")]
            BY <1>0, <3>2 DEF Take, RoundRecord
        <3> QED
            BY <2>4, <2>5, <3>1, <3>2 DEF ReanchorCheck
    <2>6. CASE \E t : round' = [round EXCEPT ![v].pc = "reanchorWait", ![v].tx = t]
        BY <1>0, <2>6 DEF RoundRecord
    <2>7. CASE round' = [round EXCEPT ![v].pc = "resolve"]
        BY <1>0, <2>7 DEF RoundRecord
    <2>8. CASE VerifyRead(v)
        <3>1. PICK e \in round[v].todo :
                round' = [round EXCEPT ![v] =
                            [Take(v, e, "check") EXCEPT
                                !.seen = RootOf(row, LogsOf(e.batch)),
                                !.modified = Modified(row, LogsOf(e.batch)) # {}]]
            BY <2>8 DEF VerifyRead
        <3> QED
            BY <1>0, <3>1 DEF Take, RoundRecord
    <2>9. CASE \/ AnchorSendFails(v) \/ AnchorAdopt(v) \/ ReanchorFails(v)
        BY <2>3, <2>4, <2>9 DEF AnchorSendFails, AnchorAdopt, ReanchorFails
    <2>10. CASE \/ AnchorConfirm(v) \/ AnchorDefer(v) \/ AnchorSkip(v) \/ ReanchorSend(v)
                \/ ReanchorSave(v) \/ ReanchorSkip(v) \/ SettleTampered(v) \/ SettleMissing(v)
                \/ SettleVerified(v) \/ SettleLocal(v) \/ ResolveAlerts(v)
        BY <2>3, <2>6, <2>7, <2>10 DEF AnchorConfirm, AnchorDefer, AnchorSkip, ReanchorSend,
            ReanchorSave, ReanchorSkip, SettleTampered, SettleMissing, SettleVerified,
            SettleLocal, ResolveAlerts
    <2> QED
        BY <1>4, <2>1, <2>2, <2>5, <2>8, <2>9, <2>10 DEF RoundAction, RoundStep, RoundFault
<1> QED
    BY <1>1, <1>2, <1>3, <1>4

\* ... and what a call of sealBatch waits for is its own transaction.
LEMMA SealKeepsOwnTx ==
    ASSUME TypeInv, SealOwnsTx, NEW c \in Callers, SealAction(c), seal'[c].pc = "sent"
    PROVE  Owns(seal[c].tx, seal[c].batch)'
<1>0. seal \in [Callers -> SealRecord] /\ seal[c] \in SealRecord /\ ChainTypeOK
    BY DEF TypeInv, SealType, TypeOK
<1>1. CASE SealSend(c)
    <2>1. PICK t \in Txs :
              /\ Submit(t, seal[c].batch, root[seal[c].batch], Awaited)
              /\ seal' = [seal EXCEPT ![c].pc = "sent", ![c].tx = t]
        BY <1>1 DEF SealSend
    <2>2. seal'[c].tx = t /\ seal'[c].batch = seal[c].batch
        BY <1>0, <2>1 DEF SealRecord
    <2>3. txs'[t].state = "pending" /\ txs'[t].batch = seal[c].batch
        BY <1>0, <2>1 DEF Submit, ChainTypeOK
    <2> QED
        BY <2>2, <2>3 DEF Owns
<1>2. CASE ~ SealSend(c)
    <2>1. CASE SealSendFails(c) \/ SealLost(c) \/ SealCommitFails(c) \/ SealCreate(c)
        BY <1>0, <2>1 DEF SealSendFails, SealLost, SealCommitFails, SealCreate, SealRecord
    <2>2. CASE SealPick(c)
        <3>1. \E L, r : seal' = [seal EXCEPT ![c] = [SealIdle EXCEPT !.pc   = "picked",
                                                                    !.logs = L,
                                                                    !.root = r]]
            BY <2>2 DEF SealPick
        <3> QED
            BY <1>0, <3>1 DEF SealIdle
    <2>3. CASE \/ SealSkip(c) \/ SealWithoutAnchor(c) \/ SealWithoutAnchorFails(c)
               \/ SealConfirm(c) \/ SealDefer(c) \/ SealFailed(c) \/ SealFailedFails(c)
        BY <1>0, <2>3 DEF SealSkip, SealWithoutAnchor, SealWithoutAnchorFails, SealConfirm,
            SealDefer, SealFailed, SealFailedFails, SealIdle
    <2> QED
        BY <1>2, <2>1, <2>2, <2>3 DEF SealAction, SealStep, SealFault
<1> QED
    BY <1>1, <1>2

LEMMA StepConfirm ==
    ASSUME "reset" \notin Faults, TypeInv, SealInv, AnchorInv, ConfirmInv, [Next]_vars
    PROVE  ConfirmInv'
<1> USE DEF ConfirmInv
<1>0. /\ status \in [Batches -> Statuses]
      /\ \A v \in Rounds : \A e \in Held(v) : e \in Entity /\ status[e.batch] # "none"
      /\ \A v \in Rounds : round[v].pc \in Holding => round[v].cur \in Held(v)
    BY HeldType DEF TypeInv, TypeOK, SealInv, HeldClosed
<1>1. /\ \A b \in Batches : status[b] # "none" /\ chain[b] = root[b] => chain'[b] = root'[b]
      /\ \A t \in Awaited, b \in Batches : Owns(t, b) => Owns(t, b)'
      /\ MinedIsAnchored'
      /\ \A b \in Batches : status[b] # "none" => status'[b] # "none"
    BY EvidenceStays, RootsStay
\* Whoever does not move keeps what he knows.
<1>2. ASSUME NEW c \in Callers, seal'[c] = seal[c], seal[c].pc = "sent"
      PROVE  Owns(seal[c].tx, seal[c].batch)'
    BY <1>1, <1>2 DEF SealOwnsTx, Awaited, TypeInv, SealType, Owns
<1>3. ASSUME NEW v \in Rounds, round'[v] = round[v]
      PROVE  /\ round'[v].pc = "anchorWait" => Owns(round[v].tx, round[v].cur.batch)'
             /\ \A e \in Held(v)' : e.status = "CONFIRMED" => chain'[e.batch] = root'[e.batch]
             /\ round'[v].pc = "settle" /\ round'[v].verdict = "good" =>
                    chain'[round'[v].cur.batch] = root'[round'[v].cur.batch]
             /\ round'[v].pc \in {"raise", "insert"} => round'[v].verdict \in {"bad", "localBad"}
    <2>1. round[v].pc = "anchorWait" => Owns(round[v].tx, round[v].cur.batch)'
        BY <1>0, <1>1, <1>3 DEF RoundEvidence, RoundOwnsTx, Awaited, Holding, Entity, Owns
    <2>2. Held(v)' = Held(v)
        BY <1>3 DEF Held
    <2>3. \A e \in Held(v)' : e.status = "CONFIRMED" => chain'[e.batch] = root'[e.batch]
        BY <1>0, <1>1, <2>2 DEF RoundEvidence, HeldConfirmed, Entity
    <2>4. round[v].pc = "settle" /\ round[v].verdict = "good" =>
              chain'[round[v].cur.batch] = root'[round[v].cur.batch]
        BY <1>0, <1>1 DEF RoundEvidence, GoodIsAnchored, Holding, Entity
    <2> QED
        BY <1>3, <2>1, <2>3, <2>4 DEF RoundEvidence, BadIsRaised
<1>4. CASE \/ \E l \in Logs : Ingest(l)
           \/ \E l \in Logs, s \in Edits : EditRow(l, s)
           \/ \E b \in Batches : CloseAlert(b)
           \/ Connect \/ Network \/ UNCHANGED vars
    <2>1. UNCHANGED <<status, root, seal, round>>
        BY <1>4 DEF Ingest, EditRow, CloseAlert, Connect, Network, vars, dbVars
    <2>2. ConfirmedIsAnchored'
        BY <1>1, <2>1 DEF ConfirmedIsAnchored
    <2>3. SealOwnsTx'
        BY <1>2, <2>1 DEF SealOwnsTx
    <2>4. RoundEvidence'
        BY <1>3, <2>1 DEF RoundEvidence, RoundOwnsTx, HeldConfirmed, GoodIsAnchored, BadIsRaised
    <2> QED
        BY <1>1, <2>2, <2>3, <2>4
<1>5. CASE Crash
    <2>1. /\ UNCHANGED <<status, root>>
          /\ \A c \in Callers : seal'[c].pc = "idle"
          /\ \A v \in Rounds : round'[v] = RoundIdle
        BY <1>5 DEF Crash, SealIdle, dbVars
    <2>2. \A v \in Rounds : Held(v)' = {}
        BY <2>1 DEF Held, RoundIdle
    <2>3. ConfirmedIsAnchored'
        BY <1>1, <2>1 DEF ConfirmedIsAnchored
    <2> QED
        BY <1>1, <2>1, <2>2, <2>3
        DEF SealOwnsTx, RoundEvidence, RoundOwnsTx, HeldConfirmed, GoodIsAnchored, BadIsRaised,
            RoundIdle
<1>6. ASSUME NEW c \in Callers, SealAction(c) PROVE ConfirmInv'
    <2>1. UNCHANGED round /\ \A d \in Callers \ {c} : seal'[d] = seal[d]
        BY <1>6, SealFrameStep DEF SealFrame
    <2>2. ConfirmedIsAnchored'
        <3> SUFFICES ASSUME NEW b \in Batches, status'[b] = "CONFIRMED"
                     PROVE  chain'[b] = root'[b]
            BY DEF ConfirmedIsAnchored
        <3>1. status[b] = "CONFIRMED" \/ (status[b] # "none" /\ chain[b] = root[b])
            BY <1>6, SealConfirmsAnchored
        <3> QED
            BY <1>1, <3>1 DEF ConfirmedIsAnchored
    <2>3. SealOwnsTx'
        BY <1>2, <1>6, <2>1, SealKeepsOwnTx DEF SealOwnsTx
    <2>4. RoundEvidence'
        BY <1>3, <2>1 DEF RoundEvidence, RoundOwnsTx, HeldConfirmed, GoodIsAnchored, BadIsRaised
    <2> QED
        BY <1>1, <2>2, <2>3, <2>4
<1>7. ASSUME NEW v \in Rounds, RoundAction(v) PROVE ConfirmInv'
    <2>1. UNCHANGED seal /\ \A u \in Rounds \ {v} : round'[u] = round[u]
        BY <1>7, RoundFrameStep DEF RoundFrame
    <2>2. ConfirmedIsAnchored'
        <3> SUFFICES ASSUME NEW b \in Batches, status'[b] = "CONFIRMED"
                     PROVE  chain'[b] = root'[b]
            BY DEF ConfirmedIsAnchored
        <3>1. status[b] = "CONFIRMED" \/ chain[b] = root[b]
            BY <1>7, RoundConfirmsAnchored
        <3>2. status[b] # "none"
            <4>1. RoundDb(v)
                BY <1>7, RoundDbStep
            <4> QED
                BY <1>0, <4>1, SaveHeldEffect DEF Entity
        <3> QED
            BY <1>1, <3>1, <3>2 DEF ConfirmedIsAnchored
    <2>3. SealOwnsTx'
        BY <1>2, <2>1 DEF SealOwnsTx
    <2>4. \A e \in Held(v)' : e.status = "CONFIRMED" => chain'[e.batch] = root'[e.batch]
        <3>1. ASSUME NEW e \in Held(v)', e.status = "CONFIRMED", e \in Held(v)
              PROVE  chain'[e.batch] = root'[e.batch]
            BY <1>0, <1>1, <3>1 DEF RoundEvidence, HeldConfirmed, Entity
        <3>2. ASSUME NEW e \in Held(v)', e.status = "CONFIRMED", e \in Found(Live)
              PROVE  chain'[e.batch] = root'[e.batch]
            <4>1. e.batch \in Batches /\ status[e.batch] = "CONFIRMED"
                BY <3>2 DEF Found
            <4> QED
                BY <1>1, <4>1 DEF ConfirmedIsAnchored
        <3> QED
            BY <1>7, <3>1, <3>2, HeldStep
    <2>5. /\ round'[v].pc = "anchorWait" => Owns(round[v].tx, round[v].cur.batch)'
          /\ round'[v].pc = "settle" /\ round'[v].verdict = "good" =>
                 chain'[round'[v].cur.batch] = root'[round'[v].cur.batch]
          /\ round'[v].pc \in {"raise", "insert"} => round'[v].verdict \in {"bad", "localBad"}
        BY <1>7, RoundKeepsOwnEvidence
    <2>6. RoundEvidence'
        <3> SUFFICES ASSUME NEW u \in Rounds
                     PROVE  /\ round'[u].pc = "anchorWait" => Owns(round[u].tx, round[u].cur.batch)'
                            /\ \A e \in Held(u)' :
                                   e.status = "CONFIRMED" => chain'[e.batch] = root'[e.batch]
                            /\ round'[u].pc = "settle" /\ round'[u].verdict = "good" =>
                                   chain'[round'[u].cur.batch] = root'[round'[u].cur.batch]
                            /\ round'[u].pc \in {"raise", "insert"} =>
                                   round'[u].verdict \in {"bad", "localBad"}
            BY DEF RoundEvidence, RoundOwnsTx, HeldConfirmed, GoodIsAnchored, BadIsRaised
        <3>1. CASE u = v
            BY <2>4, <2>5, <3>1
        <3>2. CASE u # v
            <4>1. round'[u] = round[u]
                BY <2>1, <3>2
            <4> QED
                BY <1>3, <4>1
        <3> QED
            BY <3>1, <3>2
    <2> QED
        BY <1>1, <2>2, <2>3, <2>6
<1> QED
    BY <1>4, <1>5, <1>6, <1>7 DEF Next, SealAction, RoundAction

\* Unless the chain loses its roots, a batch is CONFIRMED only while the contract holds
\* the root it was sealed with, however many rounds overlap and whatever fails.
THEOREM ConfirmedIsOnChain ==
    ASSUME "reset" \notin Faults
    PROVE  Spec => []ConfirmedIsAnchored
<1>1. TypeInv /\ SealInv /\ AnchorInv /\ ConfirmInv /\ [Next]_vars => ConfirmInv'
    BY StepConfirm
<1>2. ConfirmInv => ConfirmedIsAnchored
    BY DEF ConfirmInv
<1> QED
    BY InitConfirm, <1>1, <1>2, TypeCorrect, SealingIsExclusive, AnchorsAreSound, PTL DEF Spec

-----------------------------------------------------------------------------
(***************************************************************************)
(* TAMPERED and its alert, for rounds that do not overlap.  A round holds  *)
(* one copy of a batch, and a copy that does not say TAMPERED is of a      *)
(* batch that is not: nobody else writes that status.  So the round that   *)
(* closes an alert knows that the batch is not TAMPERED any more.          *)
(***************************************************************************)
OneCopy(v) ==
    /\ \A e, f \in round[v].todo : e.batch = f.batch => e = f
    /\ round[v].cur # NoEntity => \A e \in round[v].todo : e.batch # round[v].cur.batch

KnowsTampered(v) ==
    /\ \A e \in round[v].todo : status[e.batch] = "TAMPERED" => e.status = "TAMPERED"
    /\ round[v].cur # NoEntity /\ status[round[v].cur.batch] = "TAMPERED" =>
           round[v].pc # "resolve" /\ round[v].cur.status = "TAMPERED"

HasRaised(v) ==
    round[v].pc = "settle" /\ round[v].verdict \in {"bad", "localBad"} =>
        round[v].cur.batch \in alert

\* Only UNVERIFIED batches are sent again, and saved under the status of the copy.
ReanchorsUnverified(v) ==
    round[v].pc \in {"reanchor", "reanchorSend", "reanchorWait"} =>
        /\ \A e \in round[v].todo : e.status = "UNVERIFIED"
        /\ round[v].cur # NoEntity => round[v].cur.status = "UNVERIFIED"

Judges(v) == OneCopy(v) /\ KnowsTampered(v) /\ HasRaised(v) /\ ReanchorsUnverified(v)

TamperInv == TamperedHasAlert /\ \A v \in Rounds : Judges(v)

LEMMA InitTamper == Init => TamperInv
BY DEF Init, TamperInv, TamperedHasAlert, Judges, OneCopy, KnowsTampered, HasRaised,
    ReanchorsUnverified, RoundIdle, NoEntity

LEMMA FoundOnce ==
    ASSUME NEW ss
    PROVE  /\ \A e, f \in Found(ss) : e.batch = f.batch => e = f
           /\ \A e \in Found(ss) : e.status = status[e.batch] /\ e.status \in ss
BY DEF Found

\* A phase that begins, ends or goes on without a current entity.
LEMMA PhaseJudges ==
    ASSUME NEW v \in Rounds, Judges(v), UNCHANGED status,
           round'[v].cur = NoEntity, round'[v].pc # "settle",
           \/ /\ round'[v].todo \in SUBSET round[v].todo
              /\ \/ round'[v].pc \notin {"reanchor", "reanchorSend", "reanchorWait"}
                 \/ round[v].pc \in {"reanchor", "reanchorSend", "reanchorWait"}
                 \/ round'[v].todo = {}
           \/ /\ round'[v].pc \notin {"reanchor", "reanchorSend", "reanchorWait"}
              /\ \E ss : round'[v].todo = Found(ss)
           \/ round'[v].todo = Found({"UNVERIFIED"})
    PROVE  Judges(v)'
<1>1. CASE \E ss : round'[v].todo = Found(ss)
    BY <1>1, FoundOnce DEF Judges, OneCopy, KnowsTampered, HasRaised, ReanchorsUnverified
<1>2. CASE round'[v].todo \in SUBSET round[v].todo
    BY <1>2, FoundOnce DEF Judges, OneCopy, KnowsTampered, HasRaised, ReanchorsUnverified
<1> QED
    BY <1>1, <1>2

\* An entity of the phase becomes the current one.
LEMMA TakeJudges ==
    ASSUME NEW v \in Rounds, Judges(v), UNCHANGED status, NEW e \in round[v].todo,
           round'[v].todo = round[v].todo \ {e}, round'[v].cur = e,
           round'[v].pc \notin {"settle", "resolve"},
           \/ round'[v].pc \notin {"reanchor", "reanchorSend", "reanchorWait"}
           \/ round[v].pc \in {"reanchor", "reanchorSend", "reanchorWait"}
    PROVE  Judges(v)'
BY DEF Judges, OneCopy, KnowsTampered, HasRaised, ReanchorsUnverified

\* The round goes on with what it has.
LEMMA MoveJudges ==
    ASSUME NEW v \in Rounds, Judges(v), UNCHANGED status,
           round'[v].todo = round[v].todo, round'[v].cur = round[v].cur,
           round'[v].pc \notin {"resolve"},
           round'[v].pc = "settle" /\ round'[v].verdict \in {"bad", "localBad"} =>
               round'[v].cur.batch \in alert',
           \/ round'[v].pc \notin {"reanchor", "reanchorSend", "reanchorWait"}
           \/ round[v].pc \in {"reanchor", "reanchorSend", "reanchorWait"}
    PROVE  Judges(v)'
BY DEF Judges, OneCopy, KnowsTampered, HasRaised, ReanchorsUnverified

\* An entity is saved under another status than TAMPERED, and left.
LEMMA SaveJudges ==
    ASSUME TypeInv, TamperInv, NEW v \in Rounds, NEW b \in Batches, NEW s, s # "TAMPERED",
           status' = [status EXCEPT ![b] = s], UNCHANGED alert,
           round'[v].cur = NoEntity, round'[v].pc # "settle",
           round'[v].todo \in SUBSET round[v].todo,
           \/ round'[v].pc \notin {"reanchor", "reanchorSend", "reanchorWait"}
           \/ round[v].pc \in {"reanchor", "reanchorSend", "reanchorWait"}
    PROVE  Judges(v)' /\ TamperedHasAlert'
<1>1. \A a : status'[a] = "TAMPERED" /\ a \in Batches => status[a] = "TAMPERED"
    BY DEF TypeInv, TypeOK
<1>2. \A e \in round[v].todo : e.batch \in Batches
    BY HeldType DEF TypeInv, Entity
<1>3. TamperedHasAlert'
    BY <1>1 DEF TamperInv, TamperedHasAlert
<1> QED
    BY <1>1, <1>2, <1>3
    DEF TamperInv, Judges, OneCopy, KnowsTampered, HasRaised, ReanchorsUnverified

\* The round leaves its current entity and goes on in phase p.
LEMMA ContinueJudges ==
    ASSUME TypeInv, NEW v \in Rounds, Judges(v), NEW p, p # "settle", Continue(v, p),
           UNCHANGED status,
           p # "reanchor" \/ round[v].pc \in {"reanchor", "reanchorSend", "reanchorWait"},
           p \notin {"reanchorSend", "reanchorWait"}
    PROVE  Judges(v)'
<1>1. round'[v].todo = round[v].todo /\ round'[v].cur = NoEntity /\ round'[v].pc = p
    BY DEF Continue, RoundIdle, TypeInv, TypeOK
<1>2. round'[v].todo \in SUBSET round[v].todo
    BY <1>1
<1> QED
    BY <1>1, <1>2, PhaseJudges

\* ... and so it does when the entity has been saved under another status than TAMPERED.
LEMMA ContinueSaved ==
    ASSUME TypeInv, TamperInv, NEW v \in Rounds, NEW b \in Batches, NEW s, s # "TAMPERED",
           status' = [status EXCEPT ![b] = s], UNCHANGED alert,
           NEW p, p # "settle", Continue(v, p),
           p # "reanchor" \/ round[v].pc \in {"reanchor", "reanchorSend", "reanchorWait"},
           p \notin {"reanchorSend", "reanchorWait"}
    PROVE  Judges(v)' /\ TamperedHasAlert'
<1>1. round'[v].todo = round[v].todo /\ round'[v].cur = NoEntity /\ round'[v].pc = p
    BY DEF Continue, RoundIdle, TypeInv, TypeOK
<1>2. round'[v].todo \in SUBSET round[v].todo
    BY <1>1
<1> QED
    BY <1>1, <1>2, SaveJudges

\* What a round does by itself, action by action.
LEMMA RoundKeepsTamper ==
    ASSUME TypeInv, TamperInv, NEW v \in Rounds, RoundAction(v)
    PROVE  TamperedHasAlert' /\ Judges(v)'
<1> DEFINE e == round[v].cur
<1>0. /\ round \in [Rounds -> RoundRecord] /\ round[v] \in RoundRecord
      /\ round[v].pc \in Holding => e \in Entity /\ e # NoEntity
      /\ Judges(v) /\ TamperedHasAlert
      /\ status \in [Batches -> Statuses] /\ alert \in SUBSET Batches
    BY DEF TypeInv, TypeOK, RoundType, TamperInv, Entity, NoEntity, Live
<1>1. \A f \in Entity : f.batch \in Batches
    BY DEF Entity
<1>a. ASSUME NEW f, Done(v, f)
      PROVE  /\ round'[v].todo \in SUBSET round[v].todo /\ round'[v].cur = e
             /\ round'[v].pc = round[v].pc
    BY <1>0, <1>a DEF Done, RoundRecord
<1>b. ASSUME NEW p, Continue(v, p)
      PROVE  round'[v].todo = round[v].todo /\ round'[v].cur = NoEntity /\ round'[v].pc = p
    BY <1>0, <1>b DEF Continue, RoundIdle
<1>c. ASSUME round' = [round EXCEPT ![v] = RoundIdle]
      PROVE  round'[v].todo = {} /\ round'[v].cur = NoEntity /\ round'[v].pc = "idle"
    BY <1>0, <1>c DEF RoundIdle
<1>d. ASSUME UNCHANGED <<status, alert>>
      PROVE  TamperedHasAlert'
    BY <1>0, <1>d DEF TamperedHasAlert
<1>2. CASE StartRound(v) \/ StartVerifyNow(v)
    <2>1. /\ round'[v].todo = {} \/ round'[v].todo = Found({"SEALED"})
          /\ round'[v].cur = NoEntity /\ round'[v].pc = "anchor"
        <3>1. CASE StartRound(v)
            BY <1>0, <3>1 DEF StartRound, RoundIdle
        <3>2. CASE StartVerifyNow(v)
            BY <1>0, <3>2 DEF StartVerifyNow, RoundIdle
        <3> QED
            BY <1>2, <3>1, <3>2
    <2>2. UNCHANGED <<status, alert>>
        BY <1>2 DEF StartRound, StartVerifyNow, dbVars
    <2> QED
        BY <1>0, <1>d, <2>1, <2>2, PhaseJudges
<1>3. CASE AnchorSend(v)
    <2>1. PICK f \in round[v].todo, t \in Txs :
              round' = [round EXCEPT ![v] = [Take(v, f, "anchorWait") EXCEPT !.tx = t]]
        BY <1>3 DEF AnchorSend
    <2>2. round'[v].todo = round[v].todo \ {f} /\ round'[v].cur = f /\ round'[v].pc = "anchorWait"
        BY <1>0, <2>1 DEF Take, RoundRecord
    <2>3. UNCHANGED <<status, alert>>
        BY <1>3 DEF AnchorSend, dbVars
    <2> QED
        BY <1>0, <1>d, <2>2, <2>3, TakeJudges
<1>4. CASE AnchorAdopt(v)
    <2>1. PICK f \in round[v].todo : Save([f EXCEPT !.status = "CONFIRMED"]) /\ Done(v, f)
        BY <1>4 DEF AnchorAdopt
    <2>2. f \in Entity
        BY HeldType DEF TypeInv
    <2>3. status' = [status EXCEPT ![f.batch] = "CONFIRMED"] /\ UNCHANGED alert /\ f.batch \in Batches
        BY <2>1, <2>2 DEF Save, Entity
    <2>4. round[v].pc = "anchor" /\ round'[v].pc = "anchor" /\ round'[v].cur = e
          /\ round'[v].todo = round[v].todo \ {f}
        BY <1>0, <1>4, <2>1 DEF AnchorAdopt, Done, RoundRecord
    <2>5. \A a : status'[a] = "TAMPERED" /\ a \in Batches => status[a] = "TAMPERED"
        BY <1>0, <2>3
    <2>6. \A g \in round[v].todo \cup ({e} \ {NoEntity}) : g.batch \in Batches
        BY <1>1, HeldType DEF Held, TypeInv
    <2>7. TamperedHasAlert'
        BY <1>0, <2>3, <2>5 DEF TamperedHasAlert
    <2>8. OneCopy(v)' /\ HasRaised(v)' /\ ReanchorsUnverified(v)'
        BY <1>0, <2>4 DEF Judges, OneCopy, HasRaised, ReanchorsUnverified
    <2>9. KnowsTampered(v)'
        BY <1>0, <2>4, <2>5, <2>6 DEF Judges, KnowsTampered
    <2> QED
        BY <2>7, <2>8, <2>9 DEF Judges
<1>5. CASE AnchorConfirm(v) \/ AnchorDefer(v)
    <2>1. /\ round[v].pc = "anchorWait" /\ Continue(v, "anchor")
          /\ \E s \in {"CONFIRMED", "UNVERIFIED"} :
                Save([e EXCEPT !.status = s, !.tx = round[v].tx])
        BY <1>5 DEF AnchorConfirm, AnchorDefer
    <2>2. PICK s \in {"CONFIRMED", "UNVERIFIED"} : Save([e EXCEPT !.status = s, !.tx = round[v].tx])
        BY <2>1
    <2>3. e \in Entity /\ e.batch \in Batches
        BY <1>0, <1>1, <2>1 DEF Holding
    <2>4. status' = [status EXCEPT ![e.batch] = s] /\ UNCHANGED alert
        BY <2>2, <2>3 DEF Save, Entity
    <2> QED
        BY <2>1, <2>3, <2>4, ContinueSaved
<1>6. CASE AnchorSkip(v) \/ ReanchorSkip(v)
    <2>1. UNCHANGED <<status, alert>>
        BY <1>6 DEF AnchorSkip, ReanchorSkip, dbVars
    <2>2. CASE AnchorSkip(v)
        <3>1. Continue(v, "anchor")
            BY <2>2 DEF AnchorSkip
        <3> QED
            BY <1>0, <1>d, <2>1, <3>1, ContinueJudges
    <2>3. CASE ReanchorSkip(v)
        <3>1. Continue(v, "reanchor") /\ round[v].pc = "reanchorWait"
            BY <2>3 DEF ReanchorSkip
        <3> QED
            BY <1>0, <1>d, <2>1, <3>1, ContinueJudges
    <2> QED
        BY <1>6, <2>2, <2>3
<1>7. CASE StartReanchor(v)
    <2>1. PICK T \in {{}, Found({"UNVERIFIED"})} :
              round' = [round EXCEPT ![v] = [RoundIdle EXCEPT !.pc = "reanchor", !.todo = T]]
        BY <1>7, Zenon DEF StartReanchor
    <2>2. round'[v].todo = T /\ round'[v].cur = NoEntity /\ round'[v].pc = "reanchor"
        BY <1>0, <2>1 DEF RoundIdle
    <2>3. UNCHANGED <<status, alert>>
        BY <1>7 DEF StartReanchor, dbVars
    <2> QED
        BY <1>0, <1>d, <2>2, <2>3, PhaseJudges
<1>8. CASE ReanchorCheck(v)
    <2>1. PICK f \in round[v].todo :
              \/ round' = [round EXCEPT ![v] = Take(v, f, "reanchorSend")]
              \/ Done(v, f)
        BY <1>8 DEF ReanchorCheck
    <2>2. UNCHANGED <<status, alert>> /\ round[v].pc = "reanchor"
        BY <1>8 DEF ReanchorCheck, dbVars
    <2>3. CASE round' = [round EXCEPT ![v] = Take(v, f, "reanchorSend")]
        <3>1. round'[v].todo = round[v].todo \ {f} /\ round'[v].cur = f /\ round'[v].pc = "reanchorSend"
            BY <1>0, <2>3 DEF Take, RoundRecord
        <3> QED
            BY <1>0, <1>d, <2>2, <3>1, TakeJudges
    <2>4. CASE Done(v, f)
        <3>1. OneCopy(v)' /\ KnowsTampered(v)' /\ HasRaised(v)' /\ ReanchorsUnverified(v)'
            BY <1>0, <1>a, <2>2, <2>4 DEF Judges, OneCopy, KnowsTampered, HasRaised, ReanchorsUnverified
        <3> QED
            BY <1>d, <2>2, <3>1 DEF Judges
    <2> QED
        BY <2>1, <2>3, <2>4
<1>9. CASE AnchorSendFails(v)
    <2>1. PICK f : Done(v, f)
        BY <1>9 DEF AnchorSendFails
    <2>2. UNCHANGED <<status, alert>> /\ round[v].pc = "anchor"
        BY <1>9 DEF AnchorSendFails, dbVars
    <2>3. OneCopy(v)' /\ KnowsTampered(v)' /\ HasRaised(v)' /\ ReanchorsUnverified(v)'
        BY <1>0, <1>a, <2>1, <2>2 DEF Judges, OneCopy, KnowsTampered, HasRaised, ReanchorsUnverified
    <2> QED
        BY <1>d, <2>2, <2>3 DEF Judges
<1>10. CASE ReanchorSend(v)
    <2>1. UNCHANGED <<status, alert>> /\ round[v].pc = "reanchorSend"
        BY <1>10 DEF ReanchorSend, dbVars
    <2>2. CASE \E t : round' = [round EXCEPT ![v].pc = "reanchorWait", ![v].tx = t]
        <3>1. round'[v].todo = round[v].todo /\ round'[v].cur = e /\ round'[v].pc = "reanchorWait"
            BY <1>0, <2>2 DEF RoundRecord
        <3> QED
            BY <1>0, <1>d, <2>1, <3>1, MoveJudges
    <2>3. CASE Continue(v, "reanchor")
        BY <1>0, <1>d, <2>1, <2>3, ContinueJudges
    <2> QED
        BY <1>10, <2>2, <2>3 DEF ReanchorSend
<1>11. CASE ReanchorFails(v)
    <2>1. UNCHANGED <<status, alert>> /\ round[v].pc \in {"reanchor", "reanchorSend"}
        BY <1>11 DEF ReanchorFails, dbVars
    <2>2. CASE \E f : Done(v, f)
        <3>1. PICK f : Done(v, f)
            BY <2>2
        <3>2. OneCopy(v)' /\ KnowsTampered(v)' /\ HasRaised(v)' /\ ReanchorsUnverified(v)'
            BY <1>0, <1>a, <2>1, <3>1 DEF Judges, OneCopy, KnowsTampered, HasRaised, ReanchorsUnverified
        <3> QED
            BY <1>d, <2>1, <3>2 DEF Judges
    <2>3. CASE Continue(v, "reanchor")
        BY <1>0, <1>d, <2>1, <2>3, ContinueJudges
    <2> QED
        BY <1>11, <2>2, <2>3 DEF ReanchorFails
<1>12. CASE ReanchorSave(v)
    <2>1. round[v].pc = "reanchorWait" /\ Continue(v, "reanchor") /\ Save([e EXCEPT !.tx = round[v].tx])
        BY <1>12 DEF ReanchorSave
    <2>2. e \in Entity /\ e.batch \in Batches /\ e.status = "UNVERIFIED"
        BY <1>0, <1>1, <2>1 DEF Holding, Judges, ReanchorsUnverified
    <2>3. status' = [status EXCEPT ![e.batch] = "UNVERIFIED"] /\ UNCHANGED alert
        BY <2>1, <2>2 DEF Save, Entity
    <2> QED
        BY <2>1, <2>2, <2>3, ContinueSaved
<1>13. CASE StartVerify(v)
    <2>1. round'[v].todo = Found(Live) /\ round'[v].cur = NoEntity /\ round'[v].pc = "verify"
        BY <1>0, <1>13 DEF StartVerify, RoundIdle
    <2>2. UNCHANGED <<status, alert>>
        BY <1>13 DEF StartVerify, dbVars
    <2> QED
        BY <1>0, <1>d, <2>1, <2>2, PhaseJudges
<1>14. CASE VerifyRead(v)
    <2>1. PICK f \in round[v].todo :
              round' = [round EXCEPT ![v] =
                         [Take(v, f, "check") EXCEPT
                             !.seen = RootOf(row, LogsOf(f.batch)),
                             !.modified = Modified(row, LogsOf(f.batch)) # {}]]
        BY <1>14 DEF VerifyRead
    <2>2. round'[v].todo = round[v].todo \ {f} /\ round'[v].cur = f /\ round'[v].pc = "check"
        BY <1>0, <2>1 DEF Take, RoundRecord
    <2>3. UNCHANGED <<status, alert>>
        BY <1>14 DEF VerifyRead, dbVars
    <2> QED
        BY <1>0, <1>d, <2>2, <2>3, TakeJudges
<1>15. CASE VerifyCheck(v)
    <2>1. \E w : round' = [round EXCEPT ![v] =
               [@ EXCEPT !.verdict = w, !.seen = NoRoot, !.modified = FALSE,
                         !.pc = IF w \in {"bad", "localBad"} THEN "raise" ELSE "settle"]]
        BY <1>15 DEF VerifyCheck
    <2>2. PICK w : round' = [round EXCEPT ![v] =
               [@ EXCEPT !.verdict = w, !.seen = NoRoot, !.modified = FALSE,
                         !.pc = IF w \in {"bad", "localBad"} THEN "raise" ELSE "settle"]]
        BY <2>1
    <2>3. /\ round'[v].todo = round[v].todo /\ round'[v].cur = e /\ round'[v].verdict = w
          /\ round'[v].pc = IF w \in {"bad", "localBad"} THEN "raise" ELSE "settle"
        BY <1>0, <2>2 DEF RoundRecord
    <2>4. UNCHANGED <<status, alert>>
        BY <1>15 DEF VerifyCheck, dbVars
    <2> QED
        BY <1>0, <1>d, <2>3, <2>4, MoveJudges
<1>16. CASE RaiseFind(v)
    <2>1. /\ round'[v].todo = round[v].todo /\ round'[v].cur = e
          /\ round'[v].pc = IF e.batch \in alert THEN "settle" ELSE "insert"
        BY <1>0, <1>16 DEF RaiseFind, RoundRecord
    <2>2. UNCHANGED <<status, alert>>
        BY <1>16 DEF RaiseFind, dbVars
    <2> QED
        BY <1>0, <1>d, <2>1, <2>2, MoveJudges
<1>17. CASE RaiseInsert(v)
    <2>1. UNCHANGED status
        BY <1>17 DEF RaiseInsert
    <2>2. CASE e.batch \in alert
        <3>1. round' = [round EXCEPT ![v] = RoundIdle] /\ UNCHANGED alert
            BY <1>17, <2>2 DEF RaiseInsert
        <3> QED
            BY <1>0, <1>c, <1>d, <2>1, <3>1, PhaseJudges
    <2>3. CASE e.batch \notin alert
        <3>1. round' = [round EXCEPT ![v].pc = "settle"] /\ alert' = alert \cup {e.batch}
            BY <1>17, <2>3 DEF RaiseInsert
        <3>2. round'[v].todo = round[v].todo /\ round'[v].cur = e /\ round'[v].pc = "settle"
            BY <1>0, <3>1 DEF RoundRecord
        <3>3. TamperedHasAlert'
            BY <1>0, <2>1, <3>1 DEF TamperedHasAlert
        <3> QED
            BY <1>0, <2>1, <3>1, <3>2, <3>3, MoveJudges
    <2> QED
        BY <2>2, <2>3
<1>18. CASE SettleTampered(v)
    <2>1. /\ round[v].pc = "settle" /\ round[v].verdict \in {"bad", "localBad"}
          /\ Continue(v, "verify")
          /\ UNCHANGED dbVars \/ Save([e EXCEPT !.status = "TAMPERED"])
        BY <1>18 DEF SettleTampered
    <2>2. e \in Entity /\ e.batch \in Batches /\ e # NoEntity /\ e.batch \in alert
        BY <1>0, <1>1, <2>1 DEF Holding, Judges, HasRaised
    <2>3. CASE UNCHANGED dbVars
        <3>1. UNCHANGED <<status, alert>>
            BY <2>3 DEF dbVars
        <3> QED
            BY <1>0, <1>d, <2>1, <3>1, ContinueJudges
    <2>4. CASE Save([e EXCEPT !.status = "TAMPERED"])
        <3>1. status' = [status EXCEPT ![e.batch] = "TAMPERED"] /\ UNCHANGED alert
            BY <2>2, <2>4 DEF Save, Entity
        <3>2. TamperedHasAlert'
            BY <1>0, <2>2, <3>1 DEF TamperedHasAlert
        <3>3. \A f \in round[v].todo : f.batch # e.batch /\ status'[f.batch] = status[f.batch]
            BY <1>0, <1>1, <2>2, <3>1, HeldType DEF Judges, OneCopy, TypeInv
        <3>4. round'[v].todo = round[v].todo /\ round'[v].cur = NoEntity /\ round'[v].pc = "verify"
            BY <1>b, <2>1
        <3>5. OneCopy(v)' /\ KnowsTampered(v)' /\ HasRaised(v)' /\ ReanchorsUnverified(v)'
            BY <1>0, <3>3, <3>4 DEF Judges, OneCopy, KnowsTampered, HasRaised, ReanchorsUnverified
        <3> QED
            BY <3>2, <3>5 DEF Judges
    <2> QED
        BY <2>1, <2>3, <2>4
<1>19. CASE SettleMissing(v)
    <2>1. /\ round[v].pc = "settle" /\ Continue(v, "verify")
          /\ UNCHANGED dbVars \/ Save([e EXCEPT !.status = "UNVERIFIED"])
        BY <1>19 DEF SettleMissing
    <2>2. e \in Entity /\ e.batch \in Batches
        BY <1>0, <1>1, <2>1 DEF Holding
    <2>3. CASE UNCHANGED dbVars
        <3>1. UNCHANGED <<status, alert>>
            BY <2>3 DEF dbVars
        <3> QED
            BY <1>0, <1>d, <2>1, <3>1, ContinueJudges
    <2>4. CASE Save([e EXCEPT !.status = "UNVERIFIED"])
        <3>1. status' = [status EXCEPT ![e.batch] = "UNVERIFIED"] /\ UNCHANGED alert
            BY <2>2, <2>4 DEF Save, Entity
        <3> QED
            BY <2>1, <2>2, <3>1, ContinueSaved
    <2> QED
        BY <2>1, <2>3, <2>4
<1>20. ASSUME round[v].pc = "settle", e \in Entity, e # NoEntity,
              round' = [round EXCEPT ![v].pc = "resolve"],
              \/ e.status # "TAMPERED" /\ UNCHANGED dbVars
              \/ \E s : s # "TAMPERED" /\ Save([e EXCEPT !.status = s])
       PROVE  TamperedHasAlert' /\ Judges(v)'
    <2>1. /\ round'[v].todo = round[v].todo /\ round'[v].cur = e /\ round'[v].pc = "resolve"
        BY <1>0, <1>20 DEF RoundRecord
    <2>2. /\ \A a \in Batches : status'[a] = "TAMPERED" => status[a] = "TAMPERED"
          /\ status'[e.batch] # "TAMPERED"
          /\ UNCHANGED alert
        <3>1. CASE e.status # "TAMPERED" /\ UNCHANGED dbVars
            BY <1>0, <1>20, <3>1 DEF dbVars, Judges, KnowsTampered
        <3>2. CASE \E s : s # "TAMPERED" /\ Save([e EXCEPT !.status = s])
            <4>1. PICK s : s # "TAMPERED" /\ Save([e EXCEPT !.status = s])
                BY <3>2
            <4>2. status' = [status EXCEPT ![e.batch] = s] /\ UNCHANGED alert
                BY <1>20, <4>1 DEF Save, Entity
            <4> QED
                BY <1>0, <1>1, <1>20, <4>1, <4>2
        <3> QED
            BY <1>20, <3>1, <3>2
    <2>3. TamperedHasAlert'
        BY <1>0, <2>2 DEF TamperedHasAlert
    <2>4. \A f \in round[v].todo : f.batch \in Batches
        BY <1>1, HeldType DEF TypeInv
    <2>5. KnowsTampered(v)'
        BY <1>0, <2>1, <2>2, <2>4 DEF Judges, KnowsTampered
    <2>6. OneCopy(v)' /\ HasRaised(v)' /\ ReanchorsUnverified(v)'
        BY <1>0, <2>1 DEF Judges, OneCopy, HasRaised, ReanchorsUnverified
    <2> QED
        BY <2>3, <2>5, <2>6 DEF Judges
<1>21. CASE SettleVerified(v)
    <2>1. /\ round[v].pc = "settle" /\ round' = [round EXCEPT ![v].pc = "resolve"]
          /\ \/ e.status # "TAMPERED" /\ UNCHANGED dbVars
             \/ Save([e EXCEPT !.status = "CONFIRMED"])
        BY <1>21 DEF SettleVerified
    <2>2. \/ e.status # "TAMPERED" /\ UNCHANGED dbVars
          \/ \E s : s # "TAMPERED" /\ Save([e EXCEPT !.status = s])
        BY <2>1
    <2> QED
        BY <1>0, <1>20, <2>1, <2>2 DEF Holding
<1>22. CASE SettleLocal(v)
    <2>1. CASE e.tx # NoTx
        <3>1. Continue(v, "verify") /\ UNCHANGED dbVars
            BY <1>22, <2>1 DEF SettleLocal
        <3>2. UNCHANGED <<status, alert>>
            BY <3>1 DEF dbVars
        <3> QED
            BY <1>0, <1>d, <3>1, <3>2, ContinueJudges
    <2>2. CASE e.tx = NoTx
        <3>1. /\ round[v].pc = "settle" /\ round' = [round EXCEPT ![v].pc = "resolve"]
              /\ \/ e.status # "TAMPERED" /\ UNCHANGED dbVars
                 \/ Save([e EXCEPT !.status = "SEALED"])
            BY <1>22, <2>2 DEF SettleLocal
        <3>2. \/ e.status # "TAMPERED" /\ UNCHANGED dbVars
              \/ \E s : s # "TAMPERED" /\ Save([e EXCEPT !.status = s])
            BY <3>1
        <3> QED
            BY <1>0, <1>20, <3>1, <3>2 DEF Holding
    <2> QED
        BY <2>1, <2>2
<1>23. CASE ResolveAlerts(v)
    <2>1. /\ round[v].pc = "resolve" /\ alert' = alert \ {e.batch} /\ UNCHANGED status
          /\ Continue(v, "verify")
        BY <1>23 DEF ResolveAlerts
    <2>2. status[e.batch] # "TAMPERED"
        BY <1>0, <2>1 DEF Judges, KnowsTampered, Holding
    <2>3. TamperedHasAlert'
        BY <1>0, <2>1, <2>2 DEF TamperedHasAlert
    <2> QED
        BY <1>0, <2>1, <2>3, ContinueJudges
<1>24. CASE EndRound(v) \/ RoundFails(v)
    <2>1. round' = [round EXCEPT ![v] = RoundIdle] /\ UNCHANGED <<status, alert>>
        BY <1>24 DEF EndRound, RoundFails, dbVars
    <2> QED
        BY <1>0, <1>c, <1>d, <2>1, PhaseJudges
<1> QED
    BY <1>2, <1>3, <1>4, <1>5, <1>6, <1>7, <1>8, <1>9, <1>10, <1>11, <1>12, <1>13, <1>14, <1>15,
       <1>16, <1>17, <1>18, <1>19, <1>21, <1>22, <1>23, <1>24
    DEF RoundAction, RoundStep, RoundFault

\* A step that makes no batch TAMPERED, closes no alert and moves no round.
LEMMA OthersKeepTamper ==
    ASSUME TypeInv, TamperInv, UNCHANGED <<alert, round>>,
           \A b \in Batches : status'[b] = "TAMPERED" => status[b] = "TAMPERED"
    PROVE  TamperInv'
<1>1. \A v \in Rounds : /\ \A e \in round[v].todo : e.batch \in Batches
                        /\ round[v].cur # NoEntity => round[v].cur.batch \in Batches
    <2>1. \A v \in Rounds : round[v].cur \in Entity \cup {NoEntity}
        BY DEF TypeInv, TypeOK, RoundRecord
    <2> QED
        BY <2>1, HeldType DEF TypeInv, Entity
<1>2. TamperedHasAlert'
    BY DEF TamperInv, TamperedHasAlert
<1>3. ASSUME NEW v \in Rounds PROVE Judges(v)'
    BY <1>1 DEF TamperInv, Judges, OneCopy, KnowsTampered, HasRaised, ReanchorsUnverified
<1> QED
    BY <1>2, <1>3 DEF TamperInv

\* sealBatch only ever writes the status of a new batch.
LEMMA SealKeepsTamper ==
    ASSUME TypeInv, TamperInv, NEW c \in Callers, SealAction(c)
    PROVE  TamperInv'
<1>1. SealDb(c) /\ UNCHANGED <<alert, round>>
    BY SealDbStep, SealFrameStep DEF SealFrame
<1>2. status \in [Batches -> Statuses]
    BY DEF TypeInv, TypeOK
<1>3. \A b \in Batches : status'[b] = "TAMPERED" => status[b] = "TAMPERED"
    <2>1. CASE UNCHANGED dbVars
        BY <2>1 DEF dbVars
    <2>2. CASE SealCreate(c)
        BY <1>2, <2>2 DEF SealCreate
    <2>3. CASE \E s \in {"SEALED", "UNVERIFIED", "CONFIRMED"} : WriteMapping(c, s)
        BY <1>2, <2>3 DEF WriteMapping
    <2>4. CASE SealFailed(c)
        BY <1>2, <2>4 DEF SealFailed
    <2> QED
        BY <1>1, <2>1, <2>2, <2>3, <2>4 DEF SealDb
<1> QED
    BY <1>1, <1>3, OthersKeepTamper

LEMMA StepTamper ==
    ASSUME \A v, w \in Rounds : v = w, "close" \notin Edits
    PROVE  TypeInv /\ TamperInv /\ [Next]_vars => TamperInv'
<1> SUFFICES ASSUME TypeInv, TamperInv, [Next]_vars PROVE TamperInv'
    OBVIOUS
<1>1. CASE \/ \E l \in Logs : Ingest(l)
           \/ \E l \in Logs, s \in Edits : EditRow(l, s)
           \/ Connect \/ Network \/ UNCHANGED vars
    <2>1. UNCHANGED <<status, alert, round>>
        BY <1>1 DEF Ingest, EditRow, Connect, Network, vars, dbVars
    <2> QED
        BY <2>1, OthersKeepTamper
<1>2. ~ \E b \in Batches : CloseAlert(b)
    BY DEF CloseAlert
<1>3. CASE Crash
    <2>1. UNCHANGED <<status, alert>> /\ round' = [v \in Rounds |-> RoundIdle]
        BY <1>3 DEF Crash, dbVars
    <2> QED
        BY <2>1 DEF TamperInv, TamperedHasAlert, Judges, OneCopy, KnowsTampered, HasRaised,
            ReanchorsUnverified, RoundIdle
<1>4. CASE \E c \in Callers : SealStep(c) \/ SealFault(c)
    BY <1>4, SealKeepsTamper DEF SealAction
\* the round that moves is the only one
<1>5. CASE \E v \in Rounds : StartVerifyNow(v) \/ RoundStep(v) \/ RoundFault(v)
    <2>1. PICK v \in Rounds : RoundAction(v)
        BY <1>5 DEF RoundAction
    <2>2. TamperedHasAlert' /\ Judges(v)'
        BY <2>1, RoundKeepsTamper
    <2>3. ASSUME NEW w \in Rounds PROVE Judges(w)'
        <3>1. w = v
            OBVIOUS
        <3> QED
            BY <2>2, <3>1
    <2> QED
        BY <2>2, <2>3 DEF TamperInv
<1> QED
    BY <1>1, <1>2, <1>3, <1>4, <1>5 DEF Next

\* With one round at a time and no analyst closing alerts by hand, whatever fails: a batch
\* is never TAMPERED without an OPEN alert that tells of it.
THEOREM TamperedIsTold ==
    ASSUME \A v, w \in Rounds : v = w, "close" \notin Edits
    PROVE  Spec => []TamperedHasAlert
<1>1. TypeInv /\ TamperInv /\ [Next]_vars => TamperInv'
    BY StepTamper
<1>2. TamperInv => TamperedHasAlert
    BY DEF TamperInv
<1> QED
    BY InitTamper, <1>1, <1>2, TypeCorrect, PTL DEF Spec
=============================================================================
