---------------------------- MODULE ClientProofs ----------------------------
(***************************************************************************)
(* Theorems about ChainClient, for any number of batches, calls, failures  *)
(* and whatever the lag of the nodes, the deadlines and the life of the    *)
(* nonce hint: which nonce a transaction is sent with, and that a call     *)
(* that failed has failed for good.                                        *)
(***************************************************************************)
EXTENDS ChainClient, FiniteSetTheorems, FunctionTheorems, SequenceTheorems,
        WellFoundedInduction, TLAPS

Tx == [nonce : Nat, batch : Batches, number : 1 .. MaxCalls, at : 0 .. MaxTime]
CallPcs == Over \cup {"queued", "sends", "waits"}
CallType == [pc : CallPcs, number : 0 .. MaxCalls, at : Nat]
CurType == {Idle} \cup [pc : {"fees", "send"}, nonce : Nat]

ClientTypes ==
    /\ now \in 0 .. MaxTime
    /\ pool \in SUBSET Tx /\ IsFiniteSet(pool)
    /\ mined \in Seq(Tx) /\ roots \subseteq Range(mined) /\ known \subseteq Tx
    /\ queue \in Seq(Batches)
    /\ cur \in [Batches -> CurType]
    /\ last \in {None} \cup [nonce : Nat, at : 0 .. MaxTime]
    /\ call \in [Batches -> CallType]
    /\ \A b \in Batches : call[b].pc # "none" => call[b].number > 0

LinkTypes ==
    /\ rpc \in {"down", "up"}
    /\ DOMAIN link = {"pc", "attempt", "due"}
    /\ link.pc \in {"off", "dial", "wait", "ready"} /\ link.attempt \in Nat
    /\ faults \in Seq(FaultKinds)

\* What is mined has the nonces from 0 on, and what waits has later ones, each its own.
MinedInv ==
    /\ \A k \in 1 .. Len(mined) : mined[k].nonce = k - 1
    /\ \A t, u \in pool : t.nonce = u.nonce => t = u
    /\ \A t \in pool : t.nonce >= Len(mined)

\* A batch waits in sendQueue once, and one call at a time chooses a nonce and sends.
QueueInv ==
    /\ \A j, k \in 1 .. Len(queue) : queue[j] = queue[k] => j = k
    /\ \A k \in 1 .. Len(queue) : call[queue[k]].pc = "queued"
    /\ \A b \in Batches : cur[b].pc # "idle" => call[b].pc = "sends"
    /\ \A a, b \in Batches : cur[a].pc # "idle" /\ cur[b].pc # "idle" => a = b

\* A transaction is known for the call that sent it, and no call sends twice.
KnownInv ==
    \A t \in known :
        /\ t.number <= call[t.batch].number
        /\ call[t.batch].pc \in {"queued", "sends"} => t.number # call[t.batch].number
        /\ \A u \in known : u.batch = t.batch /\ u.number = t.number => u = t

\* The transaction of a call that failed is mined without effect or can never be.
FailedInv ==
    \A t \in known :
        call[t.batch].pc = "failed" /\ call[t.batch].number = t.number
        => t.nonce < Len(mined) /\ t \notin roots

Clean == ~Failed("lost") /\ ~Failed("drop") /\ ~Failed("crash")

Nonces == {t.nonce : t \in Accepted}

\* n is the next nonce: every smaller one is taken, whoever is sending has chosen n, and the
\* service remembers when n - 1 was accepted.
NextIs(n) ==
    /\ Nonces = 0 .. n - 1
    /\ \A b \in Batches : cur[b].pc # "idle" => cur[b].nonce = n
    /\ last = None => n = 0
    /\ last # None => /\ n > 0 /\ last.nonce = n - 1
                      /\ \A t \in Accepted : t.nonce = n - 1 => t.at = last.at

NonceInv == Clean => \E n \in Nat : NextIs(n)

CallInv == ClientTypes /\ MinedInv /\ QueueInv /\ KnownInv /\ FailedInv

ClientInv == CallInv /\ LinkTypes /\ NonceInv

-----------------------------------------------------------------------------
(* Types *)

LEMMA EndsCall ==
    ASSUME ClientTypes, NEW b \in Batches, NEW pc \in CallPcs \ {"none"}, Ends(b, pc),
           call[b].pc # "none"
    PROVE  /\ call' \in [Batches -> CallType]
           /\ call'[b].pc = pc /\ call'[b].number = call[b].number
           /\ \A a \in Batches : a # b => call'[a] = call[a]
           /\ \A a \in Batches : call'[a].pc # "none" => call'[a].number > 0
<1> DEFINE c == [call[b] EXCEPT !.pc = pc]
<1>1. c \in CallType /\ c.pc = pc /\ c.number = call[b].number
    BY DEF ClientTypes, CallType
<1>2. call' = [call EXCEPT ![b] = c]
    BY DEF Ends
<1> HIDE DEF c
<1> QED
    BY <1>1, <1>2 DEF ClientTypes

\* A call that is over: no send of it is under way.
LEMMA ThrowsCall ==
    ASSUME ClientTypes, NEW b \in Batches, Throws(b), call[b].pc # "none"
    PROVE  /\ call' \in [Batches -> CallType] /\ cur' \in [Batches -> CurType]
           /\ call'[b].pc = "failed" /\ call'[b].number = call[b].number
           /\ cur'[b].pc = "idle"
           /\ \A a \in Batches : a # b => call'[a] = call[a] /\ cur'[a] = cur[a]
           /\ \A a \in Batches : call'[a].pc # "none" => call'[a].number > 0
<1>1. "failed" \in CallPcs \ {"none"} /\ Idle \in CurType /\ Idle.pc = "idle"
    BY DEF CallPcs, Over, CurType, Idle
<1>2. cur' = [cur EXCEPT ![b] = Idle] /\ Ends(b, "failed")
    BY DEF Throws
<1> QED
    BY <1>1, <1>2, EndsCall DEF ClientTypes

\* The transaction that enters is the only change of the mempool, with the nonce chosen.
LEMMA EntersPool ==
    ASSUME ClientTypes, QueueInv, NEW b \in Batches, Enters(b)
    PROVE  /\ TxOf(b, cur[b].nonce) \in Tx
           /\ cur[b].nonce \in Nat
           /\ pool' \in SUBSET Tx /\ IsFiniteSet(pool')
           /\ call[b].pc = "sends"
<1>1. cur[b].pc = "send" /\ cur[b] \in [pc : {"fees", "send"}, nonce : Nat]
    BY DEF Enters, ClientTypes, CurType, Idle
<1>2. call[b].pc = "sends" /\ call[b].number > 0 /\ call[b].number \in 0 .. MaxCalls
    BY <1>1 DEF QueueInv, ClientTypes, CallType
<1>3. call[b].number \in 1 .. MaxCalls /\ now \in 0 .. MaxTime
    BY <1>2, ChainConstants DEF ClientTypes
<1>4. TxOf(b, cur[b].nonce) \in Tx
    BY <1>1, <1>3 DEF TxOf, Tx
<1> DEFINE kept == {t \in pool : t.nonce # cur[b].nonce}
<1>5. kept \subseteq pool /\ pool' = kept \cup {TxOf(b, cur[b].nonce)}
    BY DEF Enters
<1>6. IsFiniteSet(kept)
    BY <1>5, FS_Subset DEF ClientTypes
<1> HIDE DEF kept
<1>7. IsFiniteSet(pool')
    BY <1>5, <1>6, FS_AddElement
<1> QED
    BY <1>1, <1>2, <1>4, <1>5, <1>7 DEF ClientTypes

LEMMA MinesOne ==
    ASSUME ClientTypes, Mine
    PROVE  \E t \in pool :
              /\ t.nonce = Len(mined) /\ pool' = pool \ {t}
              /\ mined' \in Seq(Tx) /\ Len(mined') = Len(mined) + 1
              /\ mined'[Len(mined) + 1] = t
              /\ \A k \in 1 .. Len(mined) : mined'[k] = mined[k]
              /\ Range(mined') = Range(mined) \cup {t}
              /\ roots' \in {roots, roots \cup {t}}
<1>1. PICK t \in pool : /\ t.nonce = Len(mined)
                        /\ pool' = pool \ {t} /\ mined' = Append(mined, t)
                        /\ roots' \in {roots, roots \cup {t}}
    BY DEF Mine
<1>2. t \in Tx /\ mined \in Seq(Tx)
    BY <1>1 DEF ClientTypes
<1>3. /\ mined' \in Seq(Tx) /\ Len(mined') = Len(mined) + 1
      /\ mined'[Len(mined) + 1] = t
      /\ \A k \in 1 .. Len(mined) : mined'[k] = mined[k]
    BY <1>1, <1>2, AppendProperties
<1>4. DOMAIN mined' = 1 .. Len(mined) + 1 /\ DOMAIN mined = 1 .. Len(mined)
    BY <1>2, <1>3
<1>5. Range(mined') = Range(mined) \cup {t}
    BY <1>2, <1>3, <1>4 DEF Range
<1> QED
    BY <1>1, <1>3, <1>5

-----------------------------------------------------------------------------
(* Nonces *)

LEMMA MaxOfTwo ==
    ASSUME NEW m \in Nat, NEW n \in Nat
    PROVE  Max({m, n}) = IF m >= n THEN m ELSE n
<1> DEFINE x == IF m >= n THEN m ELSE n
<1>1. x \in {m, n} /\ \A y \in {m, n} : x >= y
    OBVIOUS
<1>2. Max({m, n}) \in {m, n} /\ \A y \in {m, n} : Max({m, n}) >= y
    BY <1>1 DEF Max
<1> QED
    BY <1>1, <1>2

LEMMA AcceptedTypes ==
    ASSUME ClientTypes
    PROVE  /\ Accepted \subseteq Tx /\ IsFiniteSet(Accepted)
           /\ Nonces \subseteq Nat /\ IsFiniteSet(Nonces)
           /\ Cardinality(Accepted) \in Nat /\ Cardinality(Nonces) <= Cardinality(Accepted)
<1>1. DOMAIN mined = 1 .. Len(mined) /\ Len(mined) \in Nat /\ \A k \in 1 .. Len(mined) : mined[k] \in Tx
    BY DEF ClientTypes
<1> DEFINE D == 1 .. Len(mined)
           at == [k \in D |-> mined[k]]
<1>2. IsFiniteSet(D)
    BY <1>1, FS_Interval
<1>3. at \in Surjection(D, Range(mined))
    BY <1>1 DEF Surjection, Range
<1>4. IsFiniteSet(Range(mined))
    <2> HIDE DEF D, at
    <2> QED
        BY <1>2, <1>3, FS_Surjection
<1>5. Accepted \subseteq Tx /\ IsFiniteSet(Accepted)
    BY <1>1, <1>4, FS_Union DEF Accepted, ClientTypes, Range
<1> DEFINE nonce == [t \in Accepted |-> t.nonce]
<1>6. nonce \in Surjection(Accepted, Nonces)
    BY DEF Surjection, Nonces
<1>7. IsFiniteSet(Nonces) /\ Cardinality(Nonces) <= Cardinality(Accepted)
    <2> HIDE DEF nonce
    <2> QED
        BY <1>5, <1>6, FS_Surjection
<1>8. Nonces \subseteq Nat
    BY <1>5 DEF Nonces, Tx
<1> QED
    BY <1>5, <1>7, <1>8, FS_CardinalityType

\* The definition of the next nonce finds one, and it is the least that is free.
LEMMA LowestFreeIsFree ==
    ASSUME ClientTypes
    PROVE  /\ LowestFree \in Nat /\ LowestFree \notin Nonces
           /\ \A k \in 0 .. LowestFree - 1 : k \in Nonces
<1> DEFINE c == Cardinality(Accepted)
           free == {f \in 0 .. c : f \notin Nonces}
<1>1. c \in Nat /\ IsFiniteSet(Nonces) /\ Cardinality(Nonces) <= c /\ Cardinality(Nonces) \in Nat
    BY AcceptedTypes, FS_CardinalityType
<1>2. free # {}
    <2>1. ASSUME 0 .. c \subseteq Nonces PROVE FALSE
        <3>1. Cardinality(0 .. c) <= Cardinality(Nonces)
            BY <1>1, <2>1, FS_Subset
        <3>2. Cardinality(0 .. c) = c + 1
            <4> HIDE DEF c
            <4> QED
                BY <1>1, FS_Interval
        <3> HIDE DEF c
        <3> QED
            BY <1>1, <3>1, <3>2
    <2> QED
        BY <2>1
<1> HIDE DEF c
<1>3. PICK n \in free : \A m \in free : ~(<<m, n>> \in OpToRel(<, Nat))
    <2>1. free \subseteq Nat
        BY <1>1
    <2> HIDE DEF free
    <2> QED
        BY <1>2, <2>1, WFMin, NatLessThanWellFounded
<1>4. n \in 0 .. c /\ n \notin Nonces /\ n \in Nat
    <2>1. n \in 0 .. c /\ n \notin Nonces
        OBVIOUS
    <2> QED
        BY <1>1, <2>1
<1>5. ASSUME NEW k \in 0 .. n - 1 PROVE k \in Nonces
    <2>1. k \in Nat /\ k < n /\ k \in 0 .. c
        BY <1>1, <1>4
    <2>2. <<k, n>> \in OpToRel(<, Nat)
        BY <1>4, <2>1 DEF OpToRel
    <2>3. k \notin free
        BY <1>3, <2>2
    <2> QED
        BY <2>1, <2>3
<1> DEFINE Low(m) == /\ \A t \in Accepted : t.nonce # m
                     /\ \A k \in 0 .. m - 1 : \E t \in Accepted : t.nonce = k
<1>6. \A m : Low(m) <=> m \notin Nonces /\ \A k \in 0 .. m - 1 : k \in Nonces
    BY DEF Nonces
<1>7. Low(n)
    BY <1>4, <1>5, <1>6
<1>8. LowestFree = CHOOSE m \in 0 .. c : Low(m)
    BY DEF LowestFree, c
<1> HIDE DEF Low
<1>9. LowestFree \in 0 .. c /\ Low(LowestFree)
    BY <1>4, <1>7, <1>8
<1> QED
    BY <1>1, <1>6, <1>9

-----------------------------------------------------------------------------
(* What the steps keep *)

LEMMA MineKeeps ==
    ASSUME CallInv, Mine
    PROVE  CallInv'
<1> USE DEF CallInv
<1>1. PICK t \in pool :
              /\ t.nonce = Len(mined) /\ pool' = pool \ {t}
              /\ mined' \in Seq(Tx) /\ Len(mined') = Len(mined) + 1
              /\ mined'[Len(mined) + 1] = t
              /\ \A k \in 1 .. Len(mined) : mined'[k] = mined[k]
              /\ Range(mined') = Range(mined) \cup {t}
              /\ roots' \in {roots, roots \cup {t}}
    BY MinesOne
<1>2. UNCHANGED <<now, rpc, link, queue, cur, last, call, known, faults>>
    BY DEF Mine
<1>3. Len(mined) \in Nat
    BY DEF ClientTypes
<1>4. ClientTypes'
    <2>1. pool' \in SUBSET Tx /\ IsFiniteSet(pool')
        BY <1>1, FS_Subset DEF ClientTypes
    <2>2. roots' \subseteq Range(mined')
        BY <1>1 DEF ClientTypes
    <2> QED
        BY <1>1, <1>2, <2>1, <2>2 DEF ClientTypes
<1>5. MinedInv'
    <2>1. ASSUME NEW k \in 1 .. Len(mined') PROVE mined'[k].nonce = k - 1
        BY <1>1, <1>3 DEF MinedInv
    <2>2. ASSUME NEW u \in pool' PROVE u.nonce >= Len(mined')
        <3>1. u \in Tx /\ u \in pool /\ u # t
            BY <1>1, <2>2 DEF ClientTypes
        <3>2. u.nonce >= Len(mined) /\ u.nonce # Len(mined) /\ u.nonce \in Nat
            BY <1>1, <3>1 DEF MinedInv, Tx
        <3> QED
            BY <1>1, <1>3, <3>2
    <2>3. \A u, v \in pool' : u.nonce = v.nonce => u = v
        BY <1>1 DEF MinedInv
    <2> QED
        BY <2>1, <2>2, <2>3 DEF MinedInv
<1>6. QueueInv' /\ KnownInv'
    BY <1>2 DEF QueueInv, KnownInv
<1>7. FailedInv'
    <2>1. ASSUME NEW u \in known, u.nonce < Len(mined), u \notin roots
          PROVE  u.nonce < Len(mined') /\ u \notin roots'
        <3>1. u \in Tx /\ u # t
            BY <1>1, <1>3, <2>1 DEF ClientTypes, Tx
        <3> QED
            BY <1>1, <1>3, <2>1, <3>1 DEF Tx
    <2> QED
        BY <1>2, <2>1 DEF FailedInv
<1> QED
    BY <1>4, <1>5, <1>6, <1>7

LEMMA QuietKeeps ==
    ASSUME CallInv, UNCHANGED <<mined, roots, queue, cur, last, call, known>>,
           now' \in 0 .. MaxTime, pool' \in SUBSET pool
    PROVE  CallInv'
<1>1. pool' \in SUBSET Tx /\ IsFiniteSet(pool')
    BY FS_Subset DEF CallInv, ClientTypes
<1>2. ClientTypes'
    BY <1>1 DEF CallInv, ClientTypes
<1> QED
    BY <1>2 DEF CallInv, MinedInv, QueueInv, KnownInv, FailedInv

LEMMA RestartKeeps ==
    ASSUME CallInv, Restart
    PROVE  CallInv'
<1> USE DEF CallInv
<1>1. /\ queue' = <<>> /\ last' = None /\ UNCHANGED <<now, chain, known>>
      /\ cur' = [b \in Batches |-> Idle]
    BY DEF Restart
<1>2. ASSUME NEW b \in Batches
      PROVE  /\ call'[b] \in CallType /\ call'[b].number = call[b].number
             /\ call'[b].pc = IF call[b].pc \in Over THEN call[b].pc ELSE "gone"
    <2>1. call'[b] = IF call[b].pc \in Over THEN call[b] ELSE [call[b] EXCEPT !.pc = "gone"]
        BY DEF Restart
    <2>2. call[b] \in CallType
        BY DEF ClientTypes
    <2>3. "gone" \in CallPcs
        BY DEF CallPcs, Over
    <2>4. CASE call[b].pc \in Over
        BY <2>1, <2>2, <2>4
    <2>5. CASE call[b].pc \notin Over
        BY <2>1, <2>2, <2>3, <2>5 DEF CallType
    <2> QED
        BY <2>4, <2>5
<1>3. \A b \in Batches : call'[b].pc \notin {"queued", "sends"}
                         /\ (call'[b].pc = "failed" => call[b].pc = "failed")
                         /\ (call'[b].pc # "none" => call[b].pc # "none")
    BY <1>2 DEF Over
<1>4. call' \in [Batches -> CallType]
    BY <1>2 DEF Restart
<1>5. \A b \in Batches : cur'[b] \in CurType /\ cur'[b].pc = "idle"
    BY <1>1 DEF CurType, Idle
<1>6. cur' \in [Batches -> CurType]
    BY <1>1, <1>5
<1>7. ClientTypes'
    <2>1. \A b \in Batches : call'[b].pc # "none" => call'[b].number > 0
        BY <1>2, <1>3 DEF ClientTypes
    <2>2. queue' \in Seq(Batches) /\ last' = None
        BY <1>1
    <2>3. UNCHANGED <<now, pool, mined, roots, known>>
        BY <1>1 DEF chain
    <2> QED
        BY <1>4, <1>6, <2>1, <2>2, <2>3 DEF ClientTypes
<1>8. MinedInv' /\ QueueInv'
    BY <1>1, <1>5 DEF MinedInv, QueueInv, chain
<1>9. KnownInv' /\ FailedInv'
    <2>1. \A t \in known : t.batch \in Batches
        BY DEF ClientTypes, Tx
    <2> QED
        BY <1>1, <1>2, <1>3, <2>1 DEF KnownInv, FailedInv, chain
<1> QED
    BY <1>7, <1>8, <1>9

LEMMA StoreRootKeeps ==
    ASSUME CallInv, NEW b \in Batches, StoreRoot(b)
    PROVE  CallInv'
<1> USE DEF CallInv
<1>1. /\ call[b].pc \in Over /\ call[b].number < MaxCalls
      /\ call' = [call EXCEPT ![b] = [pc |-> "queued", number |-> call[b].number + 1, at |-> 0]]
      /\ queue' = Append(queue, b)
      /\ UNCHANGED <<now, chain, cur, last, known>>
    BY DEF StoreRoot
<1>2. /\ call'[b] = [pc |-> "queued", number |-> call[b].number + 1, at |-> 0]
      /\ \A a \in Batches : a # b => call'[a] = call[a]
    BY <1>1 DEF ClientTypes
<1>3. call[b].number \in Nat /\ MaxCalls \in Nat /\ call[b].number + 1 \in 1 .. MaxCalls
    BY <1>1, ChainConstants DEF ClientTypes, CallType
<1>4. [pc |-> "queued", number |-> call[b].number + 1, at |-> 0] \in CallType
    BY <1>3 DEF CallType, CallPcs
<1>5. call' \in [Batches -> CallType]
    BY <1>1, <1>4 DEF ClientTypes
<1>6. /\ queue' \in Seq(Batches) /\ Len(queue') = Len(queue) + 1 /\ Len(queue) \in Nat
      /\ queue'[Len(queue) + 1] = b /\ \A k \in 1 .. Len(queue) : queue'[k] = queue[k]
    BY <1>1, AppendProperties DEF ClientTypes
<1>7. ClientTypes'
    <2>1. \A a \in Batches : call'[a].pc # "none" => call'[a].number > 0
        BY <1>2, <1>3 DEF ClientTypes
    <2> QED
        BY <1>1, <1>5, <1>6, <2>1 DEF ClientTypes, chain
<1>8. QueueInv'
    <2>1. \A k \in 1 .. Len(queue) : queue[k] # b
        BY <1>1 DEF QueueInv, Over
    <2>2. \A k \in 1 .. Len(queue') : k \in 1 .. Len(queue) \/ k = Len(queue) + 1
        BY <1>6
    <2>3. \A j, k \in 1 .. Len(queue') : queue'[j] = queue'[k] => j = k
        BY <1>6, <2>1, <2>2 DEF QueueInv
    <2>4. \A k \in 1 .. Len(queue') : call'[queue'[k]].pc = "queued"
        <3>1. \A k \in 1 .. Len(queue) : queue[k] \in Batches
            BY DEF ClientTypes
        <3> QED
            BY <1>2, <1>6, <2>1, <2>2, <3>1 DEF QueueInv
    <2>5. \A a \in Batches : cur[a].pc # "idle" => a # b
        BY <1>1 DEF QueueInv, Over
    <2> QED
        BY <1>1, <1>2, <2>3, <2>4, <2>5 DEF QueueInv
<1>9. KnownInv' /\ FailedInv' /\ MinedInv'
    <2>1. \A t \in known : t.batch \in Batches /\ t.number \in Nat
        BY DEF ClientTypes, Tx
    <2>2. \A t \in known : t.batch = b => t.number < call'[b].number
        BY <1>2, <1>3, <2>1 DEF KnownInv
    <2>3. KnownInv'
        BY <1>1, <1>2, <1>3, <2>1, <2>2 DEF KnownInv
    <2>4. FailedInv'
        BY <1>1, <1>2, <2>1 DEF FailedInv, chain
    <2> QED
        BY <1>1, <2>3, <2>4 DEF MinedInv, chain
<1> QED
    BY <1>7, <1>8, <1>9

\* A call under way that ends, well or not, without having sent its transaction.
LEMMA ThrowsKeeps ==
    ASSUME ClientTypes, QueueInv, KnownInv, FailedInv, NEW b \in Batches, Throws(b),
           call[b].pc \in {"queued", "sends"}, UNCHANGED <<mined, roots, known>>,
           \A a \in Batches : cur[a].pc # "idle" => a = b
    PROVE  /\ KnownInv' /\ FailedInv'
           /\ \A a \in Batches : cur'[a].pc = "idle"
<1>1. /\ call'[b].pc = "failed" /\ call'[b].number = call[b].number
      /\ cur'[b].pc = "idle"
      /\ \A a \in Batches : a # b => call'[a] = call[a] /\ cur'[a] = cur[a]
    BY ThrowsCall
<1>2. \A t \in known : t.batch \in Batches
    BY DEF ClientTypes, Tx
<1>3. \A t \in known : t.batch = b => t.number # call[b].number
    BY DEF KnownInv
<1> QED
    BY <1>1, <1>2, <1>3 DEF KnownInv, FailedInv

LEMMA SendKeeps ==
    ASSUME CallInv, NEW b \in Batches, cur[b].pc # "idle", Throws(b),
           \/ UNCHANGED pool
           \/ Enters(b),
           UNCHANGED <<now, mined, roots, queue, last, known>>
    PROVE  CallInv'
<1> USE DEF CallInv
<1>1. call[b].pc = "sends" /\ \A a \in Batches : cur[a].pc # "idle" => a = b
    BY DEF QueueInv
<1>2. /\ call' \in [Batches -> CallType] /\ cur' \in [Batches -> CurType]
      /\ call'[b].pc = "failed"
      /\ \A a \in Batches : a # b => call'[a] = call[a]
      /\ \A a \in Batches : call'[a].pc # "none" => call'[a].number > 0
    BY <1>1, ThrowsCall
<1>3. KnownInv' /\ FailedInv' /\ \A a \in Batches : cur'[a].pc = "idle"
    BY <1>1, ThrowsKeeps
<1>4. pool' \in SUBSET Tx /\ IsFiniteSet(pool')
    BY EntersPool DEF ClientTypes
<1>5. ClientTypes'
    BY <1>2, <1>4 DEF ClientTypes
<1>6. MinedInv'
    <2>1. CASE UNCHANGED pool
        BY <2>1 DEF MinedInv
    <2>2. CASE Enters(b)
        BY <2>2 DEF Enters, MinedInv, TxOf
    <2> QED
        BY <2>1, <2>2
<1>7. QueueInv'
    <2>1. \A k \in 1 .. Len(queue) : queue[k] \in Batches /\ queue[k] # b
        BY <1>1 DEF ClientTypes, QueueInv
    <2> QED
        BY <1>2, <1>3, <2>1 DEF QueueInv
<1> QED
    BY <1>3, <1>5, <1>6, <1>7

LEMMA HintIsNatural ==
    ASSUME ClientTypes
    PROVE  Hint \in Nat
<1>1. last # None => last.nonce \in Nat
    BY DEF ClientTypes
<1> QED
    BY <1>1 DEF Hint

\* The nonce AskNonce chooses, and the batch it is for.
AsksFor(b) ==
    /\ call[b].pc = "queued"
    /\ queue' \in Seq(Batches) /\ Len(queue') = Len(queue) - 1
    /\ \A k \in 1 .. Len(queue') : queue'[k] = queue[k + 1] /\ queue'[k] # b
    /\ UNCHANGED <<now, chain, last, known>>
    /\ \/ /\ \E pending \in PendingNonces :
               /\ pending \in Nat
               /\ cur' = [cur EXCEPT ![b] = [pc |-> "fees", nonce |-> Max({pending, Hint})]]
          /\ Ends(b, "sends") /\ NoFault
       \/ Throws(b) /\ Fault("rpc")

LEMMA AskNonceEffect ==
    ASSUME CallInv, AskNonce
    PROVE  /\ \A a \in Batches : cur[a].pc = "idle"
           /\ \E b \in Batches : AsksFor(b)
<1>1. \A a \in Batches : cur[a].pc = "idle"
    BY DEF AskNonce, SendFree, Idle
<1> DEFINE b == Head(queue)
<1>2. queue \in Seq(Batches) /\ queue # <<>>
    BY DEF AskNonce, CallInv, ClientTypes
<1>3. /\ b \in Batches /\ queue' \in Seq(Batches) /\ Len(queue') = Len(queue) - 1
      /\ \A k \in 1 .. Len(queue') : queue'[k] = queue[k + 1]
      /\ Len(queue) \in Nat /\ Len(queue) > 0 /\ b = queue[1]
    BY <1>2, HeadTailProperties DEF AskNonce
<1>4. call[b].pc = "queued"
    BY <1>3 DEF CallInv, QueueInv
<1>5. ASSUME NEW k \in 1 .. Len(queue') PROVE queue'[k] # b
    BY <1>3 DEF CallInv, QueueInv
<1>6. \A pending \in PendingNonces : pending \in Nat
    BY LowestFreeIsFree DEF PendingNonces, CallInv
<1>7. UNCHANGED <<now, chain, last, known>>
    BY DEF AskNonce
<1>8. \/ /\ \E pending \in PendingNonces :
                cur' = [cur EXCEPT ![b] = [pc |-> "fees", nonce |-> Max({pending, Hint})]]
         /\ Ends(b, "sends") /\ NoFault
      \/ Throws(b) /\ Fault("rpc")
    BY DEF AskNonce
<1> HIDE DEF b
<1> QED
    BY <1>1, <1>3, <1>4, <1>5, <1>6, <1>7, <1>8 DEF AsksFor

LEMMA AskNonceKeeps ==
    ASSUME CallInv, AskNonce
    PROVE  CallInv'
<1>1. /\ \A a \in Batches : cur[a].pc = "idle"
      /\ \E b \in Batches : AsksFor(b)
    BY AskNonceEffect
<1>2. PICK b \in Batches : AsksFor(b)
    BY <1>1
<1> USE DEF CallInv, AsksFor
<1>3. ASSUME call' \in [Batches -> CallType], cur' \in [Batches -> CurType],
             \A a \in Batches : a # b => call'[a] = call[a] /\ cur'[a] = cur[a],
             \A a \in Batches : call'[a].pc # "none" => call'[a].number > 0,
             cur'[b].pc # "idle" => call'[b].pc = "sends"
      PROVE  ClientTypes' /\ MinedInv' /\ QueueInv'
    <2>1. ClientTypes'
        BY <1>2, <1>3 DEF ClientTypes, chain
    <2>2. MinedInv'
        BY <1>2 DEF MinedInv, chain
    <2>3. ASSUME NEW k \in 1 .. Len(queue')
          PROVE  k + 1 \in 1 .. Len(queue) /\ queue'[k] = queue[k + 1] /\ queue[k + 1] \in Batches
                 /\ queue[k + 1] # b
        <3>1. Len(queue) \in Nat /\ k \in Nat
            BY DEF ClientTypes
        <3>2. k + 1 \in 1 .. Len(queue)
            BY <1>2, <2>3, <3>1
        <3>3. queue'[k] = queue[k + 1] /\ queue'[k] # b
            BY <1>2
        <3>4. queue[k + 1] \in Batches
            BY <3>2 DEF ClientTypes
        <3> QED
            BY <3>2, <3>3, <3>4
    <2>4. \A j, k \in 1 .. Len(queue') : queue'[j] = queue'[k] => j = k
        BY <2>3 DEF QueueInv
    <2>5. \A k \in 1 .. Len(queue') : call'[queue'[k]].pc = "queued"
        BY <1>3, <2>3 DEF QueueInv
    <2>6. \A a \in Batches : cur'[a].pc # "idle" => a = b
        BY <1>1, <1>3
    <2> QED
        BY <1>3, <2>1, <2>2, <2>4, <2>5, <2>6 DEF QueueInv
<1>4. CASE Throws(b)
    <2>1. /\ call' \in [Batches -> CallType] /\ cur' \in [Batches -> CurType]
          /\ cur'[b].pc = "idle"
          /\ \A a \in Batches : a # b => call'[a] = call[a] /\ cur'[a] = cur[a]
          /\ \A a \in Batches : call'[a].pc # "none" => call'[a].number > 0
        BY <1>2, <1>4, ThrowsCall
    <2>2. KnownInv' /\ FailedInv'
        BY <1>1, <1>2, <1>4, ThrowsKeeps DEF chain
    <2> QED
        BY <1>3, <2>1, <2>2
<1>5. ASSUME NEW pending \in Nat, Ends(b, "sends"),
             cur' = [cur EXCEPT ![b] = [pc |-> "fees", nonce |-> Max({pending, Hint})]]
      PROVE  CallInv'
    <2>1. "sends" \in CallPcs \ {"none"}
        BY DEF CallPcs, Over
    <2>2. /\ call' \in [Batches -> CallType]
          /\ call'[b].pc = "sends" /\ call'[b].number = call[b].number
          /\ \A a \in Batches : a # b => call'[a] = call[a]
          /\ \A a \in Batches : call'[a].pc # "none" => call'[a].number > 0
        BY <1>2, <1>5, <2>1, EndsCall
    <2>3. Max({pending, Hint}) \in Nat
        BY <1>5, HintIsNatural, MaxOfTwo
    <2>7. [pc |-> "fees", nonce |-> Max({pending, Hint})] \in CurType
        BY <2>3 DEF CurType
    <2>4. cur' \in [Batches -> CurType] /\ \A a \in Batches : a # b => cur'[a] = cur[a]
        BY <1>5, <2>7 DEF ClientTypes
    <2>5. \A t \in known : t.batch \in Batches
        BY DEF ClientTypes, Tx
    <2>6. KnownInv' /\ FailedInv'
        BY <1>2, <2>2, <2>5 DEF KnownInv, FailedInv, chain
    <2> QED
        BY <1>3, <2>2, <2>4, <2>6
<1> QED
    BY <1>2, <1>4, <1>5

LEMMA FeesKeep ==
    ASSUME CallInv, NEW b \in Batches, CappedFees(b)
    PROVE  CallInv'
<1> USE DEF CallInv
<1>1. CASE Throws(b)
    BY <1>1, SendKeeps DEF CappedFees, chain
<1>2. CASE cur' = [cur EXCEPT ![b].pc = "send"] /\ UNCHANGED call
    <2> DEFINE c == [cur[b] EXCEPT !.pc = "send"]
    <2>1. cur[b].pc = "fees" /\ cur[b] \in [pc : {"fees", "send"}, nonce : Nat]
        BY DEF CappedFees, ClientTypes, CurType, Idle
    <2>2. c \in CurType
        BY <2>1 DEF CurType
    <2>3. cur' = [cur EXCEPT ![b] = c]
        BY <1>2
    <2> HIDE DEF c
    <2>4. cur' \in [Batches -> CurType] /\ \A a \in Batches : a # b => cur'[a] = cur[a]
        BY <2>2, <2>3 DEF ClientTypes
    <2>5. UNCHANGED <<now, chain, queue, last, known, call>>
        BY <1>2 DEF CappedFees
    <2>6. ClientTypes'
        BY <2>4, <2>5 DEF ClientTypes, chain
    <2>7. \A a \in Batches : cur'[a].pc # "idle" => cur[a].pc # "idle"
        BY <2>1, <2>4
    <2> QED
        BY <2>5, <2>6, <2>7 DEF MinedInv, QueueInv, KnownInv, FailedInv, chain
<1> QED
    BY <1>1, <1>2 DEF CappedFees

LEMMA BroadcastKeeps ==
    ASSUME CallInv, NEW b \in Batches, Broadcast(b)
    PROVE  CallInv'
<1> USE DEF CallInv
<1> DEFINE tx == TxOf(b, cur[b].nonce)
<1>1. /\ tx \in Tx /\ cur[b].nonce \in Nat /\ pool' \in SUBSET Tx /\ IsFiniteSet(pool')
      /\ call[b].pc = "sends"
    BY EntersPool DEF Broadcast
<1>2. /\ last' = [nonce |-> cur[b].nonce, at |-> now] /\ known' = known \cup {tx}
      /\ call' = [call EXCEPT ![b] = [pc |-> "waits", number |-> call[b].number, at |-> now]]
      /\ cur' = [cur EXCEPT ![b] = Idle]
      /\ UNCHANGED <<now, mined, roots, queue>>
    BY DEF Broadcast
<1>3. tx.batch = b /\ tx.number = call[b].number /\ tx.nonce = cur[b].nonce
    BY DEF TxOf
<1>4. cur[b].nonce >= Len(mined) /\ pool' = {t \in pool : t.nonce # cur[b].nonce} \cup {tx}
    BY DEF Broadcast, Enters
<1> HIDE DEF tx
<1>5. /\ call'[b] = [pc |-> "waits", number |-> call[b].number, at |-> now]
      /\ \A a \in Batches : a # b => call'[a] = call[a] /\ cur'[a] = cur[a]
      /\ cur'[b] = Idle
    BY <1>2 DEF ClientTypes
<1>6. ClientTypes'
    <2>1. [pc |-> "waits", number |-> call[b].number, at |-> now] \in CallType
        BY DEF CallType, CallPcs, ClientTypes
    <2>2. call' \in [Batches -> CallType]
        BY <1>2, <2>1 DEF ClientTypes
    <2>3. cur' \in [Batches -> CurType]
        BY <1>2 DEF ClientTypes, CurType
    <2>4. last' \in {None} \cup [nonce : Nat, at : 0 .. MaxTime]
        BY <1>1, <1>2 DEF ClientTypes
    <2>5. \A a \in Batches : call'[a].pc # "none" => call'[a].number > 0
        BY <1>1, <1>5 DEF ClientTypes
    <2>6. known' \subseteq Tx
        BY <1>1, <1>2 DEF ClientTypes
    <2> QED
        BY <1>1, <1>2, <2>2, <2>3, <2>4, <2>5, <2>6 DEF ClientTypes
<1>7. MinedInv'
    BY <1>2, <1>3, <1>4 DEF MinedInv
<1>8. QueueInv'
    <2>1. \A k \in 1 .. Len(queue) : queue[k] \in Batches /\ queue[k] # b
        BY <1>1 DEF ClientTypes, QueueInv
    <2>2. cur'[b].pc = "idle"
        BY <1>5 DEF Idle
    <2> QED
        BY <1>2, <1>5, <2>1, <2>2 DEF QueueInv
<1>9. KnownInv' /\ FailedInv'
    <2>1. \A t \in known : t.batch \in Batches
        BY DEF ClientTypes, Tx
    <2>2. \A t \in known : t.batch = b => t.number # call[b].number
        BY <1>1 DEF KnownInv
    <2>3. KnownInv'
        <3>1. ASSUME NEW t \in known'
              PROVE  /\ t.number <= call'[t.batch].number
                     /\ call'[t.batch].pc \in {"queued", "sends"} => t.number # call'[t.batch].number
            <4>1. CASE t = tx
                <5>1. call[b].number \in Int
                    BY DEF ClientTypes, CallType
                <5> QED
                    BY <1>3, <1>5, <4>1, <5>1
            <4> QED
                BY <1>2, <1>5, <2>1, <4>1 DEF KnownInv
        <3>2. ASSUME NEW t \in known', NEW u \in known', u.batch = t.batch, u.number = t.number
              PROVE  u = t
            BY <1>2, <1>3, <2>2, <3>2 DEF KnownInv
        <3> QED
            BY <3>1, <3>2 DEF KnownInv
    <2>4. FailedInv'
        BY <1>2, <1>3, <1>5, <2>1 DEF FailedInv
    <2> QED
        BY <2>3, <2>4
<1> QED
    BY <1>6, <1>7, <1>8, <1>9

LEMMA WaitKeeps ==
    ASSUME CallInv, Wait
    PROVE  CallInv'
<1> USE DEF CallInv
<1>1. PICK t \in known : /\ call[t.batch].pc = "waits" /\ call[t.batch].number = t.number
                         /\ Receipt(t) \/ Deadline(t)
    BY DEF Wait
<1>2. UNCHANGED <<now, chain, queue, cur, last, known>>
    BY DEF Wait
<1>3. t \in Tx /\ t.batch \in Batches
    BY DEF ClientTypes, Tx
<1>4. PICK pc \in {"confirmed", "failed", "unconfirmed"} :
            /\ Ends(t.batch, pc)
            /\ pc = "failed" => (Mined(t) \/ Replaced(t)) /\ t \notin roots
    BY <1>1 DEF Receipt, Deadline, UnknownOutcome
<1>5. /\ call' \in [Batches -> CallType]
      /\ call'[t.batch].pc = pc /\ call'[t.batch].number = call[t.batch].number
      /\ \A a \in Batches : a # t.batch => call'[a] = call[a]
      /\ \A a \in Batches : call'[a].pc # "none" => call'[a].number > 0
    <2>1. pc \in CallPcs \ {"none"}
        BY DEF CallPcs, Over
    <2> QED
        BY <1>1, <1>3, <1>4, <2>1, EndsCall
<1>6. ClientTypes' /\ MinedInv'
    BY <1>2, <1>5 DEF ClientTypes, MinedInv, chain
<1>7. QueueInv'
    <2>1. \A k \in 1 .. Len(queue) : queue[k] \in Batches /\ queue[k] # t.batch
        BY <1>1 DEF ClientTypes, QueueInv
    <2>2. cur[t.batch].pc = "idle"
        BY <1>1, <1>3 DEF QueueInv
    <2> QED
        BY <1>2, <1>5, <2>1, <2>2 DEF QueueInv
<1>8. \A u \in known : u.batch \in Batches
    BY DEF ClientTypes, Tx
<1>9. KnownInv'
    BY <1>2, <1>5, <1>8 DEF KnownInv
<1>10. FailedInv'
    <2>1. ASSUME pc = "failed" PROVE t.nonce < Len(mined) /\ t \notin roots
        <3>1. CASE Mined(t)
            <4>1. PICK k \in 1 .. Len(mined) : t = mined[k]
                BY <3>1 DEF Mined, Range, ClientTypes
            <4>2. t.nonce = k - 1 /\ Len(mined) \in Nat
                BY <4>1 DEF MinedInv, ClientTypes
            <4> QED
                BY <1>4, <2>1, <4>2
        <3>2. CASE Replaced(t)
            BY <1>4, <2>1, <3>2 DEF Replaced
        <3> QED
            BY <1>4, <2>1, <3>1, <3>2
    <2>2. \A u \in known : u.batch = t.batch /\ u.number = t.number => u = t
        BY DEF KnownInv
    <2>3. ASSUME NEW u \in known, call'[u.batch].pc = "failed", call'[u.batch].number = u.number
          PROVE  u.nonce < Len(mined) /\ u \notin roots
        <3>1. CASE u.batch = t.batch
            BY <1>1, <1>5, <2>1, <2>2, <2>3, <3>1
        <3>2. CASE u.batch # t.batch
            BY <1>5, <1>8, <2>3, <3>2 DEF FailedInv
        <3> QED
            BY <3>1, <3>2
    <2> QED
        BY <1>2, <2>3 DEF FailedInv, chain
<1> QED
    BY <1>6, <1>7, <1>9, <1>10

LEMMA CallsInSteps ==
    ASSUME CallInv, [Next]_vars
    PROVE  CallInv'
<1>1. CASE Tick \/ RpcUp \/ Dial \/ Redial \/ UNCHANGED vars \/ Drop
    <2>1. UNCHANGED <<mined, roots, queue, cur, last, call, known>>
        BY <1>1 DEF Tick, RpcUp, Dial, Redial, Drop, vars, chain
    <2>2. now' \in 0 .. MaxTime
        BY <1>1, ChainConstants
           DEF Tick, RpcUp, Dial, Redial, Drop, vars, CallInv, ClientTypes
    <2>3. pool' \in SUBSET pool
        BY <1>1 DEF Tick, RpcUp, Dial, Redial, Drop, vars, chain
    <2> QED
        BY <2>1, <2>2, <2>3, QuietKeeps
<1>2. ASSUME NEW b \in Batches, NotAccepted(b) \/ AnswerLost(b)
      PROVE  CallInv'
    <2>1. cur[b].pc # "idle" /\ Throws(b)
        BY <1>2 DEF NotAccepted, AnswerLost, Enters
    <2>2. UNCHANGED pool \/ Enters(b)
        BY <1>2 DEF NotAccepted, AnswerLost, chain
    <2>3. UNCHANGED <<now, mined, roots, queue, last, known>>
        BY <1>2 DEF NotAccepted, AnswerLost, chain
    <2> QED
        BY <2>1, <2>2, <2>3, SendKeeps
<1> QED
    BY <1>1, <1>2, MineKeeps, RestartKeeps, StoreRootKeeps, AskNonceKeeps, FeesKeep,
       BroadcastKeeps, WaitKeeps DEF Next, Network, Connection, Send

\* Failures only add up: what a step leaves clean was clean before.
LEMMA CleanStays ==
    ASSUME faults \in Seq(FaultKinds), [Next]_vars
    PROVE  /\ faults' \in Seq(FaultKinds)
           /\ Clean' => /\ Clean
                        /\ ~Restart /\ ~Drop /\ \A b \in Batches : ~AnswerLost(b)
<1>1. ASSUME NEW k, Fault(k)
      PROVE  /\ faults' \in Seq(FaultKinds)
             /\ Range(faults') = Range(faults) \cup {k}
    <2>1. k \in FaultKinds /\ faults' = Append(faults, k)
        BY <1>1 DEF Fault
    <2>2. /\ faults' \in Seq(FaultKinds) /\ Len(faults') = Len(faults) + 1 /\ Len(faults) \in Nat
          /\ faults'[Len(faults) + 1] = k
          /\ \A i \in 1 .. Len(faults) : faults'[i] = faults[i]
        BY <2>1, AppendProperties
    <2>3. DOMAIN faults' = 1 .. Len(faults) + 1 /\ DOMAIN faults = 1 .. Len(faults)
        BY <2>2
    <2> QED
        BY <2>2, <2>3 DEF Range
<1>2. UNCHANGED faults \/ \E k : Fault(k)
    BY DEF Next, Network, Connection, Send, Tick, RpcUp, Mine, Drop, Dial, Redial, Restart, AskNonce,
           Wait, Receipt, Deadline, StoreRoot, CappedFees, NotAccepted, Broadcast, AnswerLost,
           NoFault, vars
<1>3. faults' \in Seq(FaultKinds)
    BY <1>1, <1>2
<1>4. Range(faults) \subseteq Range(faults')
    BY <1>1, <1>2
<1>5. Restart => "crash" \in Range(faults')
    BY <1>1 DEF Restart
<1>6. Drop => "drop" \in Range(faults')
    BY <1>1 DEF Drop
<1>7. \A b \in Batches : AnswerLost(b) => "lost" \in Range(faults')
    BY <1>1 DEF AnswerLost
<1> QED
    BY <1>3, <1>4, <1>5, <1>6, <1>7 DEF Clean, Failed

\* The next nonce is the one the definition of the mempool finds.
LEMMA NextIsLowestFree ==
    ASSUME ClientTypes, NEW n \in Nat, Nonces = 0 .. n - 1
    PROVE  LowestFree = n
<1>1. /\ LowestFree \in Nat /\ LowestFree \notin 0 .. n - 1
      /\ \A k \in 0 .. LowestFree - 1 : k \in 0 .. n - 1
    BY LowestFreeIsFree
<1>2. ASSUME LowestFree > n PROVE FALSE
    <2>1. n \in 0 .. LowestFree - 1
        BY <1>1, <1>2
    <2>2. n \in 0 .. n - 1
        BY <1>1, <2>1
    <2> QED
        BY <2>2
<1>3. ASSUME LowestFree < n PROVE FALSE
    <2>1. LowestFree \in 0 .. n - 1
        BY <1>1, <1>3
    <2> QED
        BY <1>1, <2>1
<1> QED
    BY <1>1, <1>2, <1>3

\* Whatever a lagging node answers, the hint makes up for it.
LEMMA ChosenIsNext ==
    ASSUME ClientTypes, NEW n \in Nat, NextIs(n), NEW pending \in PendingNonces, pending \in Nat
    PROVE  Max({pending, Hint}) = n
<1>1. LowestFree = n
    BY NextIsLowestFree DEF NextIs
<1>2. pending \in 0 .. n /\ \A t \in Accepted : t.nonce \in pending .. n - 1 => now - t.at < Lag
    BY <1>1 DEF PendingNonces
<1>3. Hint \in Nat /\ Hint <= n
    <2>1. CASE last = None
        BY <2>1 DEF Hint
    <2>2. CASE last # None
        BY <2>2 DEF Hint, NextIs
    <2> QED
        BY <2>1, <2>2
<1>4. CASE pending = n
    BY <1>3, <1>4, MaxOfTwo
<1>5. CASE pending < n
    <2>1. n - 1 \in Nonces /\ n - 1 \in pending .. n - 1
        BY <1>2, <1>5 DEF NextIs
    <2>2. PICK t \in Accepted : t.nonce = n - 1
        BY <2>1 DEF Nonces
    <2>3. now - t.at < Lag
        BY <1>2, <2>1, <2>2
    <2>4. last # None /\ last.at = t.at /\ last.nonce = n - 1
        BY <1>2, <1>5, <2>2 DEF NextIs
    <2>5. t \in Tx
        BY <2>2, AcceptedTypes
    <2>6. t.at \in Nat
        BY <2>5 DEF Tx
    <2>7. now \in Nat
        BY DEF ClientTypes
    <2>8. Lag \in Nat /\ HintTtl \in Nat /\ Lag <= HintTtl
        BY ChainConstants
    <2>9. now - last.at < HintTtl
        BY <2>3, <2>4, <2>6, <2>7, <2>8
    <2>10. Hint = n
        BY <2>4, <2>9 DEF Hint
    <2> QED
        BY <1>2, <1>5, <2>10, MaxOfTwo
<1> QED
    BY <1>2, <1>4, <1>5

LEMMA NextKept ==
    ASSUME NEW n \in Nat, NextIs(n), Accepted' = Accepted, last' = last,
           \A b \in Batches : cur'[b].pc # "idle" => cur'[b].nonce = n
    PROVE  NextIs(n)'
BY DEF NextIs, Nonces

\* The transaction that is sent takes the next nonce, and the one after it is next.
LEMMA BroadcastMovesNext ==
    ASSUME CallInv, NEW n \in Nat, NextIs(n), NEW b \in Batches, Broadcast(b)
    PROVE  NextIs(n + 1)'
<1> DEFINE tx == TxOf(b, cur[b].nonce)
<1>1. cur[b].nonce = n /\ \A a \in Batches : a # b => cur[a].pc = "idle"
    BY DEF Broadcast, Enters, NextIs, CallInv, QueueInv
<1>2. /\ last' = [nonce |-> n, at |-> now]
      /\ cur' = [cur EXCEPT ![b] = Idle] /\ mined' = mined
      /\ pool' = {t \in pool : t.nonce # n} \cup {tx}
    BY <1>1 DEF Broadcast, Enters
<1>3. tx.nonce = n /\ tx.at = now
    BY <1>1 DEF TxOf
<1> HIDE DEF tx
<1>4. \A t \in Accepted : t.nonce \in 0 .. n - 1
    BY DEF NextIs, Nonces
<1>5. \A t \in Accepted : t.nonce # n
    BY <1>4
<1>6. Accepted' = Accepted \cup {tx}
    BY <1>2, <1>5 DEF Accepted
<1>7. Nonces' = 0 .. n
    <2>1. Nonces' = Nonces \cup {n}
        BY <1>3, <1>6 DEF Nonces
    <2>2. Nonces = 0 .. n - 1
        BY DEF NextIs
    <2> QED
        BY <2>1, <2>2
<1>8. 0 .. n = 0 .. (n + 1) - 1 /\ n + 1 > 0 /\ (n + 1) - 1 = n
    OBVIOUS
<1>9. \A a \in Batches : cur'[a].pc = "idle"
    BY <1>1, <1>2 DEF Idle, CallInv, ClientTypes
<1>10. \A t \in Accepted' : t.nonce = n => t.at = now
    BY <1>3, <1>5, <1>6
<1>11. last' # None /\ last'.nonce = n /\ last'.at = now
    <2>1. last'.nonce = n /\ last'.at = now
        BY <1>2
    <2>2. DOMAIN last' = {"nonce", "at"} /\ DOMAIN None = {}
        BY <1>2 DEF None
    <2> QED
        BY <2>1, <2>2
<1> QED
    BY <1>7, <1>8, <1>9, <1>10, <1>11 DEF NextIs

LEMMA NonceInSteps ==
    ASSUME ClientInv, [Next]_vars
    PROVE  NonceInv'
<1> SUFFICES ASSUME Clean' PROVE \E n \in Nat : NextIs(n)'
    BY DEF NonceInv
<1> USE DEF ClientInv
<1>1. Clean /\ ~Restart /\ ~Drop /\ \A b \in Batches : ~AnswerLost(b)
    BY CleanStays DEF LinkTypes
<1>2. PICK n \in Nat : NextIs(n)
    BY <1>1 DEF NonceInv
<1>3. \A b \in Batches : cur[b].pc # "idle" => cur[b].nonce = n
    BY <1>2 DEF NextIs
<1>4. ASSUME UNCHANGED <<pool, mined, last>>,
             \A b \in Batches : cur'[b].pc # "idle" => cur'[b].nonce = n
      PROVE  NextIs(n)'
    BY <1>2, <1>4, NextKept DEF Accepted
<1>5. ASSUME NEW b \in Batches, Throws(b), UNCHANGED <<pool, mined, last>>
      PROVE  NextIs(n)'
    <2>1. cur' = [cur EXCEPT ![b] = Idle]
        BY <1>5 DEF Throws
    <2>2. \A a \in Batches : cur'[a].pc # "idle" => cur'[a].nonce = n
        BY <1>3, <2>1 DEF Idle, CallInv, ClientTypes
    <2> QED
        BY <1>4, <1>5, <2>2
<1>6. CASE Tick \/ RpcUp \/ Dial \/ Redial \/ Wait \/ UNCHANGED vars \/ \E b \in Batches : StoreRoot(b)
    <2>1. UNCHANGED <<pool, mined, last, cur>>
        BY <1>6 DEF Tick, RpcUp, Dial, Redial, Wait, StoreRoot, vars, chain
    <2> QED
        BY <1>3, <1>4, <2>1
<1>7. CASE Mine
    <2>1. \E t \in pool : pool' = pool \ {t} /\ Range(mined') = Range(mined) \cup {t}
        BY <1>7, MinesOne DEF CallInv
    <2>2. Accepted' = Accepted
        BY <2>1 DEF Accepted
    <2>3. UNCHANGED <<cur, last>>
        BY <1>7 DEF Mine
    <2> QED
        BY <1>2, <1>3, <2>2, <2>3, NextKept
<1>8. CASE AskNonce
    <2>1. /\ \A a \in Batches : cur[a].pc = "idle"
          /\ \E b \in Batches : AsksFor(b)
        BY <1>8, AskNonceEffect
    <2>2. PICK b \in Batches : AsksFor(b)
        BY <2>1
    <2>3. UNCHANGED <<pool, mined, last>>
        BY <2>2 DEF AsksFor, chain
    <2>4. ASSUME NEW pending \in PendingNonces, pending \in Nat,
                 cur' = [cur EXCEPT ![b] = [pc |-> "fees", nonce |-> Max({pending, Hint})]]
          PROVE  NextIs(n)'
        <3>1. Max({pending, Hint}) = n
            BY <1>2, <2>4, ChosenIsNext DEF CallInv
        <3>2. \A a \in Batches : cur'[a].pc # "idle" => cur'[a].nonce = n
            BY <2>1, <2>4, <3>1 DEF CallInv, ClientTypes
        <3> QED
            BY <1>4, <2>3, <3>2
    <2> QED
        BY <1>5, <2>2, <2>3, <2>4 DEF AsksFor
<1>9. ASSUME NEW b \in Batches, CappedFees(b)
      PROVE  NextIs(n)'
    <2>1. UNCHANGED <<pool, mined, last>>
        BY <1>9 DEF CappedFees, chain
    <2>2. CASE cur' = [cur EXCEPT ![b].pc = "send"]
        <3>1. cur[b].pc # "idle"
            BY <1>9 DEF CappedFees
        <3>2. \A a \in Batches : a # b => cur'[a] = cur[a]
            BY <2>2 DEF CallInv, ClientTypes
        <3>3. cur'[b].nonce = cur[b].nonce
            BY <2>2 DEF CallInv, ClientTypes
        <3> QED
            BY <1>3, <1>4, <2>1, <3>1, <3>2, <3>3
    <2> QED
        BY <1>5, <1>9, <2>1, <2>2 DEF CappedFees
<1>10. ASSUME NEW b \in Batches, NotAccepted(b)
       PROVE  NextIs(n)'
    BY <1>5, <1>10 DEF NotAccepted, chain
<1>11. ASSUME NEW b \in Batches, Broadcast(b)
       PROVE  NextIs(n + 1)'
    BY <1>2, <1>11, BroadcastMovesNext
<1> QED
    BY <1>1, <1>6, <1>7, <1>8, <1>9, <1>10, <1>11 DEF Next, Network, Connection, Send

LEMMA LinkInSteps ==
    ASSUME LinkTypes, [Next]_vars
    PROVE  LinkTypes'
<1>1. faults' \in Seq(FaultKinds)
    BY CleanStays DEF LinkTypes
<1>2. CASE UNCHANGED link
    BY <1>1, <1>2 DEF LinkTypes, Next, Network, Connection, Send, Tick, RpcUp, Mine, Drop, Dial,
        Redial, Restart, AskNonce, Wait, StoreRoot, CappedFees, NotAccepted, Broadcast,
        AnswerLost, vars
<1>3. CASE Dial
    BY <1>1, <1>3 DEF LinkTypes, Dial
<1>4. CASE Redial
    BY <1>1, <1>4 DEF LinkTypes, Redial
<1>5. CASE Restart
    BY <1>1, <1>5 DEF LinkTypes, Restart, Dialling
<1> QED
    BY <1>2, <1>3, <1>4, <1>5 DEF Next, Network, Connection, Send, Tick, RpcUp, Mine, Drop,
       AskNonce, Wait, StoreRoot, CappedFees, NotAccepted, Broadcast, AnswerLost, vars

-----------------------------------------------------------------------------
(* Theorems *)

LEMMA ClientInit == Init => ClientInv
<1> SUFFICES ASSUME Init PROVE ClientInv
    OBVIOUS
<1> USE DEF Init
<1>1. ClientTypes
    <2>1. mined \in Seq(Tx) /\ queue \in Seq(Batches) /\ roots \subseteq Range(mined)
        OBVIOUS
    <2>2. IsFiniteSet(pool) /\ pool \in SUBSET Tx
        BY FS_EmptySet
    <2>3. [pc |-> "none", number |-> 0, at |-> 0] \in CallType
        BY ChainConstants DEF CallType, CallPcs, Over
    <2>4. call \in [Batches -> CallType] /\ \A b \in Batches : call[b].pc = "none"
        BY <2>3
    <2>5. now \in 0 .. MaxTime
        BY ChainConstants
    <2> QED
        BY <2>1, <2>2, <2>4, <2>5 DEF ClientTypes, CurType
<1>2. MinedInv /\ KnownInv /\ FailedInv
    BY DEF MinedInv, KnownInv, FailedInv
<1>3. QueueInv
    BY DEF QueueInv, Idle
<1>4. LinkTypes
    BY DEF LinkTypes, Dialling
<1>5. NonceInv
    <2>1. Accepted = {}
        BY DEF Accepted, Range
    <2>2. Nonces = {} /\ 0 .. 0 - 1 = {}
        BY <2>1 DEF Nonces
    <2>3. NextIs(0)
        BY <2>1, <2>2 DEF NextIs, Idle
    <2> QED
        BY <2>3 DEF NonceInv
<1> QED
    BY <1>1, <1>2, <1>3, <1>4, <1>5 DEF ClientInv, CallInv

\* The inductive invariant of the client: one call at a time has a nonce, no transaction is
\* known for two calls, and the one of a failed call is mined without effect or can never be.
THEOREM ClientInvariant == Spec => []ClientInv
<1>1. ClientInv /\ [Next]_vars => ClientInv'
    BY CallsInSteps, LinkInSteps, NonceInSteps DEF ClientInv
<1> QED
    BY <1>1, ClientInit, PTL DEF Spec

\* Mined transactions have the nonces from 0 on, in order, and a transaction that waits has a
\* later one (sendStoreRoot).
THEOREM ClientTypesHold == Spec => []TypeOK
<1>1. ClientInv => TypeOK
    <2> SUFFICES ASSUME ClientInv PROVE TypeOK
        OBVIOUS
    <2>1. DOMAIN mined = 1 .. Len(mined)
        BY DEF ClientInv, CallInv, ClientTypes
    <2>2. /\ \A k \in DOMAIN mined : mined[k].nonce = k - 1
          /\ \A t \in pool : t.nonce >= Len(mined)
        BY <2>1 DEF ClientInv, CallInv, MinedInv
    <2>3. /\ now \in 0 .. MaxTime /\ rpc \in {"down", "up"}
          /\ link.pc \in {"off", "dial", "wait", "ready"} /\ link.attempt \in Nat
        BY DEF ClientInv, CallInv, ClientTypes, LinkTypes
    <2>4. call \in [Batches -> [pc : Over \cup {"queued", "sends", "waits"}, number : 0 .. MaxCalls,
                              at : Nat]]
        BY DEF ClientInv, CallInv, ClientTypes, CallType, CallPcs
    <2>5. known \subseteq [nonce : Nat, batch : Batches, number : 1 .. MaxCalls, at : 0 .. MaxTime]
        BY DEF ClientInv, CallInv, ClientTypes, Tx
    <2> QED
        BY <2>2, <2>3, <2>4, <2>5 DEF TypeOK
<1> QED
    BY <1>1, ClientInvariant, PTL

\* Whatever lags, fails or reverts, the transaction that is sent has the first nonce that is
\* free (sendStoreRoot, NONCE_HINT_TTL_MS): a node that lags is made up for by the hint.
THEOREM NoncesAreNext == Spec => []NonceIsNext
<1>1. ClientInv => NonceIsNext
    <2> SUFFICES ASSUME ClientInv, Clean, NEW b \in Batches, cur[b].pc = "send"
                 PROVE  cur[b].nonce = LowestFree
        BY DEF NonceIsNext, Clean
    <2>1. PICK n \in Nat : NextIs(n)
        BY DEF ClientInv, NonceInv
    <2>2. LowestFree = n
        BY <2>1, NextIsLowestFree DEF NextIs, ClientInv, CallInv
    <2> QED
        BY <2>1, <2>2 DEF NextIs
<1> QED
    BY <1>1, ClientInvariant, PTL

\* A call that failed after its transaction was sent never stores the root later on: what is
\* FAILED may be sealed again (storeRoot, TX_OUTCOME_KNOWN).
THEOREM FailedCallsNeverLand == Spec => []FailedNeverLands
<1>1. ClientInv => FailedNeverLands
    BY DEF ClientInv, CallInv, FailedInv, MinedInv, FailedNeverLands, ClientTypes, Tx
<1> QED
    BY <1>1, ClientInvariant, PTL
=============================================================================
