--------------------------- MODULE SchedulerProofs ---------------------------
(***************************************************************************)
(* Theorems about SealScheduler, for any number of logs, admins, ticks and *)
(* failures and for every setting of the scheduler.                        *)
(***************************************************************************)
EXTENDS SealScheduler, FiniteSetTheorems, TLAPS

Entry == Admins \cup {"drain"}

HasDrain(q)    == \E i \in DOMAIN q : q[i] = "drain"
SingleDrain(q) == \A i, j \in DOMAIN q : q[i] = "drain" /\ q[j] = "drain" => i = j

\* OneDrain said without a cardinality, and that the call that runs is in the queue.
QueueInv ==
    /\ SingleDrain(queue)
    /\ HasDrain(queue) <=> drain.pc = "seal"
    /\ call.pc # "idle" => queue # <<>>

\* Every failure in a row was a fault, and the ticks skipped and the ticks still to skip
\* add up to the wait that the last failure began.
BackoffInv ==
    /\ failures <= faults
    /\ skipped + backoff <= BackoffMax
    /\ BackoffAfter > 0 /\ failures >= BackoffAfter => skipped + backoff = WaitTicks(failures)

SchedulerInv == TypeOK /\ QueueInv /\ BackoffInv

-----------------------------------------------------------------------------
(* Powers of two *)

\* 2^k is a positive natural number: it counts the subsets of 1 .. k.
LEMMA PowerOfTwo ==
    ASSUME NEW k \in Nat
    PROVE  2^k \in Nat \ {0}
<1> DEFINE S == SUBSET (1 .. k)
<1>1. IsFiniteSet(1 .. k) /\ Cardinality(1 .. k) = k
    BY FS_Interval
<1>2. IsFiniteSet(S) /\ Cardinality(S) = 2^k
    BY <1>1, FS_SUBSET
<1>3. Cardinality(S) \in Nat
    BY <1>2, FS_CardinalityType
<1>4. S # {}
    OBVIOUS
<1>5. Cardinality(S) # 0
    BY <1>2, <1>4, FS_EmptySet
<1> QED
    BY <1>2, <1>3, <1>5

\* The wait after n failures in a row is at least one tick and at most BackoffMax.
LEMMA WaitTicksRange ==
    ASSUME NEW n \in Nat, BackoffAfter <= n
    PROVE  WaitTicks(n) \in 1 .. BackoffMax
<1> DEFINE k == Smaller(n - BackoffAfter, 30)
<1>1. k \in Nat
    BY SchedulerConstants DEF Smaller
<1>2. 2^k \in Nat \ {0}
    BY <1>1, PowerOfTwo
<1> HIDE DEF k
<1>3. Smaller(2^k, BackoffMax) \in 1 .. BackoffMax
    BY <1>2, SchedulerConstants DEF Smaller
<1> QED
    BY <1>3 DEF WaitTicks, k
-----------------------------------------------------------------------------
(* The queue *)

LEMMA AppendedDrain ==
    ASSUME NEW q \in Seq(Entry), SingleDrain(q), ~HasDrain(q)
    PROVE  /\ Append(q, "drain") \in Seq(Entry)
           /\ SingleDrain(Append(q, "drain"))
           /\ HasDrain(Append(q, "drain"))
<1> DEFINE a == Append(q, "drain")
<1>1. /\ a \in Seq(Entry) /\ Len(a) = Len(q) + 1
      /\ \A i \in 1 .. Len(q) : a[i] = q[i]
      /\ a[Len(q) + 1] = "drain"
    BY DEF Entry
<1>2. DOMAIN a = 1 .. Len(q) + 1 /\ DOMAIN q = 1 .. Len(q) /\ Len(q) \in Nat
    BY <1>1
<1> HIDE DEF a
<1>3. \A i \in DOMAIN a : a[i] = "drain" => i = Len(q) + 1
    BY <1>1, <1>2 DEF HasDrain
<1>4. SingleDrain(a) /\ HasDrain(a)
    BY <1>1, <1>2, <1>3 DEF SingleDrain, HasDrain
<1> QED
    BY <1>1, <1>4 DEF a

LEMMA AppendedAdmin ==
    ASSUME NEW q \in Seq(Entry), NEW a \in Admins, SingleDrain(q)
    PROVE  /\ Append(q, a) \in Seq(Entry)
           /\ SingleDrain(Append(q, a))
           /\ HasDrain(Append(q, a)) <=> HasDrain(q)
<1> DEFINE r == Append(q, a)
<1>1. /\ r \in Seq(Entry) /\ Len(r) = Len(q) + 1
      /\ \A i \in 1 .. Len(q) : r[i] = q[i]
      /\ r[Len(q) + 1] = a /\ a # "drain"
    BY SchedulerConstants DEF Entry
<1>2. DOMAIN r = 1 .. Len(q) + 1 /\ DOMAIN q = 1 .. Len(q) /\ Len(q) \in Nat
    BY <1>1
<1> HIDE DEF r
<1>3. \A i \in DOMAIN r : r[i] = "drain" => i \in DOMAIN q
    BY <1>1, <1>2
<1>4. SingleDrain(r) /\ (HasDrain(r) <=> HasDrain(q))
    BY <1>1, <1>2, <1>3 DEF SingleDrain, HasDrain
<1> QED
    BY <1>1, <1>4 DEF r

\* What is left of the queue when the first call returns.
LEMMA TailOfQueue ==
    ASSUME NEW q \in Seq(Entry), q # <<>>, SingleDrain(q)
    PROVE  /\ Tail(q) \in Seq(Entry)
           /\ SingleDrain(Tail(q))
           /\ Head(q) = "drain" => HasDrain(q) /\ ~HasDrain(Tail(q))
           /\ Head(q) # "drain" => (HasDrain(Tail(q)) <=> HasDrain(q))
<1> DEFINE t == Tail(q)
<1>1. /\ t \in Seq(Entry) /\ Len(t) = Len(q) - 1 /\ Len(q) \in Nat \ {0}
      /\ \A i \in 1 .. Len(t) : t[i] = q[i + 1]
      /\ Head(q) = q[1]
    OBVIOUS
<1>2. DOMAIN t = 1 .. Len(q) - 1 /\ DOMAIN q = 1 .. Len(q)
    BY <1>1
<1> HIDE DEF t
<1>3. SingleDrain(t)
    <2> SUFFICES ASSUME NEW i \in DOMAIN t, NEW j \in DOMAIN t,
                        t[i] = "drain", t[j] = "drain"
                 PROVE  i = j
        BY DEF SingleDrain
    <2>1. i + 1 \in DOMAIN q /\ j + 1 \in DOMAIN q
        BY <1>1, <1>2
    <2>2. q[i + 1] = "drain" /\ q[j + 1] = "drain"
        BY <1>1, <1>2
    <2>3. i + 1 = j + 1
        BY <2>1, <2>2 DEF SingleDrain
    <2> QED
        BY <2>3, <1>2, <1>1
<1>4. ASSUME Head(q) = "drain"
      PROVE  HasDrain(q) /\ ~HasDrain(t)
    <2>1. 1 \in DOMAIN q /\ q[1] = "drain"
        BY <1>1, <1>2, <1>4
    <2>2. \A i \in DOMAIN t : t[i] # "drain"
        BY <1>1, <1>2, <2>1 DEF SingleDrain
    <2> QED
        BY <2>1, <2>2 DEF HasDrain
<1>5. ASSUME Head(q) # "drain"
      PROVE  HasDrain(t) <=> HasDrain(q)
    <2>1. \A i \in DOMAIN t : t[i] = q[i + 1] /\ i + 1 \in DOMAIN q
        BY <1>1, <1>2
    <2>2. \A i \in DOMAIN q : i # 1 => i - 1 \in DOMAIN t /\ t[i - 1] = q[i]
        BY <1>1, <1>2
    <2> QED
        BY <1>1, <1>5, <2>1, <2>2 DEF HasDrain
<1> QED
    BY <1>1, <1>3, <1>4, <1>5 DEF t

\* The part of TypeOK about the queue, the call that runs and the drain in flight.
QueueType ==
    /\ queue \in Seq(Entry)
    /\ call \in [pc : {"idle", "check", "seal"}, logs : SUBSET Logs]
    /\ drain \in [pc : {"off", "seal", "tail"}, reason : Reasons,
                  left : 0 .. MaxBatches, since : Since \cup {NoCutoff}]

\* A tick that starts a drain finds none in the queue.
LEMMA StartDrainQueue ==
    ASSUME QueueType, QueueInv, drain.pc # "seal", UNCHANGED call,
           NEW reason \in Reasons, NEW left \in 0 .. MaxBatches,
           NEW since \in Since \cup {NoCutoff},
           StartDrain(reason, left, since)
    PROVE  QueueType' /\ QueueInv'
<1>1. ~HasDrain(queue)
    BY DEF QueueInv
<1>2. queue' = Append(queue, "drain") /\ drain'.pc = "seal"
    BY DEF StartDrain
<1>3. queue' \in Seq(Entry) /\ SingleDrain(queue') /\ HasDrain(queue')
    BY <1>1, <1>2, AppendedDrain DEF QueueType, QueueInv
<1>4. QueueType'
    BY <1>3 DEF QueueType, StartDrain
<1>5. queue' # <<>>
    BY <1>3 DEF HasDrain
<1> QED
    BY <1>2, <1>3, <1>4, <1>5 DEF QueueInv

\* Whatever a call returns, the queue, the flag and the call that runs fit together again.
LEMMA ReturnQueue ==
    ASSUME QueueType, QueueInv, queue # <<>>, NEW outcome, Return(outcome)
    PROVE  QueueType' /\ QueueInv'
<1>1. /\ Tail(queue) \in Seq(Entry)
      /\ SingleDrain(Tail(queue))
      /\ ByDrain => HasDrain(queue) /\ ~HasDrain(Tail(queue))
      /\ ~ByDrain => (HasDrain(Tail(queue)) <=> HasDrain(queue))
    BY TailOfQueue DEF QueueType, QueueInv, ByDrain
<1>2. call' = CallIdle /\ CallIdle.pc = "idle"
      /\ CallIdle \in [pc : {"idle", "check", "seal"}, logs : SUBSET Logs]
    BY DEF Return, CallIdle
<1>3. CASE ~ByDrain
    <2>1. queue' = Tail(queue) /\ drain' = drain
        BY <1>3 DEF Return
    <2> QED
        BY <1>1, <1>2, <1>3, <2>1 DEF QueueType, QueueInv
<1>4. CASE ByDrain /\ GoesOn(outcome)
    <2>1. queue' = Append(Tail(queue), "drain") /\ drain' = [drain EXCEPT !.left = @ - 1]
        BY <1>4 DEF Return, StayInDrain
    <2>2. drain.pc = "seal" /\ drain.left > 1
        BY <1>1, <1>4 DEF QueueInv, GoesOn
    <2>3. /\ drain' \in [pc : {"off", "seal", "tail"}, reason : Reasons,
                         left : 0 .. MaxBatches, since : Since \cup {NoCutoff}]
          /\ drain'.pc = "seal"
        <3>1. drain.left - 1 \in 0 .. MaxBatches
            BY <2>2, SchedulerConstants DEF QueueType
        <3>2. drain' = [drain EXCEPT !.left = drain.left - 1]
            BY <2>1
        <3> QED
            BY <2>2, <3>1, <3>2 DEF QueueType
    <2>4. queue' \in Seq(Entry) /\ SingleDrain(queue') /\ HasDrain(queue')
        BY <1>1, <1>4, <2>1, AppendedDrain
    <2> QED
        BY <1>2, <2>3, <2>4 DEF QueueType, QueueInv
<1>5. CASE ByDrain /\ ~GoesOn(outcome)
    <2>1. queue' = Tail(queue) /\ LeaveDrain(outcome)
        BY <1>5 DEF Return, LeaveDrain
    <2>2. /\ drain' \in [pc : {"off", "seal", "tail"}, reason : Reasons,
                         left : 0 .. MaxBatches, since : Since \cup {NoCutoff}]
          /\ drain'.pc # "seal"
        <3>1. /\ DrainOff \in [pc : {"off", "seal", "tail"}, reason : Reasons,
                               left : 0 .. MaxBatches, since : Since \cup {NoCutoff}]
              /\ DrainOff.pc = "off"
            BY SchedulerConstants DEF DrainOff, Reasons
        <3>2. drain' \in {DrainOff, [DrainOff EXCEPT !.pc = "tail"]}
            BY <2>1 DEF LeaveDrain
        <3> QED
            BY <3>1, <3>2
    <2> QED
        BY <1>1, <1>2, <1>5, <2>1, <2>2 DEF QueueType, QueueInv
<1> QED
    BY <1>3, <1>4, <1>5

-----------------------------------------------------------------------------
(* The counters *)

CountType ==
    /\ failures \in 0 .. MaxFaults
    /\ backoff \in 0 .. BackoffMax /\ skipped \in 0 .. BackoffMax
    /\ faults \in 0 .. MaxFaults

LEMMA SkipTickCounts ==
    ASSUME CountType, BackoffInv, backoff > 0, SkipTick, UNCHANGED faults
    PROVE  CountType' /\ BackoffInv'
BY SchedulerConstants DEF CountType, BackoffInv, SkipTick, WaitTicks

\* A call that counts as a failure was made to fail by a fault.
LEMMA OutcomeCounts ==
    ASSUME CountType, BackoffInv, NEW outcome, RecordOutcome(outcome),
           faults' \in faults .. MaxFaults,
           outcome \in {"failed", "throw"} => faults' > faults
    PROVE  CountType' /\ BackoffInv'
<1>1. CASE outcome = "ok"
    BY <1>1, SchedulerConstants DEF CountType, BackoffInv, RecordOutcome
<1>2. CASE outcome \in {"failed", "throw"}
    <2>1. /\ failures' = failures + 1 /\ failures' \in 1 .. MaxFaults /\ failures' <= faults'
          /\ skipped' = 0
          /\ backoff' = IF BackoffAfter = 0 \/ failures' < BackoffAfter
                        THEN backoff ELSE WaitTicks(failures')
        BY <1>2, SchedulerConstants DEF CountType, BackoffInv, RecordOutcome
    <2>2. CASE BackoffAfter = 0 \/ failures' < BackoffAfter
        BY <2>1, <2>2, SchedulerConstants DEF CountType, BackoffInv
    <2>3. CASE ~(BackoffAfter = 0 \/ failures' < BackoffAfter)
        <3>1. WaitTicks(failures') \in 1 .. BackoffMax
            BY <2>1, <2>3, WaitTicksRange, SchedulerConstants
        <3>2. WaitTicks(failures)' = WaitTicks(failures')
            BY DEF WaitTicks
        <3> QED
            BY <2>1, <2>3, <3>1, <3>2, SchedulerConstants DEF CountType, BackoffInv
    <2> QED
        BY <2>2, <2>3
<1>3. CASE outcome \notin {"ok", "failed", "throw"}
    <2>1. UNCHANGED countVars
        BY <1>3 DEF RecordOutcome
    <2> QED
        BY <2>1, SchedulerConstants DEF CountType, BackoffInv, countVars, WaitTicks
<1> QED
    BY <1>1, <1>2, <1>3

-----------------------------------------------------------------------------
(* The ticks and the rest of the state *)

TickRecord == [pc : {"idle", "stats"}, want : {"none", "count", "age"},
               left : 0 .. MaxBatches, since : Since \cup {NoCutoff}]

\* The part of TypeOK about logs, ticks and the wallet.
RestType ==
    /\ mode \in Modes
    /\ log \in [Logs -> {"none", "pending", "sealed"}]
    /\ age \in [Logs -> {n \in Int : n <= MaxWait}]
    /\ tick \in [Ticks -> TickRecord]
    /\ {poor, low, throttled, alert} \subseteq BOOLEAN

LEMMA TypeParts == TypeOK <=> QueueType /\ CountType /\ RestType
BY DEF TypeOK, QueueType, CountType, RestType, TickRecord, Entry

LEMMA PendingIsFinite == Cardinality(Pending) \in Nat
<1>1. IsFiniteSet(Pending)
    BY SchedulerConstants, FS_Subset DEF Pending
<1> QED
    BY <1>1, FS_CardinalityType

\* decideSeal never asks for more batches than a tick may seal.
LEMMA StatsRecord ==
    ASSUME NEW t \in Ticks, HybridStats(t), RestType
    PROVE  tick' \in [Ticks -> TickRecord]
<1>1. Cardinality(Pending) \div BatchSize \in Nat
    BY PendingIsFinite, SchedulerConstants
<1>2. Smaller(Cardinality(Pending) \div BatchSize, MaxBatches) \in 0 .. MaxBatches
    BY <1>1, SchedulerConstants DEF Smaller
<1>3. Wanted \in {"none", "count", "age"}
    BY DEF Wanted
<1> DEFINE left == CASE Wanted = "age"   -> MaxBatches
                     [] Wanted = "count" -> Smaller(Cardinality(Pending) \div BatchSize, MaxBatches)
                     [] OTHER            -> 0
           since == IF Wanted = "age" THEN 0 ELSE NoCutoff
<1>4. left \in 0 .. MaxBatches /\ since \in Since \cup {NoCutoff}
    <2>1. CASE Wanted = "age"
        BY <2>1, SchedulerConstants DEF Since
    <2>2. CASE Wanted = "count"
        BY <2>2, <1>2
    <2>3. CASE Wanted = "none"
        BY <2>3, SchedulerConstants
    <2> QED
        BY <1>3, <2>1, <2>2, <2>3
<1>5. tick' = [tick EXCEPT ![t] = [pc |-> "stats", want |-> Wanted,
                                   left |-> left, since |-> since]]
    BY DEF HybridStats
<1> HIDE DEF left, since
<1>6. [pc |-> "stats", want |-> Wanted, left |-> left, since |-> since] \in TickRecord
    BY <1>3, <1>4 DEF TickRecord
<1> QED
    BY <1>5, <1>6 DEF RestType

\* A minute keeps what was read within MaxWait.
LEMMA MinuteType ==
    ASSUME RestType, QueueType, Minute
    PROVE  /\ RestType'
           /\ QueueType' /\ drain'.pc = drain.pc
<1>1. \A s \in Since \cup {NoCutoff} :
        s < MaxWait => (IF s = NoCutoff THEN s ELSE s + 1) \in Since \cup {NoCutoff}
    BY SchedulerConstants DEF Since, NoCutoff
<1>2. \A n \in {n \in Int : n <= MaxWait} : Smaller(n + 1, MaxWait) \in {m \in Int : m <= MaxWait}
    BY SchedulerConstants DEF Smaller
<1>3. age' \in [Logs -> {n \in Int : n <= MaxWait}]
    BY <1>2 DEF Minute, RestType
<1>4. tick' \in [Ticks -> TickRecord]
    <2> SUFFICES ASSUME NEW t \in Ticks
                 PROVE  [tick[t] EXCEPT !.since = IF @ = NoCutoff THEN @ ELSE @ + 1] \in TickRecord
        BY DEF Minute
    <2>1. tick[t] \in TickRecord /\ tick[t].since < MaxWait
        BY DEF Minute, RestType
    <2>2. (IF tick[t].since = NoCutoff THEN tick[t].since ELSE tick[t].since + 1)
            \in Since \cup {NoCutoff}
        BY <1>1, <2>1 DEF TickRecord
    <2> QED
        BY <2>1, <2>2 DEF TickRecord
<1>5. /\ drain' \in [pc : {"off", "seal", "tail"}, reason : Reasons,
                     left : 0 .. MaxBatches, since : Since \cup {NoCutoff}]
      /\ drain'.pc = drain.pc
    <2>1. (IF drain.since = NoCutoff THEN drain.since ELSE drain.since + 1)
            \in Since \cup {NoCutoff}
        BY <1>1 DEF Minute, QueueType
    <2>2. drain' = [drain EXCEPT !.since = IF drain.since = NoCutoff THEN drain.since
                                                                    ELSE drain.since + 1]
        BY DEF Minute
    <2> QED
        BY <2>1, <2>2 DEF QueueType
<1> QED
    BY <1>3, <1>4, <1>5 DEF Minute, RestType, QueueType

-----------------------------------------------------------------------------
(* The induction *)

LEMMA InitInv == Init => SchedulerInv
<1> SUFFICES ASSUME Init PROVE SchedulerInv
    OBVIOUS
<1>1. QueueType
    BY SchedulerConstants DEF Init, QueueType, CallIdle, DrainOff, Reasons
<1>2. CountType
    BY SchedulerConstants DEF Init, CountType
<1>3. RestType
    <2>1. TickIdle \in TickRecord
        BY SchedulerConstants DEF TickIdle, TickRecord
    <2>2. 0 \in {n \in Int : n <= MaxWait}
        BY SchedulerConstants
    <2> QED
        BY <2>1, <2>2 DEF Init, RestType
<1>4. QueueInv
    BY DEF Init, QueueInv, SingleDrain, HasDrain, CallIdle, DrainOff
<1>5. BackoffInv
    BY SchedulerConstants DEF Init, BackoffInv
<1> QED
    BY <1>1, <1>2, <1>3, <1>4, <1>5, TypeParts DEF SchedulerInv

LEMMA FaultCounts ==
    ASSUME CountType, BackoffInv, NEW k, Fault(k)
    PROVE  /\ faults' \in faults .. MaxFaults /\ faults' > faults
           /\ UNCHANGED countVars => CountType' /\ BackoffInv'
BY SchedulerConstants DEF CountType, BackoffInv, Fault, countVars, WaitTicks

LEMMA SameCounts ==
    ASSUME CountType, BackoffInv, UNCHANGED <<countVars, faults>>
    PROVE  CountType' /\ BackoffInv'
BY DEF CountType, BackoffInv, countVars, WaitTicks

LEMMA SameQueue ==
    ASSUME QueueType, QueueInv, UNCHANGED queueVars
    PROVE  QueueType' /\ QueueInv'
BY DEF QueueType, QueueInv, queueVars

Parts == QueueType /\ CountType /\ RestType /\ QueueInv /\ BackoffInv

LEMMA EnvironmentInv ==
    ASSUME Parts, (\E l \in Logs : Ingest(l)) \/ Minute \/ Wallet \/ Crash
    PROVE  Parts'
<1> USE DEF Parts
<1>1. ASSUME NEW l \in Logs, Ingest(l)
      PROVE  Parts'
    <2>1. RestType'
        BY <1>1, SchedulerConstants DEF Ingest, RestType, walletVars
    <2> QED
        BY <1>1, <2>1, SameCounts, SameQueue DEF Ingest
<1>2. ASSUME Minute
      PROVE  Parts'
    <2>1. RestType' /\ QueueType' /\ drain'.pc = drain.pc /\ UNCHANGED <<queue, call>>
        BY <1>2, MinuteType DEF Minute
    <2>2. QueueInv'
        BY <2>1 DEF QueueInv
    <2> QED
        BY <1>2, <2>1, <2>2, SameCounts DEF Minute
<1>3. ASSUME Wallet
      PROVE  Parts'
    <2>1. RestType'
        BY <1>3 DEF Wallet, Drained, Refill, RestType, walletVars
    <2>2. QueueType' /\ QueueInv'
        BY <1>3, SameQueue DEF Wallet
    <2>3. CountType' /\ BackoffInv'
        BY <1>3, SameCounts, FaultCounts DEF Wallet, Drained, Refill
    <2> QED
        BY <2>1, <2>2, <2>3
<1>4. ASSUME Crash
      PROVE  Parts'
    <2>1. QueueType' /\ QueueInv'
        BY <1>4, SchedulerConstants
        DEF Crash, QueueType, QueueInv, CallIdle, DrainOff, Reasons, SingleDrain, HasDrain
    <2>2. CountType' /\ BackoffInv'
        BY <1>4, FaultCounts, SchedulerConstants DEF Crash, CountType, BackoffInv
    <2>3. TickIdle \in TickRecord
        BY SchedulerConstants DEF TickIdle, TickRecord
    <2>4. RestType'
        BY <1>4, <2>3 DEF Crash, Restarted, RestType
    <2> QED
        BY <2>1, <2>2, <2>4
<1> QED
    BY <1>1, <1>2, <1>3, <1>4

LEMMA TickInv ==
    ASSUME Parts,
           \/ CronTick
           \/ \E t \in Ticks : HybridStats(t) \/ HybridDecide(t)
           \/ \E a \in Admins : SealNow(a)
    PROVE  Parts'
<1> USE DEF Parts
<1>1. ASSUME CronTick
      PROVE  Parts'
    <2>1. RestType'
        BY <1>1 DEF CronTick, RestType, walletVars
    <2>2. CASE backoff > 0
        <3>1. QueueType' /\ QueueInv'
            BY <1>1, <2>2, SameQueue DEF CronTick, SkipTick, queueVars
        <3>2. CountType' /\ BackoffInv'
            BY <1>1, <2>2, SkipTickCounts DEF CronTick
        <3> QED
            BY <2>1, <3>1, <3>2
    <2>3. CASE ~(backoff > 0)
        <3>1. "cron" \in Reasons /\ MaxBatches \in 0 .. MaxBatches /\ NoCutoff \in Since \cup {NoCutoff}
            BY SchedulerConstants DEF Reasons
        <3>2. StartDrain("cron", MaxBatches, NoCutoff) /\ drain.pc # "seal" /\ UNCHANGED <<call, countVars, faults>>
            BY <1>1, <2>3 DEF CronTick
        <3>3. QueueType' /\ QueueInv'
            BY <3>1, <3>2, StartDrainQueue
        <3> QED
            BY <2>1, <3>2, <3>3, SameCounts
    <2> QED
        BY <2>2, <2>3
<1>2. ASSUME NEW t \in Ticks, HybridStats(t)
      PROVE  Parts'
    <2>1. tick' \in [Ticks -> TickRecord]
        BY <1>2, StatsRecord
    <2>2. RestType'
        BY <1>2, <2>1 DEF HybridStats, RestType, walletVars
    <2> QED
        BY <1>2, <2>2, SameCounts, SameQueue DEF HybridStats
<1>3. ASSUME NEW t \in Ticks, HybridDecide(t)
      PROVE  Parts'
    <2>1. TickIdle \in TickRecord
        BY SchedulerConstants DEF TickIdle, TickRecord
    <2>2. RestType'
        BY <1>3, <2>1 DEF HybridDecide, RestType, walletVars
    <2>3. CASE InFlight \/ (backoff = 0 /\ tick[t].want = "none")
        BY <1>3, <2>2, <2>3, SameCounts, SameQueue DEF HybridDecide, queueVars
    <2>4. CASE ~(InFlight \/ (backoff = 0 /\ tick[t].want = "none")) /\ backoff > 0
        <3>1. QueueType' /\ QueueInv'
            BY <1>3, <2>4, SameQueue DEF HybridDecide, SkipTick, queueVars
        <3>2. CountType' /\ BackoffInv'
            BY <1>3, <2>4, SkipTickCounts DEF HybridDecide
        <3> QED
            BY <2>2, <3>1, <3>2
    <2>5. CASE ~(InFlight \/ (backoff = 0 /\ tick[t].want = "none")) /\ ~(backoff > 0)
        <3>1. tick[t] \in TickRecord
            BY DEF RestType
        <3>2. /\ tick[t].want \in Reasons /\ tick[t].left \in 0 .. MaxBatches
              /\ tick[t].since \in Since \cup {NoCutoff}
            BY <3>1 DEF Reasons, TickRecord
        <3>3. /\ StartDrain(tick[t].want, tick[t].left, tick[t].since) /\ drain.pc # "seal"
              /\ UNCHANGED <<call, countVars, faults>>
            BY <1>3, <2>5 DEF HybridDecide, InFlight
        <3>4. QueueType' /\ QueueInv'
            BY <3>2, <3>3, StartDrainQueue
        <3> QED
            BY <2>2, <3>3, <3>4, SameCounts
    <2> QED
        BY <2>3, <2>4, <2>5
<1>4. ASSUME NEW a \in Admins, SealNow(a)
      PROVE  Parts'
    <2>1. /\ queue' = Append(queue, a) /\ UNCHANGED <<call, drain>>
          /\ queue' \in Seq(Entry) /\ SingleDrain(queue') /\ (HasDrain(queue') <=> HasDrain(queue))
          /\ queue' # <<>>
        BY <1>4, AppendedAdmin DEF SealNow, QueueType, QueueInv
    <2>2. QueueType' /\ QueueInv'
        BY <2>1 DEF QueueType, QueueInv
    <2>3. RestType'
        BY <1>4 DEF SealNow, RestType, walletVars
    <2> QED
        BY <1>4, <2>2, <2>3, SameCounts DEF SealNow
<1> QED
    BY <1>1, <1>2, <1>3, <1>4

\* A step of the call that goes on: the queue stays, the call runs.
LEMMA CallGoesOn ==
    ASSUME QueueType, QueueInv, queue # <<>>, UNCHANGED <<queue, drain>>,
           call' \in [pc : {"idle", "check", "seal"}, logs : SUBSET Logs]
    PROVE  QueueType' /\ QueueInv'
BY DEF QueueType, QueueInv

LEMMA CallInv ==
    ASSUME Parts, SealStep \/ DrainTail \/ BalanceCloseFails \/ BalanceUnknown \/ SealFails
    PROVE  Parts'
<1> USE DEF Parts
<1>1. ASSUME SealPick
      PROVE  Parts'
    <2>1. Picked \subseteq Logs
        BY DEF Picked, Eligible, Pending
    <2>2. QueueType' /\ QueueInv'
        BY <1>1, <2>1, CallGoesOn DEF SealPick
    <2>3. RestType'
        BY <1>1 DEF SealPick, RestType, walletVars
    <2> QED
        BY <1>1, <2>2, <2>3, SameCounts DEF SealPick
<1>2. ASSUME SealNothing
      PROVE  Parts'
    <2>1. QueueType' /\ QueueInv'
        BY <1>2, ReturnQueue DEF SealNothing
    <2>2. CountType' /\ BackoffInv'
        <3>1. RecordOutcome("null") /\ faults' = faults
            BY <1>2 DEF SealNothing, Return
        <3>2. faults' \in faults .. MaxFaults
            BY <3>1, SchedulerConstants DEF CountType
        <3> QED
            BY <3>1, <3>2, OutcomeCounts
    <2>3. RestType'
        BY <1>2 DEF SealNothing, RestType, walletVars
    <2> QED
        BY <2>1, <2>2, <2>3
<1>3. ASSUME BalanceOk
      PROVE  Parts'
    <2>1. call' \in [pc : {"idle", "check", "seal"}, logs : SUBSET Logs] /\ queue # <<>>
        BY <1>3 DEF BalanceOk, QueueType, QueueInv
    <2>2. QueueType' /\ QueueInv'
        BY <1>3, <2>1, CallGoesOn DEF BalanceOk
    <2>3. RestType'
        BY <1>3 DEF BalanceOk, RestType
    <2> QED
        BY <1>3, <2>2, <2>3, SameCounts DEF BalanceOk
<1>4. ASSUME BalanceLow
      PROVE  Parts'
    <2>1. queue # <<>> /\ Return("skip")
        BY <1>4 DEF BalanceLow, QueueInv
    <2>2. QueueType' /\ QueueInv'
        BY <2>1, ReturnQueue
    <2>3. UNCHANGED countVars
        BY <2>1 DEF Return, RecordOutcome
    <2>4. CountType' /\ BackoffInv'
        BY <1>4, <2>3, SameCounts, FaultCounts DEF BalanceLow
    <2>5. RestType'
        BY <1>4 DEF BalanceLow, RestType
    <2> QED
        BY <2>2, <2>4, <2>5
<1>5. ASSUME SealOk
      PROVE  Parts'
    <2>1. queue # <<>> /\ Return("ok")
        BY <1>5 DEF SealOk, QueueInv
    <2>2. QueueType' /\ QueueInv'
        BY <2>1, ReturnQueue
    <2>3. CountType' /\ BackoffInv'
        <3>1. RecordOutcome("ok") /\ faults' = faults
            BY <1>5, <2>1 DEF SealOk, Return
        <3>2. faults' \in faults .. MaxFaults
            BY <3>1, SchedulerConstants DEF CountType
        <3> QED
            BY <3>1, <3>2, OutcomeCounts
    <2>4. 0 \in {n \in Int : n <= MaxWait}
        BY SchedulerConstants
    <2>5. RestType'
        BY <1>5, <2>4 DEF SealOk, RestType, walletVars
    <2> QED
        BY <2>2, <2>3, <2>5
<1>6. ASSUME DrainTail
      PROVE  Parts'
    <2>1. DrainOff \in [pc : {"off", "seal", "tail"}, reason : Reasons,
                        left : 0 .. MaxBatches, since : Since \cup {NoCutoff}]
          /\ DrainOff.pc = "off"
        BY SchedulerConstants DEF DrainOff, Reasons
    <2>2. QueueType' /\ QueueInv'
        BY <1>6, <2>1 DEF DrainTail, QueueType, QueueInv
    <2>3. RestType'
        BY <1>6 DEF DrainTail, RestType, walletVars
    <2> QED
        BY <1>6, <2>2, <2>3, SameCounts DEF DrainTail
<1>7. ASSUME BalanceCloseFails
      PROVE  Parts'
    <2>1. queue # <<>> /\ Return("throw")
        BY <1>7 DEF BalanceCloseFails, QueueInv
    <2>2. QueueType' /\ QueueInv'
        BY <2>1, ReturnQueue
    <2>3. CountType' /\ BackoffInv'
        BY <1>7, <2>1, FaultCounts, OutcomeCounts DEF BalanceCloseFails, Return
    <2>4. RestType'
        BY <1>7 DEF BalanceCloseFails, RestType
    <2> QED
        BY <2>2, <2>3, <2>4
<1>8. ASSUME BalanceUnknown
      PROVE  Parts'
    <2>1. call' \in [pc : {"idle", "check", "seal"}, logs : SUBSET Logs] /\ queue # <<>>
        BY <1>8 DEF BalanceUnknown, QueueType, QueueInv
    <2>2. QueueType' /\ QueueInv'
        BY <1>8, <2>1, CallGoesOn DEF BalanceUnknown
    <2>3. CountType' /\ BackoffInv'
        BY <1>8, FaultCounts DEF BalanceUnknown
    <2>4. RestType'
        BY <1>8 DEF BalanceUnknown, RestType, walletVars
    <2> QED
        BY <2>2, <2>3, <2>4
<1>9. ASSUME SealFails
      PROVE  Parts'
    <2>1. PICK o \in {"failed", "throw"} : queue # <<>> /\ Return(o) /\ (Fault("chain") \/ Fault("db"))
        BY <1>9 DEF SealFails, QueueInv
    <2>2. QueueType' /\ QueueInv'
        BY <2>1, ReturnQueue
    <2>3. CountType' /\ BackoffInv'
        BY <2>1, FaultCounts, OutcomeCounts DEF Return
    <2>4. RestType'
        BY <1>9 DEF SealFails, RestType, walletVars
    <2> QED
        BY <2>2, <2>3, <2>4
<1> QED
    BY <1>1, <1>2, <1>3, <1>4, <1>5, <1>6, <1>7, <1>8, <1>9 DEF SealStep

LEMMA StepInv == SchedulerInv /\ [Next]_vars => SchedulerInv'
<1> SUFFICES ASSUME SchedulerInv, [Next]_vars PROVE SchedulerInv'
    OBVIOUS
<1>1. Parts
    BY TypeParts DEF SchedulerInv, Parts
<1>2. Parts' => SchedulerInv'
    <2>1. (TypeOK <=> QueueType /\ CountType /\ RestType)'
        BY DEF TypeOK, QueueType, CountType, RestType, TickRecord, Entry
    <2> QED
        BY <2>1 DEF SchedulerInv, Parts
<1>3. CASE UNCHANGED vars
    <2>1. RestType'
        BY <1>1, <1>3 DEF Parts, RestType, vars, walletVars
    <2>2. UNCHANGED queueVars /\ UNCHANGED <<countVars, faults>>
        BY <1>3 DEF vars
    <2> QED
        BY <1>1, <1>2, <2>1, <2>2, SameCounts, SameQueue DEF Parts
<1>4. CASE Next
    BY <1>1, <1>2, <1>4, EnvironmentInv, TickInv, CallInv DEF Next
<1> QED
    BY <1>3, <1>4

\* The types, the shape of the queue and the arithmetic of the backoff always hold.
THEOREM SchedulerInvariant == Spec => []SchedulerInv
BY InitInv, StepInv, PTL DEF Spec

LEMMA QueueInvGivesOneDrain == QueueType /\ QueueInv => OneDrain
<1> SUFFICES ASSUME QueueType, QueueInv PROVE OneDrain
    OBVIOUS
<1> DEFINE drains == {i \in DOMAIN queue : queue[i] = "drain"}
<1>1. drains # {} <=> HasDrain(queue)
    BY DEF HasDrain
<1>2. CASE drains = {}
    <2>1. Cardinality(drains) = 0
        BY <1>2, FS_EmptySet
    <2> QED
        BY <1>1, <2>1 DEF QueueInv, OneDrain
<1>3. CASE drains # {}
    <2>1. PICK i \in drains : drains = {i}
        BY <1>3 DEF QueueInv, SingleDrain
    <2>2. Cardinality(drains) = 1
        BY <2>1, FS_Singleton
    <2> QED
        BY <1>1, <2>2 DEF QueueInv, OneDrain
<1> QED
    BY <1>2, <1>3

\* Whatever the ticks, admins, failures and restarts, at most one drain waits or runs, and
\* drainInFlight is on exactly while it does.
THEOREM DrainsAreSingle == Spec => []OneDrain
<1>1. SchedulerInv => OneDrain
    BY QueueInvGivesOneDrain, TypeParts DEF SchedulerInv
<1> QED
    BY <1>1, SchedulerInvariant, PTL

\* A tick that starts a drain after failures in a row has waited as long as the last of
\* them asks for, for every setting of SEAL_FAILURE_BACKOFF_AFTER and SEAL_BACKOFF_MAX_TICKS.
THEOREM BackoffAlwaysServed == Spec => BackoffIsServed
<1> DEFINE Served == (drain.pc = "off" /\ drain'.pc = "seal" /\ BackoffAfter > 0
                                        /\ failures >= BackoffAfter)
                     => \/ skipped = BackoffMax
                        \/ /\ skipped < BackoffMax
                           /\ skipped = 2 ^ Smaller(failures - BackoffAfter, 30)
<1>1. SchedulerInv /\ [Next]_vars => [Served]_vars
    <2> SUFFICES ASSUME SchedulerInv, Next,
                        drain.pc = "off", drain'.pc = "seal", BackoffAfter > 0,
                        failures >= BackoffAfter
                 PROVE  \/ skipped = BackoffMax
                        \/ /\ skipped < BackoffMax
                           /\ skipped = 2 ^ Smaller(failures - BackoffAfter, 30)
        OBVIOUS
    <2>1. Parts
        BY TypeParts DEF SchedulerInv, Parts
    <2>2. backoff = 0
        <3>1. ~HasDrain(queue)
            BY <2>1 DEF Parts, QueueInv
        <3>2. queue # <<>> => ~ByDrain
            BY <2>1, <3>1, TailOfQueue DEF ByDrain, Parts, QueueType, QueueInv
        <3>3. ASSUME NEW o, queue # <<>>, Return(o) PROVE FALSE
            BY <3>2, <3>3 DEF Return
        <3>4. ASSUME UNCHANGED drain PROVE FALSE
            BY <3>4
        <3>5. ~Minute
            <4>1. Minute => drain'.pc = drain.pc
                BY <2>1 DEF Minute, Parts, QueueType
            <4> QED
                BY <4>1
        <3>6. ~Crash /\ ~DrainTail
            BY DEF Crash, DrainTail, DrainOff
        <3>7. ~(\E l \in Logs : Ingest(l)) /\ ~Wallet /\ ~(\E t \in Ticks : HybridStats(t))
              /\ ~(\E a \in Admins : SealNow(a))
            BY <3>4 DEF Ingest, Wallet, HybridStats, SealNow, queueVars
        <3>8. ~SealPick /\ ~SealNothing /\ ~BalanceOk /\ ~BalanceUnknown
            BY <3>3, <3>4 DEF SealPick, SealNothing, BalanceOk, BalanceUnknown
        <3>9. ~BalanceLow /\ ~SealOk /\ ~BalanceCloseFails /\ ~SealFails
            BY <2>1, <3>3 DEF BalanceLow, SealOk, BalanceCloseFails, SealFails, Parts, QueueInv
        <3>10. CASE CronTick
            BY <2>1, <3>4, <3>10, SchedulerConstants DEF CronTick, SkipTick, Parts, CountType
        <3>11. CASE \E t \in Ticks : HybridDecide(t)
            BY <2>1, <3>4, <3>11, SchedulerConstants
            DEF HybridDecide, SkipTick, Parts, CountType
        <3> QED
            BY <3>5, <3>6, <3>7, <3>8, <3>9, <3>10, <3>11 DEF Next, SealStep
    <2>3. skipped = WaitTicks(failures)
        BY <2>1, <2>2, SchedulerConstants DEF Parts, BackoffInv, CountType
    <2>4. Smaller(failures - BackoffAfter, 30) \in Nat
        BY <2>1, SchedulerConstants DEF Parts, CountType, Smaller
    <2>5. 2 ^ Smaller(failures - BackoffAfter, 30) \in Nat
        BY <2>4, PowerOfTwo
    <2> QED
        BY <2>3, <2>5, SchedulerConstants DEF WaitTicks, Smaller
<1>2. [][Served]_vars => BackoffIsServed
    BY PTL DEF BackoffIsServed
<1> QED
    BY <1>1, <1>2, SchedulerInvariant, PTL DEF Spec

\* Only an update that fails makes the process forget an OPEN low-balance alert.
THEOREM OnlyFailedUpdateForgets == Spec => ForgottenOnlyByFailedUpdate
<1> DEFINE Kept == OpenAlertIsRemembered =>
                     \/ OpenAlertIsRemembered'
                     \/ call.pc = "check" /\ call'.pc = "idle" /\ failures' = failures + 1
<1>1. SchedulerInv /\ [Next]_vars => [Kept]_vars
    <2> SUFFICES ASSUME SchedulerInv, Next, alert => low
                 PROVE  \/ alert' => low'
                        \/ call.pc = "check" /\ call'.pc = "idle" /\ failures' = failures + 1
        BY DEF OpenAlertIsRemembered
    <2>1. ASSUME UNCHANGED <<low, alert>> PROVE alert' => low'
        BY <2>1
    <2>2. CASE Crash
        BY <2>2 DEF Crash, Restarted
    <2>3. CASE BalanceOk
        BY <2>3 DEF BalanceOk
    <2>4. CASE BalanceLow
        BY <2>4 DEF BalanceLow
    <2>5. CASE BalanceCloseFails
        <3>1. call' = CallIdle /\ RecordOutcome("throw") /\ call.pc = "check"
            BY <2>5 DEF BalanceCloseFails, Return
        <3>2. failures' = failures + 1
            BY <3>1 DEF RecordOutcome
        <3> QED
            BY <3>1, <3>2 DEF CallIdle
    <2>6. CASE \/ \E l \in Logs : Ingest(l)
               \/ Minute \/ Wallet \/ CronTick
               \/ \E t \in Ticks : HybridStats(t) \/ HybridDecide(t)
               \/ \E a \in Admins : SealNow(a)
        BY <2>1, <2>6 DEF Ingest, Minute, Wallet, CronTick, HybridStats, HybridDecide,
                          SealNow, walletVars
    <2>7. CASE SealPick \/ SealNothing \/ SealOk \/ DrainTail \/ BalanceUnknown \/ SealFails
        BY <2>1, <2>7 DEF SealPick, SealNothing, SealOk, DrainTail, BalanceUnknown,
                          SealFails, walletVars
    <2> QED
        BY <2>2, <2>3, <2>4, <2>5, <2>6, <2>7 DEF Next, SealStep
<1>2. [][Kept]_vars => ForgottenOnlyByFailedUpdate
    BY PTL DEF ForgottenOnlyByFailedUpdate
<1> QED
    BY <1>1, <1>2, SchedulerInvariant, PTL DEF Spec
=============================================================================
