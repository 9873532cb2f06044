---------------------------- MODULE SealScheduler ----------------------------
(***************************************************************************)
(* Who calls sealBatch, and when: the cron tick that drains what is        *)
(* pending, the hybrid tick that decides by count or by age, POST          *)
(* seal-now, and the state they share in memory (sealQueue, drainInFlight, *)
(* the failure counter and its backoff, the low-balance guard).            *)
(*                                                                         *)
(* What one call does is reduced to picking, asking for the balance and an *)
(* outcome; module Integrity has the inside.  Time is the age of a log by  *)
(* the clock of Postgres, in ticks, and stops mattering at MaxWait.        *)
(***************************************************************************)
EXTENDS Integers, Sequences, FiniteSets

CONSTANTS Logs,         \* logs that may arrive
          Admins,       \* who may POST seal-now, one request each at a time
          Modes,        \* values of SEAL_MODE considered
          BatchSize,    \* SEAL_BATCH_SIZE
          MaxWait,      \* SEAL_MAX_WAIT_MINUTES
          BackoffAfter, \* SEAL_FAILURE_BACKOFF_AFTER
          BackoffMax,   \* SEAL_BACKOFF_MAX_TICKS
          MaxBatches,   \* MAX_BATCHES_PER_TICK
          Ticks,        \* hybrid ticks that may wait for getPendingStats at once
          InsertAges,   \* age of a log when its insert commits: created_at is taken
                        \* before the insert, by a clock that may be ahead or behind
          Faults,       \* kinds of failure that may happen
          MaxFaults     \* bound: number of failures

FaultKinds == {"crash",    \* the backend restarts
               "db",       \* a query fails, sealBatchNow throws
               "chain",    \* storeRoot fails, the batch is FAILED
               "rpc",      \* the balance cannot be read
               "poor",     \* the wallet runs low
               "resolve"}  \* closing the low-balance alert fails

ASSUME SchedulerConstants ==
    /\ Logs \subseteq Nat /\ IsFiniteSet(Logs)
    /\ Modes \subseteq {"cron", "hybrid"}
    /\ {BatchSize, MaxWait, MaxBatches, BackoffMax} \subseteq Nat \ {0}
    /\ BackoffAfter \in Nat /\ MaxFaults \in Nat
    /\ InsertAges \subseteq {n \in Int : n <= MaxWait}
    /\ Faults \subseteq FaultKinds
    /\ "drain" \notin Admins

VARIABLES
    mode,      \* sealConfig.mode
    log,       \* "none", "pending" or "sealed"
    age,       \* now() - created_at of a pending log, at most MaxWait
    queue,     \* sealQueue: the calls that have not ended, the first one running
    call,      \* what the running call has picked, and how far it is
    drain,     \* the drain in flight
    tick,      \* the hybrid ticks between getPendingStats and decideSeal
    failures,  \* consecutiveFailures
    backoff,   \* backoffTicksLeft
    poor,      \* the balance is below minBalanceTx transactions
    low,       \* lowBalance
    throttled, \* lastLowBalanceAlertAt is less than an alert interval ago
    alert,     \* an OPEN WALLET_LOW_BALANCE alert
    skipped,   \* ticks skipped for backoff since the last failure
    faults     \* failures so far

queueVars == <<queue, call, drain>>
walletVars == <<low, throttled, alert>>
countVars == <<failures, backoff, skipped>>
vars == <<mode, log, age, queueVars, tick, countVars, poor, walletVars, faults>>

Pending == {l \in Logs : log[l] = "pending"}

Smaller(a, b) == IF a < b THEN a ELSE b

\* No cutoff, or the ticks that have passed since the now() it was taken from.
NoCutoff == -1
Since    == 0 .. MaxWait

CallIdle  == [pc |-> "idle", logs |-> {}]
DrainOff  == [pc |-> "off", reason |-> "none", left |-> 0, since |-> NoCutoff]
TickIdle  == [pc |-> "idle", want |-> "none", left |-> 0, since |-> NoCutoff]

Reasons == {"none", "cron", "count", "age"}

TypeOK ==
    /\ mode \in Modes
    /\ log \in [Logs -> {"none", "pending", "sealed"}]
    /\ age \in [Logs -> {n \in Int : n <= MaxWait}]
    /\ queue \in Seq(Admins \cup {"drain"})
    /\ call \in [pc : {"idle", "check", "seal"}, logs : SUBSET Logs]
    /\ drain \in [pc : {"off", "seal", "tail"}, reason : Reasons,
                  left : 0 .. MaxBatches, since : Since \cup {NoCutoff}]
    /\ tick \in [Ticks -> [pc : {"idle", "stats"}, want : {"none", "count", "age"},
                           left : 0 .. MaxBatches, since : Since \cup {NoCutoff}]]
    /\ failures \in 0 .. MaxFaults
    /\ backoff \in 0 .. BackoffMax /\ skipped \in 0 .. BackoffMax
    /\ {poor, low, throttled, alert} \subseteq BOOLEAN
    /\ faults \in 0 .. MaxFaults

Init ==
    /\ mode \in Modes
    /\ log = [l \in Logs |-> "none"]
    /\ age = [l \in Logs |-> 0]
    /\ queue = <<>> /\ call = CallIdle /\ drain = DrainOff
    /\ tick = [t \in Ticks |-> TickIdle]
    /\ failures = 0 /\ backoff = 0 /\ skipped = 0
    /\ poor = FALSE
    /\ low = TRUE /\ throttled = FALSE /\ alert = FALSE
    /\ faults = 0

Fault(k) == k \in Faults /\ faults < MaxFaults /\ faults' = faults + 1

-----------------------------------------------------------------------------
(* Environment *)

\* Logs differ in nothing else, so they are numbered as they arrive.
Ingest(l) ==
    /\ log[l] = "none" /\ \A k \in Logs : k < l => log[k] # "none"
    /\ log' = [log EXCEPT ![l] = "pending"]
    /\ \E a \in InsertAges : age' = [age EXCEPT ![l] = a]
    /\ UNCHANGED <<mode, queueVars, tick, countVars, poor, walletVars, faults>>

\* Time passes.  Bound: nothing that was read stays in use for more than MaxWait ticks.
Minute ==
    /\ drain.since < MaxWait
    /\ \A t \in Ticks : tick[t].since < MaxWait
    /\ age' = [l \in Logs |-> IF log[l] = "pending" THEN Smaller(age[l] + 1, MaxWait)
                                                    ELSE age[l]]
    /\ drain' = [drain EXCEPT !.since = IF @ = NoCutoff THEN @ ELSE @ + 1]
    /\ tick' = [t \in Ticks |-> [tick[t] EXCEPT !.since = IF @ = NoCutoff THEN @ ELSE @ + 1]]
    /\ throttled' \in {throttled, FALSE}
    /\ UNCHANGED <<mode, log, queue, call, countVars, poor, low, alert, faults>>

Drained == ~poor /\ poor' = TRUE  /\ Fault("poor")
Refill  == poor  /\ poor' = FALSE /\ UNCHANGED faults

Wallet ==
    /\ Drained \/ Refill
    /\ UNCHANGED <<mode, log, age, queueVars, tick, countVars, walletVars>>

\* Mutant: a new process takes the balance for sufficient.
Restarted_NotLow == low' = FALSE /\ throttled' = FALSE

\* lowBalance starts true: the process before may have left its alert OPEN.
Restarted == low' = TRUE /\ throttled' = FALSE

Crash ==
    /\ Fault("crash")
    /\ queue' = <<>> /\ call' = CallIdle /\ drain' = DrainOff
    /\ tick' = [t \in Ticks |-> TickIdle]
    /\ failures' = 0 /\ backoff' = 0 /\ skipped' = 0
    /\ Restarted
    /\ UNCHANGED <<mode, log, age, poor, alert>>

-----------------------------------------------------------------------------
(* The ticks *)

StartDrain(reason, left, since) ==
    /\ drain' = [pc |-> "seal", reason |-> reason, left |-> left, since |-> since]
    /\ queue' = Append(queue, "drain")

SkipTick ==
    /\ backoff' = backoff - 1
    /\ skipped' = skipped + 1
    /\ UNCHANGED <<queue, drain, failures>>

\* runScheduledSeal
CronTick ==
    /\ mode = "cron"
    /\ drain.pc = "off"
    /\ IF backoff > 0
       THEN SkipTick
       ELSE StartDrain("cron", MaxBatches, NoCutoff) /\ UNCHANGED countVars
    /\ UNCHANGED <<mode, log, age, call, tick, poor, walletVars, faults>>

\* Mutant: age is looked at only once a batch is full.
Wanted_CountFirst ==
    IF Cardinality(Pending) < BatchSize THEN "none"
    ELSE IF \E l \in Pending : age[l] >= MaxWait THEN "age" ELSE "count"

\* The part of decideSeal that depends on the counts alone: age comes before count.
Wanted ==
    IF \E l \in Pending : age[l] >= MaxWait THEN "age"
    ELSE IF Cardinality(Pending) >= BatchSize THEN "count" ELSE "none"

\* getPendingStats: the counts are of this moment and are used later.
HybridStats(t) ==
    /\ mode = "hybrid"
    /\ tick[t].pc = "idle"
    /\ tick' = [tick EXCEPT ![t] =
          [pc |-> "stats", want |-> Wanted,
           left |-> CASE Wanted = "age"   -> MaxBatches
                      [] Wanted = "count" -> Smaller(Cardinality(Pending) \div BatchSize, MaxBatches)
                      [] OTHER            -> 0,
           since |-> IF Wanted = "age" THEN 0 ELSE NoCutoff]]
    /\ UNCHANGED <<mode, log, age, queueVars, countVars, poor, walletVars, faults>>

\* Mutant: a drain that waits behind another call is not seen.
InFlight_Running == call.pc # "idle"

\* drainInFlight as it is when the counts have come back.
InFlight == drain.pc # "off"

\* decideSeal once the counts are back.  A drain in flight comes before the backoff: its
\* tick does not count as skipped.
HybridDecide(t) ==
    /\ tick[t].pc = "stats"
    /\ tick' = [tick EXCEPT ![t] = TickIdle]
    /\ IF InFlight \/ (backoff = 0 /\ tick[t].want = "none")
       THEN UNCHANGED <<queue, drain, countVars>>
       ELSE IF backoff > 0
       THEN SkipTick
       ELSE StartDrain(tick[t].want, tick[t].left, tick[t].since) /\ UNCHANGED countVars
    /\ UNCHANGED <<mode, log, age, call, poor, walletVars, faults>>

\* POST seal-now
SealNow(a) ==
    /\ \A i \in DOMAIN queue : queue[i] # a
    /\ queue' = Append(queue, a)
    /\ UNCHANGED <<mode, log, age, call, drain, tick, countVars, poor, walletVars, faults>>

-----------------------------------------------------------------------------
(* One call of sealBatch *)

ByDrain == Head(queue) = "drain"

\* created_at <= cutoff, for a drain by age
Eligible == {l \in Pending : ByDrain => age[l] >= drain.since}

Older(k, l) == age[k] > age[l] \/ (age[k] = age[l] /\ k < l)

Picked == {l \in Eligible : Cardinality({k \in Eligible : Older(k, l)}) < BatchSize}

\* Mutant: the exponent is one too small.
WaitTicks_OffByOne(n) == Smaller(2 ^ (IF n > BackoffAfter THEN n - BackoffAfter - 1 ELSE 0), BackoffMax)

\* How many ticks to skip after n failures in a row.
WaitTicks(n) == Smaller(2 ^ Smaller(n - BackoffAfter, 30), BackoffMax)

\* recordSealOutcome; a call that found nothing, or not enough money, does not count.
RecordOutcome(outcome) ==
    CASE outcome = "ok" -> failures' = 0 /\ backoff' = 0 /\ skipped' = 0
      [] outcome \in {"failed", "throw"} ->
            /\ failures' = failures + 1
            /\ skipped' = 0
            /\ backoff' = IF BackoffAfter = 0 \/ failures' < BackoffAfter
                          THEN backoff ELSE WaitTicks(failures')
      [] OTHER -> UNCHANGED countVars

\* A drain by age counts what is left, for its log line, before it gives drainInFlight back.
LeaveDrain(outcome) ==
    /\ drain' = IF drain.reason = "age" /\ outcome \notin {"skip", "throw"}
                THEN [DrainOff EXCEPT !.pc = "tail"] ELSE DrainOff
    /\ queue' = Tail(queue)

StayInDrain ==
    /\ drain' = [drain EXCEPT !.left = @ - 1]
    /\ queue' = Append(Tail(queue), "drain")

\* The loops of runScheduledSeal and drainPending, after a call.
GoesOn(outcome) ==
    /\ outcome = "ok" /\ drain.left > 1
    /\ drain.reason = "cron" => Cardinality(call.logs) = BatchSize

\* The call ends, the next in the queue may start whatever the outcome.
Return(outcome) ==
    /\ call' = CallIdle
    /\ RecordOutcome(outcome)
    /\ IF ~ByDrain THEN queue' = Tail(queue) /\ UNCHANGED drain
       ELSE IF GoesOn(outcome) THEN StayInDrain ELSE LeaveDrain(outcome)

SealPick ==
    /\ call.pc = "idle" /\ queue # <<>> /\ Eligible # {}
    /\ call' = [pc |-> "check", logs |-> Picked]
    /\ UNCHANGED <<mode, log, age, queue, drain, tick, countVars, poor, walletVars, faults>>

SealNothing ==
    /\ call.pc = "idle" /\ queue # <<>> /\ Eligible = {}
    /\ Return("null")
    /\ UNCHANGED <<mode, log, age, tick, poor, walletVars, faults>>

\* checkWalletBalance: enough, and what an earlier check or process left OPEN is closed.
BalanceOk ==
    /\ call.pc = "check" /\ ~poor
    /\ call' = [call EXCEPT !.pc = "seal"]
    /\ low' = FALSE
    /\ alert' = IF low THEN FALSE ELSE alert
    /\ UNCHANGED <<mode, log, age, queue, drain, tick, countVars, poor, throttled, faults>>

\* lowBalance is cleared before the update that fails.
BalanceCloseFails ==
    /\ call.pc = "check" /\ ~poor /\ low /\ Fault("resolve")
    /\ low' = FALSE
    /\ Return("throw")
    /\ UNCHANGED <<mode, log, age, tick, poor, throttled, alert>>

BalanceUnknown ==
    /\ call.pc = "check" /\ Fault("rpc")
    /\ call' = [call EXCEPT !.pc = "seal"]
    /\ UNCHANGED <<mode, log, age, queue, drain, tick, countVars, poor, walletVars>>

\* raiseLowBalanceAlert: the interval starts over even if the alert cannot be recorded.
BalanceLow ==
    /\ call.pc = "check" /\ poor
    /\ low' = TRUE /\ throttled' = TRUE
    /\ \/ alert' = (alert \/ ~throttled) /\ UNCHANGED faults
       \/ ~throttled /\ Fault("db") /\ UNCHANGED alert
    /\ Return("skip")
    /\ UNCHANGED <<mode, log, age, tick, poor>>

SealOk ==
    /\ call.pc = "seal"
    /\ log' = [l \in Logs |-> IF l \in call.logs THEN "sealed" ELSE log[l]]
    /\ age' = [l \in Logs |-> IF l \in call.logs THEN 0 ELSE age[l]]
    /\ Return("ok")
    /\ UNCHANGED <<mode, tick, poor, walletVars, faults>>

SealFails ==
    /\ \/ call.pc = "seal" /\ Fault("chain") /\ Return("failed")
       \/ queue # <<>> /\ call.pc # "check" /\ Fault("db") /\ Return("throw")
    /\ UNCHANGED <<mode, log, age, tick, poor, walletVars>>

\* The counts after a drain by age are in; drainInFlight is given back, whatever they are.
DrainTail ==
    /\ drain.pc = "tail" /\ drain' = DrainOff
    /\ UNCHANGED <<mode, log, age, queue, call, tick, countVars, poor, walletVars, faults>>

-----------------------------------------------------------------------------
SealStep == SealPick \/ SealNothing \/ BalanceOk \/ BalanceLow \/ SealOk

Next ==
    \/ \E l \in Logs : Ingest(l)
    \/ Minute \/ Wallet \/ Crash
    \/ CronTick
    \/ \E t \in Ticks : HybridStats(t) \/ HybridDecide(t)
    \/ \E a \in Admins : SealNow(a)
    \/ SealStep \/ DrainTail \/ BalanceCloseFails \/ BalanceUnknown \/ SealFails

Spec == Init /\ [][Next]_vars

\* The cron jobs fire every period and the event loop runs what is ready; the clock goes
\* on; somebody refills the wallet.  Nobody has to POST seal-now.
Fairness ==
    /\ WF_vars(SealStep) /\ WF_vars(DrainTail)
    /\ WF_vars(CronTick) /\ WF_vars(Minute) /\ WF_vars(Wallet /\ poor)
    /\ \A t \in Ticks : WF_vars(HybridStats(t) \/ HybridDecide(t))

FairSpec == Spec /\ Fairness

-----------------------------------------------------------------------------
(* Properties *)

\* At most one drain waits or runs in sealQueue, and drainInFlight is on while it does,
\* although every tick reads the database before it looks at the flag.
OneDrain ==
    LET drains == {i \in DOMAIN queue : queue[i] = "drain"}
    IN  /\ Cardinality(drains) <= 1
        /\ drains # {} <=> drain.pc = "seal"

\* What the comment on lowBalance promises: while a low-balance alert is OPEN the process
\* still means to close it at the next check that finds enough money, restarts included.
OpenAlertIsRemembered == alert => low

\* Only an update that fails breaks that promise: no restart, throttled alert or check that
\* cannot read the balance leaves an OPEN alert that nobody will close.
ForgottenOnlyByFailedUpdate ==
    [][ OpenAlertIsRemembered =>
        \/ OpenAlertIsRemembered'
        \/ call.pc = "check" /\ call'.pc = "idle" /\ failures' = failures + 1 ]_vars

\* After n failures in a row, n at least BackoffAfter, a tick starts a drain only when
\* 2^(n - BackoffAfter) ticks, at most BackoffMax (and 2^30, where the exponent stops), have
\* been skipped since the last failure; calls by hand that fail start the wait over, those
\* that succeed end it.
BackoffIsServed ==
    [][ (drain.pc = "off" /\ drain'.pc = "seal" /\ BackoffAfter > 0 /\ failures >= BackoffAfter)
        => \/ skipped = BackoffMax
           \/ /\ skipped < BackoffMax
              /\ skipped = 2 ^ Smaller(failures - BackoffAfter, 30) ]_vars

\* Pending logs are sealed in the end, in both modes (logs are finitely many and a sealed
\* one stays sealed, so this is the same as each of them): no failure, restart, low balance
\* or overlapping ticks leave sealQueue or drainInFlight stuck.
PendingIsSealed == Pending # {} ~> Pending = {}

=============================================================================
