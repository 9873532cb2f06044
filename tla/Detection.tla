------------------------------ MODULE Detection ------------------------------
(***************************************************************************)
(* The detection consumer: it reads logs.raw, drops the logs it remembers, *)
(* runs the rule engine over the rest and, when no rule matches, the       *)
(* sequence model over the log keys of the source.  What it finds goes to  *)
(* the alert topics.                                                       *)
(*                                                                         *)
(* All its memory (SeenIds, the windows of the rules, the key buffers) is  *)
(* lost together when it restarts, and it goes back to the offset that was *)
(* committed last.  One message is one step: the loop is sequential, and a *)
(* crash inside a step leaves what a crash before or after it leaves.      *)
(***************************************************************************)
EXTENDS Topics

CONSTANTS About,        \* what the consumer reads in a log: see LogFields
          Rules,        \* self.rules, in the order of the file
          SeenCapacity, \* SeenIds(capacity)
          HistoryMax,   \* maxlen of a history
          PruneEvery,   \* PRUNE_EVERY
          BufferSize,   \* BUFFER_SIZE
          WindowSize,   \* WINDOW_SIZE, one more than the window of the model
          Likely,       \* Likely[k]: the keys the model ranks in its top k after key k
          DetectFaults, \* kinds of failure that may happen
          MaxDetectFaults \* bound: number of failures

UnknownKey == 0

\* hits: the rules whose filters and patterns accept the log; attempt: what distinct_by finds.
LogFields == [source : STRING, ip : STRING, time : Int, hits : SUBSET (1 .. Len(Rules)),
              attempt : STRING, key : Nat]

\* A rule without a threshold has count 0, without a prior rule prior 0, without
\* undistinct_pair_seconds pair 0.
RuleFields == [count : Nat, window : Nat, pair : Nat, prior : Nat, severity : STRING]

DetectFaultKinds == {"crash",    \* the consumer dies and starts again
                     "publish",  \* an alert is not acknowledged
                     "model"}    \* /detect does not answer

ASSUME DetectionConstants ==
    /\ IsFiniteSet(Logs) /\ About \in [Logs -> LogFields]
    /\ Rules \in Seq(RuleFields)
    /\ {SeenCapacity, HistoryMax, PruneEvery, WindowSize} \subseteq Nat \ {0}
    /\ BufferSize \in Nat /\ WindowSize <= BufferSize
    /\ \A i \in DOMAIN Rules : Rules[i].prior \in 0 .. Len(Rules)
    /\ DetectFaults \subseteq DetectFaultKinds /\ MaxDetectFaults \in Nat

VARIABLES
    next,      \* offset of the next message to read
    committed, \* offset of the consumer group
    booted,    \* offset at which the running process began to read
    seen,      \* SeenIds: ids, the most recently seen last
    evaluated, \* logs given to RuleEngine.evaluate, in order
    history,   \* _event_history: logs per rule and actor
    prior,     \* _prior_matches: the last match per rule and actor
    buffer,    \* buffers: the last log keys of a source
    found,     \* every alert built, published or not
    dfaults    \* failures so far

memory == <<booted, seen, evaluated, history, prior, buffer>>
detectVars == <<next, committed, memory, alertq, found, dfaults>>

Actor(l) == IF About[l].ip # None THEN <<"ip", About[l].ip>> ELSE <<"source", About[l].source>>
Actors == {Actor(l) : l \in Logs}
Sources == {About[l].source : l \in Logs}
RuleIds == DOMAIN Rules
Time(l) == About[l].time
NoMatch == [at |-> -1, logs |-> {}]

AlertOf(l, rule, severity, related, before) ==
    [log |-> l, source |-> About[l].source, ip |-> About[l].ip, rule |-> rule,
     severity |-> severity, related |-> related, prior |-> before]

DetectTypeOK ==
    /\ 0 <= booted /\ booted <= next /\ committed <= next /\ next <= Len(raw)
    /\ seen \in Seq(Logs) /\ Len(seen) <= SeenCapacity
    /\ \A i, j \in DOMAIN seen : seen[i] = seen[j] => i = j
    /\ \A r \in RuleIds, a \in Actors :
        Len(history[r, a]) <= HistoryMax /\ prior[r, a].logs \subseteq Logs
    /\ \A s \in Sources : Len(buffer[s]) <= BufferSize /\ buffer[s] \in Seq(Nat \ {UnknownKey})
    /\ {alertq[i] : i \in DOMAIN alertq} \subseteq found

Forgets ==
    /\ seen' = <<>> /\ evaluated' = <<>>
    /\ history' = [k \in RuleIds \X Actors |-> <<>>]
    /\ prior' = [k \in RuleIds \X Actors |-> NoMatch]
    /\ buffer' = [s \in Sources |-> <<>>]

DetectInit ==
    /\ next = 0 /\ committed = 0 /\ booted = 0
    /\ seen = <<>> /\ evaluated = <<>>
    /\ history = [k \in RuleIds \X Actors |-> <<>>]
    /\ prior = [k \in RuleIds \X Actors |-> NoMatch]
    /\ buffer = [s \in Sources |-> <<>>]
    /\ alertq = <<>> /\ found = {} /\ dfaults = 0

DetectFault(k) == k \in DetectFaults /\ dfaults < MaxDetectFaults /\ dfaults' = dfaults + 1

\* The last n elements.
LastOf(seq, n) == IF Len(seq) <= n THEN seq ELSE SubSeq(seq, Len(seq) - n + 1, Len(seq))

-----------------------------------------------------------------------------
(* SeenIds *)

IsDuplicate(l) == \E i \in DOMAIN seen : seen[i] = l

Refreshed(l) == Append(SelectSeq(seen, LAMBDA k : k # l), l)

\* A new id pushes the oldest one out of a full memory, a known one becomes the newest.
Remembered(l) == IF IsDuplicate(l) THEN Refreshed(l) ELSE LastOf(Append(seen, l), SeenCapacity)

-----------------------------------------------------------------------------
(* RuleEngine.evaluate *)

MaxWindow == LET ws == {Rules[r].window : r \in RuleIds}
             IN  CHOOSE w \in ws \cup {0} : \A v \in ws : v <= w

\* _prune: keys whose newest entry is older than every window.
Prunes == (Len(evaluated) + 1) % PruneEvery = 0
Stale_AtOnce(t, now) == t < now
Stale(t, now) == t < now - MaxWindow

Pruned(h, now) == IF Prunes /\ h # <<>> /\ Stale(Time(h[Len(h)]), now) THEN <<>> ELSE h
PrunedMatch(p, now) == IF Prunes /\ Stale(p.at, now) THEN NoMatch ELSE p

\* What the rule has counted of this actor, this log included.
Counted(r, l) == LastOf(Append(Pruned(history[r, Actor(l)], Time(l)), l), HistoryMax)

Keyed(l) == About[l].attempt # None
Near(s, t, d) == s - t <= d /\ t - s <= d

\* Entries that are not too old; nothing asks whether they are older than the log at all.
InWindow(h, l, w) == {i \in DOMAIN h : Time(l) - Time(h[i]) <= w}

AttemptsIn_EveryLine(h, I, pair) == Cardinality(I)

\* Distinct attempts, and the entries without one that are not the other line of a keyed one.
AttemptsIn(h, I, pair) ==
    Cardinality({About[h[i]].attempt : i \in {j \in I : Keyed(h[j])}})
    + Cardinality({i \in I : ~Keyed(h[i])
            /\ ~(pair > 0 /\ \E j \in I : Keyed(h[j]) /\ Near(Time(h[i]), Time(h[j]), pair))})

OverThreshold(r, l) ==
    LET h == Counted(r, l)
    IN  AttemptsIn(h, InWindow(h, l, Rules[r].window), Rules[r].pair) >= Rules[r].count

PriorOf(r, l) == PrunedMatch(prior[Rules[r].prior, Actor(l)], Time(l))

PriorHolds(r, l) ==
    LET p == PriorOf(r, l) IN p # NoMatch /\ Time(l) - p.at <= Rules[r].window

Matches(r, l) ==
    /\ r \in About[l].hits
    /\ Rules[r].count > 0 => OverThreshold(r, l)
    /\ Rules[r].prior > 0 => PriorHolds(r, l)

\* The rules are tried in order and the first match ends the evaluation.
FirstMatch(l) ==
    LET ms == {r \in RuleIds : Matches(r, l)}
    IN  IF ms = {} THEN 0 ELSE CHOOSE r \in ms : \A q \in ms : r <= q

Tried(l) == {r \in About[l].hits : FirstMatch(l) = 0 \/ r <= FirstMatch(l)}

Evidence(r, l) ==
    IF Rules[r].count = 0 THEN {l}
    ELSE LET h == Counted(r, l) IN {h[i] : i \in InWindow(h, l, Rules[r].window)}

RuleAlert(r, l) ==
    AlertOf(l, r, Rules[r].severity, Evidence(r, l),
            IF Rules[r].prior > 0 THEN PriorOf(r, l).logs ELSE {})

Evaluate(l) ==
    LET now == Time(l)
        m == FirstMatch(l)
    IN  /\ history' = [k \in RuleIds \X Actors |->
                IF k[2] = Actor(l) /\ k[1] \in Tried(l) /\ Rules[k[1]].count > 0
                THEN Counted(k[1], l) ELSE Pruned(history[k], now)]
        /\ prior' = [k \in RuleIds \X Actors |->
                IF k = <<m, Actor(l)>> THEN [at |-> now, logs |-> Evidence(m, l)]
                ELSE PrunedMatch(prior[k], now)]
        /\ evaluated' = Append(evaluated, l)

-----------------------------------------------------------------------------
(* The loop of consumer.py *)

\* push_alert: found is what the detector saw, alertq what the broker acknowledged.
Push(a) ==
    /\ found' = found \cup {a}
    /\ \/ alertq' = Append(alertq, a) /\ UNCHANGED dfaults
       \/ DetectFault("publish") /\ UNCHANGED alertq

PushNothing == UNCHANGED <<alertq, found, dfaults>>

\* DeeplogDetector.detect: some key does not follow from the one before it.
Anomalous(keys) ==
    \/ Len(keys) < WindowSize
    \/ \E i \in WindowSize .. Len(keys) : keys[i] \notin Likely[keys[i - 1]]

ModelAlert(l, severity) == AlertOf(l, 0, severity, {l}, {})

\* The severity depends on what is known of the address.
ModelStep(l) ==
    LET keys == LastOf(Append(buffer[About[l].source], About[l].key), BufferSize)
    IN  IF About[l].key = UnknownKey THEN UNCHANGED buffer /\ PushNothing
        ELSE /\ buffer' = [buffer EXCEPT ![About[l].source] = keys]
             /\ \/ Len(keys) < WindowSize /\ PushNothing
                \/ /\ Len(keys) >= WindowSize
                   /\ \/ ~Anomalous(keys) /\ PushNothing
                      \/ Anomalous(keys) /\ \E s \in {"INFO", "WARNING", "CRITICAL"} :
                            Push(ModelAlert(l, s))
                      \/ DetectFault("model") /\ UNCHANGED <<alertq, found>>

\* The id is remembered before anything is done with the log.
Consume ==
    /\ next < Len(raw)
    /\ LET l == raw[next + 1]
       IN  /\ next' = next + 1
           /\ seen' = Remembered(l)
           /\ IF IsDuplicate(l)
              THEN UNCHANGED <<evaluated, history, prior, buffer>> /\ PushNothing
              ELSE /\ Evaluate(l)
                   /\ IF FirstMatch(l) > 0
                      THEN Push(RuleAlert(FirstMatch(l), l)) /\ UNCHANGED buffer
                      ELSE ModelStep(l)
    /\ UNCHANGED <<committed, booted>>

\* kafka-python commits in the background what the loop has come back for.
Commit ==
    /\ committed < next /\ committed' = next
    /\ UNCHANGED <<next, memory, alertq, found, dfaults>>

ConsumerCrash_FromTheEnd ==
    /\ DetectFault("crash")
    /\ next' = Len(raw) /\ booted' = Len(raw)
    /\ Forgets
    /\ UNCHANGED <<committed, alertq, found>>

ConsumerCrash ==
    /\ DetectFault("crash")
    /\ next' = committed /\ booted' = committed
    /\ Forgets
    /\ UNCHANGED <<committed, alertq, found>>

DetectNext == Consume \/ Commit \/ ConsumerCrash

-----------------------------------------------------------------------------
(* Properties *)

\* The attempts of an actor among some logs, by the definition of a threshold rule.
AttemptsAmong(S, pair) ==
    Cardinality({About[l].attempt : l \in {k \in S : Keyed(k)}})
    + Cardinality({l \in S : ~Keyed(l)
            /\ ~(pair > 0 /\ \E k \in S : Keyed(k) /\ Near(Time(l), Time(k), pair))})

NoneTwice == \A i, j \in DOMAIN evaluated : evaluated[i] = evaluated[j] => i = j

Justified(a) ==
    /\ \A l \in a.related :
        Actor(l) = Actor(a.log) /\ a.rule \in About[l].hits
        /\ Time(a.log) - Time(l) <= Rules[a.rule].window
    /\ AttemptsAmong(a.related, Rules[a.rule].pair) >= Rules[a.rule].count

\* As long as SeenIds has let no log through twice, an alert of a threshold rule rests on
\* that many different attempts of one actor, none older than the window, however often and
\* in whatever order the logs were delivered (RuleEngine.evaluate behind SeenIds).
ThresholdJustified ==
    [][NoneTwice' => \A a \in found' \ found :
            a.rule > 0 /\ Rules[a.rule].count > 0 => Justified(a)]_found

InOrder == \A i, j \in DOMAIN evaluated : i < j => Time(evaluated[i]) <= Time(evaluated[j])

\* As long as logs come in order, an actor that makes the attempts of a threshold rule within
\* its window is found, pruning notwithstanding; what an earlier rule took does not count for
\* a later one (RuleEngine.evaluate, _prune).
NoAttackMissed ==
    InOrder =>
        \A n \in DOMAIN evaluated : \A r \in RuleIds :
            LET l == evaluated[n]
                S == {k \in {evaluated[i] : i \in 1 .. n} :
                        /\ Actor(k) = Actor(l) /\ r \in About[k].hits
                        /\ Time(l) - Time(k) <= Rules[r].window
                        /\ ~\E a \in found : a.log = k /\ a.rule \in 1 .. r - 1}
            IN  (/\ r \in About[l].hits /\ Rules[r].count > 0 /\ Rules[r].prior = 0
                 /\ AttemptsAmong(S, Rules[r].pair) >= Rules[r].count)
                    => \E a \in found : a.log = l /\ a.rule \in 1 .. r
=============================================================================
