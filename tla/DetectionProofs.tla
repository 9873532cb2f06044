--------------------------- MODULE DetectionProofs ---------------------------
(***************************************************************************)
(* Theorems about Detection within the pipeline, for any rules, logs,      *)
(* sizes of memory, deliveries and failures: an alert of a threshold rule  *)
(* rests on the attempts it speaks of, and attempts that reach a threshold *)
(* are not passed over while they fit in the history.                      *)
(***************************************************************************)
EXTENDS Pipeline, FiniteSetTheorems, SequenceTheorems, WellFoundedInduction, TLAPS

KeysOfRules == RuleIds \X Actors

DetectTypes ==
    /\ raw \in Seq(Logs)
    /\ next \in Nat /\ committed \in Nat /\ booted \in Nat
    /\ evaluated \in Seq(Logs)
    /\ history \in [KeysOfRules -> Seq(Logs)]
    /\ \A k \in KeysOfRules : Len(history[k]) <= HistoryMax

-----------------------------------------------------------------------------
(* The history of a rule and an actor is a part of what was evaluated: f   *)
(* says where each of its entries stands among the first n logs.  What the *)
(* rule accepts and the history does not have was taken by an earlier      *)
(* rule, is too old, or was pushed out of a history full of later entries. *)

Accepts(r, a, l) == Actor(l) = a /\ r \in About[l].hits

Places(h, r, a, ev, n, f) ==
    /\ f \in [DOMAIN h -> 1 .. n]
    /\ \A i, j \in DOMAIN h : i < j => f[i] < f[j]
    /\ \A j \in DOMAIN h : h[j] = ev[f[j]] /\ Accepts(r, a, h[j])

Ordered(ev) == \A i, j \in DOMAIN ev : i < j => Time(ev[i]) <= Time(ev[j])
Taken(r, l, fd) == \E x \in fd : x.log = l /\ x.rule \in 1 .. r - 1
TooOld(i, ev) == \E m \in DOMAIN ev : i <= m /\ Stale(Time(ev[i]), Time(ev[m]))

Complete(h, r, a, ev, n, fd, f) ==
    \A i \in 1 .. n : Accepts(r, a, ev[i]) /\ (\A j \in DOMAIN h : f[j] # i) =>
        \/ Taken(r, ev[i], fd)
        \/ TooOld(i, ev)
        \/ Len(h) = HistoryMax /\ \A j \in DOMAIN h : i < f[j]

Kept(h, r, a, ev, n, fd) ==
    \E f : Places(h, r, a, ev, n, f) /\ (Ordered(ev) => Complete(h, r, a, ev, n, fd, f))

HistoryInv ==
    \A r \in RuleIds, a \in Actors :
        Rules[r].count > 0 => Kept(history[r, a], r, a, evaluated, Len(evaluated), found)

-----------------------------------------------------------------------------
(* NoAttackMissed, told of a sequence of logs and of what was found in it. *)

\* A rule that an alert names accepts the log the alert is about.
Founded(fd) == \A x \in fd : x.rule # 0 => x.log \in Logs /\ x.rule \in About[x.log].hits

\* The logs of the window of the n-th log that the rule r accepts: their places.
Within(ev, n, r) ==
    {i \in 1 .. n : /\ Accepts(r, Actor(ev[n]), ev[i])
                    /\ Time(ev[n]) - Time(ev[i]) <= Rules[r].window}

Suspects(ev, fd, n, r) ==
    {k \in {ev[i] : i \in 1 .. n} :
        /\ Accepts(r, Actor(ev[n]), k)
        /\ Time(ev[n]) - Time(k) <= Rules[r].window
        /\ ~Taken(r, k, fd)}

Reaches(ev, fd, n, r) ==
    /\ r \in About[ev[n]].hits /\ Rules[r].count > 0 /\ Rules[r].prior = 0
    /\ AttemptsAmong(Suspects(ev, fd, n, r), Rules[r].pair) >= Rules[r].count

Told(ev, fd, n, r) == \E x \in fd : x.log = ev[n] /\ x.rule \in 1 .. r

CaughtAt(ev, fd, n, r) ==
    Cardinality(Within(ev, n, r)) <= HistoryMax /\ Reaches(ev, fd, n, r) => Told(ev, fd, n, r)

CaughtInv ==
    Ordered(evaluated) =>
        \A n \in DOMAIN evaluated, r \in RuleIds : CaughtAt(evaluated, found, n, r)

\* No rule that pairs the two lines of an attempt comes after one that takes its logs.  In
\* security_rules.yaml only 5710 pairs lines and it is the first rule.
PairsStandFirst ==
    \A q, r \in RuleIds :
        q < r /\ Rules[r].count > 0 /\ Rules[r].pair > 0 =>
            \A l \in Logs : ~(q \in About[l].hits /\ r \in About[l].hits)

\* What a threshold rule must remember of an actor fits in a history (deque(maxlen=100)).
HistoriesSuffice ==
    \A n \in DOMAIN evaluated, r \in RuleIds :
        Rules[r].count > 0 => Cardinality(Within(evaluated, n, r)) <= HistoryMax

-----------------------------------------------------------------------------
(* Operators *)

LEMMA AboutType ==
    ASSUME NEW l \in Logs
    PROVE  /\ About[l] \in LogFields /\ Time(l) \in Int
           /\ About[l].hits \subseteq RuleIds /\ Actor(l) \in Actors
BY DetectionConstants DEF LogFields, Time, RuleIds, Actors

LEMMA RuleType ==
    ASSUME NEW r \in RuleIds
    PROVE  /\ r \in Nat \ {0} /\ Rules[r] \in RuleFields /\ Rules[r].count \in Nat
           /\ Rules[r].window \in Nat /\ Rules[r].pair \in Nat
<1>1. r \in 1 .. Len(Rules) /\ Rules \in Seq(RuleFields)
    BY DetectionConstants DEF RuleIds
<1>2. Rules[r] \in RuleFields
    BY <1>1
<1> QED
    BY <1>1, <1>2 DEF RuleFields

LEMMA LastOfFacts ==
    ASSUME NEW S, NEW q \in Seq(S), NEW n \in Nat
    PROVE  /\ LastOf(q, n) \in Seq(S)
           /\ Len(LastOf(q, n)) = IF Len(q) <= n THEN Len(q) ELSE n
           /\ \A j \in DOMAIN LastOf(q, n) :
                  LastOf(q, n)[j] = q[j + Len(q) - Len(LastOf(q, n))]
<1>0. Len(q) \in Nat
    OBVIOUS
<1>1. CASE Len(q) <= n
    <2>1. LastOf(q, n) = q
        BY <1>1 DEF LastOf
    <2>2. \A j \in DOMAIN q : j \in Int
        OBVIOUS
    <2> QED
        BY <1>0, <1>1, <2>1, <2>2
<1>2. CASE Len(q) > n
    <2> DEFINE m == Len(q) - n + 1
    <2>1. m \in Int /\ m >= 1 /\ m <= Len(q) + 1
        BY <1>0, <1>2
    <2>2. \A i \in m .. Len(q) : q[i] \in S
        BY <1>0, <2>1
    <2>3. LastOf(q, n) = SubSeq(q, m, Len(q))
        BY <1>0, <1>2 DEF LastOf
    <2> HIDE DEF m
    <2>4. /\ SubSeq(q, m, Len(q)) \in Seq(S)
          /\ Len(SubSeq(q, m, Len(q))) = IF m <= Len(q) THEN Len(q) - m + 1 ELSE 0
          /\ \A i \in 1 .. Len(q) - m + 1 : SubSeq(q, m, Len(q))[i] = q[m + i - 1]
        BY <1>0, <2>1, <2>2, SubSeqProperties
    <2>5. Len(LastOf(q, n)) = n /\ DOMAIN LastOf(q, n) = 1 .. n
        BY <1>0, <1>2, <2>3, <2>4 DEF m
    <2>6. ASSUME NEW j \in 1 .. n PROVE LastOf(q, n)[j] = q[j + Len(q) - n]
        <3>1. j \in 1 .. Len(q) - m + 1 /\ m + j - 1 = j + Len(q) - n
            BY <1>0, <1>2 DEF m
        <3> QED
            BY <2>3, <2>4, <3>1
    <2> QED
        BY <1>2, <2>3, <2>4, <2>5, <2>6
<1> QED
    BY <1>0, <1>1, <1>2

\* No window is longer than MaxWindow: pruning takes only what no rule can count.
LEMMA WindowsAreShort ==
    /\ MaxWindow \in Nat
    /\ \A r \in RuleIds : Rules[r].window <= MaxWindow
<1> DEFINE Top(n, w) == /\ w = 0 \/ \E r \in 1 .. n : w = Rules[r].window
                        /\ \A r \in 1 .. n : Rules[r].window <= w
           none == {n \in 0 .. Len(Rules) : ~ \E w \in Nat : Top(n, w)}
<1>1. RuleIds = 1 .. Len(Rules) /\ Len(Rules) \in Nat
    BY DetectionConstants DEF RuleIds
<1>2. none = {}
    <2> SUFFICES ASSUME none # {} PROVE FALSE
        OBVIOUS
    <2>1. none \subseteq Nat
        BY <1>1
    <2>2. PICK n \in none : \A m \in none : ~ (<<m, n>> \in OpToRel(<, Nat))
        <3> HIDE DEF none
        <3> QED
            BY <2>1, WFMin, NatLessThanWellFounded
    <2>3. n \in 0 .. Len(Rules) /\ n \in Nat
        BY <1>1
    <2>4. CASE n = 0
        <3>1. Top(0, 0)
            OBVIOUS
        <3> QED
            BY <2>2, <2>4, <3>1
    <2>5. CASE n # 0
        <3>1. n - 1 \in 0 .. Len(Rules) /\ n - 1 \in Nat /\ n - 1 < n
            BY <1>1, <2>3, <2>5
        <3>2. <<n - 1, n>> \in OpToRel(<, Nat)
            BY <2>3, <3>1 DEF OpToRel
        <3>3. n - 1 \notin none
            BY <2>2, <3>2
        <3>4. PICK w \in Nat : Top(n - 1, w)
            BY <3>1, <3>3
        <3>5. n \in RuleIds /\ Rules[n].window \in Nat
            BY <1>1, <2>3, <2>5, RuleType
        <3>6. \A r \in 1 .. n : r \in 1 .. n - 1 \/ r = n
            BY <2>3
        <3>7. \A r \in 1 .. n - 1 : r \in 1 .. n /\ r \in RuleIds /\ Rules[r].window \in Nat
            BY <1>1, <2>3, RuleType
        <3>8. CASE Rules[n].window <= w
            <4>1. Top(n, w)
                BY <3>4, <3>6, <3>7, <3>8
            <4> QED
                BY <2>2, <4>1
        <3>9. CASE ~ (Rules[n].window <= w)
            <4>1. \A r \in 1 .. n - 1 : Rules[r].window <= Rules[n].window
                BY <3>4, <3>5, <3>7, <3>9
            <4>2. n \in 1 .. n /\ Rules[n].window <= Rules[n].window
                BY <2>3, <2>5, <3>5
            <4>3. Top(n, Rules[n].window)
                BY <3>6, <4>1, <4>2
            <4> QED
                BY <2>2, <3>5, <4>3
        <3> QED
            BY <3>8, <3>9
    <2> QED
        BY <2>4, <2>5
<1>3. \E w \in Nat : Top(Len(Rules), w)
    <2>1. Len(Rules) \in 0 .. Len(Rules)
        BY <1>1
    <2> HIDE DEF Top
    <2> QED
        BY <1>2, <2>1
<1>9. PICK w \in Nat : Top(Len(Rules), w)
    BY <1>3
<1> DEFINE ws == {Rules[r].window : r \in RuleIds}
<1>4. w \in ws \cup {0} /\ \A v \in ws : v <= w
    BY <1>1, <1>9
<1>5. MaxWindow \in ws \cup {0} /\ \A v \in ws : v <= MaxWindow
    BY <1>4 DEF MaxWindow
<1>6. ws \subseteq Nat
    BY RuleType
<1> QED
    BY <1>5, <1>6

-----------------------------------------------------------------------------
(* What one log does to a history *)

LEMMA AppendFacts ==
    ASSUME NEW ev \in Seq(Logs), NEW l \in Logs
    PROVE  /\ Append(ev, l) \in Seq(Logs)
           /\ Len(Append(ev, l)) = Len(ev) + 1 /\ Len(ev) \in Nat
           /\ DOMAIN ev = 1 .. Len(ev) /\ DOMAIN Append(ev, l) = 1 .. Len(ev) + 1
           /\ \A i \in 1 .. Len(ev) : Append(ev, l)[i] = ev[i] /\ ev[i] \in Logs
           /\ Append(ev, l)[Len(ev) + 1] = l
           /\ Ordered(Append(ev, l)) => Ordered(ev)
           /\ \A i \in 1 .. Len(ev) : TooOld(i, ev) => TooOld(i, Append(ev, l))
<1> DEFINE e == Append(ev, l)
<1>1. /\ e \in Seq(Logs) /\ Len(e) = Len(ev) + 1 /\ Len(ev) \in Nat
      /\ DOMAIN ev = 1 .. Len(ev) /\ DOMAIN e = 1 .. Len(ev) + 1
      /\ \A i \in 1 .. Len(ev) : e[i] = ev[i] /\ ev[i] \in Logs
      /\ e[Len(ev) + 1] = l
    OBVIOUS
<1> HIDE DEF e
<1>2. Ordered(e) => Ordered(ev)
    BY <1>1 DEF Ordered
<1>3. \A i \in 1 .. Len(ev) : TooOld(i, ev) => TooOld(i, e)
    BY <1>1 DEF TooOld
<1> QED
    BY <1>1, <1>2, <1>3 DEF e

\* Pruning keeps a history or drops one in which, as logs come in order, all are too old.
LEMMA PruningKeeps ==
    ASSUME NEW r \in RuleIds, NEW a \in Actors, NEW h \in Seq(Logs), NEW ev \in Seq(Logs),
           NEW fd, NEW l \in Logs, Kept(h, r, a, ev, Len(ev), fd)
    PROVE  Kept(Pruned(h, Time(l)), r, a, Append(ev, l), Len(ev), fd)
<1> DEFINE e == Append(ev, l)
           n == Len(ev)
<1>1. /\ e \in Seq(Logs) /\ Len(e) = n + 1 /\ n \in Nat
      /\ DOMAIN ev = 1 .. n /\ DOMAIN e = 1 .. n + 1
      /\ \A i \in 1 .. n : e[i] = ev[i] /\ ev[i] \in Logs
      /\ e[n + 1] = l
      /\ Ordered(e) => Ordered(ev)
      /\ \A i \in 1 .. n : TooOld(i, ev) => TooOld(i, e)
    BY AppendFacts
<1>2. PICK f : Places(h, r, a, ev, n, f) /\ (Ordered(ev) => Complete(h, r, a, ev, n, fd, f))
    BY DEF Kept
<1> HIDE DEF e, n
<1>3. DOMAIN h = 1 .. Len(h) /\ Len(h) \in Nat
    OBVIOUS
<1>4. f \in [DOMAIN h -> 1 .. n]
    BY <1>2 DEF Places
<1>5. CASE Pruned(h, Time(l)) = h
    <2>1. Places(h, r, a, e, n, f)
        BY <1>1, <1>2, <1>4 DEF Places
    <2>2. Ordered(e) => Complete(h, r, a, e, n, fd, f)
        BY <1>1, <1>2 DEF Complete
    <2> QED
        BY <1>5, <2>1, <2>2 DEF Kept, e, n
<1>6. CASE Pruned(h, Time(l)) # h
    <2>1. Pruned(h, Time(l)) = <<>> /\ h # <<>> /\ Stale(Time(h[Len(h)]), Time(l))
        BY <1>6 DEF Pruned
    <2>2. Len(h) \in DOMAIN h
        BY <1>3, <2>1
    <2> DEFINE g == [j \in {} |-> 1]
    <2>3. DOMAIN <<>> = {}
        OBVIOUS
    <2>4. Places(<<>>, r, a, e, n, g)
        BY <2>3 DEF Places
    <2>5. ASSUME Ordered(e), NEW i \in 1 .. n, Accepts(r, a, e[i])
          PROVE  Taken(r, e[i], fd) \/ TooOld(i, e)
        <3>1. f[Len(h)] \in 1 .. n /\ h[Len(h)] = e[f[Len(h)]]
            BY <1>1, <1>2, <1>4, <2>2 DEF Places
        <3>2. ASSUME i <= f[Len(h)] PROVE TooOld(i, e)
            <4>1. e[i] \in Logs /\ h[Len(h)] \in Logs
                BY <1>1, <3>1
            <4>2. Time(e[i]) \in Int /\ Time(h[Len(h)]) \in Int /\ Time(l) \in Int
                BY <4>1, AboutType
            <4>3. Time(e[i]) <= Time(h[Len(h)])
                BY <1>1, <2>5, <3>1, <3>2, <4>2 DEF Ordered
            <4>4. Stale(Time(e[i]), Time(l))
                BY <2>1, <4>2, <4>3, WindowsAreShort DEF Stale
            <4>5. n + 1 \in DOMAIN e /\ i <= n + 1 /\ e[n + 1] = l
                BY <1>1
            <4> QED
                BY <4>4, <4>5 DEF TooOld
        <3>3. CASE \E j \in DOMAIN h : f[j] = i
            <4>1. PICK j \in DOMAIN h : f[j] = i
                BY <3>3
            <4>2. j = Len(h) \/ j < Len(h)
                BY <1>3
            <4>3. i <= f[Len(h)]
                BY <1>2, <1>4, <2>2, <4>1, <4>2 DEF Places
            <4> QED
                BY <3>2, <4>3
        <3>4. CASE \A j \in DOMAIN h : f[j] # i
            <4>1. Taken(r, e[i], fd) \/ TooOld(i, ev) \/ \A j \in DOMAIN h : i < f[j]
                BY <1>1, <1>2, <2>5, <3>4 DEF Complete
            <4>2. (\A j \in DOMAIN h : i < f[j]) => i <= f[Len(h)]
                BY <2>2, <3>1
            <4> QED
                BY <1>1, <3>2, <4>1, <4>2
        <3> QED
            BY <3>3, <3>4
    <2>6. Ordered(e) => Complete(<<>>, r, a, e, n, fd, g)
        BY <2>5 DEF Complete
    <2> HIDE DEF g
    <2> QED
        BY <2>1, <2>4, <2>6 DEF Kept, e, n
<1> QED
    BY <1>5, <1>6

\* A log that the rule does not take, or that an earlier rule took, leaves a history complete.
LEMMA PassingKeeps ==
    ASSUME NEW r \in RuleIds, NEW a \in Actors, NEW h \in Seq(Logs), NEW e, NEW n \in Nat,
           NEW fd, NEW gd, fd \subseteq gd, Kept(h, r, a, e, n, fd),
           Accepts(r, a, e[n + 1]) => Taken(r, e[n + 1], gd)
    PROVE  Kept(h, r, a, e, n + 1, gd)
<1>1. PICK f : Places(h, r, a, e, n, f) /\ (Ordered(e) => Complete(h, r, a, e, n, fd, f))
    BY DEF Kept
<1>2. Places(h, r, a, e, n + 1, f)
    BY <1>1 DEF Places
<1>3. \A i \in 1 .. n + 1 : i \in 1 .. n \/ i = n + 1
    OBVIOUS
<1>4. \A k : Taken(r, k, fd) => Taken(r, k, gd)
    BY DEF Taken
<1>5. Ordered(e) => Complete(h, r, a, e, n + 1, gd, f)
    BY <1>1, <1>3, <1>4 DEF Complete
<1> QED
    BY <1>2, <1>5 DEF Kept

LEMMA PushedOut ==
    ASSUME NEW most \in Nat \ {0}, NEW old \in Nat, NEW more, NEW new \in Nat,
           old <= most, more = old + 1,
           more <= most => new = more,
           ~(more <= most) => new = most
    PROVE  /\ new \in Nat \ {0} /\ more - new \in 0 .. 1
           /\ more - new = 1 => new = most
           /\ old = most => more - new = 1
           /\ more = new + (more - new)
OBVIOUS

\* A log that is counted stands last in the history and pushes out what is oldest.
LEMMA CountingKeeps ==
    ASSUME NEW r \in RuleIds, NEW a \in Actors, NEW h \in Seq(Logs), NEW e, NEW n \in Nat,
           NEW fd, NEW gd, fd \subseteq gd, Kept(h, r, a, e, n, fd), Len(h) <= HistoryMax,
           e[n + 1] \in Logs, Accepts(r, a, e[n + 1])
    PROVE  Kept(LastOf(Append(h, e[n + 1]), HistoryMax), r, a, e, n + 1, gd)
<1> DEFINE p == Append(h, e[n + 1])
           h2 == LastOf(p, HistoryMax)
           d == Len(p) - Len(h2)
<1>0. HistoryMax \in Nat \ {0}
    BY DetectionConstants
<1>1. PICK f : Places(h, r, a, e, n, f) /\ (Ordered(e) => Complete(h, r, a, e, n, fd, f))
    BY DEF Kept
<1>2. /\ p \in Seq(Logs) /\ Len(p) = Len(h) + 1 /\ Len(h) \in Nat
      /\ DOMAIN h = 1 .. Len(h) /\ DOMAIN p = 1 .. Len(h) + 1
      /\ \A j \in 1 .. Len(h) : p[j] = h[j]
      /\ p[Len(h) + 1] = e[n + 1]
    OBVIOUS
<1> HIDE DEF p
<1>3. /\ h2 \in Seq(Logs)
      /\ Len(h2) = IF Len(p) <= HistoryMax THEN Len(p) ELSE HistoryMax
      /\ \A j \in DOMAIN h2 : h2[j] = p[j + Len(p) - Len(h2)]
    BY <1>0, <1>2, LastOfFacts
<1> HIDE DEF h2
<1>4. /\ DOMAIN h2 = 1 .. Len(h2) /\ Len(h2) \in Nat \ {0} /\ d \in 0 .. 1
      /\ d = 1 => Len(h2) = HistoryMax
      /\ Len(h) = HistoryMax => d = 1
      /\ Len(p) = Len(h2) + d
    <2>1. DOMAIN h2 = 1 .. Len(h2) /\ Len(h2) \in Nat
        BY <1>3
    <2>2. /\ Len(p) <= HistoryMax => Len(h2) = Len(p)
          /\ ~(Len(p) <= HistoryMax) => Len(h2) = HistoryMax
        BY <1>3
    <2>3. /\ Len(h2) \in Nat \ {0} /\ Len(p) - Len(h2) \in 0 .. 1
          /\ Len(p) - Len(h2) = 1 => Len(h2) = HistoryMax
          /\ Len(h) = HistoryMax => Len(p) - Len(h2) = 1
          /\ Len(p) = Len(h2) + (Len(p) - Len(h2))
        <3>1. Len(h) \in Nat /\ Len(h) <= HistoryMax /\ Len(p) = Len(h) + 1
            BY <1>2
        <3>2. HistoryMax \in Nat \ {0} /\ Len(h2) \in Nat
            BY <1>0, <2>1
        <3> HIDE DEF d
        <3> QED
            BY <2>2, <3>1, <3>2, PushedOut
    <2> QED
        BY <2>1, <2>3
<1>5. \A j \in DOMAIN h2 : j + d \in DOMAIN p /\ h2[j] = p[j + d]
    BY <1>2, <1>3, <1>4
<1> DEFINE q == [j \in 1 .. Len(h) + 1 |-> IF j <= Len(h) THEN f[j] ELSE n + 1]
<1>6. f \in [1 .. Len(h) -> 1 .. n]
    BY <1>1, <1>2 DEF Places
<1>7. /\ \A j \in 1 .. Len(h) : q[j] = f[j]
      /\ q[Len(h) + 1] = n + 1
    BY <1>2
<1> HIDE DEF q
<1>8. \A j \in 1 .. Len(h) + 1 : j \in 1 .. Len(h) \/ j = Len(h) + 1
    BY <1>2
<1>9. \A j \in 1 .. Len(h) + 1 : q[j] \in 1 .. n + 1 /\ p[j] = e[q[j]] /\ Accepts(r, a, p[j])
    BY <1>1, <1>2, <1>6, <1>7, <1>8 DEF Places
<1>10. \A i, j \in 1 .. Len(h) + 1 : i < j => q[i] < q[j]
    <2>1. ASSUME NEW i \in 1 .. Len(h) + 1, NEW j \in 1 .. Len(h) + 1, i < j PROVE q[i] < q[j]
        <3>1. i \in 1 .. Len(h)
            BY <1>2, <2>1
        <3>2. CASE j \in 1 .. Len(h)
            BY <1>1, <1>2, <1>7, <2>1, <3>1, <3>2 DEF Places
        <3>3. CASE j = Len(h) + 1
            BY <1>6, <1>7, <3>1, <3>3
        <3> QED
            BY <1>8, <3>2, <3>3
    <2> QED
        BY <2>1
<1> DEFINE g == [j \in DOMAIN h2 |-> q[j + d]]
<1>11. \A j \in DOMAIN h2 : g[j] = q[j + d]
    OBVIOUS
<1>12. DOMAIN g = DOMAIN h2 /\ g = [j \in DOMAIN h2 |-> g[j]]
    OBVIOUS
<1> HIDE DEF g, d
<1>13. Places(h2, r, a, e, n + 1, g)
    <2>1. g \in [DOMAIN h2 -> 1 .. n + 1]
        BY <1>2, <1>5, <1>9, <1>11, <1>12
    <2>2. \A i, j \in DOMAIN h2 : i < j => g[i] < g[j]
        <3>1. ASSUME NEW i \in DOMAIN h2, NEW j \in DOMAIN h2, i < j PROVE g[i] < g[j]
            <4>1. i + d < j + d
                BY <1>4, <3>1
            <4> QED
                BY <1>2, <1>5, <1>10, <1>11, <4>1
        <3> QED
            BY <3>1
    <2>3. \A j \in DOMAIN h2 : h2[j] = e[g[j]] /\ Accepts(r, a, h2[j])
        BY <1>2, <1>5, <1>9, <1>11
    <2> QED
        BY <2>1, <2>2, <2>3 DEF Places
<1>14. ASSUME Ordered(e), NEW i \in 1 .. n + 1, Accepts(r, a, e[i]), \A j \in DOMAIN h2 : g[j] # i
       PROVE  \/ Taken(r, e[i], gd)
              \/ TooOld(i, e)
              \/ Len(h2) = HistoryMax /\ \A j \in DOMAIN h2 : i < g[j]
    <2>1. i \in 1 .. n
        <3>1. Len(h2) \in DOMAIN h2 /\ Len(h2) + d = Len(h) + 1
            BY <1>2, <1>4
        <3>2. g[Len(h2)] = n + 1
            BY <1>7, <1>11, <3>1
        <3> QED
            BY <1>14, <3>1, <3>2
    <2>2. CASE \E j \in DOMAIN h : f[j] = i
        <3>1. PICK j \in DOMAIN h : f[j] = i
            BY <2>2
        <3>2. q[j] = i /\ j \in 1 .. Len(h) + 1
            BY <1>2, <1>7, <3>1
        <3>3. j <= d
            <4>1. SUFFICES ASSUME j > d PROVE FALSE
                BY <1>2, <1>4
            <4>2. j - d \in DOMAIN h2 /\ (j - d) + d = j
                BY <1>2, <1>4, <4>1
            <4> QED
                BY <1>11, <1>14, <3>2, <4>2
        <3>4. d = 1 /\ j = 1
            BY <1>2, <1>4, <3>3
        <3>5. \A k \in DOMAIN h2 : i < g[k]
            <4>1. ASSUME NEW k \in DOMAIN h2 PROVE i < g[k]
                <5>1. k + d \in 1 .. Len(h) + 1 /\ j < k + d
                    BY <1>2, <1>4, <1>5, <3>4
                <5> QED
                    BY <1>10, <1>11, <3>2, <5>1
            <4> QED
                BY <4>1
        <3> QED
            BY <1>4, <3>4, <3>5
    <2>3. CASE \A j \in DOMAIN h : f[j] # i
        <3>1. \/ Taken(r, e[i], fd) \/ TooOld(i, e)
              \/ Len(h) = HistoryMax /\ \A j \in DOMAIN h : i < f[j]
            BY <1>1, <1>14, <2>1, <2>3 DEF Complete
        <3>2. Taken(r, e[i], fd) => Taken(r, e[i], gd)
            BY DEF Taken
        <3>3. CASE Len(h) = HistoryMax /\ \A j \in DOMAIN h : i < f[j]
            <4>1. \A j \in 1 .. Len(h) + 1 : i < q[j]
                BY <1>2, <1>7, <1>8, <2>1, <3>3
            <4> QED
                BY <1>2, <1>4, <1>5, <1>11, <3>3, <4>1
        <3> QED
            BY <3>1, <3>2, <3>3
    <2> QED
        BY <2>2, <2>3
<1>15. Ordered(e) => Complete(h2, r, a, e, n + 1, gd, g)
    BY <1>14 DEF Complete
<1>16. Kept(h2, r, a, e, n + 1, gd)
    BY <1>13, <1>15 DEF Kept
<1> QED
    BY <1>16 DEF h2, p

-----------------------------------------------------------------------------
(* The first match *)

LEMMA FirstMatchIsFirst ==
    ASSUME NEW l
    PROVE  /\ FirstMatch(l) = 0 => \A r \in RuleIds : ~Matches(r, l)
           /\ FirstMatch(l) # 0 =>
                  /\ FirstMatch(l) \in RuleIds /\ FirstMatch(l) > 0
                  /\ Matches(FirstMatch(l), l)
                  /\ \A r \in RuleIds : Matches(r, l) => FirstMatch(l) <= r
<1> DEFINE ms == {r \in RuleIds : Matches(r, l)}
<1>1. RuleIds \subseteq Nat \ {0}
    BY RuleType
<1>2. CASE ms = {}
    BY <1>2 DEF FirstMatch
<1>3. CASE ms # {}
    <2>1. ms \subseteq Nat
        BY <1>1
    <2>2. PICK m \in ms : \A q \in ms : ~ (<<q, m>> \in OpToRel(<, Nat))
        <3> HIDE DEF ms
        <3> QED
            BY <1>3, <2>1, WFMin, NatLessThanWellFounded
    <2>3. \A q \in ms : m <= q
        <3>1. ASSUME NEW q \in ms PROVE m <= q
            <4>1. q \in Nat /\ m \in Nat
                BY <2>1
            <4>2. ~ (q < m)
                BY <2>2, <4>1 DEF OpToRel
            <4> QED
                BY <4>1, <4>2
        <3> QED
            BY <3>1
    <2>4. FirstMatch(l) = CHOOSE r \in ms : \A q \in ms : r <= q
        BY <1>3 DEF FirstMatch
    <2> DEFINE c == CHOOSE r \in ms : \A q \in ms : r <= q
    <2>5. c \in ms /\ \A q \in ms : c <= q
        <3> HIDE DEF ms
        <3> QED
            BY <2>3
    <2> HIDE DEF c
    <2>6. FirstMatch(l) = c
        BY <2>4 DEF c
    <2>7. c \in RuleIds /\ Matches(c, l) /\ c \in Nat \ {0}
        BY <1>1, <2>5
    <2> QED
        BY <2>5, <2>6, <2>7
<1> QED
    BY <1>2, <1>3

\* A rule that would take the log is tried, or an earlier rule matches.
LEMMA TriedOrTaken ==
    ASSUME NEW l \in Logs, NEW r \in RuleIds, r \in About[l].hits, r \notin Tried(l)
    PROVE  FirstMatch(l) \in 1 .. r - 1
<1>1. FirstMatch(l) # 0 /\ ~(r <= FirstMatch(l))
    BY DEF Tried
<1>2. FirstMatch(l) \in Nat \ {0} /\ r \in Nat
    BY <1>1, FirstMatchIsFirst, RuleType
<1> QED
    BY <1>1, <1>2

-----------------------------------------------------------------------------
(* Attempts *)

\* The entries of a keyed history that AttemptsIn counts one by one.
SingleLines(h, I, pair) ==
    {i \in I : ~Keyed(h[i])
        /\ ~(pair > 0 /\ \E j \in I : Keyed(h[j]) /\ Near(Time(h[i]), Time(h[j]), pair))}

SingleLogs(S, pair) ==
    {l \in S : ~Keyed(l) /\ ~(pair > 0 /\ \E k \in S : Keyed(k) /\ Near(Time(l), Time(k), pair))}

KeyedAttempts(S) == {About[l].attempt : l \in {k \in S : Keyed(k)}}

LEMMA ImageIsFinite ==
    ASSUME NEW h, NEW I, IsFiniteSet(I)
    PROVE  IsFiniteSet({h[i] : i \in I})
<1> DEFINE T == {h[i] : i \in I}
           f == [i \in I |-> h[i]]
<1>1. f \in [I -> T] /\ \A t \in T : \E i \in I : f[i] = t
    OBVIOUS
<1> HIDE DEF f, T
<1>2. f \in Surjection(I, T)
    BY <1>1 DEF Surjection
<1>3. IsFiniteSet(T)
    BY <1>2, FS_Surjection
<1> QED
    BY <1>3 DEF T

LEMMA KeyedAreFinite ==
    ASSUME NEW S, IsFiniteSet(S)
    PROVE  IsFiniteSet(KeyedAttempts(S))
<1> DEFINE D == {k \in S : Keyed(k)}
           at == [l \in D |-> About[l].attempt]
<1>1. D \in SUBSET S
    OBVIOUS
<1>2. {at[l] : l \in D} = KeyedAttempts(S)
    BY DEF KeyedAttempts
<1> HIDE DEF D, at
<1>3. IsFiniteSet(D)
    BY <1>1, FS_Subset
<1>4. IsFiniteSet({at[l] : l \in D})
    BY <1>3, ImageIsFinite
<1> QED
    BY <1>2, <1>4

\* Counting entries of a history counts their logs, and each at least once.
LEMMA AttemptsOfEntries ==
    ASSUME NEW h, NEW I, IsFiniteSet(I), NEW pair
    PROVE  LET S == {h[i] : i \in I}
           IN  /\ IsFiniteSet(S)
               /\ AttemptsIn(h, I, pair) \in Nat /\ AttemptsAmong(S, pair) \in Nat
               /\ AttemptsAmong(S, pair) <= AttemptsIn(h, I, pair)
               /\ (\A i, j \in I : h[i] = h[j] => i = j) =>
                      AttemptsAmong(S, pair) = AttemptsIn(h, I, pair)
<1> DEFINE S == {h[i] : i \in I}
           A == SingleLines(h, I, pair)
           B == SingleLogs(S, pair)
           K == KeyedAttempts(S)
           f == [i \in A |-> h[i]]
<1>1. {About[h[i]].attempt : i \in {j \in I : Keyed(h[j])}} = K
    BY DEF KeyedAttempts
<1>2. AttemptsIn(h, I, pair) = Cardinality(K) + Cardinality(A)
    BY <1>1 DEF AttemptsIn, SingleLines
<1>3. AttemptsAmong(S, pair) = Cardinality(K) + Cardinality(B)
    BY DEF AttemptsAmong, SingleLogs, KeyedAttempts
<1>4. IsFiniteSet(S)
    BY ImageIsFinite
<1>5. IsFiniteSet(K)
    <2> HIDE DEF S
    <2> QED
        BY <1>4, KeyedAreFinite
<1>6. IsFiniteSet(A)
    <2>1. A \in SUBSET I
        BY DEF SingleLines
    <2> QED
        BY <2>1, FS_Subset
<1>7. \A i \in A : h[i] \in B
    BY DEF SingleLines, SingleLogs
<1>8. \A l \in B : \E i \in A : h[i] = l
    BY DEF SingleLines, SingleLogs
<1>9. A \subseteq I
    BY DEF SingleLines
<1> HIDE DEF A, B, K, S
<1>10. f \in Surjection(A, B)
    BY <1>7, <1>8 DEF Surjection
<1>11. /\ IsFiniteSet(B) /\ Cardinality(B) <= Cardinality(A)
       /\ Cardinality(B) = Cardinality(A) <=> f \in Injection(A, B)
    <2> HIDE DEF f
    <2> QED
        BY <1>6, <1>10, FS_Surjection
<1>12. Cardinality(A) \in Nat /\ Cardinality(B) \in Nat /\ Cardinality(K) \in Nat
    BY <1>5, <1>6, <1>11, FS_CardinalityType
<1>13. (\A i, j \in I : h[i] = h[j] => i = j) => f \in Injection(A, B)
    <2>1. f \in [A -> B] /\ \A i \in A : f[i] = h[i]
        BY <1>7
    <2> HIDE DEF f
    <2>2. ASSUME \A i, j \in I : h[i] = h[j] => i = j, NEW i \in A, NEW j \in A, f[i] = f[j]
          PROVE  i = j
        <3>1. i \in I /\ j \in I /\ h[i] = h[j]
            BY <1>9, <2>1, <2>2
        <3> QED
            BY <2>2, <3>1
    <2> QED
        BY <2>1, <2>2 DEF Injection, IsInjective
<1>14. /\ AttemptsIn(h, I, pair) \in Nat /\ AttemptsAmong(S, pair) \in Nat
       /\ AttemptsAmong(S, pair) <= AttemptsIn(h, I, pair)
       /\ (\A i, j \in I : h[i] = h[j] => i = j) =>
              AttemptsAmong(S, pair) = AttemptsIn(h, I, pair)
    BY <1>2, <1>3, <1>11, <1>12, <1>13
<1> QED
    BY <1>4, <1>14 DEF S

LEMMA AttemptsAreNatural ==
    ASSUME NEW S, IsFiniteSet(S), NEW pair
    PROVE  AttemptsAmong(S, pair) \in Nat
<1>1. AttemptsAmong(S, pair) = Cardinality(KeyedAttempts(S)) + Cardinality(SingleLogs(S, pair))
    BY DEF AttemptsAmong, KeyedAttempts, SingleLogs
<1>2. SingleLogs(S, pair) \in SUBSET S
    BY DEF SingleLogs
<1>3. IsFiniteSet(SingleLogs(S, pair)) /\ IsFiniteSet(KeyedAttempts(S))
    BY <1>2, FS_Subset, KeyedAreFinite
<1>4. Cardinality(SingleLogs(S, pair)) \in Nat /\ Cardinality(KeyedAttempts(S)) \in Nat
    BY <1>3, FS_CardinalityType
<1> QED
    BY <1>1, <1>4

\* More logs are no fewer attempts, where no line counts as the other half of an attempt.
LEMMA AttemptsGrow ==
    ASSUME NEW T, IsFiniteSet(T), NEW S \in SUBSET T, NEW pair \in Nat, pair > 0 => S = T
    PROVE  AttemptsAmong(S, pair) <= AttemptsAmong(T, pair)
<1>1. \A X : AttemptsAmong(X, pair) = Cardinality(KeyedAttempts(X)) + Cardinality(SingleLogs(X, pair))
    BY DEF AttemptsAmong, KeyedAttempts, SingleLogs
<1>2. SingleLogs(S, pair) \in SUBSET SingleLogs(T, pair) /\ SingleLogs(T, pair) \in SUBSET T
    <2>1. CASE pair = 0
        <3>1. \A X : SingleLogs(X, 0) = {l \in X : ~Keyed(l)}
            BY DEF SingleLogs
        <3> QED
            BY <2>1, <3>1
    <2>2. CASE pair > 0
        BY <2>2 DEF SingleLogs
    <2> QED
        BY <2>1, <2>2
<1>3. IsFiniteSet(SingleLogs(T, pair)) /\ IsFiniteSet(KeyedAttempts(T))
    BY <1>2, FS_Subset, KeyedAreFinite
<1>4. KeyedAttempts(S) \in SUBSET KeyedAttempts(T)
    BY DEF KeyedAttempts
<1>5. /\ Cardinality(SingleLogs(S, pair)) <= Cardinality(SingleLogs(T, pair))
      /\ Cardinality(KeyedAttempts(S)) <= Cardinality(KeyedAttempts(T))
      /\ IsFiniteSet(SingleLogs(S, pair)) /\ IsFiniteSet(KeyedAttempts(S))
    BY <1>2, <1>3, <1>4, FS_Subset
<1>6. /\ Cardinality(SingleLogs(S, pair)) \in Nat /\ Cardinality(SingleLogs(T, pair)) \in Nat
      /\ Cardinality(KeyedAttempts(S)) \in Nat /\ Cardinality(KeyedAttempts(T)) \in Nat
    BY <1>3, <1>5, FS_CardinalityType
<1> QED
    BY <1>1, <1>5, <1>6

-----------------------------------------------------------------------------
(* What a history says of the logs in it and outside *)

LEMMA NotTakenBefore ==
    ASSUME PairsStandFirst, NEW fd, Founded(fd), NEW r \in RuleIds, Rules[r].count > 0,
           Rules[r].pair > 0, NEW k \in Logs, r \in About[k].hits
    PROVE  ~Taken(r, k, fd)
<1> SUFFICES ASSUME Taken(r, k, fd) PROVE FALSE
    OBVIOUS
<1>1. PICK x \in fd : x.log = k /\ x.rule \in 1 .. r - 1
    BY DEF Taken
<1>2. r \in Nat
    BY RuleType
<1>3. x.rule \in Nat \ {0} /\ x.rule < r
    BY <1>1, <1>2
<1>4. x.rule \in About[k].hits
    BY <1>1, <1>3 DEF Founded
<1>5. x.rule \in RuleIds
    BY <1>4, AboutType
<1> QED
    BY <1>3, <1>4, <1>5 DEF PairsStandFirst

LEMMA WindowFacts ==
    ASSUME NEW h \in Seq(Logs), NEW l, NEW w
    PROVE  InWindow(h, l, w) \subseteq 1 .. Len(h) /\ IsFiniteSet(InWindow(h, l, w))
<1>1. InWindow(h, l, w) \in SUBSET (1 .. Len(h)) /\ Len(h) \in Nat
    BY DEF InWindow
<1>2. IsFiniteSet(1 .. Len(h))
    BY <1>1, FS_Interval
<1> QED
    BY <1>1, <1>2, FS_Subset

\* The history holds every log that counts, as long as they fit in it and come in order.
LEMMA NothingIsForgotten ==
    ASSUME NEW e \in Seq(Logs), NEW n \in Nat \ {0}, n = Len(e), Ordered(e),
           NEW r \in RuleIds, NEW h \in Seq(Logs), NEW fd, Kept(h, r, Actor(e[n]), e, n, fd),
           Cardinality(Within(e, n, r)) <= HistoryMax, NEW k \in Suspects(e, fd, n, r)
    PROVE  \E j \in InWindow(h, e[n], Rules[r].window) : h[j] = k
<1> DEFINE a == Actor(e[n])
           W == Within(e, n, r)
<1>0. DOMAIN h = 1 .. Len(h) /\ Len(h) \in Nat /\ DOMAIN e = 1 .. n /\ n \in DOMAIN e
      /\ HistoryMax \in Nat
    BY DetectionConstants
<1>1. PICK f : Places(h, r, a, e, n, f) /\ Complete(h, r, a, e, n, fd, f)
    BY DEF Kept
<1>2. PICK i \in 1 .. n : e[i] = k
    BY DEF Suspects
<1>3. Accepts(r, a, k) /\ Time(e[n]) - Time(k) <= Rules[r].window /\ ~Taken(r, k, fd)
    BY DEF Suspects
<1> HIDE DEF a
<1>4. \A j \in 1 .. n : Time(e[j]) \in Int
    BY <1>0, AboutType
<1>5. CASE \E j \in DOMAIN h : f[j] = i
    <2>1. PICK j \in DOMAIN h : f[j] = i
        BY <1>5
    <2>2. h[j] = k
        BY <1>1, <1>2, <2>1 DEF Places
    <2> QED
        BY <1>3, <2>1, <2>2 DEF InWindow
<1>6. CASE TooOld(i, e)
    <2>1. PICK m \in DOMAIN e : i <= m /\ Stale(Time(k), Time(e[m]))
        BY <1>2, <1>6 DEF TooOld
    <2>2. Time(e[m]) <= Time(e[n])
        <3>1. m \in 1 .. n
            BY <1>0
        <3>2. CASE m = n
            BY <1>4, <3>1, <3>2
        <3>3. CASE m # n
            BY <1>0, <3>1, <3>3 DEF Ordered
        <3> QED
            BY <3>2, <3>3
    <2>3. Time(k) \in Int /\ Time(e[m]) \in Int /\ Time(e[n]) \in Int
        BY <1>0, <1>2, <1>4
    <2>4. Rules[r].window \in Nat /\ MaxWindow \in Nat /\ Rules[r].window <= MaxWindow
        BY RuleType, WindowsAreShort
    <2>5. Time(k) < Time(e[m]) - MaxWindow
        BY <2>1 DEF Stale
    <2> QED
        BY <1>3, <2>2, <2>3, <2>4, <2>5
<1>7. CASE Len(h) = HistoryMax /\ \A j \in DOMAIN h : i < f[j]
    <2> DEFINE F == {f[j] : j \in DOMAIN h}
    <2>1. f \in [DOMAIN h -> 1 .. n]
        BY <1>1 DEF Places
    <2>2. \A j \in DOMAIN h : f[j] \in W
        <3>1. ASSUME NEW j \in DOMAIN h PROVE f[j] \in W
            <4>1. f[j] \in 1 .. n /\ i < f[j]
                BY <1>7, <2>1
            <4>2. Accepts(r, a, e[f[j]])
                BY <1>1 DEF Places
            <4>3. Time(e[i]) <= Time(e[f[j]])
                BY <1>0, <4>1 DEF Ordered
            <4>4. Time(e[n]) - Time(e[f[j]]) <= Rules[r].window
                BY <1>0, <1>2, <1>3, <1>4, <4>1, <4>3, RuleType
            <4> QED
                BY <4>1, <4>2, <4>4 DEF Within, a
        <3> QED
            BY <3>1
    <2>3. i \in W
        BY <1>2, <1>3 DEF Within, a
    <2>4. W \in SUBSET (1 .. n)
        BY DEF Within
    <2>5. IsFiniteSet(1 .. n)
        BY FS_Interval
    <2>6. IsFiniteSet(W)
        BY <2>4, <2>5, FS_Subset
    <2>7. f \in Surjection(DOMAIN h, F) /\ f \in Injection(DOMAIN h, F)
        <3>1. f \in [DOMAIN h -> F]
            BY <2>1
        <3>2. \A p, q \in DOMAIN h : f[p] = f[q] => p = q
            <4>1. ASSUME NEW p \in DOMAIN h, NEW q \in DOMAIN h, f[p] = f[q] PROVE p = q
                <5>1. p \in Int /\ q \in Int /\ f[p] \in Int /\ f[q] \in Int
                    BY <1>0, <2>1
                <5>2. ~(p < q) /\ ~(q < p)
                    BY <1>1, <4>1, <5>1 DEF Places
                <5> QED
                    BY <5>1, <5>2
            <4> QED
                BY <4>1
        <3> QED
            BY <3>1, <3>2 DEF Surjection, Injection, IsInjective
    <2>8. F \subseteq W
        BY <2>2
    <2>9. i \notin F
        BY <1>7, <2>1
    <2> HIDE DEF F, W
    <2>10. IsFiniteSet(DOMAIN h) /\ Cardinality(DOMAIN h) = HistoryMax
        BY <1>0, <1>7, FS_Interval
    <2>11. IsFiniteSet(F) /\ Cardinality(F) = HistoryMax
        BY <2>7, <2>10, FS_Surjection
    <2>12. IsFiniteSet(F \cup {i}) /\ Cardinality(F \cup {i}) = HistoryMax + 1
        BY <2>9, <2>11, FS_AddElement
    <2>13. F \cup {i} \in SUBSET W
        BY <2>3, <2>8
    <2>14. Cardinality(F \cup {i}) <= Cardinality(W)
        BY <2>6, <2>13, FS_Subset
    <2>15. Cardinality(W) <= HistoryMax /\ Cardinality(W) \in Nat
        BY <2>6, FS_CardinalityType DEF W
    <2> QED
        BY <1>0, <2>12, <2>14, <2>15
<1> QED
    BY <1>1, <1>2, <1>3, <1>5, <1>6, <1>7 DEF Complete

\* So the engine counts at least what the logs of the window amount to.
LEMMA ThresholdIsReached ==
    ASSUME PairsStandFirst,
           NEW e \in Seq(Logs), NEW n \in Nat \ {0}, n = Len(e), Ordered(e),
           NEW r \in RuleIds, NEW h \in Seq(Logs), NEW fd, Founded(fd),
           Kept(h, r, Actor(e[n]), e, n, fd),
           Cardinality(Within(e, n, r)) <= HistoryMax, Reaches(e, fd, n, r)
    PROVE  AttemptsIn(h, InWindow(h, e[n], Rules[r].window), Rules[r].pair) >= Rules[r].count
<1> DEFINE I == InWindow(h, e[n], Rules[r].window)
           T == {h[i] : i \in I}
           S == Suspects(e, fd, n, r)
           pair == Rules[r].pair
<1>1. Rules[r].count \in Nat /\ pair \in Nat
    BY RuleType
<1>2. IsFiniteSet(I) /\ I \subseteq 1 .. Len(h)
    BY WindowFacts
<1>3. S \subseteq T
    BY NothingIsForgotten
<1>4. ASSUME pair > 0 PROVE T \subseteq S
    <2>1. PICK f : Places(h, r, Actor(e[n]), e, n, f)
        BY DEF Kept
    <2>2. ASSUME NEW i \in I PROVE h[i] \in S
        <3>1. i \in DOMAIN h /\ Time(e[n]) - Time(h[i]) <= Rules[r].window
            BY DEF InWindow
        <3>2. f[i] \in 1 .. n /\ h[i] = e[f[i]] /\ Accepts(r, Actor(e[n]), h[i])
            BY <2>1, <3>1 DEF Places
        <3>3. h[i] \in Logs /\ r \in About[h[i]].hits
            BY <3>1, <3>2 DEF Accepts
        <3>4. Rules[r].count > 0
            BY DEF Reaches
        <3>5. ~Taken(r, h[i], fd)
            BY <1>4, <3>3, <3>4, NotTakenBefore
        <3> QED
            BY <3>1, <3>2, <3>5 DEF Suspects
    <2> QED
        BY <2>2
<1>5. AttemptsAmong(S, pair) >= Rules[r].count
    BY DEF Reaches
<1> HIDE DEF I, S
<1>6. /\ IsFiniteSet(T) /\ AttemptsIn(h, I, pair) \in Nat /\ AttemptsAmong(T, pair) \in Nat
      /\ AttemptsAmong(T, pair) <= AttemptsIn(h, I, pair)
    BY <1>2, AttemptsOfEntries
<1> HIDE DEF T, pair
<1>7. pair > 0 => S = T
    BY <1>3, <1>4
<1>8. AttemptsAmong(S, pair) <= AttemptsAmong(T, pair)
    BY <1>1, <1>3, <1>6, <1>7, AttemptsGrow
<1>9. AttemptsAmong(S, pair) \in Nat
    <2>1. IsFiniteSet(S)
        BY <1>3, <1>6, FS_Subset
    <2> QED
        BY <2>1, AttemptsAreNatural
<1>10. AttemptsIn(h, I, pair) >= Rules[r].count
    BY <1>1, <1>5, <1>6, <1>8, <1>9
<1> QED
    BY <1>10 DEF I, pair

\* A log that comes later changes nothing for those before it.
LEMMA EarlierStayCaught ==
    ASSUME PairsStandFirst, NEW ev \in Seq(Logs), NEW l \in Logs, NEW fd, NEW gd,
           fd \subseteq gd, Founded(gd), NEW n \in 1 .. Len(ev), NEW r \in RuleIds,
           CaughtAt(ev, fd, n, r)
    PROVE  CaughtAt(Append(ev, l), gd, n, r)
<1> DEFINE e == Append(ev, l)
<1>1. n \in Nat /\ \A i \in 1 .. n : e[i] = ev[i] /\ ev[i] \in Logs
    BY AppendFacts
<1> HIDE DEF e
<1>2. e[n] = ev[n]
    BY <1>1
<1>3. Within(e, n, r) = Within(ev, n, r)
    BY <1>1, <1>2 DEF Within
<1>4. {e[i] : i \in 1 .. n} = {ev[i] : i \in 1 .. n}
    BY <1>1
<1>5. \A k : Taken(r, k, fd) => Taken(r, k, gd)
    BY DEF Taken
<1> DEFINE S == Suspects(e, gd, n, r)
           T == Suspects(ev, fd, n, r)
<1>6. S \in SUBSET T
    BY <1>2, <1>4, <1>5 DEF Suspects
<1>7. ASSUME Reaches(e, gd, n, r), Cardinality(Within(e, n, r)) <= HistoryMax
      PROVE  Told(e, gd, n, r)
    <2>1. r \in About[e[n]].hits /\ Rules[r].count > 0 /\ Rules[r].prior = 0
        BY <1>7 DEF Reaches
    <2>2. Rules[r].pair > 0 => S = T
        <3>1. ASSUME Rules[r].pair > 0, NEW k \in T PROVE k \in S
            <4>1. PICK i \in 1 .. n : k = ev[i]
                BY DEF Suspects
            <4>2. k \in Logs /\ r \in About[k].hits
                BY <1>1, <4>1 DEF Suspects, Accepts
            <4>3. ~Taken(r, k, gd)
                BY <2>1, <3>1, <4>2, NotTakenBefore
            <4> QED
                BY <1>2, <1>4, <4>3 DEF Suspects
        <3> QED
            BY <1>6, <3>1
    <2>3. IsFiniteSet({ev[i] : i \in 1 .. n})
        <3>1. IsFiniteSet(1 .. n)
            BY <1>1, FS_Interval
        <3> QED
            BY <3>1, ImageIsFinite
    <2>4. T \in SUBSET {ev[i] : i \in 1 .. n}
        BY DEF Suspects
    <2>5. IsFiniteSet(T)
        BY <2>3, <2>4, FS_Subset
    <2>6. IsFiniteSet(S)
        BY <1>6, <2>5, FS_Subset
    <2>7. AttemptsAmong(S, Rules[r].pair) >= Rules[r].count
        BY <1>7 DEF Reaches
    <2> HIDE DEF S, T
    <2>8. AttemptsAmong(S, Rules[r].pair) <= AttemptsAmong(T, Rules[r].pair)
        BY <1>6, <2>2, <2>5, AttemptsGrow, RuleType
    <2>9. AttemptsAmong(S, Rules[r].pair) \in Nat /\ AttemptsAmong(T, Rules[r].pair) \in Nat
        BY <2>5, <2>6, AttemptsAreNatural
    <2>10. AttemptsAmong(T, Rules[r].pair) >= Rules[r].count
        BY <2>7, <2>8, <2>9, RuleType
    <2>11. Reaches(ev, fd, n, r)
        BY <1>2, <2>1, <2>10 DEF Reaches, T
    <2>12. Told(ev, fd, n, r)
        BY <1>3, <1>7, <2>11 DEF CaughtAt
    <2> QED
        BY <1>2, <2>12 DEF Told
<1>8. CaughtAt(e, gd, n, r)
    BY <1>7 DEF CaughtAt
<1> QED
    BY <1>8 DEF e

-----------------------------------------------------------------------------
(* Steps *)

DetectInv == DetectTypes /\ Founded(found) /\ HistoryInv

\* What one step does, as far as the invariant can see.
Keeps ==
    UNCHANGED <<next, committed, booted, evaluated, history, found>>

Skips ==
    /\ next' = next + 1 /\ UNCHANGED <<raw, committed, booted, evaluated, history, found>>

EvaluatesOne ==
    \E l \in Logs :
        /\ Evaluate(l)
        /\ next' = next + 1 /\ UNCHANGED <<raw, committed, booted>>
        /\ \/ FirstMatch(l) # 0 /\ found' = found \cup {RuleAlert(FirstMatch(l), l)}
           \/ FirstMatch(l) = 0 /\ UNCHANGED found
           \/ FirstMatch(l) = 0 /\ \E s : found' = found \cup {ModelAlert(l, s)}

Restarts ==
    /\ Forgets /\ next' = committed /\ booted' = committed
    /\ UNCHANGED <<raw, committed, found>>

LEMMA StepCases ==
    ASSUME DetectTypes, [Next]_vars
    PROVE  \/ Keeps /\ raw' \in Seq(Logs)
           \/ Keeps /\ UNCHANGED raw
           \/ Skips \/ EvaluatesOne \/ Restarts
           \/ UNCHANGED <<raw, next, booted, evaluated, history, found>> /\ committed' = next
<1>1. CASE UNCHANGED vars
    BY <1>1 DEF vars, deliveryVars, detectVars, memory, Keeps
<1>2. CASE Deliver
    <2>1. raw' \in Seq(Logs)
        BY <1>2 DEF Deliver, Delivery!Store, Delivery!Send, DetectTypes
    <2> QED
        BY <1>2, <2>1 DEF Deliver, detectVars, memory, Keeps
<1>3. CASE Persist
    BY <1>3 DEF Persist, deliveryVars, memory, Keeps
<1>4. CASE Consume /\ UNCHANGED deliveryVars
    <2> DEFINE l == raw[next + 1]
    <2>1. l \in Logs
        BY <1>4 DEF Consume, DetectTypes
    <2>2. next' = next + 1 /\ UNCHANGED <<raw, committed, booted>>
        BY <1>4 DEF Consume, deliveryVars
    <2>3. CASE IsDuplicate(l)
        BY <1>4, <2>2, <2>3 DEF Consume, PushNothing, Skips
    <2>4. CASE ~IsDuplicate(l)
        <3>1. Evaluate(l) /\ IF FirstMatch(l) > 0
                             THEN Push(RuleAlert(FirstMatch(l), l)) /\ UNCHANGED buffer
                             ELSE ModelStep(l)
            BY <1>4, <2>4 DEF Consume
        <3>2. CASE FirstMatch(l) > 0
            <4>1. FirstMatch(l) # 0 /\ found' = found \cup {RuleAlert(FirstMatch(l), l)}
                BY <3>1, <3>2, FirstMatchIsFirst DEF Push
            <4> HIDE DEF l
            <4> QED
                BY <2>1, <2>2, <3>1, <4>1 DEF EvaluatesOne
        <3>3. CASE ~(FirstMatch(l) > 0)
            <4>1. FirstMatch(l) = 0
                BY <3>3, FirstMatchIsFirst
            <4>2. UNCHANGED found \/ \E s : found' = found \cup {ModelAlert(l, s)}
                <5>1. ModelStep(l)
                    BY <3>1, <3>3
                <5> HIDE DEF l
                <5> QED
                    BY <5>1 DEF ModelStep, PushNothing, Push
            <4> HIDE DEF l
            <4> QED
                BY <2>1, <2>2, <3>1, <4>1, <4>2 DEF EvaluatesOne
        <3> QED
            BY <3>2, <3>3
    <2> QED
        BY <2>3, <2>4
<1>5. CASE Commit /\ UNCHANGED deliveryVars
    BY <1>5 DEF Commit, deliveryVars, memory
<1>6. CASE ConsumerCrash /\ UNCHANGED deliveryVars
    BY <1>6 DEF ConsumerCrash, deliveryVars, Restarts
<1> QED
    BY <1>1, <1>2, <1>3, <1>4, <1>5, <1>6 DEF Next, Detect, DetectNext

LEMMA CountedFacts ==
    ASSUME DetectTypes, NEW r \in RuleIds, NEW a \in Actors, NEW l \in Logs
    PROVE  /\ Pruned(history[r, a], Time(l)) \in Seq(Logs)
           /\ Len(Pruned(history[r, a], Time(l))) <= HistoryMax
           /\ Counted(r, l) \in Seq(Logs) /\ Len(Counted(r, l)) <= HistoryMax
<1>0. HistoryMax \in Nat \ {0}
    BY DetectionConstants
<1>1. ASSUME NEW b \in Actors
      PROVE  /\ Pruned(history[r, b], Time(l)) \in Seq(Logs)
             /\ Len(Pruned(history[r, b], Time(l))) <= HistoryMax
    <2>1. <<r, b>> \in KeysOfRules
        BY DEF KeysOfRules
    <2>2. history[r, b] \in Seq(Logs) /\ Len(history[r, b]) <= HistoryMax
        BY <2>1 DEF DetectTypes
    <2>3. <<>> \in Seq(Logs) /\ Len(<<>>) <= HistoryMax
        BY <1>0
    <2> QED
        BY <2>2, <2>3 DEF Pruned
<1> DEFINE p == Append(Pruned(history[r, Actor(l)], Time(l)), l)
<1>2. p \in Seq(Logs)
    <2>1. Pruned(history[r, Actor(l)], Time(l)) \in Seq(Logs)
        BY <1>1, AboutType
    <2> QED
        BY <2>1, AppendProperties
<1>3. Counted(r, l) = LastOf(p, HistoryMax)
    BY DEF Counted
<1> HIDE DEF p
<1>4. Counted(r, l) \in Seq(Logs) /\ Len(Counted(r, l)) <= HistoryMax
    <2>1. /\ LastOf(p, HistoryMax) \in Seq(Logs)
          /\ Len(LastOf(p, HistoryMax)) = IF Len(p) <= HistoryMax THEN Len(p) ELSE HistoryMax
        BY <1>0, <1>2, LastOfFacts
    <2> QED
        BY <1>0, <1>2, <1>3, <2>1
<1> QED
    BY <1>1, <1>4

LEMMA EvaluateTypes ==
    ASSUME DetectTypes, NEW l \in Logs, Evaluate(l)
    PROVE  /\ evaluated' \in Seq(Logs)
           /\ history' \in [KeysOfRules -> Seq(Logs)]
           /\ \A k \in KeysOfRules : Len(history'[k]) <= HistoryMax
<1>1. evaluated' \in Seq(Logs)
    BY DEF Evaluate, DetectTypes
<1>2. /\ DOMAIN history' = KeysOfRules /\ history' = [k \in KeysOfRules |-> history'[k]]
      /\ \A k \in KeysOfRules :
             history'[k] \in {Counted(k[1], l), Pruned(history[k], Time(l))}
    BY DEF Evaluate, KeysOfRules
<1>3. ASSUME NEW k \in KeysOfRules
      PROVE  history'[k] \in Seq(Logs) /\ Len(history'[k]) <= HistoryMax
    <2>1. PICK r \in RuleIds, a \in Actors : k = <<r, a>>
        BY DEF KeysOfRules
    <2>2. Counted(k[1], l) = Counted(r, l) /\ Pruned(history[k], Time(l)) = Pruned(history[r, a], Time(l))
        BY <2>1
    <2> QED
        BY <1>2, <2>2, CountedFacts
<1> QED
    BY <1>1, <1>2, <1>3

LEMMA EvaluateKeeps ==
    ASSUME DetectInv, NEW l \in Logs, Evaluate(l), found \subseteq found',
           FirstMatch(l) # 0 => RuleAlert(FirstMatch(l), l) \in found'
    PROVE  HistoryInv'
<1> DEFINE n == Len(evaluated)
           e == Append(evaluated, l)
<1>1. /\ evaluated \in Seq(Logs) /\ evaluated' = e
      /\ e \in Seq(Logs) /\ Len(e) = n + 1 /\ n \in Nat /\ e[n + 1] = l
    BY AppendFacts DEF DetectInv, DetectTypes, Evaluate
<1> SUFFICES ASSUME NEW r \in RuleIds, NEW a \in Actors, Rules[r].count > 0
             PROVE  Kept(history'[r, a], r, a, e, n + 1, found')
    BY <1>1 DEF HistoryInv
<1> DEFINE h == Pruned(history[r, a], Time(l))
<1>2. <<r, a>> \in KeysOfRules /\ history[r, a] \in Seq(Logs)
    BY DEF KeysOfRules, DetectInv, DetectTypes
<1>3. Kept(history[r, a], r, a, evaluated, n, found)
    BY DEF DetectInv, HistoryInv
<1>4. Kept(h, r, a, e, n, found)
    BY <1>1, <1>2, <1>3, PruningKeeps
<1>5. h \in Seq(Logs) /\ Len(h) <= HistoryMax
    BY CountedFacts DEF DetectInv
<1>6. history'[r, a] = IF a = Actor(l) /\ r \in Tried(l) THEN Counted(r, l) ELSE h
    BY <1>2 DEF Evaluate, KeysOfRules
<1> HIDE DEF n, e
<1>7. CASE a = Actor(l) /\ r \in Tried(l)
    <2>1. history'[r, a] = LastOf(Append(h, e[n + 1]), HistoryMax)
        BY <1>1, <1>6, <1>7 DEF Counted
    <2>2. Accepts(r, a, e[n + 1]) /\ e[n + 1] \in Logs
        BY <1>1, <1>7 DEF Accepts, Tried
    <2> HIDE DEF h
    <2>3. Kept(LastOf(Append(h, e[n + 1]), HistoryMax), r, a, e, n + 1, found')
        BY <1>1, <1>4, <1>5, <2>2, CountingKeeps
    <2> QED
        BY <2>1, <2>3
<1>8. CASE ~(a = Actor(l) /\ r \in Tried(l))
    <2>1. history'[r, a] = h
        BY <1>6, <1>8
    <2>2. Accepts(r, a, e[n + 1]) => Taken(r, e[n + 1], found')
        <3>1. SUFFICES ASSUME Accepts(r, a, l) PROVE Taken(r, l, found')
            BY <1>1
        <3>2. r \in About[l].hits /\ r \notin Tried(l)
            BY <1>8, <3>1 DEF Accepts
        <3>3. FirstMatch(l) \in 1 .. r - 1
            BY <3>2, TriedOrTaken
        <3>4. RuleAlert(FirstMatch(l), l).log = l /\ RuleAlert(FirstMatch(l), l).rule = FirstMatch(l)
            BY DEF RuleAlert, AlertOf
        <3>5. FirstMatch(l) # 0
            BY <3>3
        <3> QED
            BY <3>3, <3>4, <3>5 DEF Taken
    <2> HIDE DEF h
    <2>3. Kept(h, r, a, e, n + 1, found')
        BY <1>1, <1>4, <1>5, <2>2, PassingKeeps
    <2> QED
        BY <2>1, <2>3
<1> QED
    BY <1>7, <1>8

\* Nothing is remembered of nothing.
LEMMA EmptyIsKept ==
    ASSUME NEW r, NEW a, NEW fd
    PROVE  Kept(<<>>, r, a, <<>>, Len(<<>>), fd)
<1> DEFINE f == [j \in {} |-> 1]
<1>1. DOMAIN <<>> = {} /\ Len(<<>>) = 0
    OBVIOUS
<1>2. Places(<<>>, r, a, <<>>, 0, f)
    BY <1>1 DEF Places
<1>3. Complete(<<>>, r, a, <<>>, 0, fd, f)
    BY DEF Complete
<1> HIDE DEF f
<1> QED
    BY <1>1, <1>2, <1>3 DEF Kept

\* Init and every step keep the invariant.
LEMMA DetectStarts == ASSUME Init PROVE DetectInv /\ CaughtInv
<1>1. /\ raw = <<>> /\ next = 0 /\ committed = 0 /\ booted = 0 /\ evaluated = <<>> /\ found = {}
      /\ history = [k \in KeysOfRules |-> <<>>]
    BY DEF Init, Delivery!Init, DetectInit, KeysOfRules
<1>2. DetectTypes
    <2>1. <<>> \in Seq(Logs) /\ Len(<<>>) <= HistoryMax
        BY DetectionConstants
    <2> QED
        BY <1>1, <2>1 DEF DetectTypes
<1>3. HistoryInv
    BY <1>1, EmptyIsKept DEF HistoryInv, KeysOfRules
<1>4. CaughtInv
    BY <1>1 DEF CaughtInv
<1> QED
    BY <1>1, <1>2, <1>3, <1>4 DEF DetectInv, Founded

LEMMA DetectStep == ASSUME DetectInv, [Next]_vars PROVE DetectInv'
<1>0. DetectTypes
    BY DEF DetectInv
<1>a. ASSUME UNCHANGED <<evaluated, history, found>>, DetectTypes' PROVE DetectInv'
    BY <1>a DEF DetectInv, HistoryInv
<1>1. CASE Keeps /\ raw' \in Seq(Logs)
    <2>1. DetectTypes'
        BY <1>0, <1>1 DEF Keeps, DetectTypes
    <2> QED
        BY <1>1, <1>a, <2>1 DEF Keeps
<1>2. CASE Keeps /\ UNCHANGED raw
    <2>1. DetectTypes'
        BY <1>0, <1>2 DEF Keeps, DetectTypes
    <2> QED
        BY <1>2, <1>a, <2>1 DEF Keeps
<1>3. CASE Skips
    <2>1. DetectTypes'
        BY <1>0, <1>3 DEF Skips, DetectTypes
    <2> QED
        BY <1>3, <1>a, <2>1 DEF Skips
<1>4. CASE EvaluatesOne
    <2>1. PICK l \in Logs :
              /\ Evaluate(l)
              /\ next' = next + 1 /\ UNCHANGED <<raw, committed, booted>>
              /\ \/ FirstMatch(l) # 0 /\ found' = found \cup {RuleAlert(FirstMatch(l), l)}
                 \/ FirstMatch(l) = 0 /\ UNCHANGED found
                 \/ FirstMatch(l) = 0 /\ \E s : found' = found \cup {ModelAlert(l, s)}
        BY <1>4 DEF EvaluatesOne
    <2>2. found \subseteq found' /\ (FirstMatch(l) # 0 => RuleAlert(FirstMatch(l), l) \in found')
        BY <2>1
    <2>3. HistoryInv'
        BY <2>1, <2>2, EvaluateKeeps
    <2>4. DetectTypes'
        BY <1>0, <2>1, EvaluateTypes DEF DetectTypes
    <2>5. Founded(found')
        <3>1. ASSUME NEW x \in found', x.rule # 0, x \notin found
              PROVE  x.log \in Logs /\ x.rule \in About[x.log].hits
            <4>1. CASE FirstMatch(l) # 0 /\ x = RuleAlert(FirstMatch(l), l)
                <5>1. x.log = l /\ x.rule = FirstMatch(l)
                    BY <4>1 DEF RuleAlert, AlertOf
                <5>2. Matches(FirstMatch(l), l)
                    BY <4>1, FirstMatchIsFirst
                <5> QED
                    BY <5>1, <5>2 DEF Matches
            <4>2. ASSUME NEW s, x = ModelAlert(l, s) PROVE FALSE
                BY <3>1, <4>2 DEF ModelAlert, AlertOf
            <4> QED
                BY <2>1, <3>1, <4>1, <4>2
        <3> QED
            BY <3>1 DEF Founded, DetectInv
    <2> QED
        BY <2>3, <2>4, <2>5 DEF DetectInv
<1>5. CASE Restarts
    <2>1. /\ evaluated' = <<>> /\ history' = [k \in KeysOfRules |-> <<>>]
          /\ next' = committed /\ booted' = committed /\ UNCHANGED <<raw, committed, found>>
        BY <1>5 DEF Restarts, Forgets, KeysOfRules
    <2>2. DetectTypes'
        <3>1. <<>> \in Seq(Logs) /\ Len(<<>>) <= HistoryMax
            BY DetectionConstants
        <3> QED
            BY <1>0, <2>1, <3>1 DEF DetectTypes
    <2>3. HistoryInv'
        BY <2>1, EmptyIsKept DEF HistoryInv, KeysOfRules
    <2> QED
        BY <2>1, <2>2, <2>3 DEF DetectInv, Founded
<1>6. CASE UNCHANGED <<raw, next, booted, evaluated, history, found>> /\ committed' = next
    <2>1. DetectTypes'
        BY <1>0, <1>6 DEF DetectTypes
    <2> QED
        BY <1>6, <1>a, <2>1
<1> QED
    BY <1>0, <1>1, <1>2, <1>3, <1>4, <1>5, <1>6, StepCases

-----------------------------------------------------------------------------
(* An alert is justified *)

\* What a threshold rule publishes, it has counted.
LEMMA AlertIsJustified ==
    ASSUME DetectInv, DetectInv', NEW l \in Logs, Evaluate(l), FirstMatch(l) # 0, NoneTwice',
           Rules[FirstMatch(l)].count > 0
    PROVE  Justified(RuleAlert(FirstMatch(l), l))
<1> DEFINE n == Len(evaluated')
           e == evaluated'
           r == FirstMatch(l)
           h == Counted(r, l)
           I == InWindow(h, l, Rules[r].window)
           S == {h[i] : i \in I}
<1>1. e \in Seq(Logs) /\ n \in Nat \ {0} /\ e[n] = l
    <2>1. evaluated \in Seq(Logs) /\ evaluated' = Append(evaluated, l)
        BY DEF DetectInv, DetectTypes, Evaluate
    <2> QED
        BY <2>1, AppendFacts
<1>2. r \in RuleIds /\ Matches(r, l) /\ r \in Tried(l)
    <2>1. r \in RuleIds /\ Matches(r, l) /\ r \in Nat
        BY FirstMatchIsFirst, RuleType
    <2> QED
        BY <2>1 DEF Tried, Matches
<1>3. history'[r, Actor(l)] = h
    BY <1>2, AboutType DEF Evaluate
<1>4. h \in Seq(Logs)
    BY <1>2, AboutType, CountedFacts DEF DetectInv
<1>5. Kept(h, r, Actor(l), e, n, found')
    BY <1>2, <1>3, AboutType DEF DetectInv, HistoryInv
<1>6. \A i, j \in DOMAIN e : e[i] = e[j] => i = j
    BY DEF NoneTwice
<1>7. AttemptsIn(h, I, Rules[r].pair) >= Rules[r].count
    BY <1>2 DEF Matches, OverThreshold
<1> HIDE DEF e, n, r, h
<1>8. n = Len(e)
    BY DEF e, n
<1>9. /\ \A k \in S : /\ Actor(k) = Actor(l) /\ r \in About[k].hits
                      /\ Time(l) - Time(k) <= Rules[r].window
      /\ AttemptsAmong(S, Rules[r].pair) = AttemptsIn(h, I, Rules[r].pair)
    <2>1. PICK f : Places(h, r, Actor(l), e, n, f)
        BY <1>5 DEF Kept
    <2>2. I \subseteq 1 .. Len(h) /\ IsFiniteSet(I) /\ DOMAIN h = 1 .. Len(h)
        BY <1>4, WindowFacts
    <2>3. \A k \in S : /\ Actor(k) = Actor(l) /\ r \in About[k].hits
                       /\ Time(l) - Time(k) <= Rules[r].window
        BY <2>1, <2>2 DEF Places, Accepts, InWindow
    <2>4. \A i, j \in I : h[i] = h[j] => i = j
        <3>1. ASSUME NEW i \in I, NEW j \in I, h[i] = h[j] PROVE i = j
            <4>1. i \in DOMAIN h /\ j \in DOMAIN h /\ i \in Int /\ j \in Int
                BY <2>2
            <4>2. f[i] \in 1 .. n /\ f[j] \in 1 .. n /\ h[i] = e[f[i]] /\ h[j] = e[f[j]]
                BY <2>1, <4>1 DEF Places
            <4>3. f[i] \in DOMAIN e /\ f[j] \in DOMAIN e
                BY <1>1, <1>8, <4>2
            <4>4. f[i] = f[j]
                BY <1>6, <3>1, <4>2, <4>3
            <4>5. ~(i < j) /\ ~(j < i)
                BY <1>1, <2>1, <4>1, <4>2, <4>4 DEF Places
            <4> QED
                BY <4>1, <4>5
        <3> QED
            BY <3>1
    <2> HIDE DEF I
    <2>5. AttemptsAmong(S, Rules[r].pair) = AttemptsIn(h, I, Rules[r].pair)
        BY <2>2, <2>4, AttemptsOfEntries
    <2> QED
        BY <2>3, <2>5
<1>10. /\ RuleAlert(r, l).log = l /\ RuleAlert(r, l).rule = r
       /\ RuleAlert(r, l).related = S
    <2>1. Rules[r].count # 0
        BY <1>2, RuleType DEF r
    <2> QED
        BY <2>1 DEF RuleAlert, AlertOf, Evidence, h
<1> HIDE DEF S, I
<1>11. Justified(RuleAlert(r, l))
    BY <1>7, <1>9, <1>10 DEF Justified
<1> QED
    BY <1>11 DEF r

\* The alert of a threshold rule rests on attempts that were made, in the window of the rule,
\* by the actor it names (RuleEngine.evaluate behind SeenIds).
THEOREM AlertsAreJustified == Spec => ThresholdJustified
<1>1. ASSUME DetectInv, DetectInv', [Next]_vars, NoneTwice', NEW x \in found' \ found,
             x.rule > 0, Rules[x.rule].count > 0
      PROVE  Justified(x)
    <2>1. EvaluatesOne
        BY <1>1, StepCases DEF Keeps, Skips, Restarts, DetectInv
    <2>2. PICK l \in Logs :
              /\ Evaluate(l)
              /\ next' = next + 1 /\ UNCHANGED <<raw, committed, booted>>
              /\ \/ FirstMatch(l) # 0 /\ found' = found \cup {RuleAlert(FirstMatch(l), l)}
                 \/ FirstMatch(l) = 0 /\ UNCHANGED found
                 \/ FirstMatch(l) = 0 /\ \E s : found' = found \cup {ModelAlert(l, s)}
        BY <2>1 DEF EvaluatesOne
    <2>3. ASSUME NEW s, x = ModelAlert(l, s) PROVE FALSE
        BY <1>1, <2>3 DEF ModelAlert, AlertOf
    <2>4. FirstMatch(l) # 0 /\ x = RuleAlert(FirstMatch(l), l)
        BY <1>1, <2>2, <2>3
    <2>5. x.rule = FirstMatch(l)
        BY <2>4 DEF RuleAlert, AlertOf
    <2> QED
        BY <1>1, <2>2, <2>4, <2>5, AlertIsJustified
<1>2. ASSUME DetectInv, DetectInv', [Next]_vars
      PROVE  [NoneTwice' => \A a \in found' \ found :
                  a.rule > 0 /\ Rules[a.rule].count > 0 => Justified(a)]_found
    BY <1>1, <1>2
<1> QED
    BY <1>2, DetectStarts, DetectStep, PTL DEF Spec, ThresholdJustified

-----------------------------------------------------------------------------
(* No attack is missed *)

\* The log evaluated last is caught: a rule that reaches its threshold and is tried matches.
LEMMA LatestIsCaught ==
    ASSUME PairsStandFirst, DetectInv, DetectInv', NEW l \in Logs, Evaluate(l),
           FirstMatch(l) # 0 => RuleAlert(FirstMatch(l), l) \in found',
           Ordered(evaluated'), NEW r \in RuleIds
    PROVE  CaughtAt(evaluated', found', Len(evaluated'), r)
<1> DEFINE n == Len(evaluated')
           e == evaluated'
           m == FirstMatch(l)
           h == Counted(r, l)
<1>1. e \in Seq(Logs) /\ n \in Nat \ {0} /\ e[n] = l
    <2>1. evaluated \in Seq(Logs) /\ evaluated' = Append(evaluated, l)
        BY DEF DetectInv, DetectTypes, Evaluate
    <2> QED
        BY <2>1, AppendFacts
<1>2. r \in Nat \ {0}
    BY RuleType
<1> SUFFICES ASSUME Cardinality(Within(e, n, r)) <= HistoryMax, Reaches(e, found', n, r),
                    ~Told(e, found', n, r)
             PROVE  FALSE
    BY DEF CaughtAt
<1>3. r \in About[l].hits /\ Rules[r].count > 0 /\ Rules[r].prior = 0
    BY <1>1 DEF Reaches
<1>4. ~(m # 0 /\ m <= r)
    <2>1. SUFFICES ASSUME m # 0, m <= r PROVE FALSE
        OBVIOUS
    <2>2. m \in Nat \ {0}
        BY <2>1, FirstMatchIsFirst, RuleType
    <2>3. RuleAlert(m, l) \in found' /\ RuleAlert(m, l).log = l /\ RuleAlert(m, l).rule = m
        BY <2>1 DEF RuleAlert, AlertOf
    <2> QED
        BY <1>1, <1>2, <2>1, <2>2, <2>3 DEF Told
<1>5. r \in Tried(l)
    <2>1. m = 0 \/ r <= m
        <3>1. m = 0 \/ (m \in RuleIds /\ m \in Nat)
            BY FirstMatchIsFirst, RuleType
        <3> HIDE DEF m
        <3> QED
            BY <1>2, <1>4, <3>1
    <2> QED
        BY <1>3, <2>1 DEF Tried
<1>6. history'[r, Actor(l)] = h
    BY <1>3, <1>5, AboutType DEF Evaluate
<1>7. Kept(h, r, Actor(l), e, n, found')
    BY <1>3, <1>6, AboutType DEF DetectInv, HistoryInv
<1>8. h \in Seq(Logs)
    BY AboutType, CountedFacts DEF DetectInv
<1>9. Founded(found')
    BY DEF DetectInv
<1>10. Ordered(e) /\ n = Len(e)
    OBVIOUS
<1> HIDE DEF e, n, m, h
<1>11. AttemptsIn(h, InWindow(h, l, Rules[r].window), Rules[r].pair) >= Rules[r].count
    BY <1>1, <1>7, <1>8, <1>9, <1>10, ThresholdIsReached
<1>12. Matches(r, l)
    BY <1>3, <1>11 DEF Matches, OverThreshold, h
<1> QED
    BY <1>2, <1>4, <1>12, FirstMatchIsFirst DEF m

LEMMA CaughtStep ==
    ASSUME PairsStandFirst, DetectInv, DetectInv', CaughtInv, [Next]_vars
    PROVE  CaughtInv'
<1>1. CASE UNCHANGED <<evaluated, found>>
    BY <1>1 DEF CaughtInv
<1>2. CASE Restarts
    BY <1>2 DEF Restarts, Forgets, CaughtInv
<1>3. CASE EvaluatesOne
    <2>1. PICK l \in Logs :
              /\ Evaluate(l)
              /\ next' = next + 1 /\ UNCHANGED <<raw, committed, booted>>
              /\ \/ FirstMatch(l) # 0 /\ found' = found \cup {RuleAlert(FirstMatch(l), l)}
                 \/ FirstMatch(l) = 0 /\ UNCHANGED found
                 \/ FirstMatch(l) = 0 /\ \E s : found' = found \cup {ModelAlert(l, s)}
        BY <1>3 DEF EvaluatesOne
    <2>2. found \subseteq found' /\ (FirstMatch(l) # 0 => RuleAlert(FirstMatch(l), l) \in found')
        BY <2>1
    <2>3. evaluated \in Seq(Logs) /\ evaluated' = Append(evaluated, l) /\ Founded(found')
        BY <2>1 DEF DetectInv, DetectTypes, Evaluate
    <2>4. /\ DOMAIN evaluated = 1 .. Len(evaluated) /\ Len(evaluated) \in Nat
          /\ DOMAIN evaluated' = 1 .. Len(evaluated) + 1
          /\ Len(evaluated') = Len(evaluated) + 1
          /\ Ordered(evaluated') => Ordered(evaluated)
        BY <2>3, AppendFacts
    <2>5. ASSUME Ordered(evaluated'), NEW n \in DOMAIN evaluated', NEW r \in RuleIds
          PROVE  CaughtAt(evaluated', found', n, r)
        <3>1. CASE n \in 1 .. Len(evaluated)
            <4>1. CaughtAt(evaluated, found, n, r)
                BY <2>4, <2>5, <3>1 DEF CaughtInv
            <4>2. CaughtAt(Append(evaluated, l), found', n, r)
                BY <2>2, <2>3, <3>1, <4>1, EarlierStayCaught
            <4> QED
                BY <2>3, <4>2
        <3>2. CASE n = Len(evaluated')
            BY <2>1, <2>2, <2>5, <3>2, LatestIsCaught
        <3> QED
            BY <2>4, <3>1, <3>2
    <2> QED
        BY <2>5 DEF CaughtInv
<1> QED
    BY <1>1, <1>2, <1>3, StepCases DEF DetectInv, Keeps, Skips

LEMMA CaughtIsNotMissed == CaughtInv => (HistoriesSuffice => NoAttackMissed)
<1> SUFFICES ASSUME CaughtInv, HistoriesSuffice, InOrder,
                    NEW n \in DOMAIN evaluated, NEW r \in RuleIds
             PROVE  LET l == evaluated[n]
                        S == {k \in {evaluated[i] : i \in 1 .. n} :
                                /\ Actor(k) = Actor(l) /\ r \in About[k].hits
                                /\ Time(l) - Time(k) <= Rules[r].window
                                /\ ~\E a \in found : a.log = k /\ a.rule \in 1 .. r - 1}
                    IN  (/\ r \in About[l].hits /\ Rules[r].count > 0 /\ Rules[r].prior = 0
                         /\ AttemptsAmong(S, Rules[r].pair) >= Rules[r].count)
                            => \E a \in found : a.log = l /\ a.rule \in 1 .. r
    BY DEF NoAttackMissed
<1> DEFINE l == evaluated[n]
           S == {k \in {evaluated[i] : i \in 1 .. n} :
                    /\ Actor(k) = Actor(l) /\ r \in About[k].hits
                    /\ Time(l) - Time(k) <= Rules[r].window
                    /\ ~\E a \in found : a.log = k /\ a.rule \in 1 .. r - 1}
<1>1. S = Suspects(evaluated, found, n, r)
    BY DEF Suspects, Accepts, Taken
<1>2. CaughtAt(evaluated, found, n, r)
    BY DEF CaughtInv, InOrder, Ordered
<1> HIDE DEF S
<1>3. Rules[r].count > 0 => Cardinality(Within(evaluated, n, r)) <= HistoryMax
    BY DEF HistoriesSuffice
<1>4. (/\ r \in About[l].hits /\ Rules[r].count > 0 /\ Rules[r].prior = 0
       /\ AttemptsAmong(S, Rules[r].pair) >= Rules[r].count) => Reaches(evaluated, found, n, r)
    BY <1>1 DEF Reaches
<1>5. (/\ r \in About[l].hits /\ Rules[r].count > 0 /\ Rules[r].prior = 0
       /\ AttemptsAmong(S, Rules[r].pair) >= Rules[r].count) => Told(evaluated, found, n, r)
    BY <1>2, <1>3, <1>4 DEF CaughtAt
<1> QED
    BY <1>5 DEF Told, S

\* An actor that reaches the threshold of a rule within its window is found, however the
\* histories are pruned, as long as what the rule has to remember fits in a history and the
\* rules that pair lines stand first (RuleEngine.evaluate, _prune).
THEOREM AttacksAreFound ==
    ASSUME PairsStandFirst
    PROVE  Spec => [](HistoriesSuffice => NoAttackMissed)
<1>1. Init => DetectInv /\ CaughtInv
    BY DetectStarts
<1>2. DetectInv /\ CaughtInv /\ [Next]_vars => DetectInv' /\ CaughtInv'
    BY DetectStep, CaughtStep
<1>3. DetectInv /\ CaughtInv => (HistoriesSuffice => NoAttackMissed)
    BY CaughtIsNotMissed
<1> QED
    BY <1>1, <1>2, <1>3, PTL DEF Spec
=============================================================================
