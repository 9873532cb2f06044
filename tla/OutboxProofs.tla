---------------------------- MODULE OutboxProofs ----------------------------
(***************************************************************************)
(* Theorems about KafkaOutbox, for any number of logs, drains, failures    *)
(* and outages and every size of a drain's query.                          *)
(***************************************************************************)
EXTENDS KafkaOutbox, SequenceTheorems, TLAPS

Distinct(s) == \A i, j \in DOMAIN s : s[i] = s[j] => i = j

DrainRecord == [pc : {"idle", "find", "found", "send", "delete"}, rows : Seq(Logs)]

\* TypeOK in parts: the topics, the table and the requests; what the process keeps.
StoreType ==
    /\ stored \subseteq Logs /\ dlq \subseteq Logs /\ forgotten \subseteq Logs
    /\ raw \in Seq(Logs) /\ outbox \in Seq(Logs)
    /\ call \in [Logs -> {"none", "publish", "dlq", "enqueue", "done"}]

ProcessType ==
    /\ producer \in {"off", "connected", "closed"}
    /\ up \in BOOLEAN /\ stopping \in BOOLEAN /\ hasPending \in BOOLEAN /\ draining \in BOOLEAN
    /\ drain \in [Drains -> DrainRecord]
    /\ faults \in 0 .. MaxFaults /\ outages \in 0 .. MaxOutages

\* The flag keeps two executions of drainPending apart.
FlagInv ==
    /\ draining <=> \E d \in Drains : drain[d].pc # "idle"
    /\ \A d, e \in Drains : drain[d].pc # "idle" /\ drain[e].pc # "idle" => d = e

\* What a drain has read and not yet deleted is in the outbox, once each.
RowsInv ==
    /\ Distinct(outbox)
    /\ \A d \in Drains :
         /\ drain[d].pc = "idle" => drain[d].rows = <<>>
         /\ drain[d].pc \in {"send", "delete"} => drain[d].rows # <<>>
         /\ Distinct(drain[d].rows)
         /\ \A l \in Logs : In(l, drain[d].rows) => In(l, outbox)

\* Where a log is tells how far its request got.
PlaceInv ==
    \A l \in Logs :
        /\ call[l] = "none" <=> l \notin stored
        /\ In(l, outbox) => call[l] = "done"
        /\ l \in forgotten => call[l] = "done" /\ ~In(l, outbox) /\ ~In(l, raw) /\ l \notin dlq

\* A log whose request has ended was sent, set aside, waits in the outbox or was given up;
\* drainPending deletes a row only after its message reached the topic.
NowhereInv ==
    /\ \A l \in Logs : call[l] = "done" => \/ In(l, raw) \/ l \in dlq
                                           \/ In(l, outbox) \/ l \in forgotten
    /\ \A d \in Drains : drain[d].pc = "delete" => In(Head(drain[d].rows), raw)

\* While nothing has failed, a log in logs.raw is on its way out of the outbox or not there.
OnceInv ==
    faults = 0 =>
        /\ ~stopping
        /\ Distinct(raw)
        /\ \A l \in Logs : In(l, raw) =>
              /\ call[l] = "done"
              /\ In(l, outbox) => \E d \in Drains : /\ drain[d].pc = "delete"
                                                    /\ Head(drain[d].rows) = l

OutboxInv ==
    StoreType /\ ProcessType /\ FlagInv /\ RowsInv /\ PlaceInv /\ NowhereInv /\ OnceInv

-----------------------------------------------------------------------------
(* Sequences of logs *)

LEMMA InAppend ==
    ASSUME NEW s \in Seq(Logs), NEW l \in Logs
    PROVE  /\ Append(s, l) \in Seq(Logs)
           /\ \A k \in Logs : In(k, Append(s, l)) <=> In(k, s) \/ k = l
           /\ Distinct(s) /\ ~In(l, s) => Distinct(Append(s, l))
<1> DEFINE a == Append(s, l)
<1>1. /\ a \in Seq(Logs) /\ Len(a) = Len(s) + 1 /\ Len(s) \in Nat
      /\ \A i \in 1 .. Len(s) : a[i] = s[i]
      /\ a[Len(s) + 1] = l
    BY AppendProperties
<1>2. DOMAIN a = 1 .. Len(s) + 1 /\ DOMAIN s = 1 .. Len(s)
    BY <1>1
<1> HIDE DEF a
<1>3. \A k \in Logs : In(k, a) <=> In(k, s) \/ k = l
    BY <1>1, <1>2 DEF In
<1>4. ASSUME Distinct(s), ~In(l, s) PROVE Distinct(a)
    BY <1>1, <1>2, <1>4 DEF In, Distinct
<1> QED
    BY <1>1, <1>3, <1>4 DEF a

LEMMA InTail ==
    ASSUME NEW s \in Seq(Logs), s # <<>>, Distinct(s)
    PROVE  /\ Head(s) \in Logs /\ In(Head(s), s)
           /\ Tail(s) \in Seq(Logs) /\ Distinct(Tail(s))
           /\ \A k \in Logs : In(k, Tail(s)) <=> In(k, s) /\ k # Head(s)
<1> DEFINE t == Tail(s)
<1>1. /\ t \in Seq(Logs) /\ Len(t) = Len(s) - 1 /\ Len(s) \in Nat \ {0}
      /\ \A i \in 1 .. Len(t) : t[i] = s[i + 1]
      /\ Head(s) = s[1] /\ Head(s) \in Logs
    BY HeadTailProperties, EmptySeq, LenProperties
<1>2. DOMAIN t = 1 .. Len(s) - 1 /\ DOMAIN s = 1 .. Len(s)
    BY <1>1
<1> HIDE DEF t
<1>3. Distinct(t)
    <2> SUFFICES ASSUME NEW i \in DOMAIN t, NEW j \in DOMAIN t, t[i] = t[j] PROVE i = j
        BY DEF Distinct
    <2>1. i + 1 \in DOMAIN s /\ j + 1 \in DOMAIN s /\ s[i + 1] = s[j + 1]
        BY <1>1, <1>2
    <2>2. i + 1 = j + 1
        BY <2>1 DEF Distinct
    <2> QED
        BY <1>2, <2>2, <1>1
<1>4. ASSUME NEW k \in Logs, In(k, t) PROVE In(k, s) /\ k # Head(s)
    <2>1. PICK i \in DOMAIN t : t[i] = k
        BY <1>4 DEF In
    <2>2. i + 1 \in DOMAIN s /\ s[i + 1] = k /\ 1 \in DOMAIN s /\ i + 1 # 1
        BY <1>1, <1>2, <2>1
    <2> QED
        BY <1>1, <2>2 DEF In, Distinct
<1>5. ASSUME NEW k \in Logs, In(k, s), k # Head(s) PROVE In(k, t)
    <2>1. PICK i \in DOMAIN s : s[i] = k
        BY <1>5 DEF In
    <2>2. i - 1 \in DOMAIN t /\ t[i - 1] = k
        BY <1>1, <1>2, <1>5, <2>1
    <2> QED
        BY <2>2 DEF In
<1>6. In(Head(s), s)
    BY <1>1, <1>2 DEF In
<1> QED
    BY <1>1, <1>3, <1>4, <1>5, <1>6 DEF t

\* The answer to the query of drainPending: the first rows, each of them in the table.
LEMMA InPrefix ==
    ASSUME NEW s \in Seq(Logs), Distinct(s), NEW n \in 0 .. Len(s)
    PROVE  /\ SubSeq(s, 1, n) \in Seq(Logs) /\ Distinct(SubSeq(s, 1, n))
           /\ \A k \in Logs : In(k, SubSeq(s, 1, n)) => In(k, s)
<1> DEFINE p == SubSeq(s, 1, n)
<1>1. p \in Seq(Logs) /\ Len(p) = n /\ \A i \in 1 .. n : p[i] = s[i]
    BY SubSeqProperties, LenProperties
<1>2. DOMAIN p = 1 .. n /\ DOMAIN s = 1 .. Len(s) /\ Len(s) \in Nat
    BY <1>1, LenProperties
<1> HIDE DEF p
<1>3. DOMAIN p \subseteq DOMAIN s
    BY <1>2
<1> QED
    BY <1>1, <1>2, <1>3 DEF In, Distinct, p

\* What is left of the table when the row of l is deleted.
LEMMA InWithout ==
    ASSUME NEW s \in Seq(Logs), Distinct(s), NEW l \in Logs
    PROVE  /\ Without(s, l) \in Seq(Logs) /\ Distinct(Without(s, l))
           /\ \A k \in Logs : In(k, Without(s, l)) <=> In(k, s) /\ k # l
<1>1. CASE ~In(l, s)
    BY <1>1 DEF Without
<1>2. CASE In(l, s)
    <2> DEFINE i == CHOOSE i \in DOMAIN s : s[i] = l
               a == SubSeq(s, 1, i - 1)
               b == SubSeq(s, i + 1, Len(s))
               w == a \o b
    <2>1. i \in DOMAIN s /\ s[i] = l
        BY <1>2 DEF In
    <2>2. DOMAIN s = 1 .. Len(s) /\ Len(s) \in Nat
        BY LenProperties
    <2>3. i \in 1 .. Len(s)
        BY <2>1, <2>2
    <2> HIDE DEF i
    <2>4. a \in Seq(Logs) /\ Len(a) = i - 1 /\ \A j \in 1 .. i - 1 : a[j] = s[j]
        <3>1. \A j \in 1 .. i - 1 : s[j] \in Logs
            BY <2>2, <2>3, ElementOfSeq
        <3> QED
            BY <2>2, <2>3, <3>1, SubSeqProperties
    <2>5. b \in Seq(Logs) /\ Len(b) = Len(s) - i /\ \A j \in 1 .. Len(s) - i : b[j] = s[i + j]
        <3>1. \A j \in i + 1 .. Len(s) : s[j] \in Logs
            BY <2>2, <2>3, ElementOfSeq
        <3>2. i + 1 \in Int /\ Len(s) \in Int /\ Len(s) - (i + 1) + 1 = Len(s) - i
            BY <2>2, <2>3
        <3>3. /\ b \in Seq(Logs)
              /\ Len(b) = IF i + 1 <= Len(s) THEN Len(s) - (i + 1) + 1 ELSE 0
              /\ \A j \in 1 .. Len(s) - (i + 1) + 1 : b[j] = s[(i + 1) + j - 1]
            BY <3>1, <3>2, SubSeqProperties
        <3>4. \A j \in 1 .. Len(s) - i : (i + 1) + j - 1 = i + j
            BY <2>2, <2>3
        <3> HIDE DEF b
        <3>5. \A j \in 1 .. Len(s) - i : b[j] = s[i + j]
            BY <3>2, <3>3, <3>4
        <3>6. Len(b) = Len(s) - i
            <4>1. CASE i + 1 <= Len(s)
                BY <3>2, <3>3, <4>1
            <4>2. CASE ~(i + 1 <= Len(s))
                <5>1. \A n \in Nat : \A k \in 1 .. n : ~(k + 1 <= n) => n - k = 0
                    OBVIOUS
                <5>2. Len(s) - i = 0
                    BY <2>2, <2>3, <4>2, <5>1
                <5> QED
                    BY <3>3, <4>2, <5>2
            <4> QED
                BY <4>1, <4>2
        <3> QED
            BY <3>3, <3>5, <3>6
    <2> HIDE DEF a, b
    <2>6. /\ w \in Seq(Logs) /\ Len(w) = Len(s) - 1
          /\ \A j \in 1 .. Len(s) - 1 : w[j] = IF j < i THEN s[j] ELSE s[j + 1]
        <3>1. /\ w \in Seq(Logs) /\ Len(w) = Len(a) + Len(b)
              /\ \A j \in 1 .. Len(a) + Len(b) :
                    w[j] = IF j <= Len(a) THEN a[j] ELSE b[j - Len(a)]
            BY <2>4, <2>5, ConcatProperties
        <3> HIDE DEF w
        <3>2. Len(w) = Len(s) - 1
            BY <2>2, <2>3, <2>4, <2>5, <3>1
        <3>3. ASSUME NEW j \in 1 .. Len(s) - 1
              PROVE  w[j] = IF j < i THEN s[j] ELSE s[j + 1]
            <4>1. w[j] = IF j <= Len(a) THEN a[j] ELSE b[j - Len(a)]
                BY <2>2, <2>3, <2>4, <2>5, <3>1
            <4>2. CASE j < i
                BY <2>2, <2>3, <2>4, <4>1, <4>2
            <4>3. CASE ~(j < i)
                <5>1. j - (i - 1) \in 1 .. Len(s) - i /\ i + (j - (i - 1)) = j + 1
                    BY <2>2, <2>3, <4>3
                <5>2. w[j] = b[j - (i - 1)]
                    BY <2>2, <2>3, <2>4, <4>1, <4>3
                <5>3. b[j - (i - 1)] = s[i + (j - (i - 1))]
                    BY <2>5, <5>1
                <5> QED
                    BY <4>3, <5>1, <5>2, <5>3
            <4> QED
                BY <4>2, <4>3
        <3> QED
            BY <3>1, <3>2, <3>3
    <2>7. DOMAIN w = 1 .. Len(s) - 1
        BY <2>6, LenProperties
    <2>8. Without(s, l) = w
        BY <1>2 DEF Without, i, a, b
    <2> HIDE DEF w
    <2>9. Distinct(w)
        <3> DEFINE from(j) == IF j < i THEN j ELSE j + 1
        <3>1. \A j \in DOMAIN w : from(j) \in DOMAIN s /\ w[j] = s[from(j)]
            BY <2>2, <2>3, <2>6, <2>7
        <3>2. \A j, m \in DOMAIN w : from(j) = from(m) => j = m
            BY <2>2, <2>3, <2>7
        <3> HIDE DEF from
        <3> QED
            BY <3>1, <3>2 DEF Distinct
    <2>10. ASSUME NEW k \in Logs, In(k, w) PROVE In(k, s) /\ k # l
        <3>1. PICK j \in 1 .. Len(s) - 1 : w[j] = k
            BY <2>7, <2>10 DEF In
        <3>2. PICK m \in DOMAIN s : s[m] = k /\ m # i
            BY <2>2, <2>3, <2>6, <3>1
        <3> QED
            BY <2>1, <3>2 DEF In, Distinct
    <2>11. ASSUME NEW k \in Logs, In(k, s), k # l PROVE In(k, w)
        <3>1. PICK m \in 1 .. Len(s) : s[m] = k
            BY <2>2, <2>11 DEF In
        <3>2. m # i
            BY <2>1, <2>11, <3>1
        <3>3. CASE m < i
            BY <2>3, <2>6, <2>7, <3>1, <3>3 DEF In
        <3>4. CASE m > i
            <4>1. m - 1 \in 1 .. Len(s) - 1 /\ ~(m - 1 < i) /\ (m - 1) + 1 = m
                BY <2>2, <2>3, <3>1, <3>4
            <4>2. w[m - 1] = k
                BY <2>6, <3>1, <4>1
            <4> QED
                BY <2>7, <4>1, <4>2 DEF In
        <3> QED
            BY <2>2, <2>3, <3>1, <3>2, <3>3, <3>4
    <2> QED
        BY <2>6, <2>8, <2>9, <2>10, <2>11
<1> QED
    BY <1>1, <1>2

LEMMA InEmpty ==
    /\ <<>> \in Seq(Logs) /\ Distinct(<<>>) /\ \A k \in Logs : ~In(k, <<>>)
    /\ DrainIdle \in DrainRecord /\ DrainIdle.pc = "idle" /\ DrainIdle.rows = <<>>
BY DEF Distinct, In, DrainIdle, DrainRecord

-----------------------------------------------------------------------------
(* The executions of drainPending *)

\* An invariant that only looks at what is unchanged stays true.
DrainsInv ==
    /\ drain \in [Drains -> DrainRecord] /\ draining \in BOOLEAN
    /\ FlagInv /\ RowsInv
    /\ \A d \in Drains : drain[d].pc = "delete" => In(Head(drain[d].rows), raw)

LEMMA OneDrainChanges ==
    ASSUME drain \in [Drains -> DrainRecord], NEW d \in Drains, NEW r \in DrainRecord,
           drain' = [drain EXCEPT ![d] = r]
    PROVE  /\ drain' \in [Drains -> DrainRecord]
           /\ drain'[d] = r
           /\ \A e \in Drains \ {d} : drain'[e] = drain[e]
OBVIOUS

\* drainPending is called: it begins, or the flag or the bound Drains keeps it out.
LEMMA StartDrainInv ==
    ASSUME DrainsInv, StartDrain, UNCHANGED <<outbox, raw>>
    PROVE  /\ DrainsInv'
           /\ \A d \in Drains : drain[d].pc = "delete" => drain'[d] = drain[d]
<1>1. CASE UNCHANGED <<draining, drain>>
    BY <1>1 DEF DrainsInv, FlagInv, RowsInv
<1>2. CASE ~(UNCHANGED <<draining, drain>>)
    <2> DEFINE r == [pc |-> "find", rows |-> <<>>]
    <2>1. PICK d \in Drains : /\ drain[d].pc = "idle" /\ ~draining
                              /\ drain' = [drain EXCEPT ![d] = r] /\ draining' = TRUE
        BY <1>2 DEF StartDrain, MayDrain
    <2>2. r \in DrainRecord /\ r.pc = "find" /\ r.rows = <<>>
        BY InEmpty DEF DrainRecord
    <2> HIDE DEF r
    <2>3. /\ drain' \in [Drains -> DrainRecord] /\ drain'[d] = r
          /\ \A e \in Drains \ {d} : drain'[e] = drain[e]
        BY <2>1, <2>2, OneDrainChanges DEF DrainsInv
    <2>4. FlagInv'
        BY <2>1, <2>2, <2>3 DEF DrainsInv, FlagInv
    <2>5. RowsInv'
        BY <2>2, <2>3, InEmpty DEF DrainsInv, RowsInv
    <2>6. \A e \in Drains : drain'[e].pc = "delete" => In(Head(drain'[e].rows), raw')
        BY <2>2, <2>3 DEF DrainsInv
    <2> QED
        BY <2>1, <2>3, <2>4, <2>5, <2>6 DEF DrainsInv
<1> QED
    BY <1>1, <1>2

\* The only execution that is not idle ends.
LEMMA EndsInv ==
    ASSUME DrainsInv, NEW d \in Drains, drain[d].pc # "idle", Ends(d), UNCHANGED outbox,
           \A l \in Logs : In(l, raw) => In(l, raw')
    PROVE  DrainsInv'
<1>1. /\ drain' \in [Drains -> DrainRecord] /\ drain'[d] = DrainIdle
      /\ \A e \in Drains \ {d} : drain'[e] = drain[e]
    BY OneDrainChanges, InEmpty DEF Ends, DrainsInv
<1>2. \A e \in Drains : drain'[e].pc = "idle"
    BY <1>1, InEmpty DEF DrainsInv, FlagInv
<1>3. FlagInv'
    BY <1>2 DEF FlagInv, Ends
<1>4. RowsInv'
    BY <1>1, <1>2, InEmpty DEF DrainsInv, RowsInv
<1> QED
    BY <1>1, <1>2, <1>3, <1>4 DEF DrainsInv, Ends

\* An execution that goes on with rows of the table, or with what is left of them.
LEMMA GoesOnInv ==
    ASSUME DrainsInv, NEW d \in Drains, drain[d].pc # "idle", UNCHANGED draining,
           NEW r \in DrainRecord, drain' = [drain EXCEPT ![d] = r], r.pc # "idle",
           r.pc \in {"send", "delete"} => r.rows # <<>>,
           Distinct(r.rows), \A l \in Logs : In(l, r.rows) => In(l, outbox'),
           outbox' \in Seq(Logs), Distinct(outbox'),
           r.pc = "delete" => In(Head(r.rows), raw')
    PROVE  DrainsInv'
<1>1. /\ drain' \in [Drains -> DrainRecord] /\ drain'[d] = r
      /\ \A e \in Drains \ {d} : drain'[e] = drain[e]
    BY OneDrainChanges DEF DrainsInv
<1>2. \A e \in Drains \ {d} : drain[e].pc = "idle"
    BY DEF DrainsInv, FlagInv
<1>3. FlagInv'
    BY <1>1, <1>2 DEF DrainsInv, FlagInv
<1>4. ASSUME NEW e \in Drains \ {d}
      PROVE  Distinct(drain'[e].rows) /\ \A l \in Logs : In(l, drain'[e].rows) => In(l, outbox')
    BY <1>1, <1>2, InEmpty DEF DrainsInv, RowsInv
<1> QED
    BY <1>1, <1>2, <1>3, <1>4 DEF DrainsInv, RowsInv

-----------------------------------------------------------------------------
(* The induction *)

LEMMA InvDrains == OutboxInv => DrainsInv
BY DEF OutboxInv, DrainsInv, ProcessType, NowhereInv

LEMMA InitInv == Init => OutboxInv
<1> SUFFICES ASSUME Init PROVE OutboxInv
    OBVIOUS
<1>1. StoreType
    BY InEmpty DEF Init, StoreType
<1>2. ProcessType
    <2>1. 0 \in 0 .. MaxFaults /\ 0 \in 0 .. MaxOutages
        BY OutboxConstants
    <2>2. drain \in [Drains -> DrainRecord]
        BY InEmpty DEF Init
    <2> QED
        BY <2>1, <2>2 DEF Init, ProcessType
<1>3. FlagInv /\ RowsInv
    BY InEmpty DEF Init, FlagInv, RowsInv
<1>4. PlaceInv /\ NowhereInv /\ OnceInv
    BY InEmpty DEF Init, PlaceInv, NowhereInv, OnceInv
<1> QED
    BY <1>1, <1>2, <1>3, <1>4 DEF OutboxInv

\* A failure ends what is promised only of runs without one.
LEMMA FaultSpends ==
    ASSUME ProcessType, NEW k, Fault(k)
    PROVE  faults' \in 0 .. MaxFaults /\ faults' # 0
BY OutboxConstants DEF ProcessType, Fault

\* The broker or the flag of the shutdown changes and nothing else.
LEMMA QuietInv ==
    ASSUME OutboxInv, ProcessType', faults' = 0 => faults = 0 /\ ~stopping',
           UNCHANGED <<stored, topics, outbox, call, draining, drain, forgotten>>
    PROVE  OutboxInv'
<1>1. StoreType' /\ PlaceInv'
    BY DEF OutboxInv, topics, StoreType, PlaceInv, In
<1>2. FlagInv' /\ RowsInv'
    BY DEF OutboxInv, topics, FlagInv, RowsInv, In, Distinct
<1>3. NowhereInv'
    BY DEF OutboxInv, topics, NowhereInv, In
<1>4. OnceInv'
    BY DEF OutboxInv, topics, OnceInv, In, Distinct
<1> QED
    BY <1>1, <1>2, <1>3, <1>4 DEF OutboxInv

LEMMA EnvironmentInv ==
    ASSUME OutboxInv, BrokerDown \/ BrokerUp \/ Stop \/ Disconnect
    PROVE  OutboxInv'
<1> USE DEF OutboxInv, memory
<1>1. CASE BrokerDown
    <2>1. outages' \in 0 .. MaxOutages
        BY <1>1, OutboxConstants DEF BrokerDown, ProcessType
    <2> QED
        BY <1>1, <2>1, QuietInv DEF BrokerDown, ProcessType, OnceInv
<1>2. CASE BrokerUp
    BY <1>2, QuietInv DEF BrokerUp, ProcessType, OnceInv
<1>3. CASE Stop
    BY <1>3, QuietInv, FaultSpends DEF Stop, ProcessType
<1>4. CASE Disconnect
    BY <1>4, QuietInv DEF Disconnect, ProcessType, OnceInv
<1> QED
    BY <1>1, <1>2, <1>3, <1>4

LEMMA StartInv ==
    ASSUME OutboxInv, Connect \/ PublishOther
    PROVE  OutboxInv'
<1>1. /\ StartDrain
      /\ UNCHANGED <<stored, topics, outbox, call, up, stopping, hasPending, forgotten, faults, outages>>
      /\ producer' \in {"off", "connected", "closed"}
    BY DEF Connect, PublishOther, OutboxInv, ProcessType
<1>2. /\ DrainsInv'
      /\ \A d \in Drains : drain[d].pc = "delete" => drain'[d] = drain[d]
    BY <1>1, InvDrains, StartDrainInv DEF topics
<1>3. ProcessType'
    BY <1>1, <1>2 DEF OutboxInv, ProcessType, DrainsInv
<1>4. StoreType' /\ PlaceInv'
    BY <1>1 DEF OutboxInv, StoreType, PlaceInv, topics, In
<1>5. NowhereInv'
    BY <1>1, <1>2 DEF OutboxInv, NowhereInv, topics, In, DrainsInv
<1>6. OnceInv'
    BY <1>1, <1>2 DEF OutboxInv, OnceInv, topics, In, Distinct
<1> QED
    BY <1>2, <1>3, <1>4, <1>5, <1>6 DEF OutboxInv, DrainsInv

\* A restart: the requests cut off leave their logs where they are, or give them up.
LEMMA RestartInv ==
    ASSUME OutboxInv, Restart, faults' \in 0 .. MaxFaults, faults' # 0
    PROVE  OutboxInv'
<1> DEFINE cut == {l \in Logs : call[l] \in {"publish", "dlq", "enqueue"}}
<1>1. /\ call' = [l \in Logs |-> IF l \in cut THEN "done" ELSE call[l]]
      /\ forgotten' = forgotten \cup {l \in cut \ dlq : ~In(l, raw)}
      /\ UNCHANGED <<stored, raw, dlq, outbox, up, outages>>
    BY DEF Restart, topics
<1>2. /\ drain' = [d \in Drains |-> DrainIdle] /\ draining' = FALSE
      /\ producer' = "off" /\ stopping' = FALSE /\ hasPending' = TRUE
    BY DEF Restart, Booted
<1>3. StoreType'
    BY <1>1 DEF OutboxInv, StoreType
<1>4. ProcessType'
    BY <1>1, <1>2, InEmpty DEF OutboxInv, ProcessType
<1>5. FlagInv' /\ RowsInv'
    BY <1>1, <1>2, InEmpty DEF OutboxInv, FlagInv, RowsInv
<1>6. PlaceInv'
    BY <1>1 DEF OutboxInv, PlaceInv, StoreType
<1>7. NowhereInv'
    <2>1. \A l \in Logs : call'[l] = "done" => In(l, raw) \/ l \in dlq \/ In(l, outbox) \/ l \in forgotten'
        BY <1>1 DEF OutboxInv, NowhereInv, StoreType
    <2> QED
        BY <1>1, <1>2, <2>1, InEmpty DEF NowhereInv, In
<1>8. OnceInv'
    BY DEF OnceInv
<1> QED
    BY <1>3, <1>4, <1>5, <1>6, <1>7, <1>8 DEF OutboxInv

LEMMA DrainStepInv ==
    ASSUME OutboxInv, NEW d \in Drains, DrainStep(d)
    PROVE  OutboxInv'
<1>0. DrainsInv /\ drain[d] \in DrainRecord
    BY InvDrains DEF DrainsInv
<1>1. UNCHANGED <<stored, dlq, call, up, producer, stopping, forgotten, outages>>
    BY DEF DrainStep, DrainFind, DrainFound, DrainSend, DrainDelete, topics
\* Nothing is sent or deleted.
<1>2. ASSUME UNCHANGED <<raw, outbox>>, DrainsInv', hasPending' \in BOOLEAN,
             faults' \in 0 .. MaxFaults, faults' = 0 => faults = 0 /\ drain[d].pc # "delete",
             \A e \in Drains \ {d} : drain'[e] = drain[e]
      PROVE  OutboxInv'
    <2>1. StoreType' /\ PlaceInv' /\ NowhereInv'
        BY <1>1, <1>2 DEF OutboxInv, StoreType, PlaceInv, NowhereInv, In, DrainsInv
    <2>2. ProcessType'
        BY <1>1, <1>2 DEF OutboxInv, ProcessType, DrainsInv
    <2>3. OnceInv'
        BY <1>1, <1>2 DEF OutboxInv, OnceInv, In, Distinct
    <2> QED
        BY <1>2, <2>1, <2>2, <2>3 DEF OutboxInv, DrainsInv
<1>3. ASSUME Ends(d)
      PROVE  /\ \A e \in Drains \ {d} : drain'[e] = drain[e]
    BY <1>0, <1>3 DEF Ends, DrainsInv
<1>4. faults \in 0 .. MaxFaults /\ hasPending \in BOOLEAN
    BY DEF OutboxInv, ProcessType
<1>5. CASE DrainFind(d)
    <2>1. CASE Fault("db") /\ EndsOnError(d)
        BY <1>0, <1>2, <1>3, <1>4, <1>5, <2>1, EndsInv, FaultSpends
        DEF DrainFind, EndsOnError, OutboxInv, topics
    <2>2. CASE ~(Fault("db") /\ EndsOnError(d))
        <3> DEFINE n == IF Len(outbox) < DrainBatch THEN Len(outbox) ELSE DrainBatch
                   r == [pc |-> "found", rows |-> SubSeq(outbox, 1, n)]
        <3>1. drain' = [drain EXCEPT ![d] = r] /\ UNCHANGED <<draining, faults, raw, outbox, hasPending>>
            BY <1>5, <2>2 DEF DrainFind, topics
        <3>2. outbox \in Seq(Logs) /\ Distinct(outbox) /\ n \in 0 .. Len(outbox)
            BY OutboxConstants, LenProperties DEF OutboxInv, StoreType, RowsInv
        <3> HIDE DEF n
        <3>3. /\ r \in DrainRecord /\ r.pc = "found" /\ Distinct(r.rows)
              /\ \A l \in Logs : In(l, r.rows) => In(l, outbox)
            BY <3>2, InPrefix DEF DrainRecord
        <3> HIDE DEF r
        <3>4. drain[d].pc # "idle" /\ drain[d].pc # "delete"
            BY <1>5 DEF DrainFind
        <3>5. \A e \in Drains \ {d} : drain'[e] = drain[e]
            BY <1>0, <3>1 DEF DrainsInv
        <3>6. DrainsInv'
            BY <1>0, <3>1, <3>2, <3>3, <3>4, GoesOnInv
        <3> QED
            BY <1>2, <1>4, <3>1, <3>4, <3>5, <3>6
    <2> QED
        BY <2>1, <2>2
<1>6. CASE DrainFound(d)
    <2>1. UNCHANGED <<raw, outbox, faults>> /\ drain[d].pc = "found"
        BY <1>6 DEF DrainFound, topics
    <2>2. CASE drain[d].rows = <<>>
        BY <1>0, <1>2, <1>3, <1>4, <1>6, <2>1, <2>2, EndsInv DEF DrainFound
    <2>3. CASE drain[d].rows # <<>>
        <3> DEFINE r == [pc |-> "send", rows |-> drain[d].rows]
        <3>1. drain' = [drain EXCEPT ![d] = r] /\ UNCHANGED <<draining, hasPending>>
            BY <1>0, <1>6, <2>3 DEF DrainFound, DrainRecord, DrainsInv
        <3>2. /\ r \in DrainRecord /\ r.pc = "send" /\ r.rows # <<>> /\ Distinct(r.rows)
              /\ \A l \in Logs : In(l, r.rows) => In(l, outbox)
            BY <1>0, <2>3 DEF DrainRecord, DrainsInv, RowsInv
        <3> HIDE DEF r
        <3>3. \A e \in Drains \ {d} : drain'[e] = drain[e]
            BY <1>0, <3>1 DEF DrainsInv
        <3>4. outbox \in Seq(Logs) /\ Distinct(outbox)
            BY DEF OutboxInv, StoreType, RowsInv
        <3>5. DrainsInv'
            BY <1>0, <2>1, <3>1, <3>2, <3>4, GoesOnInv
        <3> QED
            BY <1>2, <1>4, <2>1, <3>1, <3>3, <3>5
    <2> QED
        BY <2>2, <2>3
<1>7. CASE DrainSend(d)
    <2> DEFINE l == Head(drain[d].rows)
    <2>1. drain[d].pc = "send" /\ drain[d].rows # <<>> /\ UNCHANGED <<outbox, hasPending>>
        BY <1>7 DEF DrainSend, OutboxInv, RowsInv
    <2>2. l \in Logs /\ In(l, outbox) /\ outbox \in Seq(Logs) /\ Distinct(outbox) /\ raw \in Seq(Logs)
        BY <1>0, <2>1, InTail DEF DrainRecord, OutboxInv, RowsInv, StoreType
    <2>3. /\ \A k \in Logs : In(k, Append(raw, l)) <=> In(k, raw) \/ k = l
          /\ Append(raw, l) \in Seq(Logs)
          /\ Distinct(raw) /\ ~In(l, raw) => Distinct(Append(raw, l))
        BY <2>2, InAppend
    <2> HIDE DEF l
    <2>4. call[l] = "done" /\ l \notin forgotten
        BY <2>2 DEF OutboxInv, PlaceInv
    \* The message is appended: the log stays where it was otherwise.
    <2>5. ASSUME raw' = Append(raw, l), DrainsInv', faults' \in 0 .. MaxFaults, OnceInv'
          PROVE  OutboxInv'
        <3>1. StoreType' /\ ProcessType'
            BY <1>1, <1>4, <2>1, <2>3, <2>5 DEF OutboxInv, StoreType, ProcessType, DrainsInv
        <3>2. PlaceInv'
            BY <1>1, <2>1, <2>3, <2>4, <2>5 DEF OutboxInv, PlaceInv
        <3>3. NowhereInv'
            BY <1>1, <2>1, <2>3, <2>5 DEF OutboxInv, NowhereInv, DrainsInv
        <3> QED
            BY <2>5, <3>1, <3>2, <3>3 DEF OutboxInv, DrainsInv
    <2>6. CASE UNCHANGED raw /\ Ends(d)
        <3>1. faults' \in 0 .. MaxFaults /\ (faults' = 0 => faults = 0)
            BY <1>4, <1>7, FaultSpends DEF DrainSend, SendOk, SendFails, OutboxInv
        <3>2. DrainsInv'
            BY <1>0, <2>1, <2>6, EndsInv
        <3> QED
            BY <1>2, <1>3, <1>4, <2>1, <2>6, <3>1, <3>2
    <2>7. CASE raw' = Append(raw, l) /\ Fault("ack") /\ Ends(d)
        <3>1. faults' \in 0 .. MaxFaults /\ faults' # 0
            BY <2>7, FaultSpends DEF OutboxInv
        <3>2. \A k \in Logs : In(k, raw) => In(k, raw')
            BY <2>3, <2>7
        <3>3. DrainsInv'
            BY <1>0, <2>1, <2>7, <3>2, EndsInv
        <3> QED
            BY <2>5, <2>7, <3>1, <3>3 DEF OnceInv
    <2>8. CASE /\ raw' = Append(raw, l) /\ UNCHANGED <<faults, draining>>
               /\ drain' = [drain EXCEPT ![d].pc = "delete"]
        <3> DEFINE r == [pc |-> "delete", rows |-> drain[d].rows]
        <3>1. drain' = [drain EXCEPT ![d] = r]
            <4>1. [drain[d] EXCEPT !.pc = "delete"] = r
                BY <1>0 DEF DrainRecord
            <4> QED
                BY <2>8, <4>1, Zenon
        <3>2. /\ r \in DrainRecord /\ r.pc = "delete" /\ r.rows # <<>> /\ Distinct(r.rows)
              /\ \A k \in Logs : In(k, r.rows) => In(k, outbox)
              /\ Head(r.rows) = l
            BY <1>0, <2>1 DEF DrainRecord, DrainsInv, RowsInv, l
        <3> HIDE DEF r
        <3>3. DrainsInv'
            <4>1. In(Head(r.rows), raw')
                BY <2>2, <2>3, <2>8, <3>2
            <4> QED
                BY <1>0, <2>1, <2>2, <2>8, <3>1, <3>2, <4>1, GoesOnInv
        <3>4. \A e \in Drains : drain[e].pc # "delete"
            BY <1>0, <2>1 DEF DrainsInv, FlagInv
        <3>5. OnceInv'
            <4> SUFFICES ASSUME faults = 0
                         PROVE  /\ ~stopping' /\ Distinct(raw')
                                /\ \A k \in Logs : In(k, raw') =>
                                     /\ call'[k] = "done"
                                     /\ In(k, outbox') => \E e \in Drains :
                                            drain'[e].pc = "delete" /\ Head(drain'[e].rows) = k
                BY <2>8 DEF OnceInv
            <4>1. ~In(l, raw)
                BY <2>2, <3>4 DEF OutboxInv, OnceInv
            <4>2. drain'[d] = r
                BY <1>0, <3>1 DEF DrainsInv
            <4>3. \A k \in Logs : In(k, raw') /\ k # l => call[k] = "done" /\ ~In(k, outbox)
                BY <2>3, <2>8, <3>4 DEF OutboxInv, OnceInv
            <4> QED
                BY <1>1, <2>1, <2>3, <2>4, <2>8, <3>2, <4>1, <4>2, <4>3 DEF OutboxInv, OnceInv
        <3> QED
            BY <1>4, <2>5, <2>8, <3>3, <3>5
    <2> QED
        BY <1>7, <2>6, <2>7, <2>8 DEF DrainSend, SendOk, SendFails, EndsOnError, l
<1>8. CASE DrainDelete(d)
    <2> DEFINE l == Head(drain[d].rows)
               rest == Tail(drain[d].rows)
    <2>1. drain[d].pc = "delete" /\ drain[d].rows # <<>> /\ UNCHANGED <<raw, hasPending>>
        BY <1>8 DEF DrainDelete, OutboxInv, RowsInv, topics
    <2>2. CASE Fault("db") /\ EndsOnError(d) /\ UNCHANGED outbox
        <3>1. DrainsInv' /\ \A e \in Drains \ {d} : drain'[e] = drain[e]
            BY <1>0, <1>3, <2>1, <2>2, EndsInv DEF EndsOnError
        <3>2. faults' \in 0 .. MaxFaults /\ faults' # 0
            BY <2>2, FaultSpends DEF OutboxInv
        <3> QED
            BY <1>2, <1>4, <2>1, <2>2, <3>1, <3>2
    <2>3. CASE /\ outbox' = Without(outbox, l)
               /\ drain' = [drain EXCEPT ![d] =
                              [pc |-> IF rest = <<>> THEN "find" ELSE "send", rows |-> rest]]
               /\ UNCHANGED <<draining, faults>>
        <3>1. /\ outbox \in Seq(Logs) /\ Distinct(outbox)
              /\ drain[d].rows \in Seq(Logs) /\ Distinct(drain[d].rows)
              /\ \A k \in Logs : In(k, drain[d].rows) => In(k, outbox)
            BY <1>0 DEF OutboxInv, StoreType, RowsInv, DrainRecord
        <3>2. /\ l \in Logs
              /\ rest \in Seq(Logs) /\ Distinct(rest)
              /\ \A k \in Logs : In(k, rest) <=> In(k, drain[d].rows) /\ k # l
            BY <2>1, <3>1, InTail
        <3>3. In(l, raw)
            BY <1>0, <2>1 DEF DrainsInv
        <3> DEFINE r == [pc |-> IF rest = <<>> THEN "find" ELSE "send", rows |-> rest]
        <3> HIDE DEF l, rest
        <3>4. /\ r \in DrainRecord /\ r.rows = rest /\ r.pc \in {"find", "send"}
              /\ r.pc = "send" => r.rows # <<>>
            BY <3>2 DEF DrainRecord
        <3> HIDE DEF r
        <3>5. /\ outbox' \in Seq(Logs) /\ Distinct(outbox')
              /\ \A k \in Logs : In(k, outbox') <=> In(k, outbox) /\ k # l
            BY <2>3, <3>1, <3>2, InWithout
        <3>6. drain' = [drain EXCEPT ![d] = r]
            BY <2>3, Zenon DEF r
        <3>7. DrainsInv'
            <4>1. /\ drain[d].pc # "idle" /\ r.pc # "idle" /\ r.pc # "delete"
                  /\ r.pc \in {"send", "delete"} => r.rows # <<>>
                BY <2>1, <3>4
            <4>2. Distinct(r.rows) /\ \A k \in Logs : In(k, r.rows) => In(k, outbox')
                BY <3>1, <3>2, <3>4, <3>5
            <4> QED
                BY <1>0, <2>3, <3>4, <3>5, <3>6, <4>1, <4>2, GoesOnInv
        <3>8. StoreType' /\ ProcessType'
            BY <1>1, <1>4, <2>1, <2>3, <3>5, <3>7 DEF OutboxInv, StoreType, ProcessType, DrainsInv
        <3>9. PlaceInv'
            BY <1>1, <2>1, <3>5 DEF OutboxInv, PlaceInv, In
        <3>10. NowhereInv'
            <4>1. \A k \in Logs : In(k, raw') <=> In(k, raw)
                BY <2>1 DEF In
            <4> QED
                BY <1>1, <3>3, <3>5, <3>7, <4>1 DEF OutboxInv, NowhereInv, DrainsInv
        <3>11. OnceInv'
            <4>1. \A e \in Drains : drain[e].pc = "delete" => e = d
                BY <1>0, <2>1 DEF DrainsInv, FlagInv
            <4>2. \A k \in Logs : In(k, raw') <=> In(k, raw)
                BY <2>1 DEF In
            <4>3. Distinct(raw) => Distinct(raw')
                BY <2>1 DEF Distinct
            <4>4. faults = 0 => \A k \in Logs : In(k, raw) => k = l \/ ~In(k, outbox)
                BY <4>1 DEF OutboxInv, OnceInv, l
            <4> QED
                BY <1>1, <2>3, <3>5, <4>2, <4>3, <4>4 DEF OutboxInv, OnceInv
        <3> QED
            BY <3>7, <3>8, <3>9, <3>10, <3>11 DEF OutboxInv, DrainsInv
    <2> QED
        BY <1>8, <2>2, <2>3 DEF DrainDelete
<1> QED
    BY <1>5, <1>6, <1>7, <1>8 DEF DrainStep

LEMMA InsertInv ==
    ASSUME OutboxInv, NEW l \in Logs, Insert(l)
    PROVE  OutboxInv'
<1>1. /\ call[l] = "none" /\ l \notin stored
      /\ stored' = stored \cup {l} /\ call' = [call EXCEPT ![l] = "publish"]
      /\ UNCHANGED <<raw, dlq, outbox, up, memory, forgotten, faults, outages>>
    BY DEF Insert, Goes, topics, OutboxInv, PlaceInv
<1>2. StoreType'
    BY <1>1 DEF OutboxInv, StoreType
<1>3. ProcessType' /\ FlagInv' /\ RowsInv'
    BY <1>1 DEF OutboxInv, ProcessType, FlagInv, RowsInv, memory, In, Distinct
<1>4. PlaceInv'
    BY <1>1 DEF OutboxInv, PlaceInv, StoreType, In
<1>5. NowhereInv'
    BY <1>1 DEF OutboxInv, NowhereInv, StoreType, In, memory
<1>6. OnceInv'
    BY <1>1 DEF OutboxInv, OnceInv, StoreType, In, Distinct, memory
<1> QED
    BY <1>2, <1>3, <1>4, <1>5, <1>6 DEF OutboxInv

\* A request that is still running goes on without a message or a row.
LEMMA GoesFurther ==
    ASSUME OutboxInv, NEW l \in Logs, call[l] \in {"publish", "dlq", "enqueue"},
           NEW pc \in {"publish", "dlq", "enqueue"}, Goes(l, pc),
           dlq' \in SUBSET Logs, dlq \subseteq dlq', dlq' \subseteq dlq \cup {l},
           faults' \in 0 .. MaxFaults, faults' = 0 => faults = 0,
           UNCHANGED <<stored, raw, outbox, up, memory, forgotten, outages>>
    PROVE  OutboxInv'
<1>1. call' = [call EXCEPT ![l] = pc]
    BY DEF Goes
<1>2. StoreType'
    BY <1>1 DEF OutboxInv, StoreType
<1>3. ProcessType' /\ FlagInv' /\ RowsInv'
    BY DEF OutboxInv, ProcessType, FlagInv, RowsInv, memory, In, Distinct
<1>4. PlaceInv'
    BY <1>1 DEF OutboxInv, PlaceInv, StoreType, In
<1>5. NowhereInv'
    BY <1>1 DEF OutboxInv, NowhereInv, StoreType, In, memory
<1>6. OnceInv'
    BY <1>1 DEF OutboxInv, OnceInv, StoreType, In, Distinct, memory
<1> QED
    BY <1>2, <1>3, <1>4, <1>5, <1>6 DEF OutboxInv

LEMMA PublishInv ==
    ASSUME OutboxInv, NEW l \in Logs, Publish(l)
    PROVE  OutboxInv'
<1>1. /\ call[l] = "publish" /\ raw \in Seq(Logs)
      /\ UNCHANGED <<stored, dlq, outbox, up, producer, stopping, hasPending, forgotten, outages>>
    BY DEF Publish, OutboxInv, StoreType
<1>2. /\ Append(raw, l) \in Seq(Logs)
      /\ \A k \in Logs : In(k, Append(raw, l)) <=> In(k, raw) \/ k = l
      /\ Distinct(raw) /\ ~In(l, raw) => Distinct(Append(raw, l))
    BY <1>1, InAppend
<1>3. l \notin forgotten /\ ~In(l, outbox) /\ (faults = 0 => ~In(l, raw))
    BY <1>1 DEF OutboxInv, PlaceInv, OnceInv
<1>4. DrainsInv /\ faults \in 0 .. MaxFaults
    BY InvDrains DEF OutboxInv, ProcessType
<1>5. CASE SendOk(l) /\ Goes(l, "done")
    <2>1. /\ raw' = Append(raw, l) /\ call' = [call EXCEPT ![l] = "done"] /\ faults' = faults
          /\ StartDrain \/ UNCHANGED <<draining, drain>>
        BY <1>1, <1>5 DEF Publish, SendOk, Goes, SendFails
    <2>2. /\ DrainsInv'
          /\ \A d \in Drains : drain[d].pc = "delete" => drain'[d] = drain[d]
        <3>1. CASE UNCHANGED <<draining, drain>>
            <4>1. \A k \in Logs : In(k, outbox') <=> In(k, outbox)
                BY <1>1 DEF In
            <4>2. Distinct(outbox')
                BY <1>1 DEF OutboxInv, RowsInv, Distinct
            <4>3. \A d \in Drains : drain[d].pc = "delete" => Head(drain[d].rows) \in Logs
                BY <1>4, InTail DEF DrainsInv, RowsInv, DrainRecord
            <4>4. FlagInv' /\ RowsInv'
                BY <1>4, <3>1, <4>1, <4>2 DEF DrainsInv, FlagInv, RowsInv, Distinct
            <4> QED
                BY <1>2, <1>4, <2>1, <3>1, <4>3, <4>4 DEF DrainsInv
        <3>2. CASE ~(UNCHANGED <<draining, drain>>)
            <4> DEFINE r == [pc |-> "find", rows |-> <<>>]
            <4>1. PICK d \in Drains : /\ drain[d].pc = "idle" /\ ~draining
                                      /\ drain' = [drain EXCEPT ![d] = r] /\ draining' = TRUE
                BY <2>1, <3>2 DEF StartDrain, MayDrain
            <4>2. r \in DrainRecord /\ r.pc = "find" /\ r.rows = <<>>
                BY InEmpty DEF DrainRecord
            <4> HIDE DEF r
            <4>3. /\ drain' \in [Drains -> DrainRecord] /\ drain'[d] = r
                  /\ \A e \in Drains \ {d} : drain'[e] = drain[e]
                BY <1>4, <4>1, <4>2, OneDrainChanges DEF DrainsInv
            <4>4. \A e \in Drains : drain[e].pc = "idle"
                BY <1>4, <4>1 DEF DrainsInv, FlagInv
            <4>5. FlagInv'
                BY <4>1, <4>2, <4>3, <4>4 DEF FlagInv
            <4>6. RowsInv'
                BY <1>1, <1>4, <4>2, <4>3, <4>4, InEmpty DEF DrainsInv, RowsInv, Distinct
            <4> QED
                BY <4>1, <4>2, <4>3, <4>4, <4>5, <4>6 DEF DrainsInv
        <3> QED
            BY <3>1, <3>2
    <2>3. StoreType' /\ ProcessType'
        BY <1>1, <1>2, <2>1, <2>2 DEF OutboxInv, StoreType, ProcessType, DrainsInv
    <2>4. \A k \in Logs : In(k, outbox') <=> In(k, outbox)
        BY <1>1 DEF In
    <2>5. PlaceInv'
        BY <1>1, <1>2, <1>3, <2>1, <2>4 DEF OutboxInv, PlaceInv, StoreType
    <2>6. NowhereInv'
        BY <1>1, <1>2, <2>1, <2>2, <2>4 DEF OutboxInv, NowhereInv, StoreType, DrainsInv
    <2>7. OnceInv'
        BY <1>1, <1>2, <1>3, <2>1, <2>2, <2>4 DEF OutboxInv, OnceInv, StoreType
    <2> QED
        BY <2>2, <2>3, <2>5, <2>6, <2>7 DEF OutboxInv, DrainsInv
<1>6. CASE SendFails(l) /\ Goes(l, "dlq") /\ UNCHANGED <<draining, drain>>
    <2>1. CASE UNCHANGED <<raw, faults>>
        BY <1>1, <1>4, <1>6, <2>1, GoesFurther DEF memory, OutboxInv, StoreType
    <2>2. CASE Fault("ack") /\ raw' = Append(raw, l)
        <3>1. faults' \in 0 .. MaxFaults /\ faults' # 0
            BY <2>2, FaultSpends DEF OutboxInv
        <3>2. call' = [call EXCEPT ![l] = "dlq"]
            BY <1>6 DEF Goes
        <3>3. StoreType' /\ ProcessType' /\ FlagInv' /\ RowsInv'
            BY <1>1, <1>2, <1>6, <2>2, <3>1, <3>2
            DEF OutboxInv, StoreType, ProcessType, FlagInv, RowsInv, In, Distinct
        <3>4. \A k \in Logs : In(k, outbox') <=> In(k, outbox)
            BY <1>1 DEF In
        <3>5. PlaceInv'
            BY <1>1, <1>2, <1>3, <2>2, <3>2, <3>4 DEF OutboxInv, PlaceInv, StoreType
        <3>6. \A d \in Drains : drain[d].pc = "delete" => Head(drain[d].rows) \in Logs
            BY <1>4, InTail DEF DrainsInv, RowsInv, DrainRecord
        <3>7. NowhereInv'
            BY <1>1, <1>2, <1>6, <2>2, <3>2, <3>4, <3>6 DEF OutboxInv, NowhereInv, StoreType
        <3> QED
            BY <3>1, <3>3, <3>5, <3>7 DEF OutboxInv, OnceInv
    <2> QED
        BY <1>6, <2>1, <2>2 DEF SendFails
<1> QED
    BY <1>5, <1>6 DEF Publish

LEMMA PublishToDlqInv ==
    ASSUME OutboxInv, NEW l \in Logs, PublishToDlq(l)
    PROVE  OutboxInv'
<1>1. /\ call[l] = "dlq"
      /\ UNCHANGED <<stored, raw, outbox, up, memory, forgotten, outages>>
      /\ dlq \subseteq Logs /\ faults \in 0 .. MaxFaults
    BY DEF PublishToDlq, OutboxInv, StoreType, ProcessType
<1>2. CASE dlq' = dlq \cup {l} /\ Goes(l, "done") /\ UNCHANGED faults
    <2>1. call' = [call EXCEPT ![l] = "done"]
        BY <1>2 DEF Goes
    <2>2. StoreType' /\ ProcessType' /\ FlagInv' /\ RowsInv'
        BY <1>1, <1>2, <2>1
        DEF OutboxInv, StoreType, ProcessType, FlagInv, RowsInv, In, Distinct, memory
    <2>3. PlaceInv'
        BY <1>1, <1>2, <2>1 DEF OutboxInv, PlaceInv, StoreType, In
    <2>4. NowhereInv'
        BY <1>1, <1>2, <2>1 DEF OutboxInv, NowhereInv, StoreType, In, memory
    <2>5. OnceInv'
        BY <1>1, <1>2, <2>1 DEF OutboxInv, OnceInv, StoreType, In, Distinct, memory
    <2> QED
        BY <2>2, <2>3, <2>4, <2>5 DEF OutboxInv
<1>3. CASE Goes(l, "enqueue") /\ UNCHANGED <<dlq, faults>>
    BY <1>1, <1>3, GoesFurther
<1>4. CASE Fault("ack") /\ dlq' = dlq \cup {l} /\ Goes(l, "enqueue")
    <2>1. faults' \in 0 .. MaxFaults /\ faults' # 0
        BY <1>4, FaultSpends DEF OutboxInv
    <2> QED
        BY <1>1, <1>4, <2>1, GoesFurther
<1> QED
    BY <1>2, <1>3, <1>4 DEF PublishToDlq

LEMMA EnqueueInv ==
    ASSUME OutboxInv, NEW l \in Logs, Enqueue(l)
    PROVE  OutboxInv'
<1>1. /\ call[l] = "enqueue" /\ call' = [call EXCEPT ![l] = "done"]
      /\ UNCHANGED <<stored, raw, dlq, up, producer, stopping, draining, drain, outages>>
      /\ outbox \in Seq(Logs) /\ Distinct(outbox)
    BY DEF Enqueue, Goes, topics, OutboxInv, StoreType, RowsInv
<1>2. ~In(l, outbox) /\ l \notin forgotten /\ (faults = 0 => ~In(l, raw))
    BY <1>1 DEF OutboxInv, PlaceInv, OnceInv
<1>3. \A k \in Logs : In(k, raw') <=> In(k, raw)
    BY <1>1 DEF In
<1>4. CASE outbox' = Append(outbox, l) /\ hasPending' = TRUE /\ UNCHANGED <<forgotten, faults>>
    <2>1. /\ outbox' \in Seq(Logs) /\ Distinct(outbox')
          /\ \A k \in Logs : In(k, outbox') <=> In(k, outbox) \/ k = l
        BY <1>1, <1>2, <1>4, InAppend
    <2>2. StoreType' /\ ProcessType' /\ FlagInv'
        BY <1>1, <1>4, <2>1 DEF OutboxInv, StoreType, ProcessType, FlagInv
    <2>3. RowsInv'
        BY <1>1, <2>1 DEF OutboxInv, RowsInv, Distinct
    <2>4. PlaceInv'
        BY <1>1, <1>2, <1>3, <1>4, <2>1 DEF OutboxInv, PlaceInv, StoreType
    <2>5. NowhereInv'
        BY <1>1, <1>3, <1>4, <2>1 DEF OutboxInv, NowhereInv, StoreType, In
    <2>6. OnceInv'
        BY <1>1, <1>2, <1>3, <1>4, <2>1 DEF OutboxInv, OnceInv, StoreType, Distinct
    <2> QED
        BY <2>2, <2>3, <2>4, <2>5, <2>6 DEF OutboxInv
<1>5. CASE /\ Fault("db") /\ UNCHANGED <<outbox, hasPending>>
           /\ forgotten' = IF In(l, raw) \/ l \in dlq THEN forgotten ELSE forgotten \cup {l}
    <2>1. faults' \in 0 .. MaxFaults /\ faults' # 0
        BY <1>5, FaultSpends DEF OutboxInv
    <2>2. \A k \in Logs : In(k, outbox') <=> In(k, outbox)
        BY <1>5 DEF In
    <2>3. StoreType' /\ ProcessType' /\ FlagInv'
        BY <1>1, <1>5, <2>1 DEF OutboxInv, StoreType, ProcessType, FlagInv
    <2>4. RowsInv'
        BY <1>1, <1>5, <2>2 DEF OutboxInv, RowsInv, Distinct
    <2>5. PlaceInv'
        BY <1>1, <1>2, <1>3, <1>5, <2>2 DEF OutboxInv, PlaceInv, StoreType
    <2>6. NowhereInv'
        BY <1>1, <1>3, <1>5, <2>2 DEF OutboxInv, NowhereInv, StoreType, In
    <2> QED
        BY <2>1, <2>3, <2>4, <2>5, <2>6 DEF OutboxInv, OnceInv
<1> QED
    BY <1>2, <1>4, <1>5 DEF Enqueue

LEMMA StepInv == OutboxInv /\ [Next]_vars => OutboxInv'
<1> SUFFICES ASSUME OutboxInv, [Next]_vars PROVE OutboxInv'
    OBVIOUS
<1>1. faults \in 0 .. MaxFaults
    BY DEF OutboxInv, ProcessType
<1>2. CASE UNCHANGED vars
    BY <1>2, QuietInv DEF vars, memory, OutboxInv, ProcessType, OnceInv
<1>3. CASE Crash
    BY <1>3, RestartInv, FaultSpends DEF Crash, OutboxInv
<1>4. CASE Exit
    <2>1. faults # 0
        BY <1>4 DEF Exit, OutboxInv, OnceInv
    <2> QED
        BY <1>1, <1>4, <2>1, RestartInv DEF Exit
<1>5. ASSUME NEW l \in Logs, PublishOffline(l) PROVE OutboxInv'
    <2>1. /\ call[l] = "publish" /\ Goes(l, "enqueue")
          /\ UNCHANGED <<stored, raw, dlq, outbox, up, memory, forgotten, faults, outages>>
        BY <1>5 DEF PublishOffline, topics
    <2>2. dlq \in SUBSET Logs
        BY DEF OutboxInv, StoreType
    <2> QED
        BY <1>1, <2>1, <2>2, GoesFurther
<1> QED
    BY <1>2, <1>3, <1>4, <1>5, EnvironmentInv, StartInv, DrainStepInv, InsertInv,
       PublishInv, PublishToDlqInv, EnqueueInv
    DEF Next, CallStep

\* Types, the flag that keeps two drains apart, what a drain may have read, and where a log
\* is once its request has ended: always.
THEOREM OutboxInvariant == Spec => []OutboxInv
BY InitInv, StepInv, PTL DEF Spec

LEMMA TypeParts == StoreType /\ ProcessType /\ FlagInv /\ RowsInv => TypeOK
BY DEF StoreType, ProcessType, FlagInv, RowsInv, Distinct, TypeOK, DrainRecord

\* Type correctness.
THEOREM OutboxTypes == Spec => []TypeOK
<1>1. OutboxInv => TypeOK
    BY TypeParts DEF OutboxInv
<1> QED
    BY <1>1, OutboxInvariant, PTL

\* Without failures other than outages of the broker, detection sees every log once at most.
THEOREM NoDuplicateFromOutages == Spec => []NoNeedlessDuplicate
<1>1. OutboxInv => NoNeedlessDuplicate
    BY DEF OutboxInv, OnceInv, Distinct, NoNeedlessDuplicate
<1> QED
    BY <1>1, OutboxInvariant, PTL

\* A stored log whose request has ended is in a topic or in the outbox, unless a restart
\* cut its request off or kafka_pending_logs could not be written: no order of drains,
\* outages and acknowledgements makes it vanish.
NeverNowhere ==
    \A l \in stored \ forgotten : \/ call[l] # "done"
                                  \/ In(l, raw) \/ l \in dlq \/ In(l, outbox)

THEOREM StoredIsSomewhere == Spec => []NeverNowhere
<1>1. OutboxInv => NeverNowhere
    BY DEF OutboxInv, StoreType, NowhereInv, NeverNowhere
<1> QED
    BY <1>1, OutboxInvariant, PTL

-----------------------------------------------------------------------------
(* The promise of LogDelivery *)

LEMMA SendStep ==
    ASSUME OutboxInv, NEW l \in Logs, call[l] # "none", l \notin forgotten,
           raw' = Append(raw, l), UNCHANGED <<stored, dlq, forgotten>>
    PROVE  Delivery!Next
BY DEF OutboxInv, PlaceInv, Delivery!Next, Delivery!Send

LEMMA SetAsideStep ==
    ASSUME OutboxInv, NEW l \in Logs, call[l] # "none", l \notin forgotten,
           dlq' = dlq \cup {l}, UNCHANGED <<stored, raw, forgotten>>
    PROVE  Delivery!Next
BY DEF OutboxInv, PlaceInv, Delivery!Next, Delivery!SetAside

LEMMA ForgetStep ==
    ASSUME OutboxInv, NEW S \in SUBSET Logs,
           \A l \in S : call[l] \notin {"none", "done"} /\ l \notin dlq /\ ~In(l, raw),
           forgotten' = forgotten \cup S, UNCHANGED <<stored, raw, dlq>>
    PROVE  Delivery!Next \/ UNCHANGED Delivery!vars
<1>1. CASE S = {}
    BY <1>1 DEF Delivery!vars
<1>2. CASE S # {}
    <2>1. S \subseteq stored \ (dlq \cup forgotten)
        BY DEF OutboxInv, PlaceInv
    <2>2. \A i \in DOMAIN raw : raw[i] \notin S
        BY DEF In
    <2> QED
        BY <1>2, <2>1, <2>2 DEF Delivery!Next, Delivery!Forget
<1> QED
    BY <1>1, <1>2

LEMMA DeliveryStep ==
    ASSUME OutboxInv, [Next]_vars
    PROVE  Delivery!Next \/ UNCHANGED Delivery!vars
<1> USE DEF Delivery!vars
<1>1. CASE UNCHANGED <<stored, raw, dlq, forgotten>>
    BY <1>1
<1>2. CASE BrokerDown \/ BrokerUp \/ Stop \/ Disconnect \/ Connect \/ PublishOther
    BY <1>1, <1>2 DEF BrokerDown, BrokerUp, Stop, Disconnect, Connect, PublishOther, topics
<1>3. CASE Restart
    <2> DEFINE S == {l \in {k \in Logs : call[k] \in {"publish", "dlq", "enqueue"}} \ dlq : ~In(l, raw)}
    <2>1. forgotten' = forgotten \cup S /\ UNCHANGED <<stored, raw, dlq>>
        BY <1>3 DEF Restart, topics
    <2>2. \A l \in S : call[l] \notin {"none", "done"} /\ l \notin dlq /\ ~In(l, raw)
        OBVIOUS
    <2>3. S \in SUBSET Logs
        OBVIOUS
    <2> HIDE DEF S
    <2> QED
        BY <2>1, <2>2, <2>3, ForgetStep
<1>4. ASSUME NEW l \in Logs, Insert(l) PROVE Delivery!Next
    BY <1>4 DEF Insert, topics, OutboxInv, PlaceInv, Delivery!Next, Delivery!Store
<1>5. ASSUME NEW l \in Logs, PublishOffline(l) PROVE UNCHANGED <<stored, raw, dlq, forgotten>>
    BY <1>5 DEF PublishOffline, topics
<1>6. ASSUME NEW l \in Logs, Publish(l) PROVE Delivery!Next \/ UNCHANGED Delivery!vars
    <2>1. call[l] = "publish" /\ l \notin forgotten /\ UNCHANGED <<stored, dlq, forgotten>>
        BY <1>6 DEF Publish, OutboxInv, PlaceInv
    <2>2. raw' = Append(raw, l) \/ UNCHANGED raw
        BY <1>6 DEF Publish, SendOk, SendFails
    <2> QED
        BY <2>1, <2>2, SendStep
<1>7. ASSUME NEW l \in Logs, PublishToDlq(l) PROVE Delivery!Next \/ UNCHANGED Delivery!vars
    <2>1. call[l] = "dlq" /\ l \notin forgotten /\ UNCHANGED <<stored, raw, forgotten>>
        BY <1>7 DEF PublishToDlq, OutboxInv, PlaceInv
    <2>2. dlq' = dlq \cup {l} \/ UNCHANGED dlq
        BY <1>7 DEF PublishToDlq
    <2> QED
        BY <2>1, <2>2, SetAsideStep
<1>8. ASSUME NEW l \in Logs, Enqueue(l) PROVE Delivery!Next \/ UNCHANGED Delivery!vars
    <2>1. call[l] = "enqueue" /\ UNCHANGED <<stored, raw, dlq>>
        BY <1>8 DEF Enqueue, topics
    <2>2. \/ UNCHANGED forgotten
          \/ ~In(l, raw) /\ l \notin dlq /\ forgotten' = forgotten \cup {l}
        BY <1>8 DEF Enqueue
    <2>3. {l} \in SUBSET Logs
        OBVIOUS
    <2> QED
        BY <2>1, <2>2, <2>3, ForgetStep
<1>9. ASSUME NEW d \in Drains, DrainStep(d) PROVE Delivery!Next \/ UNCHANGED Delivery!vars
    <2>1. UNCHANGED <<stored, dlq, forgotten>>
        BY <1>9 DEF DrainStep, DrainFind, DrainFound, DrainSend, DrainDelete, topics
    <2>2. CASE UNCHANGED raw
        BY <2>1, <2>2
    <2>3. CASE ~(UNCHANGED raw)
        <3> DEFINE l == Head(drain[d].rows)
        <3>1. drain[d].pc = "send" /\ raw' = Append(raw, l)
            BY <1>9, <2>3
            DEF DrainStep, DrainFind, DrainFound, DrainSend, DrainDelete, topics, SendOk, SendFails
        <3>2. l \in Logs /\ In(l, outbox)
            BY <3>1, InTail DEF OutboxInv, RowsInv, ProcessType, DrainRecord
        <3> HIDE DEF l
        <3>3. call[l] # "none" /\ l \notin forgotten
            BY <3>2 DEF OutboxInv, PlaceInv
        <3> QED
            BY <2>1, <3>1, <3>2, <3>3, SendStep
    <2> QED
        BY <2>2, <2>3
<1> QED
    BY <1>1, <1>2, <1>3, <1>4, <1>5, <1>6, <1>7, <1>8, <1>9
    DEF Next, CallStep, Crash, Exit, vars, topics

\* The backend keeps the promise of LogDelivery: what is sent or set aside was stored, what
\* nobody will send any more was in neither topic and never gets there later.
THEOREM OutboxImplementsDelivery == Spec => ImplementsDelivery
<1>1. Init => Delivery!Init
    BY DEF Init, Delivery!Init
<1>2. OutboxInv /\ [Next]_vars => [Delivery!Next]_(Delivery!vars)
    BY DeliveryStep
<1> QED
    BY <1>1, <1>2, OutboxInvariant, PTL DEF Spec, ImplementsDelivery, Delivery!Spec
=============================================================================
