----------------------------- MODULE Statistics -----------------------------
(***************************************************************************)
(* The figures of StatsService and of the integrity section of the         *)
(* compliance report: batches by status and the rate of intact ones, which *)
(* two endpoints compute apart from each other, and the number of logs by  *)
(* bucket of time.  Time is in minutes of UTC since 1970; leap years are   *)
(* left out.                                                               *)
(***************************************************************************)
EXTENDS Integers, Sequences, FiniteSets, FiniteSetsExt

BATCH_STATUSES == {"CONFIRMED", "SEALED", "UNVERIFIED", "TAMPERED", "PENDING", "FAILED"}
INTACT_STATUSES == {"CONFIRMED", "SEALED"}

Largest(a, b) == IF a > b THEN a ELSE b
Smallest(a, b) == IF a < b THEN a ELSE b

\* Math.round of a percentage
Percent(n, total) == (200 * n + total) \div (2 * total)

-----------------------------------------------------------------------------
(* getBatchStats, getOverview: over statuses and log_counts of batches *)

ByStatus(status) == [s \in BATCH_STATUSES |-> Cardinality({b \in DOMAIN status : status[b] = s})]

\* FAILED has a log_count but no logs; it counts for nothing.
Counting(status) == {b \in DOMAIN status : status[b] # "FAILED"}

BatchStats(status, logCount) ==
    LET by == ByStatus(status)  live == Counting(status) IN
    [byStatus |-> by, total |-> Cardinality(live),
     sealedLogs |-> MapThenSumSet(LAMBDA b : logCount[b], live),
     intact |-> MapThenSumSet(LAMBDA s : by[s], INTACT_STATUSES)]

IntegrityRate(stats) == IF stats.total = 0 THEN 0 ELSE Percent(stats.intact, stats.total)

-----------------------------------------------------------------------------
(* getIntegrityByDay, and what the Reports page adds up: over the days     *)
(* (in Bangkok) of sealed_at too                                           *)

DayTotal(by) == MapThenSumSet(LAMBDA s : by[s], BATCH_STATUSES \ {"FAILED"})

\* A row for each day on which a batch was created, be it one that failed.
IntegrityByDay(status, day) ==
    [d \in {day[b] : b \in DOMAIN status} |->
        LET by == ByStatus([b \in {c \in DOMAIN status : day[c] = d} |-> status[b]])
        IN  [by |-> by, total |-> DayTotal(by)]]

NoRate == -1  \* nothing was sealed in the period

\* Recomputed from sums, without the days that have no batch.
ChainIntegrityPct(rows) ==
    LET active == {d \in DOMAIN rows : rows[d].total > 0}
        Total(f(_)) == MapThenSumSet(f, active)
        total == Total(LAMBDA d : rows[d].total)
        intact == Total(LAMBDA d : rows[d].by["CONFIRMED"] + rows[d].by["SEALED"])
    IN  IF total > 0 THEN Percent(intact, total) ELSE NoRate

IntegrityTone(rows) ==
    LET Some(s) == \E d \in DOMAIN rows : rows[d].total > 0 /\ rows[d].by[s] > 0 IN
    CASE ChainIntegrityPct(rows) = NoRate -> "neutral"
      [] ChainIntegrityPct(rows) # NoRate /\ Some("TAMPERED") -> "danger"
      [] OTHER -> IF Some("UNVERIFIED") \/ Some("PENDING") THEN "warn" ELSE "good"

\* The badge at the end of the row of a day: its rate, in a colour that PENDING does not count for.
DayRate(row) == IF row.total = 0 THEN 0
                ELSE Percent(row.by["CONFIRMED"] + row.by["SEALED"], row.total)
DayTone(row) ==
    IF row.by["TAMPERED"] > 0 THEN "danger" ELSE IF row.by["UNVERIFIED"] > 0 THEN "warn" ELSE "good"

-----------------------------------------------------------------------------
(* Buckets of time *)

Keys == <<"5m", "15m", "1h", "6h", "1d", "1w", "1mo", "1y">>
KeyIndices == DOMAIN Keys
Width == <<5, 15, 60, 360, 1440, 10080, 43200, 525600>>  \* nominal: a month has 30 days
MAX_BUCKETS == 60

\* Weeks begin on a Monday, and 1970 on a Thursday.
Origin(k) == IF Keys[k] = "1w" THEN 4 * 1440 ELSE 0

MonthEnds == <<31, 59, 90, 120, 151, 181, 212, 243, 273, 304, 334, 365>>  \* days of the year
Year(t) == t \div 525600
Month(t) ==
    LET day == (t \div 1440) % 365
    IN  12 * Year(t) + Cardinality({m \in DOMAIN MonthEnds : MonthEnds[m] <= day})

\* The number of the bucket that a moment lies in: date_trunc by the calendar, date_bin else.
Bucket(k, t) ==
    CASE Keys[k] = "1y"  -> Year(t)
      [] Keys[k] = "1mo" -> Month(t)
      [] OTHER -> (t - Origin(k)) \div Width[k]

Ranges == {"1h", "6h", "24h", "7d", "30d", "6m", "12m", "all"}

\* RANGE_SPECS: the last bucket is not full yet, so there is one more than the span has.
Plan(key, points) == [bucket |-> CHOOSE k \in KeyIndices : Keys[k] = key, points |-> points]
Specs_OneShort(range) ==
    CASE range = "1h"  -> Plan("5m", 12)  [] range = "6h"  -> Plan("15m", 24)
      [] range = "24h" -> Plan("1h", 24)  [] range = "7d"  -> Plan("6h", 28)
      [] range = "30d" -> Plan("1d", 30)  [] range = "6m"  -> Plan("1w", 26)
      [] range = "12m" -> Plan("1mo", 12)

Specs(range) ==
    CASE range = "1h"  -> Plan("5m", 13)  [] range = "6h"  -> Plan("15m", 25)
      [] range = "24h" -> Plan("1h", 25)  [] range = "7d"  -> Plan("6h", 29)
      [] range = "30d" -> Plan("1d", 31)  [] range = "6m"  -> Plan("1w", 27)
      [] range = "12m" -> Plan("1mo", 13)

PickBucketForSpan(span) ==
    LET fits == {k \in KeyIndices : span <= (MAX_BUCKETS - 1) * Width[k]}
    IN  IF fits = {} THEN Len(Keys) ELSE Min(fits)

CeilDiv(a, b) == (a + b - 1) \div b

\* By the calendar, or by what the span needs and one for the bucket it begins in.
PointsFor(k, first, now) ==
    IF Keys[k] \in {"1mo", "1y"} THEN Bucket(k, now) - Bucket(k, first) + 1
    ELSE CeilDiv(Largest(0, now - first), Width[k]) + 1

NoPlan == [bucket |-> 0, points |-> 0]

\* planAllRange; without a log there is nothing to plan.
PlanAllRange(times, now) ==
    IF times = {} THEN NoPlan
    ELSE LET first == Min(times)
             k == PickBucketForSpan(Largest(0, now - first))
         IN  [bucket |-> k,
              points |-> Smallest(Largest(PointsFor(k, first, now), 1), MAX_BUCKETS)]

\* getTraffic: every bucket up to the present one, the empty ones too; created: by log.
Series(plan, created, now) ==
    IF plan = NoPlan THEN <<>>
    ELSE LET last == Bucket(plan.bucket, now)
         IN  [n \in 1 .. plan.points |->
                Cardinality({l \in DOMAIN created :
                    Bucket(plan.bucket, created[l]) = last - plan.points + n})]

\* The span that the name of a range promises ("6m" is 26 weeks: stats.service.spec.ts:380); of 12
\* months, as the calendar has them.
Minutes(range) ==
    CASE range = "1h"  -> 60         [] range = "6h"  -> 6 * 60
      [] range = "24h" -> 24 * 60    [] range = "7d"  -> 7 * 1440
      [] range = "30d" -> 30 * 1440  [] range = "6m"  -> 26 * 7 * 1440

Since(range, times, now) ==
    CASE range = "all" -> IF times = {} THEN now ELSE Min(times)
      [] range = "12m" -> Min({t \in times \cup {now} : Month(now) - Month(t) <= 12})
      [] OTHER -> now - Minutes(range)
=============================================================================
