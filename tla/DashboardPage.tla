--------------------------- MODULE DashboardPage ---------------------------
(***************************************************************************)
(* The first page of the dashboard: the overview of GET /stats/overview,   *)
(* loaded once, the chart of GET /stats/traffic, loaded for every range    *)
(* that is picked, and an automatic refresh of both every minute.  A range *)
(* that is picked cancels the load before it, but no refresh.              *)
(***************************************************************************)
EXTENDS Reports, Statistics

CONSTANTS Logs, Batches,
          LogCount, \* log_count of each batch
          SealedOn, \* the day of sealed_at of each batch
          Moments,  \* bound: what the clock shows, one after the other
          Arrivals, \* bound: created_at of each log, of which a behaviour has one
          MaxPolls  \* bound: loads and refreshes of the chart

ASSUME DashboardConstants ==
    /\ Moments \in Seq(Nat) /\ Moments # <<>> /\ Arrivals \subseteq [Logs -> Int] /\ Arrivals # {}
    /\ {SealedOn, LogCount} \subseteq [Batches -> Int] /\ MaxPolls \in Nat
    /\ IsFiniteSet(Logs) /\ IsFiniteSet(Batches)

VARIABLES
    created,   \* created_at of the logs
    status,    \* status of the batches
    clock,     \* the moment it is, an index of Moments
    overview, pageLoading, pageError,
    range, chart, chartLoading, chartError,
    polls,     \* requests for a chart: what each has read so far
    newest,    \* the load of a chart that is not cancelled
    polled,    \* loads and refreshes so far
    overtaken  \* the range was changed while the refresh that brought the chart was under way

stock == <<created, status, clock>>
chartVars == <<chart, chartLoading, chartError, overtaken>>
pageVars == <<overview, pageLoading, pageError>>
board == <<stock, pageVars, range, chartVars, polls, newest, polled>>
elsewhere == <<accounts, page, reports>>

DEFAULT_RANGE == "24h"
Watching == "board" \in may
Now == Moments[clock]
NoChart == <<>>
NotYet == <<>>

\* The plan of a range that is no "all" does not depend on the logs.
Poll(kind, nr, r) ==
    [kind |-> kind, nr |-> nr, range |-> r,
     plan |-> IF r = "all" THEN NotYet ELSE <<[plan |-> Specs(r), at |-> 0]>>, chart |-> NotYet]

\* Batches may be in any state: how they get there is a matter of Integrity.
DashboardInit ==
    /\ created \in IF Watching THEN Arrivals ELSE {CHOOSE a \in Arrivals : TRUE}
    /\ status \in IF "batches" \in may
                  THEN UNION {[some -> BATCH_STATUSES] : some \in SUBSET Batches}
                  ELSE {<<>>}
    /\ clock = 1 /\ range = DEFAULT_RANGE
    /\ overview = NoChart /\ pageLoading = Watching /\ pageError = FALSE
    /\ chart = NoChart /\ chartLoading = Watching /\ chartError = FALSE /\ overtaken = FALSE
    /\ newest = 1 /\ polled = 1
    /\ polls = IF Watching THEN {Poll("chart", 1, range)} ELSE {}

Elapse ==
    /\ Watching /\ clock < Len(Moments) /\ clock' = clock + 1
    /\ UNCHANGED <<elsewhere, created, status, pageVars, range, chartVars, polls, newest, polled>>

-----------------------------------------------------------------------------
(* StatsController *)

Times == {created[l] : l \in Logs}

Overview ==
    LET stats == BatchStats(status, LogCount)
    IN  [totalLogs |-> Cardinality(Logs), stats |-> stats, rate |-> IntegrityRate(stats)]

\* buildKpis: what is anchored and what is only sealed counts as sealed.
Kpis(o) ==
    [sealed |-> o.stats.byStatus["CONFIRMED"] + o.stats.byStatus["SEALED"],
     tone |-> IF o.stats.byStatus["TAMPERED"] > 0 THEN "danger" ELSE "good"]

Answers(p, q) ==
    /\ polls' = (polls \ {p}) \cup {q}
    /\ UNCHANGED <<elsewhere, stock, pageVars, range, chartVars, newest, polled>>

\* The oldest log is looked up first, the buckets are counted by another query.
PlanChart(p) ==
    /\ p.chart = NotYet /\ p.plan = NotYet
    /\ Answers(p, [p EXCEPT !.plan = <<[plan |-> PlanAllRange(Times, Now), at |-> clock]>>])

ReadChart(p) ==
    /\ p.chart = NotYet /\ p.plan # NotYet
    /\ Answers(p, [p EXCEPT !.chart =
           <<[range |-> p.range, at |-> clock,
              planned |-> IF p.range = "all" THEN p.plan[1].at ELSE clock,
              points |-> Series(p.plan[1].plan, created, Now)]>>])

-----------------------------------------------------------------------------
(* The page *)

Complete(p) == p.chart # NotYet
Overruled(p) == p.nr # newest

\* The overview is what it was when it was asked for: nobody seals meanwhile (a bound).
FirstArrives ==
    /\ pageLoading /\ overview' = Overview /\ pageLoading' = FALSE
    /\ UNCHANGED <<elsewhere, stock, pageError, range, chartVars, polls, newest, polled>>

\* The message stays for good: no refresh takes it away.
FirstFails ==
    /\ pageLoading /\ "db" \in may /\ pageError' = TRUE /\ pageLoading' = FALSE
    /\ UNCHANGED <<elsewhere, stock, overview, range, chartVars, polls, newest, polled>>

ChartArrives(p) ==
    /\ p.kind = "chart" /\ Complete(p)
    /\ polls' = polls \ {p}
    /\ IF Overruled(p) THEN UNCHANGED chartVars
       ELSE chart' = p.chart[1] /\ chartError' = FALSE /\ chartLoading' = FALSE /\ overtaken' = FALSE
    /\ UNCHANGED <<elsewhere, stock, pageVars, range, newest, polled>>

ChartFails(p) ==
    /\ p.kind = "chart" /\ "db" \in may
    /\ polls' = polls \ {p}
    /\ IF Overruled(p) THEN UNCHANGED chartVars
       ELSE chartError' = TRUE /\ chartLoading' = FALSE /\ UNCHANGED <<chart, overtaken>>
    /\ UNCHANGED <<elsewhere, stock, pageVars, range, newest, polled>>

\* The chart of the range before stays on the screen while the next one loads.
PickRange(r) ==
    /\ Watching /\ r # range /\ polled < MaxPolls
    /\ range' = r /\ newest' = newest + 1 /\ polled' = polled + 1
    /\ polls' = polls \cup {Poll("chart", newest', r)}
    /\ chartLoading' = TRUE /\ chartError' = FALSE
    /\ UNCHANGED <<elsewhere, stock, pageVars, chart, overtaken>>

\* useAutoRefresh: one round at a time, of the range that is picked when it begins.
AutoRefresh ==
    /\ Watching /\ polled < MaxPolls /\ \A p \in polls : p.kind # "refresh"
    /\ polled' = polled + 1
    /\ polls' = polls \cup {Poll("refresh", 0, range)}
    /\ UNCHANGED <<elsewhere, stock, pageVars, range, chartVars, newest>>

RefreshArrives(p) ==
    /\ p.kind = "refresh" /\ Complete(p)
    /\ polls' = polls \ {p} /\ overview' = Overview
    /\ chart' = p.chart[1] /\ chartError' = FALSE /\ overtaken' = (p.range # range)
    /\ UNCHANGED <<elsewhere, stock, pageLoading, pageError, range, chartLoading,
                   newest, polled>>

\* All or nothing; what is shown is left alone.
RefreshFails(p) ==
    /\ p.kind = "refresh" /\ "db" \in may /\ polls' = polls \ {p}
    /\ UNCHANGED <<elsewhere, stock, pageVars, range, chartVars, newest, polled>>

BoardNext ==
    \/ Elapse \/ AutoRefresh \/ FirstArrives \/ FirstFails
    \/ \E r \in Ranges : PickRange(r)
    \/ \E p \in polls : \/ PlanChart(p) \/ ReadChart(p) \/ ChartArrives(p) \/ ChartFails(p)
                        \/ RefreshArrives(p) \/ RefreshFails(p)

-----------------------------------------------------------------------------
(* Accounts and the three pages *)

Init == AccountsInit /\ PageInit /\ ReportsInit /\ DashboardInit
Next ==
    \/ (AccountsNext \/ PageNext) /\ Stamped /\ UNCHANGED <<view, board>>
    \/ ReportsNext /\ UNCHANGED board
    \/ BoardNext
Spec == Init /\ [][Next]_<<elsewhere, board>>

-----------------------------------------------------------------------------
(* Properties *)

ChartShown == ~pageLoading /\ ~pageError /\ ~chartError /\ chart # NoChart

LogsInChart == FoldFunction(+, 0, chart.points)

\* The chart is of the range that is picked, however loads and refreshes overlap, unless the range
\* was changed while a refresh was under way; and it has every log of the span that the name of its
\* range promises, each in one bucket ("7d" once had 23 of 24, traffic-ranges.ts:114).  Of a range
\* that is planned by the oldest log, that holds if no time passes in between.
ChartIsWhatItSays ==
    ChartShown =>
        /\ ~chartLoading /\ ~overtaken => chart.range = range
        /\ chart.planned = chart.at =>
             LET at == Moments[chart.at] IN
             LogsInChart >= Cardinality({l \in Logs : /\ created[l] >= Since(chart.range, Times, at)
                                                     /\ created[l] <= at})
        /\ LogsInChart <= Cardinality(Logs)

\* "the same formula" (compliance.service.ts:128): the rate of the overview and that of the report
\* over all days, which come from two queries and are rounded and added up in different places, are
\* the same, whatever has failed or is waiting to be anchored; the report's figure for the whole
\* period is green only if every batch is intact, and red when that of the first page is.  The badge
\* of a day is red where a batch of that day is TAMPERED, so on some day when the figure is, and green
\* only without TAMPERED and UNVERIFIED ones: a day of PENDING batches has "0%" in green, and only a
\* period whose figure is green has nothing but days of 100% (Reports.tsx:331 and 514).
RatesAgree ==
    LET stats == BatchStats(status, LogCount)
        days == IntegrityByDay(status, SealedOn)
        active == {d \in DOMAIN days : days[d].total > 0}
        On(d, some) == {b \in DOMAIN status : SealedOn[b] = d /\ status[b] \in some}
    IN  /\ IF stats.total = 0 THEN ChainIntegrityPct(days) = NoRate
           ELSE ChainIntegrityPct(days) = IntegrityRate(stats)
        /\ Kpis(Overview).sealed = stats.intact
        /\ IntegrityTone(days) = "good" <=> stats.total > 0 /\ stats.intact = stats.total
        /\ IntegrityTone(days) = "danger" <=> Kpis(Overview).tone = "danger"
        /\ IntegrityTone(days) = "danger" <=> \E d \in active : DayTone(days[d]) = "danger"
        /\ \A d \in active :
              /\ DayTone(days[d]) = "danger" <=> On(d, {"TAMPERED"}) # {}
              /\ DayTone(days[d]) = "good" <=> On(d, {"TAMPERED", "UNVERIFIED"}) = {}
              /\ IntegrityTone(days) = "good" => DayTone(days[d]) = "good" /\ DayRate(days[d]) = 100

\* What the first page shows in figures is so: its chart, and the rate it shares with the report.
FiguresAreTrue == ChartIsWhatItSays /\ RatesAgree

=============================================================================
