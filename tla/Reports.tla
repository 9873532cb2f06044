------------------------------ MODULE Reports ------------------------------
(***************************************************************************)
(* The compliance report over Accounts: GET /compliance/reports counts     *)
(* audit_access and erasure_log by day, in queries that do not share a     *)
(* snapshot, and the Reports page shows the counts for the days between    *)
(* its two inputs.  A change of an input asks again and forgets the        *)
(* request before.                                                         *)
(*                                                                         *)
(* Time passes in thirds of a day of UTC; the last third is already the    *)
(* next day in Bangkok (UTC+7).                                            *)
(***************************************************************************)
EXTENDS SettingsPage, Sequences

CONSTANTS Start,   \* the time at which the page is opened
          End,     \* bound: the last moment
          Picks    \* bound: the days that are typed into the inputs

Cleared == -1    \* an input without a date, which sorts before every date
NoReport == <<>>

ASSUME ReportsConstants ==
    /\ Start \in Nat /\ End \in Nat /\ Start <= End
    /\ Picks \subseteq Nat \cup {Cleared}

VARIABLES
    now,      \* the clock
    rowTime,  \* accessed_at of each row of audit_access
    tombTime, \* deleted_at of each row of erasure_log
    from, to, \* the inputs
    asks,     \* requests for a report: what each has read so far
    latest,   \* the one that is not cancelled
    busy,     \* loading
    report,   \* data
    problem   \* error, forbidden

times == <<now, rowTime, tombTime>>
view == <<from, to, asks, latest, busy, report, problem>>
reports == <<times, view>>

Watched == "reports" \in may

\* AT TIME ZONE 'Asia/Bangkok'
SqlDay(t) == (t + 1) \div 3

\* fmt of the page, bangkokDay of the service.
BangkokDay_Utc(t) == t \div 3
BangkokDay(t) == (t + 1) \div 3

\* The default is a window of seven days up to today.
DefaultFrom(today) == today - 6

Ask(f, t, nr) == [nr |-> nr, from |-> f, to |-> t, asked |-> [rows |-> written, tombs |-> Cardinality(tombs)],
                  audit |-> NoReport, erasure |-> NoReport]

ReportsInit ==
    /\ now = Start
    /\ rowTime = [n \in 1 .. written |-> Start] /\ tombTime = <<>>
    /\ to = BangkokDay(Start) /\ from = DefaultFrom(to)
    /\ latest = 1 /\ busy = Watched
    /\ asks = IF Watched THEN {Ask(from, to, 1)} ELSE {}
    /\ report = NoReport /\ problem = "none"

Tick ==
    /\ Watched /\ now < End /\ now' = now + 1
    /\ UNCHANGED <<accounts, page, rowTime, tombTime, view>>

\* Rows and tombstones carry the time at which they are written.
Stamped ==
    /\ rowTime' = IF written' > written THEN Append(rowTime, now) ELSE rowTime
    /\ tombTime' = IF tombs' # tombs THEN Append(tombTime, now) ELSE tombTime
    /\ UNCHANGED now

-----------------------------------------------------------------------------
(* ComplianceService.getReports *)

Within(f, t, d) == f <= d /\ d <= t

\* getAuditByDay: days and actions without a row are left out.
AuditByDay(f, t) ==
    LET In == {r \in rows : Within(f, t, SqlDay(rowTime[r.nr]))} IN
    [d \in {SqlDay(rowTime[r.nr]) : r \in In} |->
        LET On == {r \in In : SqlDay(rowTime[r.nr]) = d} IN
        [op \in {r.op : r \in On} |-> Cardinality({r \in On : r.op = op})]]

\* getErasureByDay: chosen by the database, put under a day by the service.
ErasureByDay(f, t) ==
    LET In == {n \in DOMAIN tombTime : Within(f, t, SqlDay(tombTime[n]))} IN
    [d \in {BangkokDay(tombTime[n]) : n \in In} |->
        {e \in tombs : e.nr \in In /\ BangkokDay(tombTime[e.nr]) = d}]

\* resolveRange; a cleared input gets past it and fails later.
BadRange(a) == a.from > a.to
Useless(a) == a.from = Cleared \/ a.to = Cleared
Refused(a) == BadRange(a) \/ Useless(a)

ReadAudit(a) ==
    /\ a.audit = NoReport /\ ~Refused(a)
    /\ asks' = (asks \ {a}) \cup {[a EXCEPT !.audit = <<AuditByDay(a.from, a.to)>>]}
    /\ UNCHANGED <<accounts, page, times, from, to, latest, busy, report, problem>>

ReadErasure(a) ==
    /\ a.erasure = NoReport /\ ~Refused(a)
    /\ asks' = (asks \ {a}) \cup {[a EXCEPT !.erasure = <<ErasureByDay(a.from, a.to)>>]}
    /\ UNCHANGED <<accounts, page, times, from, to, latest, busy, report, problem>>

\* The request of a report is itself written down.
Answered(a) ==
    /\ Audit(Row(Viewer, Nobody, Url, FALSE, "report")) /\ UNCHANGED tombs /\ Stamped
    /\ asks' = asks \ {a}
    /\ UNCHANGED <<keycloak, tokens, call, overlap, asked, may, page, from, to, latest>>

Outdated(a) == a.nr # latest

Arrives(a) ==
    /\ NoReport \notin {a.audit, a.erasure} /\ Answered(a)
    /\ IF Outdated(a) THEN UNCHANGED <<busy, report, problem>>
       ELSE /\ report' = [period |-> <<a.from, a.to>>, asked |-> a.asked,
                          audit |-> a.audit[1], erasure |-> a.erasure[1]]
            /\ busy' = FALSE /\ UNCHANGED problem

\* An old report stays in memory behind the message.
Refuses(a) ==
    /\ Refused(a) /\ Answered(a)
    /\ IF Outdated(a) THEN UNCHANGED <<busy, problem>>
       ELSE problem' = (IF BadRange(a) THEN "range" ELSE "failed") /\ busy' = FALSE
    /\ UNCHANGED report

QueryFails(a) ==
    /\ ~Refused(a) /\ Fault("db")
    /\ asks' = asks \ {a}
    /\ IF Outdated(a) THEN UNCHANGED <<busy, problem>> ELSE problem' = "failed" /\ busy' = FALSE
    /\ UNCHANGED <<keycloak, tokens, call, trail, overlap, asked, may, page, times, from, to, latest, report>>

-----------------------------------------------------------------------------
(* The page *)

AskAgain ==
    /\ asked < MaxCalls /\ asked' = asked + 1 /\ latest' = latest + 1
    /\ asks' = asks \cup {Ask(from', to', latest')}
    /\ busy' = TRUE /\ problem' = "none"
    /\ UNCHANGED <<keycloak, tokens, call, trail, overlap, may, faults, page, times, report>>

\* The limits that the inputs set on each other do not hold for what is typed.
SetFrom(d) == Watched /\ d # from /\ from' = d /\ UNCHANGED to /\ AskAgain
SetTo(d) == Watched /\ d # to /\ to' = d /\ UNCHANGED from /\ AskAgain
Reload == Watched /\ UNCHANGED <<from, to>> /\ AskAgain

ReportsNext ==
    \/ Tick \/ Reload
    \/ \E a \in asks : ReadAudit(a) \/ ReadErasure(a) \/ Arrives(a) \/ Refuses(a) \/ QueryFails(a)
    \/ \E d \in Picks : SetFrom(d) \/ SetTo(d)

-----------------------------------------------------------------------------
(* What is shown *)

ReportShown == ~busy /\ problem = "none" /\ report # NoReport

\* enumerateDays, auditRows: what the API left out counts as zero.
Days == from .. to
Cell(d, op) ==
    IF d \in DOMAIN report.audit /\ op \in DOMAIN report.audit[d] THEN report.audit[d][op] ELSE 0
AuditActions == UNION {DOMAIN report.audit[d] : d \in DOMAIN report.audit}
RowsOn(d) == Sum(AuditActions, LAMBDA op : Cell(d, op))
ErasureTotal == Sum(DOMAIN report.erasure, LAMBDA d : Cardinality(report.erasure[d]))

\* What the page shows is about the days in its inputs: of the rows of each of them every one that
\* was there when the page asked is counted, none is counted twice or on another day, and the total
\* says the same, whichever of several answers comes last and whatever is written meanwhile
\* (load effect of Reports.tsx, getAuditByDay, getErasureByDay).
ReportIsTrue ==
    ReportShown =>
      LET RowsOf(d, n) == {k \in 1 .. n : SqlDay(rowTime[k]) = d}
          TombsOf(d, n) == {k \in 1 .. n : SqlDay(tombTime[k]) = d}
          OnDay(d) == IF d \in DOMAIN report.erasure THEN Cardinality(report.erasure[d]) ELSE 0
      IN  /\ report.period = <<from, to>>
          /\ \A d \in Days :
               /\ Within(Cardinality(RowsOf(d, report.asked.rows)), Cardinality(RowsOf(d, written)),
                         RowsOn(d))
               /\ Within(Cardinality(TombsOf(d, report.asked.tombs)),
                         Cardinality(TombsOf(d, Len(tombTime))), OnDay(d))
          /\ DOMAIN report.erasure \subseteq Days
          /\ ErasureTotal = Sum(Days, OnDay)
=============================================================================
