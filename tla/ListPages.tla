------------------------------ MODULE ListPages ------------------------------
(***************************************************************************)
(* The pages of logs and of batches: GET /logs and GET /batches answer a   *)
(* page of a table that goes on growing, newest first, in a query and, if  *)
(* that finds nothing, one more that counts; the page asks again whenever  *)
(* a filter, the offset or the size of its pages changes.  What is typed   *)
(* into the search box of the logs takes effect after a pause, as a search *)
(* or, when it is the id of a log, as a look at that log.  On the page of  *)
(* batches one batch at a time is checked against the chain.               *)
(***************************************************************************)
EXTENDS Integers, Sequences, FiniteSets

CONSTANTS Logs, Batches,
          At,       \* created_at of each log, sealed_at of each batch
          Source,   \* source_id of each log, as <<network, host>>
          Message,  \* the words of each message; an address in it is <<network, host>>
          Networks,
          Typed,    \* bound: what is typed into the search box
          Limits,   \* bound: the sizes of a page
          Offsets,  \* bound: offsets in the URL at first
          MaxAsks,  \* bound: number of pages, logs and checks asked for
          MaxFaults \* bound: number of failures

ASSUME ListConstants ==
    /\ IsFiniteSet(Logs) /\ IsFiniteSet(Batches) /\ Batches \cap Logs = {}
    /\ At \in [Logs \cup Batches -> Nat]
    /\ Limits \subseteq Nat \ {0} /\ Limits # {} /\ Offsets \subseteq Nat
    /\ {MaxAsks, MaxFaults} \subseteq Nat

VARIABLES
    kind,     \* the page on the screen: "logs" or "batches", or "alerts" of AlertsPage
    stored,   \* the logs there are
    status,   \* of each batch: "none", "live" for every status but FAILED, or "FAILED"
    input,    \* qInput
    term,     \* q, or the statuses that are picked
    offset, limit,
    asks,     \* requests for a page: how far each is
    latest,   \* the one that is not cancelled
    loading, shown, total, failed,
    lookup,   \* lookup, or the batch that is checked and the answer
    lookups,  \* requests for it
    lookSeq,  \* lookupSeq, diffSeq
    drawer,   \* openLog, and whether the box held an id when it opened
    action,   \* actionRunning
    origin,   \* what the page was asked that is shown
    walk,     \* the rows seen by going from page to page, and those there were
    left,     \* rows that no longer match
    blind,    \* a page past the end was found empty and then was not
    asked,    \* pages asked for so far
    faults    \* failures so far

table == <<kind, stored, status, left>>
search == <<input, lookup, lookups, lookSeq, drawer>>
place == <<term, offset, limit>>
pending == <<asks, latest, asked, faults>>
screen == <<shown, total, failed, origin, walk, blind>>
vars == <<table, search, place, pending, loading, screen, action>>

NoTerm == <<>>
Live == <<"live">>   \* every status but FAILED
Id(l) == <<"id", l, 0>>
IsId(t) == Len(t) = 3
NoLookup == [id |-> 0, status |-> "none", of |-> 0]
NoDrawer == [id |-> 0, fits |-> TRUE]

Ask(t, o, n, nr) ==
    [nr |-> nr, term |-> t, offset |-> o, limit |-> n, step |-> "query",
     rows |-> {}, total |-> 0, hits |-> {}, left |-> 0]
Look(id, nr) == {[id |-> id, nr |-> nr]}

Init ==
    /\ kind \in {"logs", "batches", "alerts"}
    /\ stored = {} /\ status = [b \in Batches |-> "none"] /\ left = 0
    /\ term = (IF kind = "batches" THEN Live ELSE NoTerm)
    /\ IF kind = "alerts" THEN offset = 0 /\ limit = 1 ELSE offset \in Offsets /\ limit \in Limits
    /\ loading = (kind # "alerts") /\ asks = (IF loading THEN {Ask(term, offset, limit, 1)} ELSE {})
    /\ latest = 1 /\ asked = 1 /\ failed = FALSE
    /\ shown = {} /\ total = 0 /\ origin = <<>> /\ walk = {} /\ blind = FALSE
    /\ input = NoTerm /\ lookSeq = 0 /\ lookup = NoLookup /\ lookups = {} /\ drawer = NoDrawer
    /\ action = "none" /\ faults = 0

-----------------------------------------------------------------------------
(* LogService.list and IntegrityService.listBatches *)

Present == IF kind = "logs" THEN stored ELSE {b \in Batches : status[b] # "none"}

\* ILIKE '%q%' finds the beginning of a word or an address.
Contains(l, t) == \E w \in Message[l] : Len(t) <= Len(w) /\ SubSeq(w, 1, Len(t)) = t

\* ipSearch: a whole address is compared with the source, and is looked for in messages the way
\* they mask it; a part of one is compared with the beginning of the source.
IsAddress(t) == t # NoTerm /\ t[1] \in Networks
IpMatches(l, t) ==
    /\ IsAddress(t)
    /\ IF Len(t) = 2 THEN Source[l] = t \/ <<t[1], "xxx">> \in Message[l] ELSE Source[l][1] = t[1]

Matches(r, t) ==
    \/ t = NoTerm
    \/ kind = "batches" /\ status[r] # "FAILED"
    \/ kind = "logs" /\ (Contains(r, t) \/ IpMatches(r, t))

Hits(t) == {r \in Present : Matches(r, t)}

Before_ByTimeOnly(a, b) ==
    \/ At[a] > At[b]
    \/ At[a] = At[b] /\ (IF Cardinality(Present) % 2 = 0 THEN a > b ELSE a < b)

\* ORDER BY created_at DESC, id DESC
Before(a, b) == At[a] > At[b] \/ (At[a] = At[b] /\ a > b)

PageOf(hits, o, n) ==
    {r \in hits : LET above == Cardinality({s \in hits : Before(s, r)}) IN o <= above /\ above < o + n}

Answers(a, b) ==
    /\ asks' = (asks \ {a}) \cup {b}
    /\ UNCHANGED <<table, search, place, latest, asked, faults, loading, screen, action>>

\* Rows and total come from one query; a page past the end has no row to carry the total.
Query(a) ==
    LET hits == Hits(a.term)  rows == PageOf(hits, a.offset, a.limit) IN
    /\ a.step = "query"
    /\ Answers(a, [a EXCEPT !.rows = rows, !.hits = IF a.offset = 0 THEN hits ELSE {}, !.left = left,
                       !.total = IF rows # {} THEN Cardinality(hits) ELSE 0,
                       !.step = IF rows = {} /\ a.offset > 0 THEN "count" ELSE "done"])

Count(a) ==
    /\ a.step = "count"
    /\ Answers(a, [a EXCEPT !.total = Cardinality(Hits(a.term)), !.step = "done"])

-----------------------------------------------------------------------------
(* The list *)

\* While a log is looked up or cannot be shown, that stands in place of the table.
Tabled == kind = "logs" => lookup.status \in {"none", "ok"}

Fault == faults < MaxFaults /\ faults' = faults + 1

MayAsk == asked + lookSeq < MaxAsks

AsksAfter(others, t, o, n) ==
    /\ MayAsk /\ asked' = asked + 1 /\ latest' = latest + 1
    /\ asks' = others \cup {Ask(t, o, n, latest')}
    /\ term' = t /\ offset' = o /\ limit' = n /\ loading' = TRUE
    /\ UNCHANGED faults

Asks(t, o, n) == AsksAfter(asks, t, o, n)

\* The effect runs when one of what it depends on has changed.
Shows(t, o, n) ==
    IF <<t, o, n>> = place THEN UNCHANGED <<place, pending, loading>> ELSE Asks(t, o, n)

Cancelled(a) == a.nr # latest

LastPage(n, size) == ((n - 1) \div size) * size

\* A walk begins on the first page, goes on with the next one, and ends on any other.
Walked(a) ==
    IF a.offset = 0
    THEN {[next |-> a.limit, base |-> a.hits, seen |-> a.rows, left |-> a.left]}
    ELSE {[w EXCEPT !.next = @ + a.limit, !.seen = @ \cup a.rows] : w \in {v \in walk : v.next = a.offset}}

\* The filters shrank the set under the offset: to the last page that there is.  If that is where
\* the page is already, nothing changes and nothing is asked.
Arrives(a) ==
    /\ a.step = "done" /\ UNCHANGED <<table, search, action>>
    /\ IF Cancelled(a) THEN asks' = asks \ {a} /\ UNCHANGED <<place, latest, asked, faults, loading, screen>>
       ELSE IF a.rows = {} /\ a.total > 0 /\ offset > 0
       THEN /\ UNCHANGED <<shown, total, failed, origin, walk>>
            /\ IF LastPage(a.total, limit) = offset
               THEN /\ asks' = asks \ {a} /\ loading' = FALSE /\ blind' = TRUE
                    /\ UNCHANGED <<place, latest, asked, faults>>
               ELSE AsksAfter(asks \ {a}, term, LastPage(a.total, limit), limit) /\ UNCHANGED blind
       ELSE /\ asks' = asks \ {a} /\ loading' = FALSE
            /\ shown' = a.rows /\ total' = a.total /\ failed' = FALSE /\ blind' = FALSE
            /\ origin' = <<a.term, a.offset, a.limit>> /\ walk' = Walked(a)
            /\ UNCHANGED <<place, latest, asked, faults>>

Fails(a) ==
    /\ Fault /\ asks' = asks \ {a}
    /\ IF Cancelled(a) THEN UNCHANGED <<loading, screen>>
       ELSE /\ shown' = {} /\ total' = 0 /\ failed' = TRUE /\ loading' = FALSE
            /\ UNCHANGED <<origin, walk, blind>>
    /\ UNCHANGED <<table, search, place, latest, asked, action>>

\* reloadKey
Reload == Asks(term, offset, limit) /\ UNCHANGED <<table, search, screen>>
Retry == failed /\ Tabled /\ Reload /\ UNCHANGED action

\* The buttons under the table, which is there when it has rows.
Turn ==
    /\ shown # {} /\ ~loading /\ ~failed /\ Tabled
    /\ \/ offset > 0 /\ Asks(term, IF offset > limit THEN offset - limit ELSE 0, limit)
       \/ offset + limit < total /\ Asks(term, offset + limit, limit)
    /\ UNCHANGED <<table, search, screen, action>>

SetLimit(n) ==
    /\ n # limit /\ Asks(term, 0, n)
    /\ UNCHANGED <<table, search, screen, action>>

\* The log or the batch that ?log= or ?b_diff= opens again after F5: that of a drawer which is
\* open or on its way, or the batch that is checked.
Kept == lookup.id # 0 /\ (kind = "batches" \/ lookup.status # "ok" \/ drawer.id = lookup.id)

\* F5: the URL has what the page was showing.  No status at all reads like no key at all, and
\* the default comes back; next to a log there is no search.
Reopen ==
    /\ MayAsk /\ asked' = asked + 1 /\ latest' = 1
    /\ term' = (IF kind = "batches" THEN Live ELSE IF Kept THEN NoTerm ELSE term)
    /\ asks' = {Ask(term', offset, limit, 1)} /\ loading' = TRUE
    /\ input' = (IF Kept /\ kind = "logs" THEN Id(lookup.id) ELSE term')
    /\ IF Kept THEN /\ lookSeq' = 1 /\ lookups' = Look(lookup.id, 1)
                    /\ lookup' = [id |-> lookup.id, status |-> "loading", of |-> 0]
       ELSE lookSeq' = 0 /\ lookups' = {} /\ lookup' = NoLookup
    /\ drawer' = NoDrawer /\ action' = "none"
    /\ shown' = {} /\ total' = 0 /\ failed' = FALSE /\ origin' = <<>> /\ walk' = {} /\ blind' = FALSE
    /\ UNCHANGED <<table, offset, limit, faults>>

-----------------------------------------------------------------------------
(* The page of logs *)

\* The pause runs whenever the box says something else than what was asked for.
Typing == kind = "logs" /\ IF IsId(input) THEN lookup.id # input[2] ELSE input # term

SetInput(t) ==
    /\ kind = "logs" /\ t # input /\ input' = t
    /\ IF ~IsId(t) /\ lookup # NoLookup
       THEN lookup' = NoLookup /\ lookSeq' = lookSeq + 1
       ELSE UNCHANGED <<lookup, lookSeq>>
    /\ UNCHANGED <<table, lookups, drawer, place, pending, loading, screen, action>>

Opens(id) ==
    /\ MayAsk
    /\ lookSeq' = lookSeq + 1 /\ lookups' = lookups \cup Look(id, lookSeq')
    /\ lookup' = [id |-> id, status |-> "loading", of |-> 0]

PauseEnds ==
    /\ Typing
    /\ IF IsId(input) THEN Opens(input[2]) /\ Shows(NoTerm, 0, limit)
       ELSE Shows(input, 0, limit) /\ UNCHANGED <<lookup, lookups, lookSeq>>
    /\ UNCHANGED <<table, input, drawer, screen, action>>

ClearAll ==
    /\ kind = "logs" /\ term # NoTerm /\ input' = NoTerm
    /\ Shows(NoTerm, 0, limit)
    /\ UNCHANGED <<table, lookup, lookups, lookSeq, drawer, screen, action>>

Overtaken(a) == a.nr # lookSeq

\* openById: the detail goes to the drawer.
LookupArrives(a) ==
    /\ kind = "logs" /\ lookups' = lookups \ {a}
    /\ \E answer \in {"ok", "notfound", "error"} :
        /\ IF answer = "error" THEN Fault ELSE UNCHANGED faults /\ (answer = "ok" <=> a.id \in stored)
        /\ IF Overtaken(a) THEN UNCHANGED <<lookup, drawer>>
           ELSE /\ lookup' = [id |-> a.id, status |-> answer, of |-> a.id]
                /\ drawer' = IF answer = "ok" THEN [id |-> a.id, fits |-> IsId(input)] ELSE drawer
    /\ UNCHANGED <<table, input, lookSeq, place, asks, latest, asked, loading, screen, action>>

RetryLookup ==
    /\ kind = "logs" /\ lookup.status = "error" /\ Opens(lookup.id)
    /\ UNCHANGED <<table, input, drawer, place, pending, loading, screen, action>>

OpenRow(r) ==
    /\ kind = "logs" /\ ~failed /\ Tabled /\ drawer # [id |-> r, fits |-> TRUE]
    /\ drawer' = [id |-> r, fits |-> TRUE]
    /\ UNCHANGED <<table, input, lookup, lookups, lookSeq, place, pending, loading, screen, action>>

CloseDrawer ==
    /\ drawer # NoDrawer /\ drawer' = NoDrawer
    /\ UNCHANGED <<table, input, lookup, lookups, lookSeq, place, pending, loading, screen, action>>

-----------------------------------------------------------------------------
(* The page of batches *)

PickStatuses(t) ==
    /\ kind = "batches" /\ t # term /\ Asks(t, 0, limit)
    /\ UNCHANGED <<table, search, screen, action>>

RunDiff(b) ==
    /\ kind = "batches" /\ ~(lookup.id = b /\ lookup.status = "loading")
    /\ Opens(b)
    /\ UNCHANGED <<table, input, drawer, place, pending, loading, screen, action>>

DiffArrives(a) ==
    /\ kind = "batches" /\ lookups' = lookups \ {a}
    /\ IF Overtaken(a) THEN UNCHANGED lookup
       ELSE lookup' = [lookup EXCEPT !.status = "ok", !.of = a.id]
    /\ UNCHANGED <<table, input, lookSeq, drawer, place, pending, loading, screen, action>>

CloseDiff ==
    /\ kind = "batches" /\ lookup # NoLookup
    /\ lookSeq' = lookSeq + 1 /\ lookup' = NoLookup
    /\ UNCHANGED <<table, input, lookups, drawer, place, pending, loading, screen, action>>

Act ==
    /\ kind = "batches" /\ action = "none" /\ action' = "running"
    /\ UNCHANGED <<table, search, place, pending, loading, screen>>

ActSucceeds == action # "none" /\ action' = "none" /\ Reload

ActFails ==
    /\ action # "none" /\ action' = "none"
    /\ UNCHANGED <<table, search, place, pending, loading, screen>>

\* A log is posted.
Insert(l) ==
    /\ kind = "logs" /\ l \notin stored /\ stored' = stored \cup {l}
    /\ UNCHANGED <<kind, status, left, search, place, pending, loading, screen, action>>

\* A batch is sealed and, if it cannot be anchored, fails later.
Seal(b) ==
    /\ kind = "batches"
    /\ \/ status[b] = "none" /\ status' = [status EXCEPT ![b] = "live"] /\ UNCHANGED left
       \/ status[b] = "live" /\ status' = [status EXCEPT ![b] = "FAILED"] /\ left' = left + 1
    /\ UNCHANGED <<kind, stored, search, place, pending, loading, screen, action>>

-----------------------------------------------------------------------------

Next ==
    \/ \E l \in Logs : Insert(l)
    \/ \E b \in Batches : Seal(b)
    \/ \E a \in asks : Query(a) \/ Count(a) \/ Arrives(a) \/ Fails(a)
    \/ Turn \/ Retry \/ Reopen \/ \E n \in Limits : SetLimit(n)
    \/ \E t \in Typed : SetInput(t)
    \/ PauseEnds \/ ClearAll \/ RetryLookup \/ CloseDrawer \/ \E r \in shown : OpenRow(r)
    \/ \E t \in {NoTerm, Live} : PickStatuses(t)
    \/ \E b \in shown : RunDiff(b)
    \/ \E a \in lookups : LookupArrives(a) \/ DiffArrives(a)
    \/ CloseDiff \/ Act \/ ActSucceeds \/ ActFails

Spec == Init /\ [][Next]_vars

-----------------------------------------------------------------------------
(* Properties *)

\* "this page only ever holds the current page" (Logs.tsx:182): what is shown with no load under
\* way is the page of the terms, the offset and the size that are picked, whichever answer comes
\* last.  It is not if a page past the end was empty and rows came in before they were counted:
\* then what was shown before stays.
ShowsItsPage ==
    kind # "alerts" /\ ~loading /\ ~failed /\ ~blind =>
        /\ origin = <<term, offset, limit>>
        /\ shown # {} => offset + Cardinality(shown) <= total

\* Who goes through the pages from the first sees each row that was there at the beginning, though
\* rows keep coming in, some of them late with an old time, unless a row stops to match meanwhile.
NothingIsSkipped ==
    \A w \in walk : w.left = left =>
        \A r \in w.base : (\E s \in shown : s = r \/ Before(r, s)) => r \in w.seen

\* An answer about a log or a batch that nobody asks about any more is not shown: no drawer
\* opens once the box has other text, and the check that is shown is of the batch it is under.
LooksWhereAsked == drawer.fits /\ lookup.of \in {0, lookup.id}

ListIsTrue == ShowsItsPage /\ NothingIsSkipped /\ LooksWhereAsked
=============================================================================
