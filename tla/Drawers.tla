------------------------------ MODULE Drawers ------------------------------
(***************************************************************************)
(* The two drawers of the dashboard that tell whether a log or a batch was *)
(* changed since it was sealed.                                            *)
(*                                                                         *)
(* LogDrawer puts together what three requests answered, each at another   *)
(* time: the detail of the log, its proof and, for a batch that is         *)
(* TAMPERED, the diff of the batch, to compare the log with what it was at *)
(* seal.  It is opened by the pages of logs and of alerts, or on top of    *)
(* BatchDiffDrawer, whose diff it then takes.                              *)
(***************************************************************************)
EXTENDS VerifyView

CONSTANTS Opened,   \* bound: logs that are opened
          MaxTurns  \* bound: times a log or a batch is opened or asked for again

ASSUME DrawerConstants == Opened \subseteq Logs /\ MaxTurns \in Nat

VARIABLES
    logId,       \* the log in the drawer, or Nobody
    loaded,      \* its detail
    failedLoad,  \* error
    proofInfo,
    compareOpen,
    ownDiff,     \* the diff it asked for itself, of which batch and how far
    batchId,     \* the batch in the batch drawer, or NoBatch
    diff,        \* what Batches hands to the batch drawer, like ownDiff
    sent,        \* requests under way
    counts,      \* of each kind, the request that is neither cancelled nor overtaken
    turns        \* such times so far

logDrawer == <<logId, loaded, failedLoad, proofInfo>>
comparison == <<compareOpen, ownDiff>>
batchDrawer == <<batchId, diff>>
drawers == <<logDrawer, comparison, batchDrawer, sent, counts, turns>>

NoDiff == [batch |-> NoBatch, status |-> "none", data |-> NotYet]
Loading(b) == [batch |-> b, status |-> "loading", data |-> NotYet]

DrawersInit ==
    /\ logId = Nobody /\ loaded = NotYet /\ failedLoad = FALSE /\ proofInfo = NotYet
    /\ compareOpen = FALSE /\ ownDiff = NoDiff
    /\ batchId = NoBatch /\ diff = NoDiff
    /\ sent = {} /\ counts = [get \in {"detail", "proof", "own", "check"} |-> 0] /\ turns = 0

-----------------------------------------------------------------------------
(* What the API answers, with the changes made so far as its time *)

DetailOf(l) ==
    LET b == IF HasProof(l) THEN mapped[l] ELSE NoBatch IN
    [log |-> l, row |-> rows[l], at |-> edits, batch |-> b,
     status |-> IF b = NoBatch THEN "none" ELSE batch[b].status,
     db |-> IF b = NoBatch THEN NoRoot ELSE batch[b].root,
     chain |-> IF b = NoBatch THEN NoRoot ELSE ChainRead(b),
     verified |-> IF b = NoBatch THEN "none" ELSE ProofOf(l).verified]

ProofInfoOf(l, base) ==
    [log |-> l, at |-> edits, hash |-> rows[l].hash, content |-> ContentLeaf(l, rows[l]),
     verified |-> ProofOf(l).verified, integrity |-> Label(l, base)]

\* All that a diff is made of.
DiffDataOf(b) ==
    [of |-> b, at |-> edits, row |-> batch[b], snaps |-> snaps[b], logs |-> LogsOf(b),
     chain |-> ChainRead(b), still |-> Present]

\* The label of a proof may depend on the order in which the snapshots are read.
AnswersFor(r) ==
    CASE r.get = "detail" -> {IF rows[r.of] = NoRow THEN NotFound ELSE <<"ok", DetailOf(r.of)>>}
      [] r.get = "proof"  -> IF HasProof(r.of)
                             THEN {<<"ok", ProofInfoOf(r.of, base)>> : base \in ProofBaselines(mapped[r.of])}
                             ELSE {NotFound}
      [] OTHER            -> {<<"ok", DiffDataOf(r.of)>>}

Counts(r) == counts[r.get] = r.nr
Request(get, of, nr) == [get |-> get, of |-> of, nr |-> nr, answer |-> NotYet]

\* An answer to a request that is cancelled before it is given changes nothing.
ServeDrawer(r) ==
    /\ r.answer = NotYet /\ Counts(r)
    /\ \E a \in AnswersFor(r) \cup (IF "fail" \in may THEN {Failed} ELSE {}) :
          sent' = (sent \ {r}) \cup {[r EXCEPT !.answer = a]}
    /\ UNCHANGED <<evidence, logDrawer, comparison, batchDrawer, counts, turns>>

\* A verify round judges a batch that is on the chain (Integrity has its steps).
Judge(b) ==
    LET root == RootOrNull(StoredLeaves(LogsOf(b)))
        changed == \/ \E l \in DOMAIN LogsOf(b) : ~IsIntact(l, rows[l])
                   \/ root # (IF rpc THEN chain[b] ELSE batch[b].root)
    IN  /\ "judge" \in may /\ batch[b].status \in {"CONFIRMED", "TAMPERED"}
        /\ batch' = [batch EXCEPT ![b].status = IF changed THEN "TAMPERED"
                                                ELSE IF rpc THEN "CONFIRMED" ELSE @]
        /\ UNCHANGED <<rows, mapped, snaps, chain, rpc, edits, may, ask, drawers>>

-----------------------------------------------------------------------------
(* The log drawer *)

nested == batchId # NoBatch

Turn(kinds) ==
    /\ turns < MaxTurns /\ turns' = turns + 1
    /\ counts' = [get \in DOMAIN counts |-> IF get \in kinds THEN turns' ELSE counts[get]]

Asks(kinds, of) == sent' = sent \cup {Request(get, of, turns') : get \in kinds}

\* Another log: its detail and its proof are loaded, and nothing is left of the last one's.
Shows(l, kinds, detail) ==
    /\ l # logId /\ logId' = l
    /\ Turn({"detail", "proof", "own"}) /\ Asks(kinds, l)
    /\ loaded' = detail /\ failedLoad' = FALSE /\ proofInfo' = NotYet
    /\ compareOpen' = FALSE /\ ownDiff' = NoDiff
    /\ UNCHANGED <<evidence, batchDrawer>>

\* A row of Logs or of an alert.
OpenLog(l) == "drawer" \in may /\ ~nested /\ Shows(l, {"detail", "proof"}, NotYet)

\* An id that was looked up comes with its detail, which is used once.
OpenWith(l) ==
    /\ "drawer" \in may /\ ~nested /\ rows[l] # NoRow
    /\ Shows(l, {"proof"}, DetailOf(l))

\* Retry, and the check against the chain once more; a comparison stays open, with its diff.
Recheck ==
    /\ logId # Nobody
    /\ failedLoad \/ (loaded # NotYet /\ loaded.batch # NoBatch)
    /\ Turn({"detail", "proof"}) /\ Asks({"detail", "proof"}, logId)
    /\ loaded' = NotYet /\ failedLoad' = FALSE /\ proofInfo' = NotYet
    /\ UNCHANGED <<evidence, logId, comparison, batchDrawer>>

DetailLoads(r) ==
    /\ r.get = "detail" /\ r.answer # NotYet /\ sent' = sent \ {r}
    /\ IF ~Counts(r) THEN UNCHANGED <<loaded, failedLoad>>
       ELSE IF r.answer \in {NotFound, Failed} THEN failedLoad' = TRUE /\ UNCHANGED loaded
       ELSE loaded' = r.answer[2] /\ UNCHANGED failedLoad
    /\ UNCHANGED <<evidence, logId, proofInfo, comparison, batchDrawer, counts, turns>>

\* No answer reads as: not sealed yet.
ProofLoads(r) ==
    /\ r.get = "proof" /\ r.answer # NotYet /\ sent' = sent \ {r}
    /\ proofInfo' = IF ~Counts(r) THEN proofInfo
                    ELSE IF r.answer \in {NotFound, Failed} THEN NotYet ELSE r.answer[2]
    /\ UNCHANGED <<evidence, logId, loaded, failedLoad, comparison, batchDrawer, counts, turns>>

CloseLog ==
    /\ logId # Nobody /\ logId' = Nobody
    /\ counts' = [counts EXCEPT !.detail = 0, !.proof = 0, !.own = 0]
    /\ loaded' = NotYet /\ failedLoad' = FALSE /\ proofInfo' = NotYet
    /\ compareOpen' = FALSE /\ ownDiff' = NoDiff
    /\ UNCHANGED <<evidence, batchDrawer, sent, turns>>

-----------------------------------------------------------------------------
(* What a diff says *)

Said(d) == DiffOf(d.row, d.snaps, d.logs, d.chain, d.still)
Trusted(d) == DOMAIN d.snaps # {} /\ SnapshotTrusted(d.snaps, Reference(d.row, d.chain))
TypesOf(d, l) == {c.type : c \in {k \in Said(d).changes : k.log = l}}

CardOf(root, ref) == IF root = NoRoot THEN "gray" ELSE IF root = ref THEN "match" ELSE "mismatch"

\* The five roots, held against that of the chain or, if there is none, that in the database.
RootStates(d) ==
    LET ref == Reference(d.row, d.chain) IN
    [chain      |-> IF IsRoot(d.chain) THEN "match" ELSE "gray",
     snapshot   |-> CardOf(RootOrNull(SnapshotLeaves(d.snaps)), ref),
     db         |-> CardOf(d.row.root, ref),
     storedHash |-> CardOf(RootOrNull(StoredLeaves(d.logs)), ref),
     content    |-> CardOf(RootOrNull(ContentLeaves(d.logs)), ref)]

\* What is said below the verdict: when the snapshots were changed, whether the logs were too.
HintOf(d) ==
    IF DOMAIN d.snaps = {} \/ Trusted(d) THEN Said(d).verdict
    ELSE IF RootStates(d).content = "match" THEN "only the snapshots" ELSE "snapshots and logs"

\* The changes that are listed, of which those whose row is there can be opened.
Openable(d) == {l \in Logs : TypesOf(d, l) \notin {{}, {"ROW_MISSING"}}}

\* The diff on the screen of the batch drawer.
DiffShown == IF diff.status = "ok" /\ diff.data.of = batchId THEN diff.data ELSE NotYet

\* The comparison of a log with the snapshot: its cells, which of them changed, and which
\* changed again after the diff was read.
Fields == {"text", "time", "hash"}
Absent == <<"absent">>
Edited(d, l) == TypesOf(d, l) \cap {"CONTENT_MODIFIED", "HASH_MODIFIED"} # {}
Changed(d, l) == IF Edited(d, l) THEN {f \in Fields : d.snaps[l][f] # d.logs[l][f]} ELSE {}

SealCell_After(d, l, row, f) ==
    CASE TypesOf(d, l) = {}                         -> row[f]
      [] TypesOf(d, l) = {"UNMAPPED_OR_INSERTED"}   -> Absent
      [] Edited(d, l)                               -> d.logs[l][f]
      [] OTHER                                      -> d.snaps[l][f]

SealCell(d, l, row, f) ==
    CASE TypesOf(d, l) = {}                         -> row[f]
      [] TypesOf(d, l) = {"UNMAPPED_OR_INSERTED"}   -> Absent
      [] Edited(d, l)                               -> IF f \in Changed(d, l) THEN d.snaps[l][f] ELSE row[f]
      [] OTHER                                      -> d.snaps[l][f]

Stale(d, l, row) == {f \in Changed(d, l) : row[f] # d.logs[l][f]}

-----------------------------------------------------------------------------
(* Comparing *)

Detail == IF loaded # NotYet /\ loaded.log = logId THEN loaded ELSE NotYet

ActiveDiff == IF nested THEN DiffShown ELSE IF ownDiff.status = "ok" THEN ownDiff.data ELSE NotYet

\* Of the batch the diff is about, or of the log's own.
CanCompare ==
    /\ Detail # NotYet
    /\ IF nested THEN DiffShown # NotYet /\ DiffShown.row.status = "TAMPERED" /\ Trusted(DiffShown)
       ELSE Detail.status = "TAMPERED"

\* The diff is asked for once as long as the drawer stays open, and again if it failed.
OpenCompare ==
    /\ CanCompare /\ ~compareOpen /\ compareOpen' = TRUE
    /\ IF nested \/ (ownDiff.batch = Detail.batch /\ ownDiff.status # "error")
       THEN UNCHANGED <<ownDiff, sent, counts, turns>>
       ELSE /\ counts' = [counts EXCEPT !.own = turns] /\ UNCHANGED turns
            /\ sent' = sent \cup {Request("own", Detail.batch, turns)}
            /\ ownDiff' = Loading(Detail.batch)
    /\ UNCHANGED <<evidence, logDrawer, batchDrawer>>

\* The button, or Esc, which closes the comparison before the drawer.
CloseCompare ==
    /\ compareOpen /\ compareOpen' = FALSE
    /\ UNCHANGED <<evidence, logDrawer, ownDiff, batchDrawer, sent, counts, turns>>

Loads(old, r) ==
    IF ~Counts(r) THEN old
    ELSE IF r.answer = Failed THEN [old EXCEPT !.status = "error"]
    ELSE [old EXCEPT !.status = "ok", !.data = r.answer[2]]

OwnDiffLoads(r) ==
    /\ r.get = "own" /\ r.answer # NotYet /\ sent' = sent \ {r}
    /\ ownDiff' = Loads(ownDiff, r)
    /\ UNCHANGED <<evidence, logDrawer, compareOpen, batchDrawer, counts, turns>>

Comparing == compareOpen /\ ActiveDiff # NotYet /\ Detail # NotYet
ComparesRows == Comparing /\ Trusted(ActiveDiff)

\* The sections below the log get values as of seal only for a log that was there at seal.
SealKnown == ComparesRows /\ TypesOf(ActiveDiff, logId) # {"UNMAPPED_OR_INSERTED"}

-----------------------------------------------------------------------------
(* The batch drawer *)

\* A row of Batches; the same batch again only when the last check is there.
CheckBatch(b) ==
    /\ "batches" \in may /\ logId = Nobody /\ batch[b].status # "none"
    /\ ~(batchId = b /\ diff.status = "loading")
    /\ Turn({"check"}) /\ Asks({"check"}, b)
    /\ batchId' = b /\ diff' = Loading(b)
    /\ UNCHANGED <<evidence, logDrawer, comparison>>

CheckLoads(r) ==
    /\ r.get = "check" /\ r.answer # NotYet /\ sent' = sent \ {r}
    /\ diff' = Loads(diff, r)
    /\ UNCHANGED <<evidence, logDrawer, comparison, batchId, counts, turns>>

\* A change that is listed opens its log, unless the row is gone.
OpenChange(l) ==
    /\ DiffShown # NotYet /\ l \in Openable(DiffShown)
    /\ Shows(l, {"detail", "proof"}, NotYet)

CloseBatch ==
    /\ nested /\ logId = Nobody
    /\ batchId' = NoBatch /\ diff' = NoDiff /\ counts' = [counts EXCEPT !.check = 0]
    /\ UNCHANGED <<evidence, logDrawer, comparison, sent, turns>>

DrawersNext ==
    \/ \E b \in Batches : Judge(b) \/ CheckBatch(b)
    \/ \E l \in Opened : OpenLog(l) \/ OpenWith(l) \/ OpenChange(l)
    \/ \E r \in sent : \/ ServeDrawer(r) \/ DetailLoads(r) \/ ProofLoads(r)
                       \/ OwnDiffLoads(r) \/ CheckLoads(r)
    \/ Recheck \/ CloseLog \/ OpenCompare \/ CloseCompare \/ CloseBatch

-----------------------------------------------------------------------------
(* What is shown below the log *)

ProofInfo == IF proofInfo # NotYet /\ proofInfo.log = logId THEN proofInfo ELSE NotYet
ChecksShown == Detail # NotYet /\ Detail.batch # NoBatch /\ ProofInfo # NotYet

Is(p) == IF p THEN "yes" ELSE "no"

\* Root in the database and on the chain, raw_hash and content, proof and chain.
Checks == <<IF IsRoot(Detail.chain) THEN Is(Detail.chain = Detail.db) ELSE "unknown",
            Is(ProofInfo.hash = ProofInfo.content),
            ProofInfo.verified>>
AllPass == \A i \in DOMAIN Checks : Checks[i] = "yes"
AnyFail == \E i \in DOMAIN Checks : Checks[i] = "no"

SummaryTone == IF AllPass THEN "good" ELSE IF AnyFail THEN "danger" ELSE "neutral"
SummaryLabel ==
    CASE AllPass -> "unchanged"
      [] ~AllPass /\ ProofInfo.integrity \in {"CONTENT_MODIFIED", "HASH_MODIFIED"} -> ProofInfo.integrity
      [] OTHER -> IF Checks[1] = "no" THEN "root" ELSE IF AnyFail THEN "mismatch" ELSE "incomplete"

Unanchored(status) == IF status \in {"SEALED", "PENDING"} THEN "slateMuted" ELSE "orange"

\* A batch that is TAMPERED gets no green, even where the roots agree.
CheckTone ==
    CASE Detail.batch = NoBatch \/ Detail.chain = Unreadable -> "neutral"
      [] Detail.batch # NoBatch /\ Detail.chain = Detail.db  ->
            IF Detail.status = "TAMPERED" THEN "blue" ELSE "good"
      [] OTHER -> IF Detail.chain = Zero THEN Unanchored(Detail.status) ELSE "danger"

\* Where the status and the check tell different stories.
StatusNote ==
    LET match == Detail.chain = Detail.db IN
    CASE Detail.batch = NoBatch \/ Detail.chain = Unreadable -> "none"
      [] Detail.batch # NoBatch /\ Detail.chain # Unreadable /\ Detail.status = "TAMPERED" ->
            IF match THEN "danger" ELSE "none"
      [] OTHER -> IF \/ Detail.status = "CONFIRMED" /\ ~match
                     \/ Detail.status \in {"PENDING", "SEALED", "UNVERIFIED", "FAILED"} /\ match
                     \/ ~match /\ IsRoot(Detail.chain)
                  THEN "warn" ELSE "none"

ProofTone ==
    CASE Detail.verified = "none" -> "none"
      [] Detail.verified = "yes"  -> "good"
      [] OTHER -> IF Detail.verified = "no" THEN "danger" ELSE "neutral"

\* Status, check and proof, and beside them what they are taken to have been when the batch was
\* sealed.
SectionsNow == [status |-> Detail.status, check |-> CheckTone, proof |-> ProofTone]
SectionsAtSeal ==
    [status |-> IF SealKnown /\ Detail.batch # NoBatch THEN "CONFIRMED" ELSE "none",
     check  |-> IF SealKnown /\ Detail.batch # NoBatch /\ Detail.chain = Detail.db THEN "good" ELSE "none",
     proof  |-> IF SealKnown /\ Detail.batch # NoBatch THEN "good" ELSE "none"]

LogRed ==
    \/ Detail # NotYet /\ "danger" \in {SectionsNow.check, SectionsNow.proof, StatusNote}
    \/ Detail # NotYet /\ Detail.status = "TAMPERED"
    \/ ChecksShown /\ SummaryTone = "danger"
BatchRed ==
    DiffShown # NotYet /\ (\/ "mismatch" \in {RootStates(DiffShown)[c] : c \in DOMAIN RootStates(DiffShown)}
                           \/ Said(DiffShown).verdict = "TAMPERED")

-----------------------------------------------------------------------------
(* Properties *)

\* Detail and proof are read apart: when they are of one state of the database, the green
\* "this log was not changed" is shown of a log that is in the batch it was sealed in and as it
\* came in; and a summary that names a change is a red one.
GreenIsSealed ==
    ChecksShown /\ Detail.at = ProofInfo.at /\ Modern(Detail.batch) =>
        /\ SummaryTone = "good" =>
              /\ logId \in Members[Detail.batch]
              /\ Detail.row = AsIngested[logId]
        /\ SummaryLabel \in {"CONTENT_MODIFIED", "HASH_MODIFIED"} => SummaryTone = "danger"

\* "every other field is in the raw hash too, so it equals the current value" (logCompare.ts:6):
\* with the root from the chain, the side called "as of seal" has the values the log came in with,
\* marks the fields that are different now and no others, and is empty for a log that was not
\* there, when diff and detail are of one state of the database.
SealSideIsSealed ==
    ComparesRows =>
        LET d == ActiveDiff
            member == logId \in Members[d.of]
        IN  /\ IsRoot(d.chain) /\ Modern(d.of) /\ Detail.at = d.at
            /\ logId \in Members[d.of] \cup DOMAIN d.logs
            => /\ \A f \in Fields :
                     SealCell(d, logId, Detail.row, f) = IF member THEN AsIngested[logId][f] ELSE Absent
               /\ member /\ logId \in DOMAIN d.logs =>
                     Changed(d, logId) = {f \in Fields : Detail.row[f] # AsIngested[logId][f]}
               /\ SealKnown = member
               /\ member /\ Detail.batch = d.of => SectionsAtSeal.status = "CONFIRMED"
               /\ ~member => SectionsAtSeal.status = "none" /\ SectionsAtSeal.proof = "none"
               /\ Stale(d, logId, Detail.row) = {}

\* "every box must be green for the data to be complete" (BatchDiffDrawer.tsx): with the root
\* from the chain, no box is red and the snapshot can be trusted, or is not there, exactly when the
\* verdict above the boxes is INTACT, and "only the snapshot was changed" is said of logs that are
\* all there, with the content they came in with.
CardsAgree ==
    DiffShown # NotYet =>
        LET d == DiffShown
            cards == RootStates(d)
        IN  IsRoot(d.chain) /\ Modern(d.of) =>
               /\ Said(d).verdict = "INTACT" <=>
                     /\ \A c \in DOMAIN cards : cards[c] # "mismatch"
                     /\ cards.content = "match"
                     /\ DOMAIN d.snaps = {} \/ Trusted(d)
               /\ HintOf(d) = "only the snapshots" =>
                     /\ DOMAIN d.logs = Members[d.of]
                     /\ \A l \in Members[d.of] : FieldsChanged(AsIngested[l], d.logs[l]) = {}

\* Where nobody touched anything nothing is red, whatever requests fail or overtake each other and
\* whatever the node and the verify rounds do: but for one case, and there always.  A batch that is
\* checked while it is PENDING or after it FAILED, with its root on the chain or a hash of its
\* transaction, has no logs yet, and is called TAMPERED (batches-diff.md:355 says so of FAILED).
Unfinished(d) == d.row.status \in {"PENDING", "FAILED"} /\ (IsRoot(d.chain) \/ d.row.tx)
NobodyIsAccused ==
    may \cap {"rows", "mapping", "snapshots", "root"} = {} =>
        ~LogRed /\ (BatchRed <=> DiffShown # NotYet /\ Unfinished(DiffShown))

\* What the drawers say of a log and of a batch is so (LogDrawer, BatchDiffDrawer, buildCompare).
DrawersAreTrue == GreenIsSealed /\ SealSideIsSealed /\ CardsAgree /\ NobodyIsAccused
=============================================================================
