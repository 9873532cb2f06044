------------------------------ MODULE Evidence ------------------------------
(***************************************************************************)
(* What the API says about a sealed batch: GET /batches/:id/diff,          *)
(* GET /batches/:id/tree, GET /logs/:id/proof and GET /logs/:id/detail.    *)
(*                                                                         *)
(* Three copies of what was sealed exist: the rows of logs with their      *)
(* raw_hash, the snapshots, and roots in batches and on the chain.  The    *)
(* answers weigh them against each other.  Rows, mapping, snapshots and    *)
(* batches may be changed outside the program; a diff reads them one after *)
(* the other while the batch is being sealed.                              *)
(***************************************************************************)
EXTENDS Integers, Sequences, FiniteSets, FiniteSetsExt, Merkle

CONSTANTS Logs,      \* ids, in the order in which the logs came in
          Legacy,    \* those whose raw_hash is of version 1
          Text,      \* the text a log came in with
          Batches,
          Members,   \* the logs each batch is sealed over
          MaxEdits,  \* bound: changes made outside the program
          Scenarios  \* bound: sets of things that may happen, of which a behaviour has one

ASSUME EvidenceConstants ==
    /\ Logs \subseteq Nat /\ IsFiniteSet(Logs) /\ Legacy \subseteq Logs /\ MaxEdits \in Nat
    /\ Members \in [Batches -> (SUBSET Logs) \ {{}}]
    /\ \A b, c \in Batches : b # c => Members[b] \cap Members[c] = {}

VARIABLES
    rows,   \* the logs
    mapped, \* log_batch_mapping: a log is in one batch at most
    snaps,  \* batch_log_snapshot of each batch
    batch,  \* batches: merkle_root, whether there is a tx_hash, status
    chain,  \* the root the contract has for each batch
    rpc,    \* whether the contract can be read
    edits,  \* changes so far
    may,    \* the scenario
    ask     \* the diff being computed

stored == <<rows, mapped, snaps, batch>>
evidence == <<stored, chain, rpc, edits, may, ask>>

NoRow == [text |-> <<"gone">>, time |-> 0, hash |-> <<"gone">>]
NoBatch == "no batch"
NoRoot == <<"null">>
Zero == <<"zero">>
Unreadable == <<"error">>
Junk == <<"junk", 0>>

-----------------------------------------------------------------------------
(* raw_hash *)

\* Version 1 covers the text only: neither the id nor created_at.
HashV2(l, r) == <<"v2", l, r.text, r.time>>
HashV1(r) == <<"v1", r.text>>

IsIntact_OnlyV2(l, r) == r.hash = HashV2(l, r)

IsIntact(l, r) == r.hash = HashV2(l, r) \/ r.hash = HashV1(r)
ContentLeaf(l, r) == IF IsIntact(l, r) THEN r.hash ELSE HashV2(l, r)

AsIngested ==
    [l \in Logs |-> LET r == [text |-> Text[l], time |-> 0, hash |-> <<"none">>]
                    IN  [r EXCEPT !.hash = IF l \in Legacy THEN HashV1(r) ELSE HashV2(l, r)]]

\* Leaves are in the order of created_at and id: each has as many before it as its place says.
InOrder(r) ==
    LET before(l) == {k \in DOMAIN r : \/ r[k].time < r[l].time
                                       \/ r[k].time = r[l].time /\ k < l}
    IN  [i \in 1 .. Cardinality(DOMAIN r) |->
            CHOOSE l \in DOMAIN r : Cardinality(before(l)) = i - 1]
RootOrNull(leaves) == IF leaves = <<>> THEN NoRoot ELSE Root(leaves)

StoredLeaves(r) == LET o == InOrder(r) IN [i \in DOMAIN o |-> r[o[i]].hash]
ContentLeaves(r) == LET o == InOrder(r) IN [i \in DOMAIN o |-> ContentLeaf(o[i], r[o[i]])]

Originals == [b \in Batches |-> [l \in Members[b] |-> AsIngested[l]]]
SealedRoot == [b \in Batches |-> Root(StoredLeaves(Originals[b]))]

\* Snapshots have a position: the place of the leaf when the batch was sealed.
ByPosition(s) == InOrder([l \in DOMAIN s |-> AsIngested[l]])
SnapshotLeaves(s) == LET o == ByPosition(s) IN [i \in DOMAIN o |-> s[o[i]].hash]

LogsOf(b) == [l \in {k \in Logs : mapped[k] = b /\ rows[k] # NoRow} |-> rows[l]]
ChainRead(b) == IF rpc THEN chain[b] ELSE Unreadable
IsRoot(c) == c \notin {Zero, Unreadable}

-----------------------------------------------------------------------------
(* The diff, of a batch row, its snapshots, its logs, what was read from   *)
(* the chain, and the ids that still have a row                            *)

NotAnchored(bt, c) == ~bt.tx /\ bt.status \in {"PENDING", "SEALED", "FAILED"} /\ ~IsRoot(c)
Unverifiable(bt, c) == c = Unreadable /\ bt.tx
Reference(bt, c) == IF IsRoot(c) THEN c ELSE bt.root
RootsAgree(bt, r, ref) ==
    RootOrNull(StoredLeaves(r)) = ref /\ RootOrNull(ContentLeaves(r)) = ref /\ bt.root = ref

SnapshotTrusted_ByRoot(s, ref) == RootOrNull(SnapshotLeaves(s)) = ref

SelfIntact(s) == \A l \in DOMAIN s : IsIntact(l, s[l])
SnapshotTrusted(s, ref) == RootOrNull(SnapshotLeaves(s)) = ref /\ SelfIntact(s)

Baseline(bt, s, r, c) ==
    LET ref == Reference(bt, c) IN
    CASE DOMAIN s = {}                        -> "legacy"
      [] DOMAIN s # {} /\ SnapshotTrusted(s, ref) -> "snapshot"
      [] OTHER -> IF RootOrNull(StoredLeaves(r)) = ref THEN "raw_hash" ELSE "none"

FieldsChanged(before, after) == {f \in {"text", "time"} : before[f] # after[f]}

SnapshotChanges(s, r, still) ==
    {[log |-> l, type |-> IF l \in still THEN "MAPPING_MISSING" ELSE "ROW_MISSING"] :
        l \in DOMAIN s \ DOMAIN r}
    \cup {[log |-> l, type |-> "CONTENT_MODIFIED"] :
        l \in {k \in DOMAIN s \cap DOMAIN r : FieldsChanged(s[k], r[k]) # {}}}
    \cup {[log |-> l, type |-> "HASH_MODIFIED"] :
        l \in {k \in DOMAIN s \cap DOMAIN r :
                  FieldsChanged(s[k], r[k]) = {} /\ s[k].hash # r[k].hash}}
    \cup {[log |-> l, type |-> "UNMAPPED_OR_INSERTED"] : l \in DOMAIN r \ DOMAIN s}

RawHashChanges(r) ==
    {[log |-> l, type |-> "CONTENT_MODIFIED"] :
        l \in {k \in DOMAIN r : ContentLeaf(k, r[k]) # r[k].hash}}

Changes(base, s, r, still) ==
    CASE base = "snapshot" -> SnapshotChanges(s, r, still)
      [] base = "raw_hash" -> RawHashChanges(r)
      [] OTHER             -> {}

\* Snapshots nobody can trust mean that somebody changed the database.
Verdict(bt, r, c, base, changes) ==
    CASE NotAnchored(bt, c) -> "UNVERIFIABLE"
      [] ~NotAnchored(bt, c) /\ (\/ base \in {"raw_hash", "none"} \/ changes # {}
                                 \/ ~RootsAgree(bt, r, Reference(bt, c))) -> "TAMPERED"
      [] OTHER -> IF Unverifiable(bt, c) THEN "UNVERIFIABLE" ELSE "INTACT"

DiffOf(bt, s, r, c, still) ==
    LET base == Baseline(bt, s, r, c)
        changes == Changes(base, s, r, still)
    IN  [baseline |-> base, changes |-> changes, verdict |-> Verdict(bt, r, c, base, changes)]

Present == {l \in Logs : rows[l] # NoRow}
Diff(b) == DiffOf(batch[b], snaps[b], LogsOf(b), ChainRead(b), Present)

-----------------------------------------------------------------------------
(* The proof of a log, and the tree of a batch *)

\* Here the snapshots are read without an order, and the root over them is that of the order in
\* which the database happens to return them.
ReadOrders == [S \in UNION {SUBSET Members[b] : b \in Batches} |-> SetToSeqs(S)]
RootAsRead(s, o) == RootOrNull([i \in DOMAIN o |-> s[o[i]].hash])

ProofBaseline_DbRoot(b, o) ==
    IF DOMAIN snaps[b] # {} /\ SnapshotTrusted(snaps[b], batch[b].root) THEN "snapshot"
    ELSE IF RootOrNull(StoredLeaves(LogsOf(b))) = batch[b].root THEN "raw_hash" ELSE "none"

ProofBaseline(b, o) ==
    CASE ~IsRoot(ChainRead(b)) -> "none"
      [] /\ IsRoot(ChainRead(b)) /\ o # <<>> /\ SelfIntact(snaps[b])
         /\ RootAsRead(snaps[b], o) = chain[b] -> "snapshot"
      [] OTHER -> IF RootOrNull(StoredLeaves(LogsOf(b))) = chain[b] THEN "raw_hash" ELSE "none"

ProofBaselines(b) == {ProofBaseline(b, o) : o \in ReadOrders[DOMAIN snaps[b]]}

Label(l, base) ==
    LET s == snaps[mapped[l]]  r == rows[l] IN
    CASE base = "snapshot" /\ l \in DOMAIN s ->
            IF ~IsIntact(l, [r EXCEPT !.hash = s[l].hash]) THEN "CONTENT_MODIFIED"
            ELSE IF r.hash = s[l].hash THEN "INTACT" ELSE "HASH_MODIFIED"
      [] base = "raw_hash" -> IF ContentLeaf(l, r) = r.hash THEN "INTACT" ELSE "CONTENT_MODIFIED"
      [] OTHER -> "UNKNOWN"

HasProof(l) == mapped[l] # NoBatch /\ rows[l] # NoRow

\* verified is "unknown" (null) when the chain has no root to compare with.
ProofOf(l) ==
    LET b == mapped[l]
        leaves == ContentLeaves(LogsOf(b))
        target == ContentLeaf(l, rows[l])
        proof == GetProof(leaves, target)
    IN  [log |-> l, batch |-> b, leaf |-> IndexOf(leaves, target), proof |-> proof,
         verified |-> IF ~IsRoot(ChainRead(b)) THEN "unknown"
                      ELSE IF VerifyProof(target, proof, chain[b]) THEN "yes" ELSE "no"]

TreeOf(b) ==
    LET leaves == StoredLeaves(LogsOf(b))
    IN  [batch |-> b, layers |-> IF leaves = <<>> THEN <<>> ELSE Layers(leaves),
         root |-> RootOrNull(leaves)]

-----------------------------------------------------------------------------
(* A batch is sealed *)

NotAsked == [pc |-> "idle", batch |-> "none", bt |-> <<>>, snaps |-> <<>>, logs |-> <<>>,
             chain |-> <<>>, since |-> "none", answer |-> "none"]

\* The batches of Sealed(b) are there from the start.
InitWith(done) ==
    /\ rows = AsIngested
    /\ mapped = [l \in Logs |-> IF \E b \in done : l \in Members[b]
                                THEN CHOOSE b \in done : l \in Members[b] ELSE NoBatch]
    /\ snaps = [b \in Batches |-> IF b \in done THEN Originals[b] ELSE <<>>]
    /\ batch = [b \in Batches |-> [root |-> SealedRoot[b], tx |-> b \in done,
                                   status |-> IF b \in done THEN "CONFIRMED" ELSE "none"]]
    /\ chain = [b \in Batches |-> IF b \in done THEN SealedRoot[b] ELSE Zero]
    /\ rpc = TRUE /\ edits = 0 /\ ask = NotAsked
    /\ may \in Scenarios

Created(b) ==
    /\ "seal" \in may /\ batch[b].status = "none"
    /\ batch' = [batch EXCEPT ![b].status = "PENDING"]
    /\ UNCHANGED <<rows, mapped, snaps, chain, rpc, edits, may, ask>>

\* The transaction of storeRoot is mined: while the batch is being sealed, or later.
Mined(b) ==
    /\ "seal" \in may /\ batch[b].status \in {"PENDING", "SEALED", "UNVERIFIED"} /\ chain[b] = Zero
    /\ chain' = [chain EXCEPT ![b] = SealedRoot[b]]
    /\ UNCHANGED <<stored, rpc, edits, may, ask>>

\* Status, mapping and snapshots in one transaction, of the logs as they were when the tree was built.
Commit(b, status, tx) ==
    /\ batch[b].status = "PENDING"
    /\ batch' = [batch EXCEPT ![b].status = status, ![b].tx = tx]
    /\ mapped' = [l \in Logs |-> IF l \in Members[b] THEN b ELSE mapped[l]]
    /\ snaps' = [snaps EXCEPT ![b] = Originals[b]]
    /\ UNCHANGED <<rows, chain, rpc, edits, may, ask>>

Confirm(b) == IsRoot(chain[b]) /\ Commit(b, "CONFIRMED", TRUE)
Defer(b) == "defer" \in may /\ Commit(b, "UNVERIFIED", TRUE)
SealWithoutAnchor(b) == "defer" \in may /\ ~IsRoot(chain[b]) /\ Commit(b, "SEALED", FALSE)

\* The transaction, or the commit after it, fails: FAILED has no mapping.
SealFails(b) ==
    /\ "fail" \in may /\ batch[b].status = "PENDING"
    /\ \E tx \in {FALSE, IsRoot(chain[b])} :
          batch' = [batch EXCEPT ![b].status = "FAILED", ![b].tx = tx]
    /\ UNCHANGED <<rows, mapped, snaps, chain, rpc, edits, may, ask>>

\* A verify round finds the root, or anchors a batch sealed without a chain.
ConfirmLater(b) ==
    /\ batch[b].status \in {"SEALED", "UNVERIFIED"} /\ IsRoot(chain[b])
    /\ batch' = [batch EXCEPT ![b].status = "CONFIRMED", ![b].tx = TRUE]
    /\ UNCHANGED <<rows, mapped, snaps, chain, rpc, edits, may, ask>>

-----------------------------------------------------------------------------
(* Changes made outside the program *)

\* While somebody looks at the Verify page or at a drawer there is one change at most, and none
\* of created_at (bounds).
Watched == may \cap {"view", "drawer", "batches"} # {}
Edit(k) == /\ k \in may /\ edits' = edits + 1
           /\ edits < IF Watched THEN 1 ELSE MaxEdits

RowEdits(l) ==
    LET contents == [text : {Text[l], <<"other", l>>}, time : IF Watched THEN {0} ELSE {0, 1},
                     hash : {<<"none">>}]
    IN  {NoRow} \cup {[r EXCEPT !.hash = h] : r \in contents,
                          h \in {AsIngested[l].hash, Junk}}
                \cup {[r EXCEPT !.hash = HashV2(l, r)] : r \in contents}

EditRow(l) ==
    /\ Edit("rows") /\ \E b \in Batches : l \in Members[b] /\ batch[b].status # "none"
    /\ \E r \in RowEdits(l) \ {rows[l]} : rows' = [rows EXCEPT ![l] = r]
    /\ UNCHANGED <<mapped, snaps, batch, chain, rpc, may, ask>>

EditMapping(l) ==
    /\ Edit("mapping")
    /\ \E b \in (Batches \cup {NoBatch}) \ {mapped[l]} : mapped' = [mapped EXCEPT ![l] = b]
    /\ UNCHANGED <<rows, snaps, batch, chain, rpc, may, ask>>

\* A snapshot is changed or deleted, or all of them are.
EditSnapshot(b, l) ==
    /\ Edit("snapshots")
    /\ l \in DOMAIN snaps[b]
    /\ \/ \E r \in RowEdits(l) \ {NoRow, snaps[b][l]} : snaps' = [snaps EXCEPT ![b][l] = r]
       \/ snaps' = [snaps EXCEPT ![b] = [k \in DOMAIN snaps[b] \ {l} |-> snaps[b][k]]]
       \/ snaps' = [snaps EXCEPT ![b] = <<>>]
    /\ UNCHANGED <<rows, mapped, batch, chain, rpc, may, ask>>

EditRoot(b) ==
    /\ Edit("root")
    /\ \E root \in {SealedRoot[b], RootOrNull(StoredLeaves(LogsOf(b))), Junk} \ {batch[b].root, NoRoot} :
          batch' = [batch EXCEPT ![b].root = root]
    /\ UNCHANGED <<rows, mapped, snaps, chain, rpc, may, ask>>

\* The node is out of reach, or back.
Rpc ==
    /\ Edit("rpc") /\ rpc' = ~rpc
    /\ UNCHANGED <<stored, chain, may, ask>>

-----------------------------------------------------------------------------
(* GET /batches/:id/diff, query by query: the batch first, then snapshots, *)
(* logs and chain at once, at last the rows of the logs that are missing   *)

AskDiff(b) ==
    /\ "ask" \in may /\ ask.pc \in {"idle", "done"} /\ batch[b].status # "none"
    /\ ask' = [NotAsked EXCEPT !.pc = "reading", !.batch = b, !.bt = batch[b],
                               !.since = batch[b].status]
    /\ UNCHANGED <<stored, chain, rpc, edits, may>>

Unread == <<>>
Reads(k, value) ==
    /\ ask.pc = "reading" /\ ask[k] = Unread
    /\ ask' = [ask EXCEPT ![k] = <<value>>]
    /\ UNCHANGED <<stored, chain, rpc, edits, may>>

ReadSnapshots == Reads("snaps", snaps[ask.batch])
ReadLogs == Reads("logs", LogsOf(ask.batch))
ReadChain == Reads("chain", ChainRead(ask.batch))

AnswerDiff ==
    /\ ask.pc = "reading" /\ Unread \notin {ask.snaps, ask.logs, ask.chain}
    /\ LET d == DiffOf(ask.bt, ask.snaps[1], ask.logs[1], ask.chain[1], Present)
       IN  ask' = [NotAsked EXCEPT !.pc = "done", !.batch = ask.batch, !.since = ask.since,
                                   !.chain = ask.chain, !.answer = d.verdict]
    /\ UNCHANGED <<stored, chain, rpc, edits, may>>

EvidenceNext ==
    \/ \E b \in Batches : \/ Created(b) \/ Mined(b) \/ Confirm(b) \/ Defer(b)
                          \/ SealWithoutAnchor(b) \/ SealFails(b) \/ ConfirmLater(b)
                          \/ EditRoot(b) \/ AskDiff(b)
                          \/ \E l \in Logs : EditSnapshot(b, l)
    \/ \E l \in Logs : EditRow(l) \/ EditMapping(l)
    \/ Rpc \/ ReadSnapshots \/ ReadLogs \/ ReadChain \/ AnswerDiff

-----------------------------------------------------------------------------
(* Properties *)

EvidenceTypeOK ==
    /\ \A l \in Logs : rows[l] \in RowEdits(l) /\ mapped[l] \in Batches \cup {NoBatch}
    /\ \A b \in Batches :
          /\ DOMAIN snaps[b] \subseteq Members[b]
          /\ batch[b].status \in {"none", "PENDING", "SEALED", "UNVERIFIED", "CONFIRMED", "TAMPERED", "FAILED"}
          /\ chain[b] \in {Zero, SealedRoot[b]}
    /\ edits \in 0 .. MaxEdits
    /\ ask.answer \in {"none", "INTACT", "TAMPERED", "UNVERIFIABLE"}

Modern(b) == (Members[b] \cup {l \in Logs : mapped[l] = b}) \cap Legacy = {}
SameContent(l) == rows[l].text = AsIngested[l].text /\ rows[l].time = AsIngested[l].time
Found(d, type) == {c.log : c \in {k \in d.changes : k.type = type}}

\* Whatever was changed in the database: a diff against the chain says INTACT exactly when rows,
\* mapping and root are those that were sealed and the snapshots too or all gone; and when it names
\* changes, it names every log that was changed, and how, and no other (BatchDiffService.diff).
DiffIsExact ==
    \A b \in Batches : IsRoot(ChainRead(b)) /\ batch[b].status \in {"CONFIRMED", "TAMPERED"} /\ Modern(b) =>
        LET d == Diff(b)
            kept == {l \in Members[b] : rows[l] # NoRow /\ mapped[l] = b}
            changed == {l \in kept : ~SameContent(l)}
        IN  /\ d.verdict = "INTACT" <=> /\ LogsOf(b) = Originals[b] /\ batch[b].root = SealedRoot[b]
                                        /\ snaps[b] \in {Originals[b], <<>>}
            /\ d.baseline \in {"snapshot", "raw_hash"} =>
                  /\ Found(d, "CONTENT_MODIFIED") = changed
                  /\ Found(d, "HASH_MODIFIED") = {l \in kept \ changed : rows[l].hash # AsIngested[l].hash}
                  /\ Found(d, "ROW_MISSING") = {l \in Members[b] : rows[l] = NoRow}
                  /\ Found(d, "MAPPING_MISSING") = {l \in Members[b] \ kept : rows[l] # NoRow}
                  /\ Found(d, "UNMAPPED_OR_INSERTED") = DOMAIN LogsOf(b) \ Members[b]

\* The proof of a log chooses its baseline apart from the diff of its batch, not quite "as in
\* GET /batches/:id/diff" (integrity.service.ts:1202): it reads the snapshots without an order (:1208).
\* In whatever order that is, the two never contradict each other:
\* a log has the label the diff gives it, or UNKNOWN; that only where the diff rests on the snapshots
\* alone, and not in every order, but for a log that was inserted.  A batch called INTACT has proofs
\* that verify, and a proof that verifies is that of unchanged content
\* (IntegrityService.getProofForLog, BatchDiffService.diff).
ProofAgreesWithDiff ==
    \A b \in Batches : IsRoot(ChainRead(b)) /\ Modern(b) =>
        LET d == Diff(b)
            bases == ProofBaselines(b)
            Inserted(l) == l \in Found(d, "UNMAPPED_OR_INSERTED")
        IN
        \A l \in DOMAIN LogsOf(b) :
            LET verified == ProofOf(l).verified
                labels == {Label(l, base) : base \in bases}
            IN  /\ d.baseline \in {"snapshot", "raw_hash"} =>
                      \A label \in labels \ {"UNKNOWN"} :
                         /\ ~Inserted(l)
                         /\ \A type \in {"CONTENT_MODIFIED", "HASH_MODIFIED"} :
                               label = type <=> l \in Found(d, type)
                /\ d.baseline = "raw_hash" => "UNKNOWN" \notin labels
                /\ d.baseline = "snapshot" /\ ~Inserted(l) => labels # {"UNKNOWN"}
                /\ d.verdict = "INTACT" => verified = "yes" /\ labels = {"INTACT"}
                /\ verified = "yes" => SameContent(l) /\ l \in Members[b]

\* A diff that was asked for once its batch was sealed never calls a batch TAMPERED that nobody
\* touched, whatever the verify rounds, the chain and the node do while it reads, rows with a hash
\* of version 1 included (the reads of BatchDiffService.diff are not one transaction).
UntouchedIsNeverAccused ==
    may \cap {"rows", "mapping", "snapshots", "root"} = {}
        /\ ask.since \in {"SEALED", "UNVERIFIED", "CONFIRMED"} => ask.answer # "TAMPERED"

=============================================================================
