------------------------------ MODULE Integrity ------------------------------
(***************************************************************************)
(* IntegrityService: sealing pending logs into batches, anchoring a        *)
(* batch's Merkle root on the chain, and the verify rounds that look for   *)
(* rows changed after sealing.                                             *)
(*                                                                         *)
(* A step is what happens between two awaits that matter: a database       *)
(* transaction, a call to the chain, a read whose result is used later.    *)
(* The callers of sealBatch (cron, POST seal-now) share sealQueue; the     *)
(* verify rounds (cron every minute, POST verify-now) have no such guard   *)
(* and may overlap.  A round works on copies of the batch rows, read when  *)
(* a phase begins, and save() writes every column of the copy back.        *)
(***************************************************************************)
EXTENDS LogIntegrity

CONSTANTS Callers,      \* who may call sealBatch
          Rounds,       \* verify rounds that may be in progress together
          BatchSize,    \* SEAL_BATCH_SIZE
          AutoReanchor, \* INTEGRITY_AUTO_REANCHOR = true
          Configured,   \* key and contract address are set
          Edits,        \* states an intruder or a restore may put a row in, and
                        \* "close" if an analyst may close alerts by hand
          MaxEdits,     \* bound: number of such edits
          Faults,       \* kinds of failure that may happen
          MaxFaults     \* bound: number of failures

FaultKinds == {"crash",  \* the backend process dies and restarts
               "db",     \* a query or a transaction fails, nothing written
               "ack",    \* a transaction commits, its COMMIT is reported as failed
               "rpc",    \* an RPC call fails (the request may have arrived)
               "funds",  \* checkWalletBalance finds the wallet too low
               "drop",   \* a broadcast transaction never lands
               "reset"}  \* the chain forgets its roots

ASSUME IntegrityConstants ==
    /\ BatchSize \in Nat \ {0}
    /\ AutoReanchor \in BOOLEAN /\ Configured \in BOOLEAN
    /\ Edits \subseteq (RowStates \ {"none"}) \cup {"close"}
    /\ Faults \subseteq FaultKinds
    /\ MaxEdits \in Nat /\ MaxFaults \in Nat

VARIABLES
    row,      \* table logs
    mapping,  \* table log_batch_mapping: the batch of a log, or NoBatch
    status,   \* batches.status, "none" while there is no such row
    root,     \* batches.merkle_root
    tx,       \* batches.tx_hash
    alert,    \* batches with an OPEN INTEGRITY_TAMPERED alert
    ready,    \* blockchain.ready
    seal,     \* progress of each call of sealBatch
    round,    \* progress of each verify round
    edits, faults   \* how often the environment interfered so far

dbVars   == <<row, mapping, status, root, tx, alert>>
envVars  == <<edits, faults>>
vars     == <<dbVars, chainVars, ready, seal, round, envVars>>

Live     == {"SEALED", "UNVERIFIED", "CONFIRMED", "TAMPERED"}
Statuses == Live \cup {"none", "PENDING", "FAILED"}

LogsOf(b) == {l \in Logs : mapping[l] = b}

\* A batch entity in memory; merkleRoot and logCount never change after the insert.
Entity == [batch : Batches, status : Live, tx : Txs \cup {NoTx}]

NoEntity == [batch |-> NoBatch, status |-> "none", tx |-> NoTx]

SealIdle  == [pc |-> "idle", logs |-> {}, root |-> NoRoot, batch |-> NoBatch, tx |-> NoTx]
RoundIdle == [pc |-> "idle", todo |-> {}, cur |-> NoEntity, tx |-> NoTx,
              seen |-> NoRoot, modified |-> FALSE, verdict |-> "none"]

SealRecord == [pc    : {"idle", "picked", "created", "sent", "failed"},
               logs  : SUBSET Logs,
               root  : Roots \cup {NoRoot},
               batch : Batches \cup {NoBatch},
               tx    : Txs \cup {NoTx}]

Verdicts == {"none", "good", "bad", "missing", "localGood", "localBad"}

RoundRecord == [pc       : {"idle", "anchor", "anchorWait", "reanchor", "reanchorSend",
                            "reanchorWait", "verify", "check", "raise", "insert",
                            "settle", "resolve"},
                todo     : SUBSET Entity,
                cur      : Entity \cup {NoEntity},
                tx       : Txs \cup {NoTx},
                seen     : Roots \cup {NoRoot},
                modified : BOOLEAN,
                verdict  : Verdicts]

TypeOK ==
    /\ ChainTypeOK
    /\ row \in [Logs -> RowStates]
    /\ mapping \in [Logs -> Batches \cup {NoBatch}]
    /\ status \in [Batches -> Statuses]
    /\ root \in [Batches -> Roots \cup {NoRoot}]
    /\ tx \in [Batches -> Txs \cup {NoTx}]
    /\ alert \in SUBSET Batches
    /\ ready \in BOOLEAN
    /\ seal \in [Callers -> SealRecord]
    /\ round \in [Rounds -> RoundRecord]
    /\ edits \in 0 .. MaxEdits
    /\ faults \in 0 .. MaxFaults

Init ==
    /\ ChainInit
    /\ row = [l \in Logs |-> "none"]
    /\ mapping = [l \in Logs |-> NoBatch]
    /\ status = [b \in Batches |-> "none"]
    /\ root = [b \in Batches |-> NoRoot]
    /\ tx = [b \in Batches |-> NoTx]
    /\ alert = {}
    /\ ready = FALSE
    /\ seal = [c \in Callers |-> SealIdle]
    /\ round = [v \in Rounds |-> RoundIdle]
    /\ edits = 0
    /\ faults = 0

Fault(k) ==
    /\ k \in Faults
    /\ faults < MaxFaults
    /\ faults' = faults + 1
    /\ UNCHANGED edits

-----------------------------------------------------------------------------
(* Environment *)

\* LogService.ingest inserts a row.  created_at is taken before the insert, so a
\* log may become visible after a younger one.
Ingest(l) ==
    /\ row[l] = "none"
    /\ row' = [row EXCEPT ![l] = "ok"]
    /\ UNCHANGED <<mapping, status, root, tx, alert, chainVars, ready, seal, round, envVars>>

\* Somebody changes, deletes or restores a row with the triggers out of the way.
EditRow(l, s) ==
    /\ s # "close"
    /\ edits < MaxEdits
    /\ row[l] \notin {"none", s}
    /\ row' = [row EXCEPT ![l] = s]
    /\ edits' = edits + 1
    /\ UNCHANGED <<mapping, status, root, tx, alert, chainVars, ready, seal, round, faults>>

\* AlertsService.resolve: an analyst closes the alert, whatever the batch looks like.
CloseAlert(b) ==
    /\ "close" \in Edits
    /\ edits < MaxEdits
    /\ b \in alert
    /\ alert' = alert \ {b}
    /\ edits' = edits + 1
    /\ UNCHANGED <<row, mapping, status, root, tx, chainVars, ready, seal, round, faults>>

\* BlockchainService.connect succeeds; isReady is never taken back.
Connect ==
    /\ Configured /\ ~ready
    /\ ready' = TRUE
    /\ UNCHANGED <<dbVars, chainVars, seal, round, envVars>>

Network ==
    /\ \/ \E t \in Txs : Mine(t) /\ UNCHANGED envVars
       \/ \E t \in Txs : Drop(t) /\ Fault("drop")
       \/ Reset /\ Fault("reset")
    /\ UNCHANGED <<dbVars, ready, seal, round>>

\* The process dies: everything in memory is gone, the tables and the chain stay.
Crash ==
    /\ Fault("crash")
    /\ ready' = FALSE
    /\ seal' = [c \in Callers |-> SealIdle]
    /\ round' = [v \in Rounds |-> RoundIdle]
    /\ UNCHANGED <<dbVars, chainVars>>

\* The transactions somebody in the process is waiting for.
Awaited == {seal[c].tx : c \in Callers} \cup {round[v].tx : v \in Rounds}

-----------------------------------------------------------------------------
(* sealBatch *)

\* Mutant: calls do not queue.
SealQueueFree_Unqueued == TRUE

\* sealQueue: a call starts when the one before it has ended, well or badly.
SealQueueFree == \A c \in Callers : seal[c].pc = "idle"

\* Mutant: rows are picked whether mapped or not.
PendingLogs_AllRows == {l \in Logs : Present(row[l])}

\* Mutant: rows that do not hash to their own raw_hash are left out.
PendingLogs_OnlyIntact == {l \in Logs : IsRawHashIntact(row[l]) /\ mapping[l] = NoBatch}

\* The unmapped rows, oldest first, at most one batch of them.
PendingLogs == {l \in Logs : Present(row[l]) /\ mapping[l] = NoBatch}

SealPick(c) ==
    /\ SealQueueFree
    /\ PendingLogs # {}
    /\ LET picked == Oldest(PendingLogs, BatchSize)
       IN  seal' = [seal EXCEPT ![c] = [SealIdle EXCEPT !.pc   = "picked",
                                                        !.logs = picked,
                                                        !.root = RootOf(row, picked)]]
    /\ UNCHANGED <<dbVars, chainVars, ready, round, envVars>>

\* checkWalletBalance throws SealSkippedError, or the insert fails: nothing was written.
SealSkip(c) ==
    /\ seal[c].pc = "picked"
    /\ \E k \in {"funds", "db"} : Fault(k)
    /\ seal' = [seal EXCEPT ![c] = SealIdle]
    /\ UNCHANGED <<dbVars, chainVars, ready, round>>

\* The PENDING row.  Scoring by the Isolation Forest adds if_* columns and never throws.
SealCreate(c) ==
    /\ seal[c].pc = "picked"
    /\ \E b \in Batches :
         /\ status[b] = "none"
         /\ \A a \in Batches : a < b => status[a] # "none"
         /\ status' = [status EXCEPT ![b] = "PENDING"]
         /\ root' = [root EXCEPT ![b] = seal[c].root]
         /\ seal' = [seal EXCEPT ![c].pc = "created", ![c].batch = b]
    /\ UNCHANGED <<row, mapping, tx, alert, chainVars, ready, round, envVars>>

\* writeMappingAndSnapshot: status, tx_hash, mapping (save() of a row with its key
\* set is an upsert) and snapshot in one transaction.
WriteMapping(c, s) ==
    LET b == seal[c].batch IN
    /\ status' = [status EXCEPT ![b] = s]
    /\ tx' = [tx EXCEPT ![b] = seal[c].tx]
    /\ mapping' = [l \in Logs |-> IF l \in seal[c].logs THEN b ELSE mapping[l]]
    /\ UNCHANGED <<row, root, alert>>

SealWithoutAnchor(c) ==
    /\ seal[c].pc = "created"
    /\ ~ready
    /\ WriteMapping(c, "SEALED")
    /\ seal' = [seal EXCEPT ![c] = SealIdle]
    /\ UNCHANGED <<chainVars, ready, round, envVars>>

\* ... and when it fails sealBatchNow throws: the row stays PENDING.
SealWithoutAnchorFails(c) ==
    /\ seal[c].pc = "created"
    /\ ~ready
    /\ Fault("db")
    /\ seal' = [seal EXCEPT ![c] = SealIdle]
    /\ UNCHANGED <<dbVars, chainVars, ready, round>>

\* storeRoot for the new batch: the transaction is broadcast and its hash known.
SealSend(c) ==
    /\ seal[c].pc = "created"
    /\ ready
    /\ \E t \in Txs :
         /\ Submit(t, seal[c].batch, root[seal[c].batch], Awaited)
         /\ seal' = [seal EXCEPT ![c].pc = "sent", ![c].tx = t]
    /\ UNCHANGED <<dbVars, ready, round, envVars>>

\* storeRoot throws before returning a hash; the request may have arrived all the same.
SealSendFails(c) ==
    /\ seal[c].pc = "created"
    /\ ready
    /\ Fault("rpc")
    /\ \/ UNCHANGED chainVars
       \/ \E t \in Txs : Submit(t, seal[c].batch, root[seal[c].batch], Awaited)
    /\ seal' = [seal EXCEPT ![c].pc = "failed"]
    /\ UNCHANGED <<dbVars, ready, round>>

\* tx.wait returned a receipt: confirmBatch.
SealConfirm(c) ==
    /\ seal[c].pc = "sent"
    /\ Mined(seal[c].tx)
    /\ WriteMapping(c, "CONFIRMED")
    /\ seal' = [seal EXCEPT ![c] = SealIdle]
    /\ UNCHANGED <<chainVars, ready, round, envVars>>

\* tx.wait timed out or could not ask, whatever became of it: deferConfirmation.
SealDefer(c) ==
    /\ seal[c].pc = "sent"
    /\ WriteMapping(c, "UNVERIFIED")
    /\ seal' = [seal EXCEPT ![c] = SealIdle]
    /\ UNCHANGED <<chainVars, ready, round, envVars>>

\* tx.wait reports that the transaction was replaced: the hash is not kept.
SealLost(c) ==
    /\ seal[c].pc = "sent"
    /\ Lost(seal[c].tx)
    /\ seal' = [seal EXCEPT ![c].pc = "failed", ![c].tx = NoTx]
    /\ UNCHANGED <<dbVars, chainVars, ready, round, envVars>>

\* The transaction of confirmBatch or deferConfirmation is reported as failed.
SealCommitFails(c) ==
    /\ seal[c].pc = "sent"
    /\ \/ Fault("db") /\ UNCHANGED dbVars
       \/ Fault("ack") /\ Mined(seal[c].tx) /\ WriteMapping(c, "CONFIRMED")
       \/ Fault("ack") /\ WriteMapping(c, "UNVERIFIED")
    /\ seal' = [seal EXCEPT ![c].pc = "failed"]
    /\ UNCHANGED <<chainVars, ready, round>>

\* The catch of sealBatchNow: status FAILED, with the hash if there is one.
SealFailed(c) ==
    /\ seal[c].pc = "failed"
    /\ status' = [status EXCEPT ![seal[c].batch] = "FAILED"]
    /\ tx' = [tx EXCEPT ![seal[c].batch] = seal[c].tx]
    /\ seal' = [seal EXCEPT ![c] = SealIdle]
    /\ UNCHANGED <<row, mapping, root, alert, chainVars, ready, round, envVars>>

\* ... and if that save fails too, the row stays as it is.
SealFailedFails(c) ==
    /\ seal[c].pc = "failed"
    /\ Fault("db")
    /\ seal' = [seal EXCEPT ![c] = SealIdle]
    /\ UNCHANGED <<dbVars, chainVars, ready, round>>

SealStep(c) ==
    \/ SealPick(c) \/ SealCreate(c) \/ SealWithoutAnchor(c) \/ SealSend(c)
    \/ SealConfirm(c) \/ SealDefer(c) \/ SealLost(c) \/ SealFailed(c)

SealFault(c) ==
    \/ SealSkip(c) \/ SealWithoutAnchorFails(c) \/ SealSendFails(c)
    \/ SealCommitFails(c) \/ SealFailedFails(c)

-----------------------------------------------------------------------------
(* handlVerify: anchorSealedBatches, reanchorUnverified, verifyAllBatches *)

\* The entities a find() by status returns.
Found(ss) == {[batch |-> b, status |-> status[b], tx |-> tx[b]] :
                  b \in {a \in Batches : status[a] \in ss}}

\* save() of an entity: every column that differs is written, older values included.
Save(e) ==
    /\ status' = [status EXCEPT ![e.batch] = e.status]
    /\ tx' = [tx EXCEPT ![e.batch] = e.tx]
    /\ UNCHANGED <<row, mapping, root, alert>>

\* Round v goes on to the next entity of the phase it is in.
Continue(v, phase) ==
    round' = [round EXCEPT ![v] = [RoundIdle EXCEPT !.pc = phase, !.todo = round[v].todo]]

\* Entity e is dealt with in this phase.
Done(v, e) == round' = [round EXCEPT ![v].todo = @ \ {e}]

\* Entity e becomes the current one and the round waits for something in phase p.
Take(v, e, p) == [round[v] EXCEPT !.pc = p, !.cur = e, !.todo = round[v].todo \ {e}]

\* Nothing keeps a cron tick from starting while an earlier round is still busy.
StartRound(v) ==
    /\ round[v].pc = "idle"
    /\ round' = [round EXCEPT ![v] =
                   [RoundIdle EXCEPT !.pc = "anchor",
                                     !.todo = IF ready THEN Found({"SEALED"}) ELSE {}]]
    /\ UNCHANGED <<dbVars, chainVars, ready, seal, envVars>>

\* POST verify-now does the same but anchors nothing.
StartVerifyNow(v) ==
    /\ round[v].pc = "idle"
    /\ round' = [round EXCEPT ![v] = [RoundIdle EXCEPT !.pc = "anchor"]]
    /\ UNCHANGED <<dbVars, chainVars, ready, seal, envVars>>

AnchorSend(v) ==
    /\ round[v].pc = "anchor"
    /\ \E e \in round[v].todo, t \in Txs :
         /\ Submit(t, e.batch, root[e.batch], Awaited)
         /\ round' = [round EXCEPT ![v] = [Take(v, e, "anchorWait") EXCEPT !.tx = t]]
    /\ UNCHANGED <<dbVars, ready, seal, envVars>>

\* Any error but `Root already exists': the batch stays SEALED until the next round.
AnchorSendFails(v) ==
    /\ round[v].pc = "anchor"
    /\ Fault("rpc")
    /\ \E e \in round[v].todo :
         /\ Done(v, e)
         /\ \/ UNCHANGED chainVars
            \/ \E t \in Txs : Submit(t, e.batch, root[e.batch], Awaited)
    /\ UNCHANGED <<dbVars, ready, seal>>

\* `Root already exists' and checkRoot says MATCH: confirm with the copy's tx_hash.
AnchorAdopt(v) ==
    /\ round[v].pc = "anchor"
    /\ \E e \in round[v].todo :
         /\ ~CanSend(e.batch)
         /\ CheckRoot(e.batch, root[e.batch]) = "MATCH"
         /\ Save([e EXCEPT !.status = "CONFIRMED"])
         /\ Done(v, e)
    /\ UNCHANGED <<chainVars, ready, seal, envVars>>

AnchorConfirm(v) ==
    /\ round[v].pc = "anchorWait"
    /\ Mined(round[v].tx)
    /\ Save([round[v].cur EXCEPT !.status = "CONFIRMED", !.tx = round[v].tx])
    /\ Continue(v, "anchor")
    /\ UNCHANGED <<chainVars, ready, seal, envVars>>

AnchorDefer(v) ==
    /\ round[v].pc = "anchorWait"
    /\ Save([round[v].cur EXCEPT !.status = "UNVERIFIED", !.tx = round[v].tx])
    /\ Continue(v, "anchor")
    /\ UNCHANGED <<chainVars, ready, seal, envVars>>

\* Reverted, replaced, or the save failed: logged, nothing written.
AnchorSkip(v) ==
    /\ round[v].pc = "anchorWait"
    /\ \/ Lost(round[v].tx) /\ UNCHANGED envVars
       \/ Fault("db")
    /\ Continue(v, "anchor")
    /\ UNCHANGED <<dbVars, chainVars, ready, seal>>

StartReanchor(v) ==
    /\ round[v].pc = "anchor"
    /\ round[v].todo = {}
    /\ round' = [round EXCEPT ![v] =
                   [RoundIdle EXCEPT !.pc = "reanchor",
                                     !.todo = IF ready /\ AutoReanchor
                                              THEN Found({"UNVERIFIED"}) ELSE {}]]
    /\ UNCHANGED <<dbVars, chainVars, ready, seal, envVars>>

\* Mutant: what is missing is left alone and the rest is sent.
ReanchorCheck_Swapped(v) ==
    /\ round[v].pc = "reanchor"
    /\ \E e \in round[v].todo :
         IF CheckRoot(e.batch, root[e.batch]) # "MISSING"
         THEN round' = [round EXCEPT ![v] = Take(v, e, "reanchorSend")]
         ELSE Done(v, e)
    /\ UNCHANGED <<dbVars, chainVars, ready, seal, envVars>>

\* checkRoot of an UNVERIFIED batch: only MISSING is sent again.
ReanchorCheck(v) ==
    /\ round[v].pc = "reanchor"
    /\ \E e \in round[v].todo :
         IF CheckRoot(e.batch, root[e.batch]) = "MISSING"
         THEN round' = [round EXCEPT ![v] = Take(v, e, "reanchorSend")]
         ELSE Done(v, e)
    /\ UNCHANGED <<dbVars, chainVars, ready, seal, envVars>>

\* Mutant: the root is computed again from the rows as they are now.
ReanchorSend_Recomputed(v) ==
    /\ round[v].pc = "reanchorSend"
    /\ LET b == round[v].cur.batch IN
       \/ \E t \in Txs :
            /\ Submit(t, b, RootOf(row, LogsOf(b)), Awaited)
            /\ round' = [round EXCEPT ![v].pc = "reanchorWait", ![v].tx = t]
       \/ /\ ~CanSend(b)
          /\ Continue(v, "reanchor")
          /\ UNCHANGED chainVars
    /\ UNCHANGED <<dbVars, ready, seal, envVars>>

ReanchorSend(v) ==
    /\ round[v].pc = "reanchorSend"
    /\ LET b == round[v].cur.batch IN
       \/ \E t \in Txs :
            /\ Submit(t, b, root[b], Awaited)
            /\ round' = [round EXCEPT ![v].pc = "reanchorWait", ![v].tx = t]
       \/ /\ ~CanSend(b)
          /\ Continue(v, "reanchor")
          /\ UNCHANGED chainVars
    /\ UNCHANGED <<dbVars, ready, seal, envVars>>

\* checkRoot or storeRoot fails: logged, on to the next.
ReanchorFails(v) ==
    /\ Fault("rpc")
    /\ \/ /\ round[v].pc = "reanchor"
          /\ \E e \in round[v].todo : Done(v, e)
          /\ UNCHANGED chainVars
       \/ /\ round[v].pc = "reanchorSend"
          /\ Continue(v, "reanchor")
          /\ LET b == round[v].cur.batch IN
             \/ UNCHANGED chainVars
             \/ \E t \in Txs : Submit(t, b, root[b], Awaited)
    /\ UNCHANGED <<dbVars, ready, seal>>

\* Mined or not known: the new hash replaces the old one, the status is the copy's.
ReanchorSave(v) ==
    /\ round[v].pc = "reanchorWait"
    /\ Save([round[v].cur EXCEPT !.tx = round[v].tx])
    /\ Continue(v, "reanchor")
    /\ UNCHANGED <<chainVars, ready, seal, envVars>>

ReanchorSkip(v) ==
    /\ round[v].pc = "reanchorWait"
    /\ \/ Lost(round[v].tx) /\ UNCHANGED envVars
       \/ Fault("db")
    /\ Continue(v, "reanchor")
    /\ UNCHANGED <<dbVars, chainVars, ready, seal>>

\* Mutant: a batch known to be TAMPERED is not looked at again.
StartVerify_SkipsTampered(v) ==
    /\ round[v].pc = "reanchor"
    /\ round[v].todo = {}
    /\ round' = [round EXCEPT ![v] = [RoundIdle EXCEPT !.pc = "verify",
                                                     !.todo = Found(Live \ {"TAMPERED"})]]
    /\ UNCHANGED <<dbVars, chainVars, ready, seal, envVars>>

StartVerify(v) ==
    /\ round[v].pc = "reanchor"
    /\ round[v].todo = {}
    /\ round' = [round EXCEPT ![v] = [RoundIdle EXCEPT !.pc = "verify", !.todo = Found(Live)]]
    /\ UNCHANGED <<dbVars, chainVars, ready, seal, envVars>>

\* getLogsForBatch, buildTree, isRawHashIntact.
VerifyRead(v) ==
    /\ round[v].pc = "verify"
    /\ \E e \in round[v].todo :
         round' = [round EXCEPT ![v] =
                     [Take(v, e, "check") EXCEPT
                         !.seen = RootOf(row, LogsOf(e.batch)),
                         !.modified = Modified(row, LogsOf(e.batch)) # {}]]
    /\ UNCHANGED <<dbVars, chainVars, ready, seal, envVars>>

LocalVerdict(v) ==
    IF round[v].seen # root[round[v].cur.batch] \/ round[v].modified
    THEN "localBad" ELSE "localGood"

ChainVerdict(v) ==
    LET check == CheckRoot(round[v].cur.batch, round[v].seen) IN
    IF check = "MISMATCH" \/ round[v].modified THEN "bad"
    ELSE IF check = "MISSING" THEN "missing" ELSE "good"

\* A SEALED batch, or no chain to ask: verifyLocally.  Else checkRoot decides, and
\* the batch is verified locally after all if that call fails.
VerifyCheck(v) ==
    /\ round[v].pc = "check"
    /\ LET conclude(w) == round' = [round EXCEPT ![v] =
               [@ EXCEPT !.verdict = w, !.seen = NoRoot, !.modified = FALSE,
                         !.pc = IF w \in {"bad", "localBad"} THEN "raise" ELSE "settle"]]
       IN  IF round[v].cur.status = "SEALED" \/ ~ready
           THEN conclude(LocalVerdict(v)) /\ UNCHANGED envVars
           ELSE \/ conclude(ChainVerdict(v)) /\ UNCHANGED envVars
                \/ conclude(LocalVerdict(v)) /\ Fault("rpc")
    /\ UNCHANGED <<dbVars, chainVars, ready, seal>>

\* raiseTamperAlert looks for an OPEN alert of the batch ...
RaiseFind(v) ==
    /\ round[v].pc = "raise"
    /\ round' = [round EXCEPT ![v].pc =
                   IF round[v].cur.batch \in alert THEN "settle" ELSE "insert"]
    /\ UNCHANGED <<dbVars, chainVars, ready, seal, envVars>>

\* Mutant: an insert that fails is logged and forgotten.
RaiseInsert_Swallowed(v) ==
    /\ round[v].pc = "insert"
    /\ round' = [round EXCEPT ![v].pc = "settle"]
    /\ \/ alert' = alert \cup {round[v].cur.batch} /\ UNCHANGED envVars
       \/ Fault("db") /\ UNCHANGED alert
    /\ UNCHANGED <<row, mapping, status, root, tx, chainVars, ready, seal>>

\* ... and inserts one.  idx_alerts_open_dedup_ip refuses a second OPEN alert, and
\* the error ends the round.
RaiseInsert(v) ==
    /\ round[v].pc = "insert"
    /\ IF round[v].cur.batch \in alert
       THEN /\ round' = [round EXCEPT ![v] = RoundIdle]
            /\ UNCHANGED alert
       ELSE /\ round' = [round EXCEPT ![v].pc = "settle"]
            /\ alert' = alert \cup {round[v].cur.batch}
    /\ UNCHANGED <<row, mapping, status, root, tx, chainVars, ready, seal, envVars>>

SettleTampered(v) ==
    /\ round[v].pc = "settle"
    /\ round[v].verdict \in {"bad", "localBad"}
    /\ LET e == round[v].cur IN
       IF round[v].verdict = "localBad" /\ e.status = "TAMPERED"
       THEN UNCHANGED dbVars
       ELSE Save([e EXCEPT !.status = "TAMPERED"])
    /\ Continue(v, "verify")
    /\ UNCHANGED <<chainVars, ready, seal, envVars>>

SettleMissing(v) ==
    /\ round[v].pc = "settle"
    /\ round[v].verdict = "missing"
    /\ LET e == round[v].cur IN
       IF e.status = "UNVERIFIED" THEN UNCHANGED dbVars
                                  ELSE Save([e EXCEPT !.status = "UNVERIFIED"])
    /\ Continue(v, "verify")
    /\ UNCHANGED <<chainVars, ready, seal, envVars>>

SettleVerified(v) ==
    /\ round[v].pc = "settle"
    /\ round[v].verdict = "good"
    /\ LET e == round[v].cur IN
       IF e.status = "CONFIRMED" THEN UNCHANGED dbVars
                                 ELSE Save([e EXCEPT !.status = "CONFIRMED"])
    /\ round' = [round EXCEPT ![v].pc = "resolve"]
    /\ UNCHANGED <<chainVars, ready, seal, envVars>>

\* A batch with a tx_hash is left for the chain to judge.
SettleLocal(v) ==
    /\ round[v].pc = "settle"
    /\ round[v].verdict = "localGood"
    /\ LET e == round[v].cur IN
       IF e.tx # NoTx
       THEN Continue(v, "verify") /\ UNCHANGED dbVars
       ELSE /\ round' = [round EXCEPT ![v].pc = "resolve"]
            /\ IF e.status = "TAMPERED" THEN Save([e EXCEPT !.status = "SEALED"])
                                        ELSE UNCHANGED dbVars
    /\ UNCHANGED <<chainVars, ready, seal, envVars>>

ResolveAlerts(v) ==
    /\ round[v].pc = "resolve"
    /\ alert' = alert \ {round[v].cur.batch}
    /\ Continue(v, "verify")
    /\ UNCHANGED <<row, mapping, status, root, tx, chainVars, ready, seal, envVars>>

EndRound(v) ==
    /\ round[v].pc = "verify"
    /\ round[v].todo = {}
    /\ round' = [round EXCEPT ![v] = RoundIdle]
    /\ UNCHANGED <<dbVars, chainVars, ready, seal, envVars>>

\* An error nobody in the round catches: handlVerify logs it and the round is over.
\* checkRoot inside the catch of anchorSealedBatches is one such place.
RoundFails(v) ==
    /\ \/ /\ round[v].pc = "anchor"
          /\ \E e \in round[v].todo : ~CanSend(e.batch)
          /\ Fault("rpc")
       \/ /\ round[v].pc \in {"anchor", "reanchor"} => round[v].todo = {}
          /\ round[v].pc \notin {"idle", "anchorWait", "reanchorSend", "reanchorWait", "check"}
          /\ Fault("db")
    /\ round' = [round EXCEPT ![v] = RoundIdle]
    /\ UNCHANGED <<dbVars, chainVars, ready, seal>>

RoundStep(v) ==
    \/ StartRound(v)
    \/ AnchorSend(v) \/ AnchorAdopt(v) \/ AnchorConfirm(v) \/ AnchorDefer(v) \/ AnchorSkip(v)
    \/ StartReanchor(v) \/ ReanchorCheck(v) \/ ReanchorSend(v) \/ ReanchorSave(v) \/ ReanchorSkip(v)
    \/ StartVerify(v) \/ VerifyRead(v) \/ VerifyCheck(v) \/ RaiseFind(v) \/ RaiseInsert(v)
    \/ SettleTampered(v) \/ SettleMissing(v) \/ SettleVerified(v) \/ SettleLocal(v)
    \/ ResolveAlerts(v) \/ EndRound(v)

RoundFault(v) == AnchorSendFails(v) \/ ReanchorFails(v) \/ RoundFails(v)

-----------------------------------------------------------------------------
Next ==
    \/ \E l \in Logs : Ingest(l)
    \/ \E l \in Logs, s \in Edits : EditRow(l, s)
    \/ \E b \in Batches : CloseAlert(b)
    \/ Connect
    \/ Network
    \/ Crash
    \/ \E c \in Callers : SealStep(c) \/ SealFault(c)
    \/ \E v \in Rounds : StartVerifyNow(v) \/ RoundStep(v) \/ RoundFault(v)

Spec == Init /\ [][Next]_vars

(***************************************************************************)
(* The seal cron and the verify cron keep ticking, what they started goes  *)
(* on, connect() is retried for ever and a broadcast transaction that is   *)
(* not dropped is mined.  Nothing is assumed of the admin's POST requests, *)
(* of new logs, of edits and of failures.  Strong fairness of StartRound:  *)
(* a tick does not wait for a verify-now to leave room for it.             *)
(***************************************************************************)
Fairness ==
    /\ WF_vars(\E c \in Callers : SealStep(c))
    /\ \A v \in Rounds : WF_vars(RoundStep(v)) /\ SF_vars(StartRound(v))
    /\ WF_vars(Connect)
    /\ \A t \in Txs : WF_vars(Mine(t) /\ UNCHANGED <<dbVars, ready, seal, round, envVars>>)

FairSpec == Spec /\ Fairness

-----------------------------------------------------------------------------
(* Properties *)

(* What is wrong with a batch, seen from outside *)

Contents(b) == RootOf(row, LogsOf(b))
Altered(b)  == Contents(b) # root[b] \/ Modified(row, LogsOf(b)) # {}

\* A live batch covers exactly the logs its Merkle tree was built from, and a batch
\* that is PENDING or FAILED covers none: the status and the mapping are one
\* transaction and no second seal works on the same pending logs.
MappingMatchesTree ==
    \A b \in Batches :
        LogsOf(b) = IF status[b] \in Live THEN DOMAIN root[b] ELSE {}

\* Whatever overlapping rounds and stale copies do, a batch is CONFIRMED only if the
\* contract holds the very root the batch was sealed with.
ConfirmedIsAnchored ==
    \A b \in Batches : status[b] = "CONFIRMED" => chain[b] = root[b]

\* The contract only ever holds the root computed from the rows that were sealed: rows
\* changed before a late anchor or a re-anchor never get their own root on the chain.
AnchoredRootIsSealed ==
    \A b \in Batches : chain[b] \in {NoRoot, root[b]}

\* The batches as a ledger of the logs that arrived: see SealLedger.
Ledger == INSTANCE SealLedger WITH
              arrived <- {l \in Logs : row[l] # "none"},
              batch   <- [b \in Batches |-> LogsOf(b)]

\* Sealing puts an arrived log in one batch, a few at a time, and never takes a batch
\* apart or adds to it, whoever calls it, whatever fails and whatever is retried.
ImplementsLedger == Ledger!Spec

\* With one round at a time a batch is not left TAMPERED without an OPEN alert to tell
\* of it: the alert comes before the status and goes after it, a failure between the
\* two included.
TamperedHasAlert ==
    \A b \in Batches : status[b] = "TAMPERED" => b \in alert

\* What a round can detect without knowing what the rows used to be: rows against
\* raw_hash at any time, the set of raw_hashes against the chain if the root is there,
\* and against merkle_root only while there is no chain.
Detectable(b) ==
    /\ status[b] \in Live
    /\ \/ Modified(row, LogsOf(b)) # {}
       \/ Contents(b) # root[b] /\ (chain[b] # NoRoot \/ ~Configured)

\* Tampering that lasts ends in a batch that stays TAMPERED with an OPEN alert: rounds
\* that overlap, act on stale copies, fail halfway or have their alert closed by hand
\* are put right by a later round.
TamperStaysFlagged ==
    \A b \in Batches :
        <>[]Detectable(b) => <>[](status[b] = "TAMPERED" /\ b \in alert)

\* A batch whose rows are as they were sealed and that is on the chain, or may be sent
\* there again, ends up CONFIRMED for good, without an OPEN alert.
CleanSettles ==
    \A b \in Batches :
        <>[](status[b] \in Live /\ ~Altered(b) /\ (chain[b] # NoRoot \/ AutoReanchor))
        => <>[](status[b] = "CONFIRMED" /\ b \notin alert)

\* Every log that arrives gets into a batch, through crashes, failed anchors and
\* batches that end FAILED, unless the row is deleted first.
EventuallySealed ==
    \A l \in Logs :
        row[l] # "none" ~> (mapping[l] # NoBatch \/ row[l] = "gone")
=============================================================================
