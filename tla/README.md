# LogChain: TLA+ models and proofs

LogChain collects log lines from hosts, hashes each of them, seals them in batches under a Merkle
root, anchors the root in a smart contract, checks every minute that no row has changed since, runs
intrusion rules over the lines and shows all of it on a dashboard. This directory holds TLA+ models
of that program, the TLC instances that check them and TLAPS proofs about them. Paths below are
relative to the repository root; `integrity.service.ts` is `src/integrity/integrity.service.ts`.

    tlc -workers 2 -config IntegritySeal.cfg MCIntegrity       # a run
    tlapm IntegrityProofs.tla                                  # a proof module

## 1. Inventory

| Component | State it keeps | Operations | Hard because |
|---|---|---|---|
| Forwarder (`forwarder/`) | file positions, queue, hourly gate | tail, parse, filter, send, retry, `--stats` | rotation, full queue, threads without a lock, restart between delivery and saved position |
| Ingest (`src/logs`) | table `logs` | hash and insert a row, publish it, list rows | created_at is taken before the insert; insert and publication are two steps |
| Sealing (`integrity.service.ts`) | `batches`, `log_batch_mapping`, snapshots, `sealQueue` | `sealBatch` | several awaits between picking rows and mapping them; failures and restarts in between |
| Scheduling of seals (same file, `seal-config.ts`) | `drainInFlight`, `consecutiveFailures`, `backoffTicksLeft`, `lowBalance` | cron tick, hybrid tick, seal-now | counts read before an await and used after it; flags in memory against alerts in the database |
| Verify rounds (same file) | status and tx_hash of batches, tamper alerts | `anchorSealedBatches`, `reanchorUnverified`, `verifyAllBatches` | rounds overlap and save stale entities; alert and status are separate writes |
| Contract and network (`contracts/`) | root by batch id, mempool | `storeRoot`, `getRoot` | lost, replaced and late transactions; chain resets |
| Blockchain client (`src/blockchain`) | `ready`, send queue, nonce hint | `connect`, `storeRoot`, `checkRoot` | nodes that lag, answers that get lost, a hint that expires |
| Merkle trees, diff, tree, proof (`merkle.service.ts`, `batch-diff`, `batch-tree`) | snapshots | build, prove, compare | padding at the boundaries; three copies of what was sealed, read apart from each other |
| Kafka producer (`src/kafka`) | `kafka_pending_logs`, `hasPending`, `draining` | publish, enqueue, drain, connect | a row enqueued while the last drain ends; sent but not deleted |
| Detection (`detection/app`) | SeenIds, rule windows, key buffers | consume, evaluate, produce | marked as seen before it is evaluated, bounded memory, late events |
| Kafka consumer and alerts (`src/kafka`, `src/alerts`) | `alerts` with a unique OPEN key, mails | createOrDedup, recordRepeat, resolve | find-then-insert races, stale saves, redelivery |
| Database audit (`src/db-audit`) | `db_audit_events` | poll | alert and mark are two writes, polls overlap |
| Admin (`src/admin`) | Keycloak's users and roles | assign, remove, enable, disable | check-then-act on the last admin, tokens that outlive it |
| Erasure, access audit (`src/erasure`, `src/audit`) | `audit_access`, `erasure_log` | erase, append | rows written while a person is erased |
| Reports and statistics (`src/compliance`, `src/stats`) | none | count by day, bucket, status | two time zones, two denominators, several queries |
| Dashboard (`cylis-dashboard`) | what it last loaded | load, refresh, filter, act | answers in any order over tables that change |
| Retention, notification, Vault, health, metrics | none that others depend on | delete by age, mail, read secrets, count | deletes alerts somebody still works on |

How they interact: the forwarder posts lines, ingest writes `logs`, which sealing reads (`logs` minus
`log_batch_mapping`) and publishes to Kafka for detection, whose alerts come back through the
consumer. The scheduler calls `sealBatch` one at a time through `sealQueue`; the verify cron works on
the same `batches` rows without any lock. The contract is reached only through the blockchain client
and outlives the process. The pages of the dashboard ask the API again and again and show what came
last. What makes each component correct: no log is lost, sealed twice or left unsealed; a batch says
CONFIRMED only for what is on the chain; tampering is flagged, stays flagged, and what was not
touched is not accused; every attack ends as one alert and every alert is mailed as often as it
should; a page shows what it says it shows. `PROJECT.json` lists the places where this can go
wrong, with the property that watches each.

## 2. Modules

| Module | Models |
|---|---|
| `LogRows` | what the integrity checks can tell apart of a row, and Merkle roots as the leaves they commit to |
| `LogIntegrity` | the contract, the transactions broadcast, lost transactions, a chain reset |
| `Integrity` | `sealBatch` and the verify rounds: one action per step between two awaits |
| `SealLedger` | abstract: close a batch over logs no batch holds, never touch it again |
| `SealScheduler` | who calls `sealBatch` and when: ticks, drains, backoff, low-balance guard |
| `ChainClient` | `storeRoot` in full: send queue, nonce and hint, retries, deadline, what is known of the outcome |
| `Topics` | the Kafka topics as backend and detection share them |
| `KafkaOutbox` | insert, publish, dead-letter topic, outbox, drains, shutdown, crash |
| `LogDelivery` | abstract: a stored log is sent at least once, or set aside, or given up |
| `Detection` | the detection consumer: SeenIds, rules with their windows, sequence model, publication |
| `AlertDesk` | `createOrDedup`, `recordRepeat`, links, mails, `resolve`, deletion by retention |
| `AlertFeed` | the consumer of alerts with its offsets, and the audit poll, calling `AlertDesk` |
| `AlertCenter` | `AlertFeed` closed by an environment that publishes any of some alerts |
| `Pipeline` | `LogDelivery`, `Detection` and `AlertFeed` composed over the two topics |
| `Forwarder` | `follow_file`, the journal reader, `Gate`, `Sender`, the API behind them |
| `Parsers` | which line becomes which payload, and the counts of `--stats` |
| `Merkle` | trees, layers, proofs and their check, with hashes as terms |
| `Evidence` | diff, tree, proof and detail of a sealed batch against rows, snapshots and roots changed by hand |
| `VerifyView` | the Verify page over `Evidence` |
| `Drawers` | the log drawer and the batch drawer, over `VerifyView` |
| `Accounts` | accounts in Keycloak with the last-admin guard, erasure, and the audit trail of every request |
| `SettingsPage`, `Reports`, `DashboardPage` | the pages over `Accounts`: users, compliance report, first page; each EXTENDS the one before, and the last has `Spec` of them all |
| `Statistics` | batch counts, rates and traffic buckets as operators |
| `ListPages`, `AlertsPage` | the pages of logs and batches, and of alerts, with the queries behind them |
| `MC...` | sets, scenarios and symmetries for TLC |
| `IntegrityProofs` | theorems about `Integrity`, with lemmas about `LogRows` |
| `SchedulerProofs`, `OutboxProofs`, `ClientProofs` | theorems about `SealScheduler`, `KafkaOutbox`, `ChainClient` |
| `AlertProofs` | theorems about `AlertCenter`, with `AlertFeed` and `AlertDesk` under it |
| `DetectionProofs` | theorems about `Detection`, as part of `Pipeline` |
| `ForwarderProofs` | theorems about `Forwarder` |
| `AccountProofs` | theorems about `Accounts`, `SettingsPage`, `Reports` and `Statistics`, as part of `DashboardPage` |

`Integrity` EXTENDS `LogIntegrity`, which EXTENDS `LogRows`; it instantiates `SealLedger` for the
refinement. Two components are modelled at two grains, each as coarse as the other's questions allow:
`SealScheduler` has of `sealBatch` only "pick, check the balance, succeed or fail", because
`Integrity` has its inside; `Integrity` has of `storeRoot` only its outcomes, because `ChainClient`
has its inside. `KafkaOutbox` is shown to implement `LogDelivery`, and `Pipeline` takes `LogDelivery`
in its place. `AlertFeed` is used twice, under all interleavings of its callers (`AlertCenter`) and
behind the detector (`Pipeline`).

### Integrity

`row` is table `logs` (a row is there, edited in its fields, in its raw_hash or in both, or gone),
`mapping` is `log_batch_mapping`, `status`, `root`, `tx` are columns of `batches`, `alert` the
batches with an OPEN INTEGRITY_TAMPERED alert, `ready` is `BlockchainService.ready`. `seal[c]` is
the progress and the local variables of a call of `sealBatch`, `round[v]` those of a verify round,
including the *copies* of batch rows a round works on: `find()` (operator `Found`) reads them, and
`save()` (`Save`) writes all their columns back, old values included. A batch leaves a round's
`todo` in any order, since the order of `find()` is the database's. Every action that awaits has
its failing counterpart (`...Fails`, `RoundFails`): the query throws, the commit is reported as
failed although it happened ("ack"), the RPC throws before or after the request arrived, the process
dies. Failures and edits are counted and bounded by `MaxFaults` and `MaxEdits`.

`LogIntegrity` has `storeRoot` of the contract (`Mine`). Gas is estimated against the current state,
so an existing root is noticed before sending (`CanSend`) and a pending one is not. The number of a
transaction that nobody waits for any more may be used again, so `MaxTxs` bounds the transactions in
flight and not those of a behaviour.

Simplifications, all of data: a root is the function from its logs to their leaves (sha256 taken as
injective), and a log's number is its place in (created_at, id). Columns that no step reads
(gas, block_number, confirmed_at, `if_*`) are left out, and so is the snapshot written together with
the mapping. `adoptExistingRoot` is left out: batch ids are fresh UUIDs, so the first `storeRoot` of
a batch cannot meet an existing root. Retention's deletion of an alert has the effect of
`CloseAlert`. A batch row whose process died stays PENDING, as in the code.

### SealScheduler

`queue` is `sealQueue` with its waiting calls, `call` the one that runs. `drain` is the drain in
flight (`pc # "off"` is `drainInFlight`), `tick` the hybrid ticks between `getPendingStats` and
`decideSeal`; a tick remembers what the counts called for (`Wanted`) and reads the flag and the
backoff when it wakes up (`HybridDecide`). `failures` and `backoff` are `consecutiveFailures` and
`backoffTicksLeft`; `skipped` is a history variable for `BackoffIsServed`. `low`, `throttled` and
`alert` are `lowBalance`, the alert interval and the OPEN alert. Time is the age of a pending log in
ticks of `Minute`, cut off at `MaxWait`. `InsertAges` is the age a log has when it becomes visible,
negative if the backend's clock (it stamps created_at, `logs.service.ts:136`) is ahead of Postgres's
(which reckons ages). The model has the chain ready and the guard on (`minBalanceTx > 0`).

### ChainClient

`pool`, `mined` and `roots` are the mempool, the mined transactions and the contract; a node that
answers may not know what another accepted less than `Lag` ago. `queue` and `cur` are `sendQueue` and
the call inside it with its nonce, `last` is `lastSent`, `call[b]` a call of `storeRoot` from the
queue to its outcome, `link` the connection with its retries. Reading the pending count, the fees, the
broadcast and the wait are steps; a broadcast may fail before or after it arrived. Of fees there is
left that a transaction with the nonce of a pending one is refused or takes its place.

### KafkaOutbox, Detection, AlertDesk, AlertFeed, Pipeline

`stored`, `outbox`, `raw` and `dlq` are the tables and topics; `forgotten` is what the backend gave
up in a crash or a failed insert and says so only in its log. The producer connects once and never
notices an outage afterwards, as with kafkajs. A message is a step of `Detection`, since its loop is
sequential and its memory dies as a whole; `committed` is the offset it comes back to, between the
last commit and what it has read. `About` says what the consumer reads in a log: source, address,
time, the rules its text matches, the attempt it belongs to. What the rules remember are positions in
`evaluated`. In `AlertDesk` each query is a step and `resolve` saves a copy read earlier; TypeORM's
`save` compares with the row as it is then and writes what differs. The consumer commits an offset at
any time after the message was handled; `given` are the messages it gave up.

### Forwarder and Parsers

Reader, journal and sender are threads; a thread is at one of the steps of `Gate.admit` between which
CPython may switch, and the pops of expired entries are a loop of their own. A file is an inode with
its length; the web server appends, logrotate renames or truncates. `settled` are the queued entries
that were stored, refused, pushed out or lost with the process. `Parsers` is the parsers as functions
on classes of lines (format, method, path, status, user agent ...), from which `MCForwarder` derives the
payloads it gives to `Forwarder`.

### Evidence, Merkle, VerifyView, Drawers

Rows have text and a hash of version 1 or 2; snapshots have both. A diff is several reads (`ask`),
between which batches are sealed and anything may be changed by hand. What a log was like when it came
in is a constant (`Text`, `AsIngested`), which is what the properties hold answers against. Hashes are
terms, so equal means equal contents. The diff reads the snapshots by position, the proof of a log in
whatever order the database returns them: `ProofBaselines` has the outcome of every order, and an
answer about a proof is any of them. The page keeps requests and answers that are under way and takes
answers in any order.

`Drawers` has the state of `LogDrawer` (`logId`, `loaded`, `proofInfo`, `compareOpen`, `ownDiff`) and,
of `Batches` with `BatchDiffDrawer`, `batchId` and `diff`. `sent` are the requests under way, and
`counts` has, for each kind of request, the one that is neither cancelled nor overtaken: the effects'
`cancelled` flags and abort controllers come to that. An answer says how many changes had been made by
hand when it was read (`at`); the drawer itself does not know this, the properties do. `Judge` is the
verdict of a verify round, whose steps are in `Integrity`. What the drawer shows (summary, tones,
cells as of seal, cards of roots) are operators over what it has loaded.

### Accounts and the pages

A request is a slot with its steps; each call of Keycloak and each query is a step. A token carries
what the roles were when it was issued and outlives them. Rows of `audit_access` are written when a
request ends, by the middleware, with what the handler put into `auditResource` up to then, and by
`AdminController` for what it has changed. They name a person in one of two forms, a URL or
`user:<id>`, and the erasure's pattern only finds the first. The pages
keep the load under way, the ones cancelled, and what they show; the clock of `Reports` moves in
thirds of a day, since UTC+7 only shifts the last third. `Statistics` has the time in minutes and the
real ranges and buckets. `ListPages` has one page of the kind `kind`, whose list is asked for with a
filter, a size and an offset, whose answers may be late, empty, failed, or cancelled, and whose drawers and
lookups run beside it.

## 3. Runs

All runs pass. The theorems of section 4 take over where a run is restricted.

| Run | Instance | Shows |
|---|---|---|
| `seal` | 2 callers, 2 logs, batches of up to 2, 3 batch ids, 1 round, 2 faults | a live batch covers exactly the logs of its tree (`MappingMatchesTree`), CONFIRMED is anchored, sealing implements `SealLedger` |
| `flag` | 2 overlapping rounds, 1 batch, 2 edits or closings, 1 failure, fair | lasting tampering ends flagged for good with an OPEN alert |
| `recover` | 1 round, 3 batch ids, 2 edits, 2 faults of any kind but a lost acknowledgement, fair | only the sealed root gets on the chain, TAMPERED has its alert, every log gets sealed, every clean batch gets back on the chain |
| `drain` | both modes, 3 logs, batches of up to 2, 2 overlapping ticks, 1 admin, clock a tick ahead, 2 faults, fair | one drain at a time, backoff served in full, the low-balance alert forgotten only by a failed update, every log gets sealed |
| `outbox` | 3 logs, 2 drains, drain batches of 2, 1 outage, 2 faults, fair | a log is sent twice only after a failure, what waits in the outbox is sent, the producer implements `LogDelivery` |
| `alerts` | consumer and 2 polls, 2 messages or 1 audit row, 1 admin, 3 alert rows, a failure on each side, fair | the loser of a race counts as a repeat, critical alerts are mailed, no alert more often than its interval allows, audited changes end as alerts |
| `pipeline` | 6 kinds of lines, 4 messages, rules with threshold, window, predecessor and none, SeenIds of 2, 1 failure, fair | thresholds are reached by what happened and by nothing else, what matches a rule ends as an alert |
| `forwarder` | 5 lines, 3 journal entries, queue of 2, cap of 2 with 1 reserved, 3 inodes, 1 failure, fair | nothing is sent twice without a failure, warnings have room, what was queued is settled, the cap refuses no more than `--stats` says |
| `evidence` | batches of 3 and 2 logs (one of the old hash version), up to 3 changes by hand, 2 questions of the page, logs 1 and 4 and either batch opened in drawers, 2 turns | the diff names exactly what was changed, the proof of a log never contradicts it, a sealed batch that nobody touched is never accused, the page paints only a path the proof backs, the drawers call unchanged only what is as it was sealed, and of what nobody touched show nothing in red but a batch with a root on the chain (or a transaction) and no logs yet, which they always do |
| `accounts` | 3 people, 2 requests at a time, 3 in all, 1 failure; 5 logs and 3 batches for the first page | an admin remains unless changes overlap, the tombstone counts what was hidden and no URL names who was erased, what was done on the page is shown, reports, chart and rates say what they count (`FiguresAreTrue`) |
| `client` | 2 batches, 2 calls each, lag 1, hint of 2, deadline of 2, 2 failures, clock to 4 | the nonce is the first free one, a failed call never stores its root |
| `lists` | 3 logs, 2 batches, 1 alert, pages of 1 and 2, 3 questions, 1 failure | the list is a page of the answer to what was asked, what was resolved says so |

Bounds. Two callers, rounds, polls, drains or requests are what it takes to interleave; a third would
wait for the same queue or hold one more stale copy of the same row. Two logs with batches of two have
full and partial batches and a log that arrives between two seals; the three batch ids of `seal` and
`recover` leave room for a batch that fails and one that is orphaned by a crash. Integrity is per
batch: batches share no row of any table and no root, so the runs about rounds have one. In `drain`,
three logs and batches of two make a drain of two batches with a partial one, and two failures with
`BackoffAfter = 1` reach both the first and the capped wait. In `pipeline` a memory of two ids is
exceeded by three logs, the window of two ticks by the attack's four. In `forwarder` cap, queue and
expiry are all reached by four lines. `client` has time for a hint to expire while a transaction
waits and a deadline to pass. `evidence` has an odd number of leaves, a batch being sealed beside one
that is, and logs whose hashes are of both versions; while the page or a
drawer is open there is one change at most, and none of `created_at`: what a drawer can mix up is
answers from before and after. The Verify page is combined with rows that are changed, a mapping that is
changed, and a batch being sealed; the batch drawer with a batch being sealed in every way that can go
(confirmed, late, without a chain, failed). Two turns are a log that is opened and checked again, or opened after
another; log 4 stands for an id of no log as long as its batch is not sealed.

Scenarios. `forwarder`, `evidence` and `accounts` have many kinds of events that do not interact;
a behaviour draws one of the sets in `Scenarios` and has events of that set only. Each set keeps
together what meets on a piece of state (rotation with restarts, gate with clock, erasure with other
people's rows), and every event is in one of them. `alerts` has messages or audit rows, not both,
since their keys never meet. `lists` has one page per behaviour.

What a run restricts on purpose: `recover` has one round because `TamperedHasAlert` and `CleanSettles` are about a round
that is alone: with two the alert can be closed by one while the other still
writes TAMPERED; `flag` shows that a later round puts this right. `recover` leaves out the lost
acknowledgement, after which the batch really is lost (section 6). No run of `Integrity` tampers with
the `batches` table itself; `evidence` does. `alerts` and `pipeline` share the consumer but not its
races: `pipeline` has one caller.

Fairness. `Integrity`: the seal cron and the verify cron tick for ever and what they started goes on
(weak fairness of the steps, strong fairness of `StartRound`, since a tick does not wait for a
verify-now to make room for it), `connect` is retried for ever, and a transaction that is not dropped
is mined. `SealScheduler`: the ticks, the calls in `sealQueue`, the end of a drain, the clock, and that
somebody refills an empty wallet. `KafkaOutbox`: the broker comes back, a stopped process is started
again, drains and requests go on, and logs keep being posted, since nothing else starts a drain while
the backend stays up. `AlertCenter` and `Pipeline`: consumers reconnect and go on, the poll ticks.
`Forwarder`: its threads go on and the API comes back. Nothing is assumed of admins' requests, new
logs, edits, commits of offsets or failures. Failures are finite by their bound: the liveness properties say what
happens after the last one. The pages have safety properties only: nobody has to come back to them.

Deadlock is checked in the four runs whose system never stops; in the others it may stop, because what
happens to it is bounded.

Every property is checked against a variant of the model with a plausible bug in one operator (the
operators whose name ends in `_` and a word, listed in `PROJECT.json`), under the same configuration:
TLC finds each violated. The mutants are not used by any specification.

## 4. Theorems

Proved by TLAPS for every value of the constants that the named assumptions of the modules allow:
any finite sets of logs, batches and people, any number of callers, rounds, polls, drains and
requests, any bounds, and every kind of fault, unless the table says otherwise. The assumptions are
about types and finiteness, and five about the code: lag of a node is no longer than the hint lives
(`ChainConstants`), a key and a severity fit their columns (`MessagesFit`, `AuditsFit`), the backend's
name for a drain is not an admin's (`SchedulerConstants`), the realm starts with an active admin, and
the rows of the trail are numbered by their primary key (both `AccountsStart`).

| Theorem | Says | Restricted to |
|---|---|---|
| `TypeCorrectness` | `TypeOK` of `Integrity` | |
| `SealingIsExclusive` | one call is past `sealQueue`; its logs are unmapped and its batch PENDING until it writes the mapping; no round holds a PENDING batch | |
| `SealingRefinesLedger` | `Integrity` implements `SealLedger` | |
| `AnchoredRootsAreSealed` | the contract never holds another root than the sealed one | |
| `MappingIsTheTree` | a live batch covers exactly the leaves of its tree | no lost acknowledgement |
| `ConfirmedIsOnChain` | CONFIRMED batches have their root on the chain | no chain reset |
| `TamperedIsTold` | a TAMPERED batch has an OPEN alert that tells of it | one round at a time, nobody closes alerts by hand |
| `SchedulerInvariant` | `SchedulerInv`, with `TypeOK` of `SealScheduler` | |
| `DrainsAreSingle` | `OneDrain`: a drain has at most one call in `sealQueue` | |
| `BackoffAlwaysServed` | a drain after repeated failures starts when the wait, up to its cap, is over | |
| `OnlyFailedUpdateForgets` | a low-balance alert is left OPEN and forgotten only by the update that fails | |
| `OutboxInvariant`, `OutboxTypes` | `OutboxInv`, with `TypeOK` of `KafkaOutbox` | |
| `NoDuplicateFromOutages` | outages alone never make the producer send a log twice | |
| `StoredIsSomewhere` | a stored log whose request ended is on a topic or in the outbox, or the backend gave it up | |
| `OutboxImplementsDelivery` | `KafkaOutbox` implements `LogDelivery`: initial states and steps | |
| `AlertInvariant`, `DeskTypesHold` | `AlertInv`, with the types of `AlertDesk` and `AlertFeed` | |
| `CriticalAlertsAreMailed` | an alert severe enough was mailed, is about to be, or lost its mail with the process | |
| `LostRacesAreRepeats` | who loses the race on the unique index counts as a repeat, unless the winner's alert is closed or gone by then | |
| `OpenAlertsAreRationed` | no OPEN alert is mailed more often than its interval allows | |
| `ClosedAlertsStayClosed` | no step changes the key of an alert or opens one again | |
| `AlertsAreJustified` | the alert of a threshold rule rests on as many attempts of its actor, in its window, as the rule asks for | no log evaluated twice |
| `AttacksAreFound` | attempts that reach a threshold are found | logs in order; rules that pair lines stand first; what a rule must remember of an actor fits in a history |
| `TypeCorrectness`, `TypesHold` (`Forwarder`) | positions stay in their files and in the journal, the queue within its limit | |
| `StoredOnce` | a line is stored once at most | no failure so far |
| `CapWithoutLock` | two threads that share the gate let through one line more than the cap, and one for each pop of the other's time that came too early | |
| `ClientInvariant`, `ClientTypesHold` | `ClientInv`, with `TypeOK` of `ChainClient` | |
| `NoncesAreNext` | what is sent has the lowest free nonce | no drop, lost answer or restart so far |
| `FailedCallsNeverLand` | a call that is reported as failed has no transaction that can still store its root | broadcasts that were answered |
| `SettingsInvariant` | `SettingsInv`: realm, requests and page | |
| `AnAdminRemains` | an active admin remains | changes to admins that never overlapped |
| `DoneStaysShown` | what was done on the page is what the idle page shows | |
| `ErasureInvariant` | `ErasureInv`: the trail and the erasures under way | |
| `ErasedStayUnnamed` | of what was in the trail when an erasure began, nothing is owned by the person and no URL names the person | rows of `AdminController` name persons in another form and are not rewritten (section 6) |
| `TombstonesAreProof` | a person's tombstones count exactly the rows that carry the pseudonym; and the same | as above |
| `ReportInvariant` | `ReportInv`: every answer is of one moment since it was asked for | |
| `ReportStaysTrue` | the report counts what happened on its days, and its totals agree | |
| `BoardInvariant` | `BoardInv`: the charts under way and the one that is shown | |
| `FiguresStayTrue` | the chart has every log of the span the name of its range promises, once; its rate is the report's; the tones of days and period agree | no log is older than sixty years |

`SchedulerInvariant`, `OutboxInvariant`, `AlertInvariant`, `ClientInvariant`, `SettingsInvariant`,
`ErasureInvariant`, `ReportInvariant` and `BoardInvariant` are the inductive invariants from which the
theorems below them follow. Every restriction is necessary, and part of the property that is checked
or a named hypothesis of the theorem: with a lost acknowledgement a batch is FAILED and owns logs, a
reset leaves CONFIRMED batches without a root until the next round, a second round may write TAMPERED
from a stale copy after the first has closed the alert, a nonce hint of a dropped transaction leaves a
gap, the transaction of a lost answer may be mined after its call failed, and two changes at once do
remove the last two admins (section 6).

Three restrictions are about what the program is run on. `PairsStandFirst`: where a rule counts two
lines as one attempt, a line more in its history may lower the count, so that one which an earlier
rule has taken in the meantime matters; in `security_rules.yaml` only rule 5710 pairs lines, and it is
the first. `HistoriesSuffice`: a history is a `deque(maxlen=100)`, and more attempts in a window than
it holds push the oldest out. `NoneTooOld`: a chart of all time has sixty buckets at most, a year the
widest.

### Integrity

`TypeInv` adds to `TypeOK` that a call or round holds a real batch wherever it uses one
(`SealType`, `RoundType`). `SealInv` is what sealing needs: `OneSeal` from `sealQueue`;
`PickedPending` and `CreatedPending`, that the logs in hand are still unmapped and the batch still
PENDING; and `HeldClosed`, that no round has a copy of an open batch. The latter is why `save()`, which writes
stale copies, cannot interfere: a round only reads batches that are SEALED or later. From it the
refinement follows: the only step that changes the mapping adds, for one open batch, logs nobody
holds. `AnchorInv` follows the root from the `batches` row into the transaction (`TxCarriesRoot`)
and from there to the contract. `MapInv` strengthens `MappingMatchesTree` by "a call that is about
to write FAILED still has a PENDING batch", which is what a lost acknowledgement breaks.
`ConfirmInv` needs evidence for every hand that may write CONFIRMED: a call or round that waits owns
its transaction (`SealOwnsTx`, `RoundOwnsTx`), copies that already say CONFIRMED are true
(`HeldConfirmed`) and a good verdict was read off the chain (`GoodIsAnchored`); since roots are never
taken back, stale evidence stays evidence. Facts about one group of steps (`RoundFrame`: a round
changes neither rows nor mapping nor roots) are lemmas used by every proof. The lemmas at the start are
facts about `Oldest` and `RootOf`: the picked logs are at most `BatchSize`, not empty, and their root
has them as its domain. `TamperInv` is about a round that is alone: it holds one copy of a batch
(`OneCopy`), and a copy that does not say TAMPERED is of a batch that is not, since nobody else writes
that status (`KnowsTampered`); so it closes the alert only of a batch that is not TAMPERED any more.
Before a bad verdict is settled its alert is raised (`HasRaised`), and what is sent again and saved
under the status of its copy was UNVERIFIED (`ReanchorsUnverified`).

### SealScheduler

`OneDrain` is not inductive: it counts, and it does not say who is counted. `QueueInv` does: the call
named "drain" is in `sealQueue` once, and it is there exactly while the drain waits for its batch, so
that a drain that may add a call has none. `BackoffInv` ties three counters that the code changes in
three places: there are no more failures in a row than faults, and after the threshold the ticks
skipped and those still to skip add up to `WaitTicks(failures)`. `PowerOfTwo` (a cardinality of
subsets, since induction is not to be had) shows that the wait is a number. `OnlyFailedUpdateForgets`
is about steps: `low` and the alert part ways in one action only.

### KafkaOutbox

`FlagInv` says that `draining` keeps two executions of `drainPending` apart; on it rests `RowsInv`:
what a drain has read and not deleted is in the outbox, once. `PlaceInv` and `NowhereInv` say where a
log can be by how far its request got; a row is deleted only when its message is on the topic.
`OnceInv` is the argument for `NoNeedlessDuplicate`: while nothing has failed, a log that is on
`logs.raw` and still in the outbox is the one whose row a drain is about to delete. The refinement maps
a step that appends a message to `Send`, the dead letters and what is forgotten to theirs, and all
others to a stutter; `RowsInv` and `PlaceInv` show that what a drain sends is stored and not given up.
`LogDelivery` promises no liveness: that is `OutboxIsDrained`.

### Alerts

`UniqueOpen` is what the partial unique index gives; `CopyInv` says that the copy `resolve` will
save is of the same key and of a row that is there, so that no save can make a second OPEN alert of a
key. `WinnerInv`: a caller that lost the race looks for a row that exists. With them
`LostRaceIsRepeat` is inductive. `VouchInv` strengthens `CriticalIsMailed` to copies: whatever a row
*or a stale copy* says of its mails is backed by a mail, one in hand, or one that a restart
prevented. It is needed because `resolve` writes the copy back over whatever the row says by then.
`RationInv` counts for each OPEN alert the mails sent and in hand against `last_notified_at` and the
intervals passed; one caller at a time holds the first mail.

### Detection

`DetectInv` says what a history is: a part of what was evaluated, in its order, each entry of its rule
and actor (`Places`); and, while logs come in order, what the rule accepts and the history does not
have was taken by an earlier rule, is too old for every later log, or was pushed out by as many later
entries as a history holds (`Complete`). From the first part follows `ThresholdJustified`: as long as
no log was evaluated twice, different entries are different logs, so counting entries is counting
attempts. From the second follows `NoAttackMissed`, told for the n-th log that was evaluated by
`CaughtAt`: what was found later only takes more logs from the rules behind it.

### Forwarder

`NoNeedlessRepeat` is `Once`: while nothing has failed, an item is in one place. It is still to be read
(`Unread`), in the hands of a thread (`InHand`), one element of the queue or in flight (`Elements`), or
stored once; in the first two cases the others do not know it (`Untouched`). `Positions` says why
nothing is read again: `Front`, the first inode that an open may find, never goes back, and the reader
and the position it saves are not ahead of it, whatever is rotated. `WarningsHaveRoom` is about a deque
that two threads prune, measure and append to without a lock. `InDeque`: of the last hour it lacks as
many sends as pops came too early. `RoomFor`: who is about to append counts as if it had, and that is
one line too many at most, since the second thread that measures the same length is the only other.

### ChainClient

`MinedInv` (nonces are mined without gaps and no two that wait are equal), `QueueInv` (one call at a
time is in `send()`), `KnownInv` (a known transaction is of the call that sent it) and `FailedInv`: the
transaction of a call that failed has a nonce that is used up and stored nothing. A wait fails only on
a receipt; the deadline and a lost connection do not show that, and end as "unconfirmed". This is
the invariant the code's three outcomes keep. `NonceInv`: while nothing was dropped or lost there is a number n
such that exactly the smaller nonces are taken, whoever sends has chosen n, and the hint, when there is
one, is of n - 1. That a node may lag behind is made up for by the hint, since it lives longer.

### Accounts

`AdminInv`: a check that is not out of date has seen an active admin beside its target, and still
would; `~overlap` makes "not out of date" hold when it is used. The proof has one step for
each way in which the realm changes (`RealmStep`), and the page's invariant (`ReadInv`: what a load has
read is true of everyone not changed since) is shown to stand any of them. `ErasureInv` says of an
erasure under way that every row that was there when it began and is of the person, or has a URL that
names the person, is anonymous already or among those it has in hand; rows that come in while it runs have
higher numbers, and two erasures of one person may share the work. `TombInv` adds what makes a
tombstone a count: the numbers of rows are unique, what erasures under way hold is still visible and
held by one of them only, and what was hidden is as much as all tombstones of the person say. That a
sum of sizes is the size of a union (`SumOfParts`) is shown by the smallest counterexample, since
induction is not to be had; the other sums of the pages follow from it.

`ReportInv` says of each query of the report, under way or shown, that it is of one moment n between
the question and now: the rows up to number n and no others (`AskInv`, `ShownInv`), each with the stamp
of the time when it was written (`StampInv`). Rows are never taken away and an erasure leaves their
number and day, so that what was there when the page asked is in the answer, once.

`BoardInv`: the load of a chart that is not overruled is of the range that is picked, and every chart
was drawn up by the plan of its range. The rest of `FiguresAreTrue` is about the operators of
`Statistics`. A chart adds up the logs whose bucket is one of its own (`SeriesAdds`); buckets grow with
time, by the clock and by the calendar (`BucketMonotone`); the span of a name (`Minutes`) is no more than
its row of RANGE_SPECS has room for (`PlanHasTheSpan`, a fact about each of the numbers), and that of all
logs no more than what is planned for it (`PointsReachBack`), where 59 months of thirty days touch no more than sixty months of the calendar
(`MonthsOfSpan`). `RatesAgree` adds up the batches of the overview by status, those of the report by day
and then by status, and both are the batches that count (`OverviewCounts`, `ReportRate`); a day with
nothing but intact batches has 100% (`AllIsHundred`).

### What stays with TLC

* Liveness (`EventuallySealed`, `TamperStaysFlagged`, `CleanSettles`, `PendingIsSealed`,
  `OutboxIsDrained`, `QueuedIsSettled`, `AuditIsAlerted`, `MatchIsAlerted`): the prover has no
  reasoning about ENABLED.
* What is computed by recursion over layers of a tree: `DiffIsExact`, `ProofAgreesWithDiff`,
  `UntouchedIsNeverAccused`, `PathIsBacked` and `DrawersAreTrue` rest on what `Merkle` computes, which
  takes induction over data that the installed provers do not do.
* `CapIsTheForecast`, which compares the gate with the counts that `Parsers` makes of the lines of one
  given host.
* `ListIsTrue` and `ResolutionIsTrue` of the list pages, for which no proof was attempted.

## 5. Plan and what is not modelled

Of the parts that are modelled, the dashboard's list pages and the trees, diffs and proofs of
`Evidence` have no theorems; the former could get some in the way the other pages did (what a request
has read is a page of the answer at one moment), the latter need lemmas by induction over the layers
of a tree. Both are checked by TLC.

Left out, and why:

* The masking of personal data and the log keys of the sequence model as text: string processing.
  What a rule matches is in `About`.
* The anomaly models' statistics; a failing or refusing model is an outcome of `Detection`.
* The batch model of sealing: it only fills `if_*` columns and never throws.
* Which route needs which role (`rbac`): a table. What a stale role lets one do is in `Accounts`.
* Retention of audit rows: one delete by age a day of rows nothing else uses.
* The transport and wording of mail; a mail that is handed over counts as sent, as in the code.
* Vault, health and metrics: read at start-up or never read back.
* The pages for the data set and the model: they render one answer. Of the drawers, what has no part
  in a verdict: fields, layout, the tree as drawn, copying to the clipboard.
* Gas and fees beyond whether a transaction is accepted, and columns no step reads.

## 6. Where comments and code differ, and other things seen

Sealing and rounds

* "UNVERIFIED: a tx was sent" (`integrity.service.ts:90`): a batch sealed without a chain and found
  TAMPERED becomes UNVERIFIED, without a transaction, when the chain comes up, and is not anchored by
  `anchorSealedBatches` any more.
* "FAILED: the mapping was not written" (`:93`, `:750`): when the acknowledgement of the COMMIT is
  lost, the catch block marks FAILED a batch that owns its logs; they are never verified and never
  sealed again.
* "The hash can always be followed up" (`src/blockchain/blockchain.service.ts:299`): of two overlapping
  rounds, the one that finds the root already on the chain saves its stale copy, with tx_hash NULL,
  over the hash the other had stored.
* "Drain full batches only" (`integrity.service.ts:270`, `seal-config.ts:152`): the number of batches
  comes from a count made before the drain waits in `sealQueue`; a seal-now in between leaves a batch
  that is not full.
* "The first check that passes closes what is left open" (`integrity.service.ts:124`): `lowBalance` is
  cleared before the update that closes the alert; if the update fails, no later check tries again.
* The nonce hint (`blockchain.service.ts:61-66`) is of the last transaction *sent*: when that one is
  dropped, the next call within a minute leaves a gap and waits behind it. `NonceIsNext` is therefore
  about behaviours without drops, lost answers and restarts.

Alerts and detection

* Retention deletes OPEN alerts by age; a resolve that had read the row before inserts it again.
* A window of a threshold rule is pruned by the time of the line that is read, so lines that arrive
  out of order can make "N times in M seconds" of attempts that are further apart. `NoAttackMissed` is
  about lines in order.
* `hasPending` may say that nothing waits while an outbox row does, until the next enqueue or restart;
  `OutboxIsDrained` says it in these terms.

Forwarder

* `--stats` says that it uses the filters of the sender (`stats.py:3`), but counts CORS preflights,
  which the gate drops, as lines that would be sent; so the forecast is an upper bound. What is not
  sent and not an asset it counts as a monitor (`stats.py:76`), lines with a status that cannot be
  read included.
* The path of a health check is dropped before its user agent or query is looked at for an attack.

Evidence

* "The baseline is chosen as in GET /batches/:id/diff" (`integrity.service.ts:1202`): the diff orders the
  snapshots by position (`batch-diff.service.ts:160`), the proof reads them without an order (`:1208`)
  and builds a root that depends on it. In another order the proof falls back on the raw hashes or on
  nothing: it then has UNKNOWN for a log whose change the diff names. `ProofAgreesWithDiff` is what
  remains true: a proof may not know what the diff knows, but never says something else.
* "Can only happen if the database fails after the transaction was sent" (`docs/api/batches-diff.md:358`, of
  a batch wrongly called TAMPERED): so is one that is PENDING while its transaction is mined, until its
  mapping is written. `NobodyIsAccused` says that these two are always shown in red, and nothing else is.
  Snapshots, logs and chain are read apart as well, which does no harm: `UntouchedIsNeverAccused`.
* A batch with a transaction that is not mined is INTACT by the diff; `docs/api/batches-diff.md:115`
  calls a batch that is not on the chain UNVERIFIABLE.
* "Every other field is in the raw hash too, so it equals the current value" (`logCompare.ts:6`): the
  detail and the diff are read apart. A detail read before and a diff read after a second change, or a
  diff kept while the log is checked again, put an edited value on the side "as of seal".
  `SealSideIsSealed` is about a detail and a diff of one state of the database.
* The drawer's green summary is made of a detail and a proof that are two requests, and can stand
  beside a detail of an earlier moment. `GreenIsSealed` is about those of one moment.

Accounts and pages

* "The userId in the resource of other rows, as when an admin changes the role of this user, becomes the
  same HMAC" (`erasure.service.ts:48`): the rows that `AdminController` writes for just that have the
  resource `user:<id> role:<role>` or `user:<id>` (`admin.controller.ts:123`, `:160`, `:187`), and
  `resourcePattern` (`erasure.service.ts:31`) finds an id only where the resource begins, after "/" or after
  "=". They go on naming the person; only the row that the middleware writes of the same request does
  not. `ErasedIsUnnamed` speaks of URLs. Without `form = Url` in it TLC finds the
  behaviour: bob takes a role from ann, whom he then erases.
* "System must keep at least one active admin" (`admin.controller.ts:209`): two changes at once can
  remove both of the last two. `OneAtATimeKeepsAnAdmin` is about changes that do not overlap.
* Reports: while another range is loading, the export has the previous rows under the new name
  (`Reports.tsx:258`). A rate of 199.5 of 200 is rounded to 100; the tone beside it is not green.
  The badge of a single day is: a day of nothing but PENDING batches has "0%" in green
  (`Reports.tsx:514`), while the figure for the period is yellow. `RatesAgree` says of the badge what is so.
  PENDING batches count as sealed on the first page (`stats.service.ts:131`).
* First page: a refresh that began before the range was changed brings the chart of the old range
  (`Dashboard.tsx:209`); an error of the first load is not cleared by a refresh that succeeds. The
  plan of the range "all" may be older than the count it is filled with.
* Logs: a page past the end that is found empty and then counted non-empty sets the offset it already
  has, and the old rows stay (`Logs.tsx:189-193`). Within the 400 ms of the pause the lookup of an earlier id
  opens its drawer. Batches: an empty choice of statuses is lost on reload (`Batches.tsx:131`).
* Verify: a check is not cancelled by the next one; the answer that comes last is shown.
* Alerts: collapsing the row whose note is being written leaves `notingId` set, and the refresh of
  every 30 s never runs again; resolving one alert closes the note of another and enables its button;
  details are loaded once and never again (`Alerts.tsx:104`).
