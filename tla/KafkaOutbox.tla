----------------------------- MODULE KafkaOutbox -----------------------------
(***************************************************************************)
(* Ingest of logs and their publication: POST /logs inserts the row and    *)
(* then publishes it; what cannot be published goes to the dead-letter     *)
(* topic, and what cannot go there either waits in kafka_pending_logs for  *)
(* drainPending.                                                           *)
(*                                                                         *)
(* The producer connects once and kafkajs hides later outages, so          *)
(* isConnected never becomes false again.  A send that fails may still     *)
(* have reached the broker.                                                *)
(***************************************************************************)
EXTENDS Integers, Sequences, FiniteSets

CONSTANTS Logs,       \* logs that may be posted
          Drains,     \* executions of drainPending that may exist at once
          DrainBatch, \* drainBatchSize
          Faults,     \* kinds of failure that may happen
          MaxFaults,  \* bound: number of failures
          MaxOutages  \* bound: number of times the broker goes away

FaultKinds == {"crash",  \* the backend is killed and starts again
               "stop",   \* the backend is shut down in order and starts again
               "ack",    \* a message is appended, its acknowledgement is lost
               "db"}     \* a query on kafka_pending_logs fails

ASSUME OutboxConstants ==
    /\ IsFiniteSet(Logs) /\ IsFiniteSet(Drains)
    /\ DrainBatch \in Nat \ {0}
    /\ Faults \subseteq FaultKinds /\ {MaxFaults, MaxOutages} \subseteq Nat

VARIABLES
    stored,     \* the logs with a row in table logs
    raw, dlq,   \* the topics logs.raw and logs.raw.dlq
    outbox,     \* kafka_pending_logs, oldest first
    call,       \* how far the request that posts a log is
    up,         \* the broker can be reached
    producer,   \* "off", "connected", or "closed" once onModuleDestroy has run
    stopping,   \* shuttingDown
    hasPending, \* hasPending
    draining,   \* draining
    drain,      \* what each execution of drainPending is about to do
    forgotten,  \* logs that were stored and that nobody will send any more
    faults,     \* failures so far
    outages     \* outages of the broker so far

topics == <<raw, dlq>>
memory == <<producer, stopping, hasPending, draining, drain>>
vars == <<stored, topics, outbox, call, up, memory, forgotten, faults, outages>>

In(l, seq) == \E i \in DOMAIN seq : seq[i] = l

\* DELETE by primary key: at most one row goes, the others keep their order.
Without(seq, l) ==
    IF In(l, seq) THEN LET i == CHOOSE i \in DOMAIN seq : seq[i] = l
                       IN  SubSeq(seq, 1, i - 1) \o SubSeq(seq, i + 1, Len(seq))
                  ELSE seq

DrainIdle == [pc |-> "idle", rows |-> <<>>]

TypeOK ==
    /\ {stored, dlq, forgotten} \subseteq SUBSET Logs
    /\ {raw, outbox} \subseteq Seq(Logs)
    /\ \A i, j \in DOMAIN outbox : outbox[i] = outbox[j] => i = j
    /\ draining <=> \E d \in Drains : drain[d].pc # "idle"
    /\ call \in [Logs -> {"none", "publish", "dlq", "enqueue", "done"}]
    /\ producer \in {"off", "connected", "closed"}
    /\ {up, stopping, hasPending, draining} \subseteq BOOLEAN
    /\ drain \in [Drains -> [pc : {"idle", "find", "found", "send", "delete"},
                             rows : Seq(Logs)]]
    /\ faults \in 0 .. MaxFaults /\ outages \in 0 .. MaxOutages

Booted ==
    /\ producer' = "off" /\ stopping' = FALSE
    /\ hasPending' = TRUE /\ draining' = FALSE
    /\ drain' = [d \in Drains |-> DrainIdle]

Init ==
    /\ stored = {} /\ raw = <<>> /\ dlq = {} /\ outbox = <<>>
    /\ call = [l \in Logs |-> "none"]
    /\ up \in BOOLEAN
    /\ producer = "off" /\ stopping = FALSE /\ hasPending = TRUE /\ draining = FALSE
    /\ drain = [d \in Drains |-> DrainIdle]
    /\ forgotten = {} /\ faults = 0 /\ outages = 0

Fault(k) == k \in Faults /\ faults < MaxFaults /\ faults' = faults + 1

Goes(l, pc) == call' = [call EXCEPT ![l] = pc]

-----------------------------------------------------------------------------
(* Environment *)

BrokerDown ==
    /\ up /\ outages < MaxOutages
    /\ up' = FALSE /\ outages' = outages + 1
    /\ UNCHANGED <<stored, topics, outbox, call, memory, forgotten, faults>>

BrokerUp ==
    /\ ~up /\ up' = TRUE
    /\ UNCHANGED <<stored, topics, outbox, call, memory, forgotten, faults, outages>>

\* A restart ends the requests in flight: what they had stored and not handed on is lost.
Restart ==
    LET cut == {l \in Logs : call[l] \in {"publish", "dlq", "enqueue"}}
    IN  /\ call' = [l \in Logs |-> IF l \in cut THEN "done" ELSE call[l]]
        /\ forgotten' = forgotten \cup {l \in cut \ dlq : ~In(l, raw)}
        /\ Booted
        /\ UNCHANGED <<stored, topics, outbox, up, outages>>

Crash == Fault("crash") /\ Restart

\* onModuleDestroy: the flag first, the disconnect when connectLoop has ended.
Stop ==
    /\ ~stopping /\ Fault("stop") /\ stopping' = TRUE
    /\ UNCHANGED <<stored, topics, outbox, call, up, producer, hasPending, draining,
                   drain, forgotten, outages>>

Disconnect ==
    /\ stopping /\ producer = "connected" /\ producer' = "closed"
    /\ UNCHANGED <<stored, topics, outbox, call, up, stopping, hasPending, draining,
                   drain, forgotten, faults, outages>>

Exit ==
    /\ stopping /\ producer # "connected"
    /\ Restart
    /\ UNCHANGED faults

-----------------------------------------------------------------------------
(* Sending and draining *)

CanSend == producer = "connected" /\ up

SendOk(l) == CanSend /\ raw' = Append(raw, l) /\ UNCHANGED faults

SendFails(l) ==
    \/ ~CanSend /\ UNCHANGED <<raw, faults>>
    \/ CanSend /\ Fault("ack") /\ raw' = Append(raw, l)

MayDrain_Always == TRUE

\* A second call of drainPending returns at once.
MayDrain == ~draining

\* void this.drainPending()
StartDrain ==
    IF MayDrain /\ \E d \in Drains : drain[d].pc = "idle"
    THEN \E d \in Drains :
            /\ drain[d].pc = "idle"
            /\ drain' = [drain EXCEPT ![d] = [pc |-> "find", rows |-> <<>>]]
            /\ draining' = TRUE
    ELSE UNCHANGED <<draining, drain>>

Connect ==
    /\ producer = "off" /\ ~stopping /\ up
    /\ producer' = "connected"
    /\ StartDrain
    /\ UNCHANGED <<stored, topics, outbox, call, up, stopping, hasPending, forgotten,
                   faults, outages>>

Ends(d) ==
    /\ drain' = [drain EXCEPT ![d] = DrainIdle]
    /\ draining' = FALSE

EndsOnError_KeepsFlag(d) == drain' = [drain EXCEPT ![d] = DrainIdle] /\ UNCHANGED draining

\* The finally block clears the flag on errors, too.
EndsOnError(d) == Ends(d)

\* The query: the rows of this moment.
DrainFind(d) ==
    /\ drain[d].pc = "find"
    /\ \/ /\ drain' = [drain EXCEPT ![d] =
                [pc |-> "found", rows |-> SubSeq(outbox, 1,
                    IF Len(outbox) < DrainBatch THEN Len(outbox) ELSE DrainBatch)]]
          /\ UNCHANGED <<draining, faults>>
       \/ Fault("db") /\ EndsOnError(d)
    /\ UNCHANGED <<stored, topics, outbox, call, up, producer, stopping,
                   hasPending, forgotten, outages>>

\* Its answer arrives: an empty one ends the drain.
DrainFound(d) ==
    /\ drain[d].pc = "found"
    /\ IF drain[d].rows = <<>>
       THEN hasPending' = FALSE /\ Ends(d)
       ELSE /\ drain' = [drain EXCEPT ![d].pc = "send"]
            /\ UNCHANGED <<hasPending, draining>>
    /\ UNCHANGED <<stored, topics, outbox, call, up, producer, stopping,
                   forgotten, faults, outages>>

DrainSend(d) ==
    /\ drain[d].pc = "send"
    /\ LET l == Head(drain[d].rows)
       IN  \/ /\ producer = "off" \/ stopping
              /\ Ends(d) /\ UNCHANGED <<raw, faults>>
           \/ /\ producer # "off" /\ ~stopping
              /\ \/ SendOk(l) /\ drain' = [drain EXCEPT ![d].pc = "delete"] /\ UNCHANGED draining
                 \/ SendFails(l) /\ EndsOnError(d)
    /\ UNCHANGED <<stored, dlq, outbox, call, up, producer, stopping,
                   hasPending, forgotten, outages>>

DrainDelete(d) ==
    /\ drain[d].pc = "delete"
    /\ LET l == Head(drain[d].rows)  rest == Tail(drain[d].rows)
       IN  \/ /\ outbox' = Without(outbox, l)
              /\ drain' = [drain EXCEPT ![d] =
                    [pc |-> IF rest = <<>> THEN "find" ELSE "send", rows |-> rest]]
              /\ UNCHANGED <<draining, faults>>
           \/ Fault("db") /\ EndsOnError(d) /\ UNCHANGED outbox
    /\ UNCHANGED <<stored, topics, call, up, producer, stopping,
                   hasPending, forgotten, outages>>

-----------------------------------------------------------------------------
(* LogService.ingest and publishLog *)

Insert_Late(l) ==
    /\ call[l] = "none"
    /\ Goes(l, "publish")
    /\ UNCHANGED <<stored, topics, outbox, up, memory, forgotten, faults, outages>>

\* The request waits for the insert; if that fails it ends with an error and no row.
Insert(l) ==
    /\ call[l] = "none"
    /\ stored' = stored \cup {l}
    /\ Goes(l, "publish")
    /\ UNCHANGED <<topics, outbox, up, memory, forgotten, faults, outages>>

PublishOffline(l) ==
    /\ call[l] = "publish" /\ producer = "off"
    /\ Goes(l, "enqueue")
    /\ UNCHANGED <<stored, topics, outbox, up, memory, forgotten, faults, outages>>

Publish(l) ==
    /\ call[l] = "publish" /\ producer # "off"
    /\ \/ SendOk(l) /\ Goes(l, "done")
          /\ IF hasPending THEN StartDrain ELSE UNCHANGED <<draining, drain>>
       \/ SendFails(l) /\ Goes(l, "dlq") /\ UNCHANGED <<draining, drain>>
    /\ UNCHANGED <<stored, dlq, outbox, up, producer, stopping,
                   hasPending, forgotten, outages>>

PublishToDlq(l) ==
    /\ call[l] = "dlq"
    /\ \/ CanSend /\ dlq' = dlq \cup {l} /\ Goes(l, "done") /\ UNCHANGED faults
       \/ ~CanSend /\ Goes(l, "enqueue") /\ UNCHANGED <<dlq, faults>>
       \/ CanSend /\ Fault("ack") /\ dlq' = dlq \cup {l} /\ Goes(l, "enqueue")
    /\ UNCHANGED <<stored, raw, outbox, up, memory, forgotten, outages>>

\* INSERT ... ON CONFLICT DO NOTHING, then hasPending; an insert that fails is only logged.
Enqueue(l) ==
    /\ call[l] = "enqueue"
    /\ Goes(l, "done")
    /\ \/ /\ outbox' = IF In(l, outbox) THEN outbox ELSE Append(outbox, l)
          /\ hasPending' = TRUE
          /\ UNCHANGED <<forgotten, faults>>
       \/ /\ Fault("db")
          /\ forgotten' = IF In(l, raw) \/ l \in dlq THEN forgotten ELSE forgotten \cup {l}
          /\ UNCHANGED <<outbox, hasPending>>
    /\ UNCHANGED <<stored, topics, up, producer, stopping, draining, drain, outages>>

\* Traffic: any other log that is posted and sent, and that nothing here is about.
PublishOther ==
    /\ CanSend /\ hasPending
    /\ StartDrain
    /\ UNCHANGED <<stored, topics, outbox, call, up, producer, stopping, hasPending,
                   forgotten, faults, outages>>

-----------------------------------------------------------------------------

CallStep(l) == PublishOffline(l) \/ Publish(l) \/ PublishToDlq(l) \/ Enqueue(l)
DrainStep(d) == DrainFind(d) \/ DrainFound(d) \/ DrainSend(d) \/ DrainDelete(d)

Next ==
    \/ BrokerDown \/ BrokerUp \/ Crash \/ Stop \/ Disconnect \/ Exit
    \/ Connect \/ PublishOther
    \/ \E l \in Logs : Insert(l) \/ CallStep(l)
    \/ \E d \in Drains : DrainStep(d)

Spec == Init /\ [][Next]_vars

\* The broker comes back, the supervisor restarts the backend, and logs keep coming:
\* nothing else makes drainPending run again while the backend stays up.
FairSpec ==
    /\ Spec
    /\ WF_vars(BrokerUp) /\ WF_vars(Connect) /\ WF_vars(PublishOther)
    /\ WF_vars(Disconnect) /\ WF_vars(Exit)
    /\ \A l \in Logs : WF_vars(CallStep(l))
    /\ \A d \in Drains : WF_vars(DrainStep(d))

-----------------------------------------------------------------------------
(* Properties *)

\* Outages alone never make detection see a log twice: the draining flag keeps two drains
\* apart and a row is deleted before the next query (drainPending).
NoNeedlessDuplicate ==
    faults = 0 => \A i, j \in DOMAIN raw : raw[i] = raw[j] => i = j

\* A log waiting in the outbox is sent in the end, or hasPending is false and nobody
\* looks (drainPending and the drain that publishLog starts).
OutboxIsDrained ==
    \A l \in Logs : In(l, outbox) ~> (In(l, raw) \/ ~hasPending)

\* The backend keeps the promise of LogDelivery.
Delivery == INSTANCE LogDelivery
ImplementsDelivery == Delivery!Spec
=============================================================================
