----------------------------- MODULE ChainClient -----------------------------
(***************************************************************************)
(* BlockchainService: one connection that is tried until it holds, and     *)
(* storeRoot calls whose transactions are sent one at a time, with a nonce *)
(* of the service's own reckoning, and waited for with a deadline.         *)
(*                                                                         *)
(* The RPC endpoint is a load balancer: the node that answers may not know *)
(* yet what another one accepted less than Lag ago.                        *)
(***************************************************************************)
EXTENDS Integers, Sequences, FiniteSets, FiniteSetsExt

CONSTANTS Batches,   \* what storeRoot may be called for
          HintTtl,   \* NONCE_HINT_TTL_MS, in ticks
          Lag,       \* how far a node lags behind
          WaitTime,  \* txTimeoutMs
          RetryBase, \* INIT_RETRY_BASE_MS
          RetryMax,  \* INIT_RETRY_MAX_MS
          FaultKinds, \* what may fail in this instance
          MaxFaults, \* bound: number of failures
          MaxCalls,  \* bound: calls for one batch
          MaxTime    \* bound: the clock

ASSUME ChainConstants ==
    /\ IsFiniteSet(Batches) /\ {HintTtl, Lag, WaitTime, RetryBase, RetryMax} \subseteq Nat
    /\ {MaxFaults, MaxCalls, MaxTime} \subseteq Nat
    /\ Lag <= HintTtl
    /\ FaultKinds \subseteq {"rpc",   \* a request fails
                             "lost",  \* a broadcast is accepted and its answer is lost
                             "drop",  \* a transaction is dropped from the mempool
                             "crash"} \* the process restarts

VARIABLES
    now,    \* the clock
    pool,   \* transactions that were accepted and are not mined
    mined,  \* mined transactions, in the order of their nonces
    roots,  \* batches whose root the contract holds, with the transaction that stored it
    rpc,    \* "down" at first or "up"
    link,   \* the connection: pc, attempt, and when the next one is due
    queue,  \* sendQueue: the calls that wait to send
    cur,    \* per batch: send(), and the nonce it has chosen
    last,   \* lastSent
    call,   \* per batch: pc, number of the call, since when it waits
    known,  \* transactions whose broadcast was answered
    faults  \* failures so far, in order

chain == <<pool, mined, roots>>
vars == <<now, chain, rpc, link, queue, cur, last, call, known, faults>>

None == <<>>
Idle == [pc |-> "idle"]
\* "off": no key or no contract is configured, and every batch stays SEALED.
Dialling == [pc |-> "dial", attempt |-> 1, due |-> 0]
Ready == link.pc = "ready"
Over == {"none", "confirmed", "unconfirmed", "failed", "gone"}

\* A transaction: its nonce, the batch, which of the calls for it, and when it was accepted.
TxOf(b, nonce) == [nonce |-> nonce, batch |-> b, number |-> call[b].number, at |-> now]
Accepted == pool \cup Range(mined)
LowestFree == CHOOSE n \in 0 .. Cardinality(Accepted) :
                 /\ \A t \in Accepted : t.nonce # n
                 /\ \A k \in 0 .. n - 1 : \E t \in Accepted : t.nonce = k

TypeOK ==
    /\ now \in 0 .. MaxTime /\ rpc \in {"down", "up"}
    /\ link.pc \in {"off", "dial", "wait", "ready"} /\ link.attempt \in Nat
    /\ \A k \in DOMAIN mined : mined[k].nonce = k - 1
    /\ \A t \in pool : t.nonce >= Len(mined)
    /\ call \in [Batches -> [pc : Over \cup {"queued", "sends", "waits"}, number : 0 .. MaxCalls, at : Nat]]
    /\ known \subseteq [nonce : Nat, batch : Batches, number : 1 .. MaxCalls, at : 0 .. MaxTime]

Init ==
    /\ now = 0 /\ pool = {} /\ mined = <<>> /\ roots = {} /\ rpc \in {"down", "up"}
    /\ link \in {Dialling, [Dialling EXCEPT !.pc = "off"]}
    /\ queue = <<>> /\ cur = [b \in Batches |-> Idle] /\ last = None
    /\ call = [b \in Batches |-> [pc |-> "none", number |-> 0, at |-> 0]]
    /\ known = {} /\ faults = <<>>

Fault(k) == k \in FaultKinds /\ Len(faults) < MaxFaults /\ faults' = Append(faults, k)
NoFault == UNCHANGED faults
Failed(k) == k \in Range(faults)

-----------------------------------------------------------------------------
(* The network *)

Tick ==
    /\ now < MaxTime /\ now' = now + 1
    /\ UNCHANGED <<chain, rpc, link, queue, cur, last, call, known, faults>>

RpcUp ==
    /\ rpc = "down" /\ rpc' = "up"
    /\ UNCHANGED <<now, chain, link, queue, cur, last, call, known, faults>>

\* The contract refuses a second root of a batch: the transaction is mined and reverts.
Mine ==
    /\ \E t \in pool :
         /\ t.nonce = Len(mined)
         /\ pool' = pool \ {t} /\ mined' = Append(mined, t)
         /\ roots' = IF \E r \in roots : r.batch = t.batch THEN roots ELSE roots \cup {t}
    /\ UNCHANGED <<now, rpc, link, queue, cur, last, call, known, faults>>

Drop ==
    /\ Fault("drop") /\ \E t \in pool : pool' = pool \ {t}
    /\ UNCHANGED <<now, mined, roots, rpc, link, queue, cur, last, call, known>>

\* What a node answers that may have missed what was accepted less than Lag ago.
PendingNonces ==
    {n \in 0 .. LowestFree :
       \A t \in Accepted : t.nonce \in n .. LowestFree - 1 => now - t.at < Lag}

-----------------------------------------------------------------------------
(* connect *)

RetryDelay(attempt) == Min({RetryBase * 2 ^ (attempt - 1), RetryMax})

Dial ==
    /\ link.pc = "dial"
    /\ link' = IF rpc = "up" THEN [link EXCEPT !.pc = "ready"]
               ELSE [link EXCEPT !.pc = "wait", !.due = now + RetryDelay(link.attempt)]
    /\ UNCHANGED <<now, chain, rpc, queue, cur, last, call, known, faults>>

Redial ==
    /\ link.pc = "wait" /\ now >= link.due
    /\ link' = [link EXCEPT !.pc = "dial", !.attempt = @ + 1]
    /\ UNCHANGED <<now, chain, rpc, queue, cur, last, call, known, faults>>

Restart ==
    /\ Fault("crash")
    /\ link.pc # "off" /\ link' = Dialling
    /\ queue' = <<>> /\ cur' = [b \in Batches |-> Idle] /\ last' = None
    /\ call' = [b \in Batches |-> IF call[b].pc \in Over THEN call[b] ELSE [call[b] EXCEPT !.pc = "gone"]]
    /\ UNCHANGED <<now, chain, rpc, known>>

-----------------------------------------------------------------------------
(* storeRoot and sendStoreRoot *)

\* A batch is sent again when its root is not on the chain.  Before the service is ready the
\* call throws at once.
StoreRoot(b) ==
    /\ Ready /\ call[b].pc \in Over \ {"confirmed"} /\ call[b].number < MaxCalls
    /\ call' = [call EXCEPT ![b] = [pc |-> "queued", number |-> @.number + 1, at |-> 0]]
    /\ queue' = Append(queue, b)
    /\ UNCHANGED <<now, chain, rpc, link, cur, last, known, faults>>

\* send() runs when the one before it has ended, well or not.
SendFree_Unqueued == TRUE
SendFree == \A b \in Batches : cur[b] = Idle

Ends(b, pc) == call' = [call EXCEPT ![b].pc = pc]
Throws(b) == Ends(b, "failed") /\ cur' = [cur EXCEPT ![b] = Idle]

Hint == IF last # None /\ now - last.at < HintTtl THEN last.nonce + 1 ELSE 0

AskNonce ==
    /\ SendFree /\ queue # <<>>
    /\ LET b == Head(queue)
       IN  \/ /\ \E pending \in PendingNonces :
                   cur' = [cur EXCEPT ![b] = [pc |-> "fees", nonce |-> Max({pending, Hint})]]
              /\ Ends(b, "sends") /\ NoFault
           \/ Fault("rpc") /\ Throws(b)
    /\ queue' = Tail(queue)
    /\ UNCHANGED <<now, chain, rpc, link, last, known>>

\* getFeeData, when the priority fee is capped.
CappedFees(b) ==
    /\ cur[b].pc = "fees"
    /\ \/ cur' = [cur EXCEPT ![b].pc = "send"] /\ NoFault /\ UNCHANGED call
       \/ Fault("rpc") /\ Throws(b)
    /\ UNCHANGED <<now, chain, rpc, link, queue, last, known>>

\* estimateGas reverts when the contract holds the root; a nonce that is mined is too low, and
\* one that is pending asks for a higher fee.
NotAccepted(b) ==
    /\ cur[b].pc = "send"
    /\ \/ (\E r \in roots : r.batch = b) /\ NoFault
       \/ cur[b].nonce < Len(mined) /\ NoFault
       \/ (\E t \in pool : t.nonce = cur[b].nonce) /\ NoFault
       \/ Fault("rpc")
    /\ Throws(b)
    /\ UNCHANGED <<now, chain, rpc, link, queue, last, known>>

\* One that pays more takes the place of the transaction with its nonce.
Enters(b) ==
    /\ cur[b].pc = "send"
    /\ cur[b].nonce >= Len(mined) /\ \A r \in roots : r.batch # b
    /\ pool' = {t \in pool : t.nonce # cur[b].nonce} \cup {TxOf(b, cur[b].nonce)}

\* The nonce is remembered after the send only.
Broadcast(b) ==
    /\ Enters(b)
    /\ last' = [nonce |-> cur[b].nonce, at |-> now]
    /\ known' = known \cup {TxOf(b, cur[b].nonce)}
    /\ call' = [call EXCEPT ![b] = [pc |-> "waits", number |-> @.number, at |-> now]]
    /\ cur' = [cur EXCEPT ![b] = Idle]
    /\ UNCHANGED <<now, mined, roots, rpc, link, queue, faults>>

AnswerLost(b) ==
    /\ Enters(b) /\ Fault("lost") /\ Throws(b)
    /\ UNCHANGED <<now, mined, roots, rpc, link, queue, last, known>>

-----------------------------------------------------------------------------
(* tx.wait *)

Mined(t) == t \in Range(mined)
Replaced(t) == t.nonce < Len(mined) /\ ~Mined(t)

Receipt(t) ==
    /\ Mined(t) \/ Replaced(t)
    /\ Ends(t.batch, IF t \in roots THEN "confirmed" ELSE "failed")
    /\ NoFault

UnknownOutcome_Throws == "failed"

\* The transaction may still be mined.
UnknownOutcome == "unconfirmed"

Deadline(t) ==
    /\ \/ now - call[t.batch].at >= WaitTime /\ NoFault
       \/ Fault("rpc")
    /\ Ends(t.batch, UnknownOutcome)

Wait ==
    /\ \E t \in known :
         /\ call[t.batch].pc = "waits" /\ call[t.batch].number = t.number
         /\ Receipt(t) \/ Deadline(t)
    /\ UNCHANGED <<now, chain, rpc, link, queue, cur, last, known>>

-----------------------------------------------------------------------------

Network == Tick \/ RpcUp \/ Mine \/ Drop
Connection == Dial \/ Redial \/ Restart
Send(b) == CappedFees(b) \/ NotAccepted(b) \/ Broadcast(b) \/ AnswerLost(b)
Next == Network \/ Connection \/ AskNonce \/ Wait \/ \E b \in Batches : StoreRoot(b) \/ Send(b)

Spec == Init /\ [][Next]_vars

-----------------------------------------------------------------------------
(* Properties *)

\* However nodes lag, requests fail, transactions revert and calls overlap, the transaction
\* that is sent has the first nonce that is free: it neither takes the place of one that is
\* pending nor leaves a gap that would hold it up for ever.  (A lost answer, a transaction
\* that is dropped or a restart leave the service without the knowledge it would take:
\* sendStoreRoot.)
NonceIsNext ==
    ~Failed("lost") /\ ~Failed("drop") /\ ~Failed("crash")
    => \A b \in Batches : cur[b].pc = "send" => cur[b].nonce = LowestFree

\* A call that sent its transaction and failed all the same never stores the root later on:
\* the batch is FAILED for good reason and its logs may be sealed again (storeRoot,
\* TX_OUTCOME_KNOWN).
FailedNeverLands ==
    \A t \in known :
        call[t.batch].pc = "failed" /\ call[t.batch].number = t.number
        => t \notin pool /\ t \notin roots
=============================================================================
