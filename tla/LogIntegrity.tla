----------------------------- MODULE LogIntegrity -----------------------------
(***************************************************************************)
(* The contract LogIntegrity.sol and the network in front of it: the       *)
(* mapping batch id -> root, and the transactions that were broadcast.     *)
(* Nothing here belongs to the backend process, so nothing here is lost    *)
(* when it crashes.                                                        *)
(***************************************************************************)
EXTENDS LogRows

CONSTANTS MaxBatches,  \* bound: batch ids used in a behaviour
          MaxTxs       \* bound: transactions in flight at a time

ASSUME ChainBounds == MaxBatches \in Nat \ {0} /\ MaxTxs \in Nat \ {0}

Batches == 1 .. MaxBatches
Txs     == 1 .. MaxTxs
NoBatch == 0
NoTx    == 0   \* txHash = null

VARIABLES chain,  \* roots of the contract
          txs     \* the transactions broadcast, by hash

chainVars == <<chain, txs>>

TxStates == {"unused", "pending", "mined", "reverted", "dropped"}

TxRecord == [state : TxStates,
             batch : Batches \cup {NoBatch},
             root  : Roots \cup {NoRoot}]

UnusedTx == [state |-> "unused", batch |-> NoBatch, root |-> NoRoot]

ChainTypeOK ==
    /\ chain \in [Batches -> Roots \cup {NoRoot}]
    /\ txs \in [Txs -> TxRecord]

ChainInit ==
    /\ chain = [b \in Batches |-> NoRoot]
    /\ txs = [t \in Txs |-> UnusedTx]

\* A hash for a new transaction.  The outcome of an old one matters to those who wait
\* for it, so its number may be used again when nobody does: MaxTxs bounds the
\* transactions that are pending or waited for at a time, not those of a behaviour.
Free(t, awaited) == txs[t].state # "pending" /\ t \notin awaited

Fresh(t, awaited) ==
    /\ Free(t, awaited)
    /\ \A u \in Txs : u < t => ~Free(u, awaited)

(***************************************************************************)
(* sendStoreRoot, when the transaction reaches the network.  Gas is        *)
(* estimated against the current state, so a root that is already there is *)
(* reported before anything is sent (see CanSend), while a transaction     *)
(* that is only pending is not seen.                                       *)
(***************************************************************************)
CanSend(b) == chain[b] = NoRoot

Submit(t, b, r, awaited) ==
    /\ Fresh(t, awaited)
    /\ CanSend(b)
    /\ txs' = [txs EXCEPT ![t] = [state |-> "pending", batch |-> b, root |-> r]]
    /\ UNCHANGED chain

\* storeRoot of the contract: `Root already exists' reverts the transaction.
Mine(t) ==
    /\ txs[t].state = "pending"
    /\ IF chain[txs[t].batch] = NoRoot
       THEN /\ chain' = [chain EXCEPT ![txs[t].batch] = txs[t].root]
            /\ txs' = [txs EXCEPT ![t].state = "mined"]
       ELSE /\ txs' = [txs EXCEPT ![t].state = "reverted"]
            /\ UNCHANGED chain

\* The transaction leaves the mempool unmined, or its nonce is used by another.
Drop(t) ==
    /\ txs[t].state = "pending"
    /\ txs' = [txs EXCEPT ![t].state = "dropped"]
    /\ UNCHANGED chain

\* The development chain is reset or the contract redeployed: every root goes.
Reset ==
    /\ chain # [b \in Batches |-> NoRoot]
    /\ chain' = [b \in Batches |-> NoRoot]
    /\ txs' = [t \in Txs |-> IF txs[t].state = "pending"
                             THEN [txs[t] EXCEPT !.state = "dropped"]
                             ELSE txs[t]]

\* Mutant: any receipt confirms.
Mined_AnyOutcome(t) == txs[t].state \notin {"unused", "pending"}

\* What tx.wait can learn about a transaction that was sent.
Mined(t) == txs[t].state = "mined"
Lost(t)  == txs[t].state \in {"reverted", "dropped"}

\* checkRoot(batch, r)
CheckRoot(b, r) == IF chain[b] = NoRoot THEN "MISSING"
                   ELSE IF chain[b] = r THEN "MATCH"
                   ELSE "MISMATCH"
=============================================================================
