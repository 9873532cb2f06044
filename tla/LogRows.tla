------------------------------- MODULE LogRows -------------------------------
(***************************************************************************)
(* The rows of table `logs' as the integrity code sees them, and the       *)
(* Merkle root of a set of rows.                                           *)
(*                                                                         *)
(* A log is a number: its place in the order (created_at, id) that         *)
(* sealBatchNow and getLogsForBatch both sort by.  What a row contains is  *)
(* reduced to what the integrity checks can tell apart: whether the row is *)
(* there, which raw_hash it carries and whether its fields still hash to   *)
(* that raw_hash.  A root is represented by the leaves it commits to; that *)
(* is sha256 taken as injective.                                           *)
(***************************************************************************)
EXTENDS Integers, FiniteSets

CONSTANTS Logs,    \* the logs that may ever be ingested
          NoRoot   \* bytes32(0): what getRoot returns for an unknown batch

ASSUME LogsAreNumbers == Logs \subseteq Nat /\ IsFiniteSet(Logs)

(***************************************************************************)
(* "none"     not ingested yet                                             *)
(* "ok"       as LogService.ingest wrote it                                *)
(* "content"  some field changed behind the program's back, raw_hash kept  *)
(* "hash"     raw_hash changed, the fields kept                            *)
(* "both"     fields changed and raw_hash recomputed from them             *)
(* "gone"     the row was deleted                                          *)
(***************************************************************************)
RowStates == {"none", "ok", "content", "hash", "both", "gone"}

Leaves == {"orig", "alt"}

Roots == UNION { [S -> Leaves] : S \in SUBSET Logs }

ASSUME NoRootIsNoRoot == NoRoot \notin Roots

Present(s) == s \notin {"none", "gone"}

\* The raw_hash column of a row.
LeafOf(s) == IF s \in {"hash", "both"} THEN "alt" ELSE "orig"

\* The fields of the row hash to its own raw_hash.
IsRawHashIntact(s) == s \in {"ok", "both"}

\* merkle.buildTree over the rows of S that are still there.
RootOf(rows, S) == [l \in {k \in S : Present(rows[k])} |-> LeafOf(rows[l])]

\* The rows of S whose content no longer matches their own raw_hash.
Modified(rows, S) == {l \in S : Present(rows[l]) /\ ~IsRawHashIntact(rows[l])}

\* The n first members of S.
Oldest(S, n) == {l \in S : Cardinality({k \in S : k < l}) < n}
=============================================================================
