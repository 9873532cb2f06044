-------------------------- MODULE MCSealScheduler --------------------------
(* Instances of SealScheduler for TLC. *)
EXTENDS SealScheduler

Log2 == 1 .. 2
Log3 == 1 .. 3

\* The clock of the backend is a tick ahead of that of Postgres.
Ahead == {-1}
=============================================================================
