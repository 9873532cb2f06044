------------------------------- MODULE Topics -------------------------------
(***************************************************************************)
(* What the backend and the detection service share: the logs and the      *)
(* Kafka topics.  One sequence stands for alerts.raw and alerts.cde, which *)
(* have the same producer and the same consumer.                           *)
(***************************************************************************)
EXTENDS Integers, Sequences, FiniteSets

CONSTANT Logs

VARIABLES raw,    \* logs.raw
          alertq  \* alerts.raw and alerts.cde

None == "none"
=============================================================================
