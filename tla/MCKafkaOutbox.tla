--------------------------- MODULE MCKafkaOutbox ---------------------------
(* Instances of KafkaOutbox for TLC. *)
EXTENDS KafkaOutbox, TLC
=============================================================================
