--------------------------- MODULE MCQueueConsumer ---------------------------
(* Small instances of QueueConsumer for TLC. *)
EXTENDS QueueConsumer
=============================================================================
