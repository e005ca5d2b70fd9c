---------------------------- MODULE MCOutboxRelay ----------------------------
(* Small instances of OutboxRelay for TLC. *)
EXTENDS OutboxRelay, TLC

CONSTANTS w1, w2

MCSize == [r \in Records |-> 1]
MCSizeLarge == [r \in Records |-> IF r = 1 THEN 1 ELSE 2]

WorkerSymmetry == Permutations(Workers)
=============================================================================
