------------------------ MODULE MCTransactionalInbox ------------------------
(* Small instances of TransactionalInbox.                                  *)
EXTENDS TransactionalInbox, TLC

\* Two identities whose 64-bit digests collide.
Colliding == [k \in Keys |-> 0]

ExecutionSymmetry == Permutations(Executions)
=============================================================================
