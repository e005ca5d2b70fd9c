-------------------------- MODULE AtLeastOnceOutbox --------------------------
(***************************************************************************)
(* What the transactional outbox promises, without workers, leases or      *)
(* tokens: an event committed with its business transaction is handed to   *)
(* the broker at most MaxAttempts times, stays in the table until the      *)
(* broker has confirmed one of its copies, and is then settled once.  A    *)
(* copy may still reach the broker after that: it is a duplicate under the *)
(* same event identity, never a new event.                                 *)
(***************************************************************************)
EXTENDS Integers

CONSTANTS Records,      \* the events
          MaxAttempts   \* copies one event may cost

VARIABLES status,       \* where the row of each event is in its life
          copies,       \* numbers of the copies the broker accepted
          confirmed     \* the broker confirmed one of them

outboxVars == <<status, copies, confirmed>>

Init == /\ status = [r \in Records |-> "absent"]
        /\ copies = [r \in Records |-> {}]
        /\ confirmed = [r \in Records |-> FALSE]

\* The business transaction that enqueued the event commits.
Commit(r) == /\ status[r] = "absent"
             /\ status' = [status EXCEPT ![r] = "pending"]
             /\ UNCHANGED <<copies, confirmed>>

\* The broker accepts copy number n; the sender may or may not learn of it.
Send(r, n) == /\ status[r] # "absent"
              /\ n \notin copies[r]
              /\ copies' = [copies EXCEPT ![r] = @ \union {n}]
              /\ \/ UNCHANGED confirmed
                 \/ confirmed' = [confirmed EXCEPT ![r] = TRUE]
              /\ UNCHANGED status

\* The row of a confirmed event is marked delivered.
Settle(r) == /\ status[r] = "pending"
             /\ confirmed[r]
             /\ status' = [status EXCEPT ![r] = "delivered"]
             /\ UNCHANGED <<copies, confirmed>>

\* Retention deletes settled rows.
Forget(S) == /\ \A r \in S : status[r] = "delivered"
             /\ status' = [r \in Records |->
                              IF r \in S THEN "deleted" ELSE status[r]]
             /\ UNCHANGED <<copies, confirmed>>

Next == \/ \E r \in Records : \/ Commit(r) \/ Settle(r)
                              \/ \E n \in 1 .. MaxAttempts : Send(r, n)
        \/ \E S \in SUBSET Records : Forget(S)

Spec == Init /\ [][Next]_outboxVars
=============================================================================
