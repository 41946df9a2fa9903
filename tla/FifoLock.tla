------------------------------ MODULE FifoLock ------------------------------
(***************************************************************************)
(* What cppcoro::async_mutex promises: at most one owner, and coroutines   *)
(* that had to wait receive the lock in the order in which they queued.    *)
(* A lock with waiters is handed over, never released, so that nobody can  *)
(* barge in front of the queue.                                            *)
(***************************************************************************)
EXTENDS Sequences

CONSTANT Coroutines

VARIABLES owners,   \* the set of coroutines that own the lock
          queue     \* the waiting coroutines, first come first

vars == <<owners, queue>>

Init ==
  /\ owners = {}
  /\ queue = << >>

(* A free lock is acquired at once; only a lock nobody waits for is free.  *)
Acquire(c) ==
  /\ owners = {}
  /\ queue = << >>
  /\ owners' = {c}
  /\ UNCHANGED queue

Enqueue(c) ==
  /\ owners # {}
  /\ queue' = Append(queue, c)
  /\ UNCHANGED owners

Release(c) ==
  /\ owners = {c}
  /\ queue = << >>
  /\ owners' = {}
  /\ UNCHANGED queue

HandOver(c) ==
  /\ owners = {c}
  /\ queue # << >>
  /\ owners' = {Head(queue)}
  /\ queue' = Tail(queue)

Next == \E c \in Coroutines : Acquire(c) \/ Enqueue(c) \/ Release(c) \/ HandOver(c)

Spec == Init /\ [][Next]_vars
=============================================================================
