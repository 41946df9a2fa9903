----------------------------- MODULE AsyncMutex -----------------------------
(***************************************************************************)
(* cppcoro::async_mutex (lib/async_mutex.cpp, async_mutex.hpp).            *)
(*                                                                         *)
(* The atomic word m_state is not_locked, locked_no_waiters or the address *)
(* of the newest operation of a linked stack of waiters.  It is            *)
(* represented by the flag `locked' and by the stack `newWaiters', newest  *)
(* first; StateWord is the value a load or a compare-exchange sees.  An    *)
(* operation object lives in the frame of the coroutine that awaits it, so *)
(* the address of an operation is the coroutine, and a coroutine that      *)
(* locks again reuses its address (the ABA case of the compare-exchange).  *)
(*                                                                         *)
(* An action is one access to m_state together with the accesses to data   *)
(* that only the owner of the lock, or of the operation, can touch.  A     *)
(* spurious failure of compare_exchange_weak reloads the value it already  *)
(* had, which is a stuttering step.                                        *)
(***************************************************************************)
EXTENDS Participants, SequencesExt

CONSTANTS NotLocked,         \* async_mutex::not_locked
          LockedNoWaiters,   \* async_mutex::locked_no_waiters
          NoCaller

ASSUME ConstantsAssumption ==
  /\ NotLocked # LockedNoWaiters
  /\ {NotLocked, LockedNoWaiters, NoCaller} \cap Coroutines = {}

VARIABLES
  locked,       \* m_state # not_locked
  newWaiters,   \* the stack m_state points to
  m_waiters,    \* the list of waiters only the owner of the lock touches
  pc,           \* where each coroutine is
  oldState,     \* the local `oldState' of await_suspend()
  caller        \* whose unlock() is running this coroutine, inside resume()

vars == <<locked, newWaiters, m_waiters, pc, oldState, caller>>

StateWord ==
  IF ~locked THEN NotLocked
  ELSE IF newWaiters = << >> THEN LockedNoWaiters ELSE Head(newWaiters)

TypeOK ==
  /\ locked \in BOOLEAN
  /\ newWaiters \in Seq(Coroutines)
  /\ m_waiters \in Seq(Coroutines)
  /\ pc \in [Coroutines -> {"running", "suspending", "queued", "owner",
                            "collecting", "resuming"}]
  /\ oldState \in [Coroutines -> Coroutines \cup {NotLocked, LockedNoWaiters}]
  /\ caller \in [Coroutines -> Coroutines \cup {NoCaller}]

Init ==
  /\ locked = FALSE
  /\ newWaiters = << >>
  /\ m_waiters = << >>
  /\ pc = [c \in Coroutines |-> "running"]
  /\ oldState = [c \in Coroutines |-> NotLocked]
  /\ caller = [c \in Coroutines |-> NoCaller]

(***************************************************************************)
(* resume() is a nested call: when coroutine c suspends, the coroutine     *)
(* whose unlock() resumed it returns from that unlock().                   *)
(***************************************************************************)
ReturnToCaller(c, pcOfC) ==
  /\ pc' = [d \in Coroutines |-> IF d = c THEN pcOfC
                                 ELSE IF d = caller[c] THEN "running" ELSE pc[d]]
  /\ caller' = [caller EXCEPT ![c] = NoCaller]

(* The end of unlock(): m_waiters = waitersHead->m_next, then the head of  *)
(* the list is resumed as the new owner, inside this call.                 *)
ResumeNext(c, waiters) ==
  /\ m_waiters' = Tail(waiters)
  /\ pc' = [pc EXCEPT ![c] = "resuming", ![Head(waiters)] = "owner"]
  /\ caller' = [caller EXCEPT ![Head(waiters)] = c]

-----------------------------------------------------------------------------
(* Slips the properties below must catch: variants of the operations that  *)
(* differ from the code in one place.  No specification uses them.         *)

(* a store where the compare-exchange re-validates not_locked *)
SuspendAcquiresStale(c) ==
  /\ pc[c] = "suspending"
  /\ oldState[c] = NotLocked
  /\ locked' = TRUE
  /\ pc' = [pc EXCEPT ![c] = "owner"]
  /\ UNCHANGED <<newWaiters, m_waiters, oldState, caller>>

(* a store of not_locked instead of the compare-exchange *)
UnlockStores(c) ==
  /\ pc[c] = "owner"
  /\ m_waiters = << >>
  /\ locked' = FALSE
  /\ pc' = [pc EXCEPT ![c] = "running"]
  /\ UNCHANGED <<newWaiters, m_waiters, oldState, caller>>

(* the exchange without the compare-exchange before it *)
UnlockSkipsCompare(c) ==
  /\ pc[c] = "owner"
  /\ m_waiters = << >>
  /\ pc' = [pc EXCEPT ![c] = "collecting"]
  /\ UNCHANGED <<locked, newWaiters, m_waiters, oldState, caller>>

(* the stack is not reversed *)
UnlockCollectsNewestFirst(c) ==
  /\ pc[c] = "collecting"
  /\ newWaiters' = << >>
  /\ ResumeNext(c, newWaiters)
  /\ UNCHANGED <<locked, oldState>>
-----------------------------------------------------------------------------
(* try_lock(): one strong compare-exchange; a failed one changes nothing.  *)
TryLock(c) ==
  /\ pc[c] = "running"
  /\ StateWord = NotLocked
  /\ locked' = TRUE
  /\ pc' = [pc EXCEPT ![c] = "owner"]
  /\ UNCHANGED <<newWaiters, m_waiters, oldState, caller>>

(* co_await lock_async(): await_ready() is false, await_suspend() loads.   *)
LockAsync(c) ==
  /\ pc[c] = "running"
  /\ oldState' = [oldState EXCEPT ![c] = StateWord]
  /\ pc' = [pc EXCEPT ![c] = "suspending"]
  /\ UNCHANGED <<locked, newWaiters, m_waiters, caller>>

SuspendAcquires(c) ==
  /\ pc[c] = "suspending"
  /\ oldState[c] = NotLocked
  /\ StateWord = oldState[c]
  /\ locked' = TRUE
  /\ pc' = [pc EXCEPT ![c] = "owner"]
  /\ UNCHANGED <<newWaiters, m_waiters, oldState, caller>>

SuspendQueues(c) ==
  /\ pc[c] = "suspending"
  /\ oldState[c] # NotLocked
  /\ StateWord = oldState[c]
  /\ newWaiters' = Cons(c, newWaiters)
  /\ ReturnToCaller(c, "queued")
  /\ UNCHANGED <<locked, m_waiters, oldState>>

SuspendRetries(c) ==
  /\ pc[c] = "suspending"
  /\ StateWord # oldState[c]
  /\ oldState' = [oldState EXCEPT ![c] = StateWord]
  /\ UNCHANGED <<locked, newWaiters, m_waiters, pc, caller>>

(* unlock() with no waiter in m_waiters: the strong compare-exchange       *)
(* releases the lock, or fails because somebody queued.                    *)
UnlockReleases(c) ==
  /\ pc[c] = "owner"
  /\ m_waiters = << >>
  /\ StateWord = LockedNoWaiters
  /\ locked' = FALSE
  /\ pc' = [pc EXCEPT ![c] = "running"]
  /\ UNCHANGED <<newWaiters, m_waiters, oldState, caller>>

UnlockFindsNewWaiters(c) ==
  /\ pc[c] = "owner"
  /\ m_waiters = << >>
  /\ StateWord # LockedNoWaiters
  /\ pc' = [pc EXCEPT ![c] = "collecting"]
  /\ UNCHANGED <<locked, newWaiters, m_waiters, oldState, caller>>

(* The exchange takes the whole stack; reversing it restores the arrival   *)
(* order.                                                                  *)
UnlockCollects(c) ==
  /\ pc[c] = "collecting"
  /\ newWaiters' = << >>
  /\ ResumeNext(c, Reverse(newWaiters))
  /\ UNCHANGED <<locked, oldState>>

UnlockHandsOver(c) ==
  /\ pc[c] = "owner"
  /\ m_waiters # << >>
  /\ ResumeNext(c, m_waiters)
  /\ UNCHANGED <<locked, newWaiters, oldState>>

(* A resumed coroutine suspends on something else, or finishes; it may own *)
(* the lock meanwhile, ownership is not tied to a thread.                  *)
SuspendElsewhere(c) ==
  /\ pc[c] \in {"running", "owner"}
  /\ caller[c] # NoCaller
  /\ ReturnToCaller(c, pc[c])
  /\ UNCHANGED <<locked, newWaiters, m_waiters, oldState>>

Unlock(c) ==
  UnlockReleases(c) \/ UnlockFindsNewWaiters(c) \/ UnlockCollects(c) \/ UnlockHandsOver(c)

AwaitSuspend(c) == SuspendAcquires(c) \/ SuspendQueues(c) \/ SuspendRetries(c)

Next ==
  \E c \in Coroutines :
    \/ TryLock(c) \/ LockAsync(c) \/ AwaitSuspend(c)
    \/ Unlock(c) \/ SuspendElsewhere(c)

Spec == Init /\ [][Next]_vars

(* An owner eventually unlocks (the contract of the mutex) and the threads *)
(* that run coroutines are scheduled.                                      *)
Fairness == \A c \in Coroutines : WF_vars(AwaitSuspend(c)) /\ WF_vars(Unlock(c))

FairSpec == Spec /\ Fairness
-----------------------------------------------------------------------------
Owners == {c \in Coroutines : pc[c] \in {"owner", "collecting"}}

(* The waiters in the order in which unlock() will resume them.            *)
Waiting == m_waiters \o Reverse(newWaiters)

(* The lock is held by exactly one coroutine while m_state is not          *)
(* not_locked, and by none when it is: no step of await_suspend(),         *)
(* try_lock() or of the hand-over in unlock() creates a second owner or    *)
(* leaves a locked mutex without one.                                      *)
MutualExclusion ==
  /\ \A c, d \in Owners : c = d
  /\ locked <=> Owners # {}

(* No waiter is lost and none is resumed twice: the two lists of the mutex *)
(* hold exactly the suspended coroutines, each one once, although pushes   *)
(* race with the exchange in unlock() and addresses are reused.            *)
WaitersAreTheSuspended ==
  /\ IsInjective(Waiting)
  /\ ToSet(Waiting) = {c \in Coroutines : pc[c] = "queued"}
  /\ ~locked => Waiting = << >>

(* The assertion after the exchange in unlock() (async_mutex.cpp:65): once *)
(* the releasing compare-exchange failed the word still points to a waiter.*)
CollectFindsWaiter ==
  \A c \in Coroutines : pc[c] = "collecting" => newWaiters # << >> /\ m_waiters = << >>

(* resume() nests: a coroutine inside the resume() of its unlock() is      *)
(* waiting for exactly one coroutine, which is not suspended in the mutex, *)
(* and nobody resumes a coroutine whose unlock() has not returned.         *)
ResumeNesting ==
  /\ \A c \in Coroutines :
       caller[c] # NoCaller => pc[caller[c]] = "resuming" /\ pc[c] # "queued"
  /\ \A d \in Coroutines : pc[d] = "resuming" => \E c \in Coroutines : caller[c] = d
  /\ \A c, d \in Coroutines : caller[c] = caller[d] /\ caller[c] # NoCaller => c = d

(* The mutex implements the first-come first-served lock.                  *)
Fifo == INSTANCE FifoLock WITH owners <- Owners, queue <- Waiting

ImplementsFifoLock == Fifo!Spec

(* A coroutine that was queued by await_suspend() eventually owns the lock.*)
QueuedGetsLock == \A c \in Coroutines : pc[c] = "queued" ~> pc[c] = "owner"
=============================================================================
