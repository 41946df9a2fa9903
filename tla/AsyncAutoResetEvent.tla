------------------------- MODULE AsyncAutoResetEvent -------------------------
(***************************************************************************)
(* cppcoro::async_auto_reset_event (lib/async_auto_reset_event.cpp).       *)
(*                                                                         *)
(* m_state packs two 32-bit counters, of calls of set() and of waiters,    *)
(* that are read and written together.  Whoever makes both of them         *)
(* positive has "acquired the lock" and is responsible for resuming        *)
(* waiters; it alone touches m_waiters until it makes one of them zero     *)
(* again.                                                                  *)
(*                                                                         *)
(* The actors are coroutines, which await the event, and setters, which    *)
(* call set() and reset().  An action is one access to m_state,            *)
(* m_newWaiters or m_refCount; a compare-exchange loop is the exchange     *)
(* that succeeds.  A coroutine that is resumed inside resume_waiters()     *)
(* runs beside its resumer here, which gives more interleavings than the   *)
(* nested call.                                                            *)
(***************************************************************************)
EXTENDS EventParticipants, SequencesExt

Actors == Coroutines \cup Setters

VARIABLES
  setCount,       \* bits 0-31 of m_state
  waiterCount,    \* bits 32-63 of m_state
  m_newWaiters,   \* stack of operations, newest first
  m_waiters,      \* list of operations, oldest first, touched under the lock only
  m_refCount,     \* of the operation of each coroutine
  pc,             \* where each actor is
  oldState,       \* what co_await loaded from m_state
  batch,          \* waiterCountToResume, of an actor in resume_waiters
  taken,          \* its loop variable i
  toResume        \* its waitersToResumeList

state == <<setCount, waiterCount>>
resumer == <<batch, taken, toResume>>
vars == <<state, m_newWaiters, m_waiters, m_refCount, pc, oldState, resumer>>

LockLabels == {"dequeue", "release"}
Labels == LockLabels \cup {"running", "acquire", "push", "count", "resume", "unref", "suspended"}

(* A local variable that is out of scope has its initial value.            *)
OutOfScope == <<0, 0>>

TypeOK ==
  /\ setCount \in Nat
  /\ waiterCount \in Nat
  /\ m_newWaiters \in Seq(Coroutines)
  /\ m_waiters \in Seq(Coroutines)
  /\ m_refCount \in [Coroutines -> 0 .. 2]
  /\ pc \in [Actors -> Labels]
  /\ oldState \in [Coroutines -> Nat \X Nat]
  /\ batch \in [Actors -> Nat]
  /\ taken \in [Actors -> Nat]
  /\ toResume \in [Actors -> Seq(Coroutines)]

Init ==
  /\ setCount \in {0, 1}
  /\ waiterCount = 0
  /\ m_newWaiters = << >>
  /\ m_waiters = << >>
  /\ m_refCount = [c \in Coroutines |-> 0]
  /\ pc = [a \in Actors |-> "running"]
  /\ oldState = [c \in Coroutines |-> OutOfScope]
  /\ batch = [a \in Actors |-> 0]
  /\ taken = [a \in Actors |-> 0]
  /\ toResume = [a \in Actors |-> << >>]

Goto(a, label) == pc' = [pc EXCEPT ![a] = label]

(* get_resumable_waiter_count                                              *)
Resumable(sets, waiters) == IF sets < waiters THEN sets ELSE waiters

(* resume_waiters(state): its first statements.                            *)
StartResuming(a, sets, waiters) ==
  /\ batch' = [batch EXCEPT ![a] = Resumable(sets, waiters)]
  /\ taken' = [taken EXCEPT ![a] = 0]
  /\ Goto(a, "dequeue")
  /\ UNCHANGED toResume

(* Its loop ends and the waiters taken are resumed.                        *)
StopResuming(a) ==
  /\ batch' = [batch EXCEPT ![a] = 0]
  /\ taken' = [taken EXCEPT ![a] = 0]
  /\ Goto(a, "resume")
  /\ UNCHANGED toResume

-----------------------------------------------------------------------------
(* set() and reset().                                                      *)

SetIsNoOp(s) ==
  /\ pc[s] = "running"
  /\ setCount > waiterCount
  /\ UNCHANGED vars

(* The count is incremented and this is not a transition to both counts    *)
(* positive: there is no waiter, or another actor has the lock.            *)
SetCounts(s) ==
  /\ pc[s] = "running"
  /\ setCount <= waiterCount
  /\ (setCount = 0 /\ waiterCount = 0) \/ setCount > 0
  /\ setCount' = setCount + 1
  /\ UNCHANGED <<waiterCount, m_newWaiters, m_waiters, m_refCount, pc, oldState, resumer>>

SetLocks(s) ==
  /\ pc[s] = "running"
  /\ setCount = 0
  /\ waiterCount > 0
  /\ setCount' = 1
  /\ StartResuming(s, 1, waiterCount)
  /\ UNCHANGED <<waiterCount, m_newWaiters, m_waiters, m_refCount, oldState>>

Reset(s) ==
  /\ pc[s] = "running"
  /\ setCount > waiterCount
  /\ setCount' = setCount - 1
  /\ UNCHANGED <<waiterCount, m_newWaiters, m_waiters, m_refCount, pc, oldState, resumer>>

Set(s) == SetIsNoOp(s) \/ SetCounts(s) \/ SetLocks(s)

-----------------------------------------------------------------------------
(* operator co_await() and await_suspend().                                *)

CoAwait(c) ==
  /\ pc[c] = "running"
  /\ \/ /\ setCount > waiterCount
        /\ oldState' = [oldState EXCEPT ![c] = state]
        /\ Goto(c, "acquire")
     \/ /\ setCount <= waiterCount
        /\ Goto(c, "push")
        /\ UNCHANGED oldState
  /\ UNCHANGED <<state, m_newWaiters, m_waiters, m_refCount, resumer>>

AcquireSucceeds(c) ==
  /\ pc[c] = "acquire"
  /\ state = oldState[c]
  /\ setCount' = setCount - 1
  /\ Goto(c, "running")
  /\ oldState' = [oldState EXCEPT ![c] = OutOfScope]
  /\ UNCHANGED <<waiterCount, m_newWaiters, m_waiters, m_refCount, resumer>>

AcquireFails(c) ==
  /\ pc[c] = "acquire"
  /\ state # oldState[c]
  /\ Goto(c, "push")
  /\ oldState' = [oldState EXCEPT ![c] = OutOfScope]
  /\ UNCHANGED <<state, m_newWaiters, m_waiters, m_refCount, resumer>>

(* The operation is constructed with two references, one for the list and  *)
(* one for await_suspend(), and pushed on m_newWaiters.                    *)
Push(c) ==
  /\ pc[c] = "push"
  /\ m_refCount' = [m_refCount EXCEPT ![c] = 2]
  /\ m_newWaiters' = Cons(c, m_newWaiters)
  /\ Goto(c, "count")
  /\ UNCHANGED <<state, m_waiters, oldState, resumer>>

(* A slip: a waiter never resumes waiters itself, set() is left to do so.  *)
CountNeverLocks(c) ==
  /\ pc[c] = "count"
  /\ waiterCount' = waiterCount + 1
  /\ Goto(c, "unref")
  /\ UNCHANGED <<setCount, m_newWaiters, m_waiters, m_refCount, oldState, resumer>>

(* m_state.fetch_add(waiter_increment): the lock is acquired when there    *)
(* was no waiter and the event was set.                                    *)
Count(c) ==
  /\ pc[c] = "count"
  /\ waiterCount' = waiterCount + 1
  /\ \/ /\ setCount > 0
        /\ waiterCount = 0
        /\ StartResuming(c, setCount, 1)
     \/ /\ setCount = 0 \/ waiterCount > 0
        /\ Goto(c, "unref")
        /\ UNCHANGED resumer
  /\ UNCHANGED <<setCount, m_newWaiters, m_waiters, m_refCount, oldState>>

(* A slip: await_suspend always suspends.                                  *)
UnrefSuspends(c) ==
  /\ pc[c] = "unref"
  /\ m_refCount' = [m_refCount EXCEPT ![c] = @ - 1]
  /\ Goto(c, "suspended")
  /\ UNCHANGED <<state, m_newWaiters, m_waiters, oldState, resumer>>

(* The last step of await_suspend: it continues if the waiter was released *)
(* meanwhile.                                                              *)
Unref(c) ==
  /\ pc[c] = "unref"
  /\ m_refCount' = [m_refCount EXCEPT ![c] = @ - 1]
  /\ Goto(c, IF m_refCount[c] = 1 THEN "running" ELSE "suspended")
  /\ UNCHANGED <<state, m_newWaiters, m_waiters, oldState, resumer>>

-----------------------------------------------------------------------------
(* resume_waiters().                                                       *)

(* A slip: new waiters are not reversed.                                   *)
RefilledNewestFirst == IF m_waiters = << >> THEN m_newWaiters ELSE m_waiters

(* The list m_waiters once the new waiters are moved to it, if it is empty.*)
Refilled == IF m_waiters = << >> THEN Reverse(m_newWaiters) ELSE m_waiters

(* One iteration of the for loop; the assertion that there is a waiter is  *)
(* the property DequeueFindsWaiter.                                        *)
Dequeue(a) ==
  /\ pc[a] = "dequeue"
  /\ Refilled # << >>
  /\ m_newWaiters' = IF m_waiters = << >> THEN << >> ELSE m_newWaiters
  /\ m_waiters' = Tail(Refilled)
  /\ toResume' = [toResume EXCEPT ![a] = Append(@, Head(Refilled))]
  /\ taken' = [taken EXCEPT ![a] = @ + 1]
  /\ Goto(a, IF taken[a] + 1 = batch[a] THEN "release" ELSE "dequeue")
  /\ UNCHANGED <<state, m_refCount, oldState, batch>>

(* m_state.fetch_sub(delta): the loop goes round while waiters can be      *)
(* resumed, otherwise the lock is released.                                *)
Release(a) ==
  LET sets == setCount - batch[a]
      waiters == waiterCount - batch[a]
  IN /\ pc[a] = "release"
     /\ setCount' = sets
     /\ waiterCount' = waiters
     /\ \/ /\ Resumable(sets, waiters) > 0
           /\ StartResuming(a, sets, waiters)
        \/ /\ Resumable(sets, waiters) = 0
           /\ StopResuming(a)
     /\ UNCHANGED <<m_newWaiters, m_waiters, m_refCount, oldState>>

Afterwards(a) == IF a \in Coroutines THEN "unref" ELSE "running"

(* One waiter is released: it is resumed here unless its await_suspend()   *)
(* has not returned, which will then not suspend.                          *)
Resume(a) ==
  /\ pc[a] = "resume"
  /\ toResume[a] # << >>
  /\ LET c == Head(toResume[a])
     IN /\ m_refCount' = [m_refCount EXCEPT ![c] = @ - 1]
        /\ pc' = IF m_refCount[c] = 1 THEN [pc EXCEPT ![c] = "running"] ELSE pc
  /\ toResume' = [toResume EXCEPT ![a] = Tail(@)]
  /\ UNCHANGED <<state, m_newWaiters, m_waiters, oldState, batch, taken>>

ResumeEnds(a) ==
  /\ pc[a] = "resume"
  /\ toResume[a] = << >>
  /\ Goto(a, Afterwards(a))
  /\ UNCHANGED <<state, m_newWaiters, m_waiters, m_refCount, oldState, resumer>>

ResumeWaiters(a) == Dequeue(a) \/ Release(a) \/ Resume(a) \/ ResumeEnds(a)

AwaitSuspend(c) == Push(c) \/ Count(c) \/ Unref(c)

Next ==
  \/ \E s \in Setters : Set(s) \/ Reset(s)
  \/ \E c \in Coroutines :
       CoAwait(c) \/ AcquireSucceeds(c) \/ AcquireFails(c) \/ AwaitSuspend(c)
  \/ \E a \in Actors : ResumeWaiters(a)

(* A call that has started goes on; nobody has to call set() or co_await.  *)
Spec ==
  /\ Init /\ [][Next]_vars
  /\ \A c \in Coroutines : WF_vars(AwaitSuspend(c))
  /\ \A a \in Actors : WF_vars(ResumeWaiters(a))

-----------------------------------------------------------------------------
(* What makes the event correct.                                           *)

LockHolders == {a \in Actors : pc[a] \in LockLabels}
Pushed == {c \in Coroutines : pc[c] = "count"}
Released == UNION {ToSet(toResume[a]) : a \in Actors}
Queued == ToSet(m_waiters) \cup ToSet(m_newWaiters)

(* m_waiters is touched by one actor at a time: "We acquired the lock"     *)
(* holds of at most one of them, exactly while both counts are positive,   *)
(* and the waiters it took on are covered by both counts.                  *)
LockIsExclusive ==
  /\ \A a, b \in LockHolders : a = b
  /\ (LockHolders # {}) <=> (setCount > 0 /\ waiterCount > 0)
  /\ \A a \in LockHolders : batch[a] <= setCount /\ batch[a] <= waiterCount

(* "There should always be enough waiters in the list as the waiters are   *)
(* queued before the waiter-count is incremented": the two assertions of   *)
(* resume_waiters hold, for the whole batch.                               *)
DequeueFindsWaiter ==
  \A a \in LockHolders :
    pc[a] = "dequeue" => batch[a] - taken[a] <= Len(m_waiters) + Len(m_newWaiters)

(* No waiter is lost, released twice or resumed while await_suspend() runs:*)
(* an operation is in one list while it has the reference of the list, and *)
(* a suspended coroutine always is.                                        *)
OneReferencePerList ==
  /\ Queued \cap Released = {}
  /\ \A c \in Coroutines :
       LET lists == IF c \in Queued \cup Released THEN 1 ELSE 0
           awaiting == IF pc[c] \in {"running", "acquire", "push", "suspended"} THEN 0 ELSE 1
       IN m_refCount[c] = lists + awaiting
  /\ \A c \in Coroutines : pc[c] = "suspended" => c \in Queued \cup Released

(* A set() that is not a no-op releases a waiter as soon as there is one:  *)
(* when no actor is between two accesses to m_state, an event that is set  *)
(* has no waiter queued.                                                   *)
SetMeansNoWaiter ==
  (LockHolders = {} /\ Pushed = {} /\ setCount > 0) => Queued = {}

(* "Reverse order of new waiters so they are resumed in FIFO": waiters     *)
(* leave the event in the order in which they were pushed.                 *)
WaitOrder == m_waiters \o Reverse(m_newWaiters)

WaitersAreFifo ==
  [][\/ WaitOrder' = WaitOrder
     \/ \E c \in Coroutines : \/ WaitOrder' = Append(WaitOrder, c)
                              \/ WaitOrder = Cons(c, WaitOrder')]_vars

(* The lock is given back: set() and co_await, however they interleave,    *)
(* never keep one actor dequeueing for ever, so the waiters it took are    *)
(* resumed.                                                                *)
ReleasedIsResumed ==
  \A c \in Coroutines : (c \in Released) ~> (pc[c] = "running")
=============================================================================
