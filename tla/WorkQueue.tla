------------------------------ MODULE WorkQueue ------------------------------
(***************************************************************************)
(* The local queue of a worker of static_thread_pool: class thread_state   *)
(* of lib/static_thread_pool.cpp.  The owner pushes and pops at m_head     *)
(* without a lock, other workers steal at m_tail under m_remoteMutex, and  *)
(* the buffer is replaced by one of twice the size when it is full.        *)
(*                                                                         *)
(* An action is one access to m_head or m_tail, or to the buffer slot that *)
(* the access is about.  The accesses are interleaved: the code makes      *)
(* those that matter sequentially consistent, and a relaxed read of m_tail *)
(* that is stale is one made earlier.  Data that only the holder of        *)
(* m_remoteMutex touches is read together with it.  The cursors are        *)
(* 64-bit and never wrap in practice, they are naturals here.              *)
(***************************************************************************)
EXTENDS Integers, FiniteSets

CONSTANTS MaxOps,              \* bound: how many operations the owner enqueues
          Owner,               \* the worker the queue belongs to
          Thieves,             \* the other workers
          InitialQueueSize,    \* initial_local_queue_size
          MaxLocalQueueSize,   \* max_local_queue_size
          Garbage,             \* content of a slot nobody has written
          Nobody

(* The operations, numbered in the order in which they are enqueued.       *)
Ops == 1..MaxOps

ASSUME WorkQueueAssumption ==
  /\ MaxOps \in Nat
  /\ InitialQueueSize \in Nat \ {0}
  /\ MaxLocalQueueSize \in Nat
  /\ Owner \notin Thieves
  /\ Garbage \notin Ops
  /\ Nobody \notin Thieves \cup {Owner}

VARIABLES
  m_localQueue,   \* the ring buffer
  m_mask,         \* its size minus one
  m_head,         \* next slot to push to, written by the owner only
  m_tail,         \* next slot to steal from
  m_remoteMutex,  \* who holds the spin_mutex
  ownerPc,        \* where the owner is in try_local_enqueue / try_local_pop
  entering,       \* the operation it is enqueueing
  thiefPc,        \* where each thief is in try_steal / has_any_queued_work
  queued,         \* the operations that try_local_enqueue accepted
  remote,         \* the operations it left to the global queue
  runs            \* how often each content of a slot was handed out to run

vars == <<m_localQueue, m_mask, m_head, m_tail, m_remoteMutex, ownerPc, entering,
          thiefPc, queued, remote, runs>>

buffer  == <<m_localQueue, m_mask>>
history == <<queued, remote, runs>>

TypeOK ==
  /\ m_mask \in Nat
  /\ m_localQueue \in [0 .. m_mask -> Ops \cup {Garbage}]
  /\ m_head \in Nat
  /\ m_tail \in Nat
  /\ m_remoteMutex \in Thieves \cup {Owner, Nobody}
  /\ ownerPc \in {"idle", "store", "publish", "grow", "copy",
                  "claim", "compare", "contend", "arbitrate"}
  /\ entering \in Ops \cup {Garbage}
  /\ thiefPc \in [Thieves -> {"idle", "look", "claim", "compare", "read", "check"}]
  /\ queued \in SUBSET Ops
  /\ remote \in SUBSET Ops
  /\ runs \in [Ops \cup {Garbage} -> Nat]

Init ==
  /\ m_mask = InitialQueueSize - 1
  /\ m_localQueue = [i \in 0 .. InitialQueueSize - 1 |-> Garbage]
  /\ m_head = 0
  /\ m_tail = 0
  /\ m_remoteMutex = Nobody
  /\ ownerPc = "idle"
  /\ entering = Garbage
  /\ thiefPc = [t \in Thieves |-> "idle"]
  /\ queued = {}
  /\ remote = {}
  /\ runs = [o \in Ops \cup {Garbage} |-> 0]

(* The slot of a cursor: cursor & m_mask, the size being a power of two.   *)
Slot(cursor) == cursor % (m_mask + 1)

(* A worker got an operation from the queue and resumes its coroutine.     *)
HandOut(cursor) ==
  /\ runs' = [runs EXCEPT ![m_localQueue[Slot(cursor)]] = @ + 1]
  /\ UNCHANGED <<queued, remote>>

Fresh == {op \in Ops : op = Cardinality(queued \cup remote) + 1}
-----------------------------------------------------------------------------
(* try_local_enqueue()                                                     *)

(* A slip: the last slot is used as well. *)
EnqueueFillsBuffer(op) ==
  /\ ownerPc = "idle" /\ op \in Fresh
  /\ m_head - m_tail <= m_mask
  /\ ownerPc' = "store"
  /\ entering' = op
  /\ UNCHANGED <<buffer, m_head, m_tail, m_remoteMutex, thiefPc, history>>

(* There is space left: fewer than m_mask operations between the cursors.  *)
EnqueueFindsSpace(op) ==
  /\ ownerPc = "idle" /\ op \in Fresh
  /\ m_head - m_tail < m_mask
  /\ ownerPc' = "store"
  /\ entering' = op
  /\ UNCHANGED <<buffer, m_head, m_tail, m_remoteMutex, thiefPc, history>>

EnqueueStores ==
  /\ ownerPc = "store"
  /\ m_localQueue' = [m_localQueue EXCEPT ![Slot(m_head)] = entering]
  /\ ownerPc' = "publish"
  /\ UNCHANGED <<m_mask, m_head, m_tail, m_remoteMutex, entering, thiefPc, history>>

EnqueuePublishes ==
  /\ ownerPc = "publish"
  /\ m_head' = m_head + 1
  /\ queued' = queued \cup {entering}
  /\ ownerPc' = "idle"
  /\ UNCHANGED <<buffer, m_tail, m_remoteMutex, entering, thiefPc, remote, runs>>

(* The queue is full and may not grow, or the allocation fails: the caller *)
(* enqueues the operation to the global queue instead.                     *)
EnqueueFails(op) ==
  /\ ownerPc = "idle" /\ op \in Fresh
  /\ m_head - m_tail >= m_mask
  /\ remote' = remote \cup {op}
  /\ UNCHANGED <<buffer, m_head, m_tail, m_remoteMutex, ownerPc, entering, thiefPc,
                 queued, runs>>

EnqueueAllocates(op) ==
  /\ ownerPc = "idle" /\ op \in Fresh
  /\ m_head - m_tail >= m_mask
  /\ m_mask # MaxLocalQueueSize
  /\ ownerPc' = "grow"
  /\ entering' = op
  /\ UNCHANGED <<buffer, m_head, m_tail, m_remoteMutex, thiefPc, history>>

GrowLocks ==
  /\ ownerPc = "grow"
  /\ m_remoteMutex = Nobody
  /\ m_remoteMutex' = Owner
  /\ ownerPc' = "copy"
  /\ UNCHANGED <<buffer, m_head, m_tail, entering, thiefPc, history>>

GrowLockBusy ==
  /\ ownerPc = "grow"
  /\ m_remoteMutex # Nobody
  /\ remote' = remote \cup {entering}
  /\ ownerPc' = "idle"
  /\ UNCHANGED <<buffer, m_head, m_tail, m_remoteMutex, entering, thiefPc, queued, runs>>

(* Under the lock: copy the operations to their slots in the new buffer,   *)
(* write the new one behind them, publish both and unlock.                 *)
GrowCopies ==
  LET newMask == 2 * (m_mask + 1) - 1
      CursorAt(i) == {k \in m_tail .. m_head : k % (newMask + 1) = i}
  IN  /\ ownerPc = "copy"
      /\ m_localQueue' =
           [i \in 0 .. newMask |->
              IF CursorAt(i) = {} THEN Garbage
              ELSE LET k == CHOOSE k \in CursorAt(i) : TRUE
                   IN  IF k = m_head THEN entering ELSE m_localQueue[Slot(k)]]
      /\ m_mask' = newMask
      /\ m_head' = m_head + 1
      /\ queued' = queued \cup {entering}
      /\ m_remoteMutex' = Nobody
      /\ ownerPc' = "idle"
      /\ UNCHANGED <<m_tail, entering, thiefPc, remote, runs>>
-----------------------------------------------------------------------------
(* try_local_pop()                                                         *)

PopFindsWork ==
  /\ ownerPc = "idle"
  /\ m_head - m_tail > 0
  /\ ownerPc' = "claim"
  /\ UNCHANGED <<buffer, m_head, m_tail, m_remoteMutex, entering, thiefPc, history>>

PopClaims ==
  /\ ownerPc = "claim"
  /\ m_head' = m_head - 1
  /\ ownerPc' = "compare"
  /\ UNCHANGED <<buffer, m_tail, m_remoteMutex, entering, thiefPc, history>>

(* A slip: the tail is not read again after the claim. *)
PopTakesUnchecked ==
  /\ ownerPc = "compare"
  /\ HandOut(m_head)
  /\ ownerPc' = "idle"
  /\ UNCHANGED <<buffer, m_head, m_tail, m_remoteMutex, entering, thiefPc>>

PopTakes ==
  /\ ownerPc = "compare"
  /\ m_head - m_tail >= 0
  /\ HandOut(m_head)
  /\ ownerPc' = "idle"
  /\ UNCHANGED <<buffer, m_head, m_tail, m_remoteMutex, entering, thiefPc>>

(* The race for the last operation is decided under the lock.              *)
PopContends ==
  /\ ownerPc = "compare"
  /\ m_head - m_tail < 0
  /\ ownerPc' = "contend"
  /\ UNCHANGED <<buffer, m_head, m_tail, m_remoteMutex, entering, thiefPc, history>>

PopLocks ==
  /\ ownerPc = "contend"
  /\ m_remoteMutex = Nobody
  /\ m_remoteMutex' = Owner
  /\ ownerPc' = "arbitrate"
  /\ UNCHANGED <<buffer, m_head, m_tail, entering, thiefPc, history>>

PopWinsRace ==
  /\ ownerPc = "arbitrate"
  /\ m_head - m_tail >= 0
  /\ HandOut(m_head)
  /\ m_remoteMutex' = Nobody
  /\ ownerPc' = "idle"
  /\ UNCHANGED <<buffer, m_head, m_tail, entering, thiefPc>>

PopLosesRace ==
  /\ ownerPc = "arbitrate"
  /\ m_head - m_tail < 0
  /\ m_head' = m_head + 1
  /\ m_remoteMutex' = Nobody
  /\ ownerPc' = "idle"
  /\ UNCHANGED <<buffer, m_tail, entering, thiefPc, history>>
-----------------------------------------------------------------------------
(* try_steal(); a try_lock that fails changes nothing.                     *)

StealLocks(t) ==
  /\ thiefPc[t] = "idle"
  /\ m_remoteMutex = Nobody
  /\ m_remoteMutex' = t
  /\ thiefPc' = [thiefPc EXCEPT ![t] = "look"]
  /\ UNCHANGED <<buffer, m_head, m_tail, ownerPc, entering, history>>

StealFindsNothing(t) ==
  /\ thiefPc[t] = "look"
  /\ m_head - m_tail <= 0
  /\ m_remoteMutex' = Nobody
  /\ thiefPc' = [thiefPc EXCEPT ![t] = "idle"]
  /\ UNCHANGED <<buffer, m_head, m_tail, ownerPc, entering, history>>

StealFindsWork(t) ==
  /\ thiefPc[t] = "look"
  /\ m_head - m_tail > 0
  /\ thiefPc' = [thiefPc EXCEPT ![t] = "claim"]
  /\ UNCHANGED <<buffer, m_head, m_tail, m_remoteMutex, ownerPc, entering, history>>

StealClaims(t) ==
  /\ thiefPc[t] = "claim"
  /\ m_tail' = m_tail + 1
  /\ thiefPc' = [thiefPc EXCEPT ![t] = "compare"]
  /\ UNCHANGED <<buffer, m_head, m_remoteMutex, ownerPc, entering, history>>

StealWins(t) ==
  /\ thiefPc[t] = "compare"
  /\ m_head - (m_tail - 1) > 0
  /\ thiefPc' = [thiefPc EXCEPT ![t] = "read"]
  /\ UNCHANGED <<buffer, m_head, m_tail, m_remoteMutex, ownerPc, entering, history>>

StealReads(t) ==
  /\ thiefPc[t] = "read"
  /\ HandOut(m_tail - 1)
  /\ m_remoteMutex' = Nobody
  /\ thiefPc' = [thiefPc EXCEPT ![t] = "idle"]
  /\ UNCHANGED <<buffer, m_head, m_tail, ownerPc, entering>>

StealGivesUp(t) ==
  /\ thiefPc[t] = "compare"
  /\ m_head - (m_tail - 1) <= 0
  /\ m_tail' = m_tail - 1
  /\ m_remoteMutex' = Nobody
  /\ thiefPc' = [thiefPc EXCEPT ![t] = "idle"]
  /\ UNCHANGED <<buffer, m_head, ownerPc, entering, history>>

(* has_any_queued_work(): the answer is computed between the two steps.    *)
(* A slip: the cursors are read without the lock. *)
CheckWithoutLock(t) ==
  /\ thiefPc[t] = "idle"
  /\ thiefPc' = [thiefPc EXCEPT ![t] = "check"]
  /\ UNCHANGED <<buffer, m_head, m_tail, m_remoteMutex, ownerPc, entering, history>>

CheckLocks(t) ==
  /\ thiefPc[t] = "idle"
  /\ m_remoteMutex = Nobody
  /\ m_remoteMutex' = t
  /\ thiefPc' = [thiefPc EXCEPT ![t] = "check"]
  /\ UNCHANGED <<buffer, m_head, m_tail, ownerPc, entering, history>>

CheckAnswers(t) ==
  /\ thiefPc[t] = "check"
  /\ m_remoteMutex' = Nobody
  /\ thiefPc' = [thiefPc EXCEPT ![t] = "idle"]
  /\ UNCHANGED <<buffer, m_head, m_tail, ownerPc, entering, history>>
-----------------------------------------------------------------------------
TryLocalEnqueue ==
  \/ \E op \in Ops : EnqueueFindsSpace(op) \/ EnqueueFails(op) \/ EnqueueAllocates(op)
  \/ EnqueueStores \/ EnqueuePublishes \/ GrowLocks \/ GrowLockBusy \/ GrowCopies

TryLocalPop ==
  \/ PopFindsWork \/ PopClaims \/ PopTakes \/ PopContends
  \/ PopLocks \/ PopWinsRace \/ PopLosesRace

TrySteal(t) ==
  \/ StealLocks(t) \/ StealFindsNothing(t) \/ StealFindsWork(t) \/ StealClaims(t)
  \/ StealWins(t) \/ StealReads(t) \/ StealGivesUp(t)

HasAnyQueuedWork(t) == CheckLocks(t) \/ CheckAnswers(t)

Next ==
  \/ TryLocalEnqueue
  \/ TryLocalPop
  \/ \E t \in Thieves : TrySteal(t) \/ HasAnyQueuedWork(t)

Spec == Init /\ [][Next]_vars
-----------------------------------------------------------------------------
(* A thief claimed the operation below m_tail and has not yet decided.     *)
StealContests == \E t \in Thieves : thiefPc[t] = "compare"
StealPending  == \E t \in Thieves : thiefPc[t] = "read"

(* The owner claimed the operation at m_head and has not yet decided.      *)
PopContests == ownerPc \in {"compare", "contend", "arbitrate"}

(* The cursors of the operations not handed out yet, claims included.      *)
Window ==
  (IF StealContests \/ StealPending THEN m_tail - 1 ELSE m_tail) ..
  (IF PopContests THEN m_head ELSE m_head - 1)

Waiting == {op \in queued : runs[op] = 0}

(* However pops and steals race for the last operation, and whatever slot  *)
(* a push reuses, no operation is resumed twice, none before it was        *)
(* enqueued, and no slot is read that nobody wrote.                        *)
HandedOutOnce ==
  \A o \in Ops \cup {Garbage} : runs[o] > 0 => runs[o] = 1 /\ o \in queued

(* No operation is lost: outside a race for it, each accepted operation    *)
(* that has not run is in the buffer at a cursor between tail and head, in *)
(* a slot of its own, across every growth of the buffer.                   *)
NothingLost ==
  /\ TypeOK
  /\ \A op \in Waiting : \E k \in Window : m_localQueue[Slot(k)] = op

(* has_any_queued_work() answers "no" only if nothing can be stolen: an    *)
(* operation still waiting then is the one its owner is about to pop.      *)
EmptyAnswerIsRight ==
  \A t \in Thieves :
    thiefPc[t] = "check" /\ m_head - m_tail <= 0 =>
      \A op \in Waiting : PopContests /\ m_localQueue[Slot(m_head)] = op
=============================================================================
