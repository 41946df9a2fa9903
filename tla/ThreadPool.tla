------------------------------ MODULE ThreadPool ------------------------------
(***************************************************************************)
(* cppcoro::static_thread_pool (lib/static_thread_pool.cpp): scheduling,   *)
(* the global queue, stealing, going to sleep, waking up and shutdown.     *)
(*                                                                         *)
(* A local queue is a sequence whose operations are atomic, oldest first:  *)
(* module WorkQueue has their detail and checks that nothing is lost or    *)
(* handed out twice.  Everything else is one action per access to a shared *)
(* atomic or to a queue, and an action per iteration of a loop over the    *)
(* workers.  A compare-exchange loop is the exchange that succeeds.        *)
(*                                                                         *)
(* An operation is a coroutine suspended in `co_await pool.schedule()'.    *)
(* The threads are the workers, Submitters outside of the pool, and Main,  *)
(* which destroys the pool.                                                *)
(***************************************************************************)
EXTENDS Integers, FiniteSets, SequencesExt

CONSTANTS ThreadCount,    \* m_threadCount
          Submitters,     \* threads outside of the pool that schedule operations
          Main,           \* the thread that destroys the pool
          RemoteOps,      \* operations scheduled by the submitters
          WorkerOps,      \* operations scheduled by coroutines running on the pool
          NoOp,           \* nullptr
          Destruction     \* whether and when Main destroys the pool

Workers == 0 .. ThreadCount - 1
Threads == Workers \cup Submitters \cup {Main}
Ops == RemoteOps \cup WorkerOps

ASSUME ThreadPoolAssumption ==
  /\ ThreadCount \in Nat \ {0}
  /\ Workers \cap (Submitters \cup {Main}) = {}
  /\ Main \notin Submitters
  /\ NoOp \notin Ops
  /\ Destruction \in {"never", "workDone", "callsReturned"}

VARIABLES
  localQueue,             \* the local queue of each worker, oldest first
  m_globalQueueTail,      \* stack of remotely enqueued operations, newest first
  m_globalQueueHead,      \* list of operations to dequeue, oldest first
  m_globalQueueMutex,     \* the worker inside try_global_dequeue's exchange
  detached,               \* the list it took from m_globalQueueTail
  m_isSleeping,           \* thread_state::m_isSleeping of each worker
  m_wakeUpEvent,          \* thread_state::m_wakeUpEvent of each worker: is it set
  m_sleepingThreadCount,
  m_stopRequested,
  pc,                     \* where each thread is
  scan,                   \* loop variable of its loop over the workers
  from,                   \* where a worker called tryGetRemote from
  op,                     \* the operation a worker has to run, or runs
  fresh,                  \* operations not scheduled yet
  outstanding             \* scheduled operations whose coroutine has not completed

queues == <<localQueue, m_globalQueueTail, m_globalQueueHead, m_globalQueueMutex, detached>>
sleepers == <<m_isSleeping, m_wakeUpEvent, m_sleepingThreadCount>>
application == <<fresh, outstanding>>
control == <<pc, scan, from>>
vars == <<queues, sleepers, m_stopRequested, control, op, application>>

WorkerLabels ==
  {"pop", "dequeue", "publish", "steal", "stealSkipped", "stealBlocking", "run",
   "spin", "mark", "count", "checkTail", "checkHead", "checkLocal", "checkStop",
   "asleep", "clear", "clearOwn", "clearScan", "clearSignal", "wake", "wakeScan",
   "wakeSignal", "exited"}

TypeOK ==
  /\ localQueue \in [Workers -> Seq(Ops)]
  /\ m_globalQueueTail \in Seq(Ops)
  /\ m_globalQueueHead \in Seq(Ops)
  /\ m_globalQueueMutex \in Workers \cup {Main}
  /\ detached \in Seq(Ops)
  /\ m_isSleeping \in [Workers -> BOOLEAN]
  /\ m_wakeUpEvent \in [Workers -> BOOLEAN]
  /\ m_sleepingThreadCount \in Nat
  /\ m_stopRequested \in BOOLEAN
  /\ \A w \in Workers : pc[w] \in WorkerLabels
  /\ \A s \in Submitters : pc[s] \in {"idle", "wake", "wakeScan", "wakeSignal"}
  /\ pc[Main] \in {"idle", "stopScan", "stopSignal", "joining", "joined"}
  /\ DOMAIN pc = Threads
  /\ scan \in [Threads -> 0 .. ThreadCount]
  /\ from \in [Workers -> {"pop", "spin", "asleep"}]
  /\ op \in [Workers -> Ops \cup {NoOp}]
  /\ fresh \in SUBSET Ops
  /\ outstanding \in SUBSET Ops

(* Main stands for "nobody" as holder of m_globalQueueMutex: it never      *)
(* dequeues.                                                               *)
Init ==
  /\ localQueue = [w \in Workers |-> << >>]
  /\ m_globalQueueTail = << >>
  /\ m_globalQueueHead = << >>
  /\ m_globalQueueMutex = Main
  /\ detached = << >>
  /\ m_isSleeping = [w \in Workers |-> FALSE]
  /\ m_wakeUpEvent = [w \in Workers |-> FALSE]
  /\ m_sleepingThreadCount = 0
  /\ m_stopRequested = FALSE
  /\ pc = [t \in Threads |-> IF t \in Workers THEN "pop" ELSE "idle"]
  /\ scan = [t \in Threads |-> 0]
  /\ from = [w \in Workers |-> "pop"]
  /\ op = [w \in Workers |-> NoOp]
  /\ fresh = Ops
  /\ outstanding = {}

Goto(t, label) == pc' = [pc EXCEPT ![t] = label]
Scan(t, i) == scan' = [scan EXCEPT ![t] = i]

(* The loops `if (i == threadIndex) continue': first index and the next.   *)
FirstOther(w) == IF w = 0 THEN 1 ELSE 0
NextOther(w) == IF scan[w] + 1 = w THEN scan[w] + 2 ELSE scan[w] + 1

(* A loop variable or call site that is out of scope has its first value.  *)
Leave(t, label) == Goto(t, label) /\ Scan(t, 0)

StartOthers(w, label) == Goto(w, label) /\ Scan(w, FirstOther(w))

(* Where a thread goes when wake_one_thread returns: a worker goes on with *)
(* the coroutine that called schedule.                                     *)
ReturnFromSchedule(t) == Leave(t, IF t \in Workers THEN "run" ELSE "idle")

-----------------------------------------------------------------------------
(* try_global_dequeue and try_steal_from_other_thread, as tryGetRemote     *)
(* calls them.                                                             *)

(* An operation was found.  A worker that has told it is going to sleep    *)
(* first clears its intent.                                                *)
Found(w, o) ==
  /\ op' = [op EXCEPT ![w] = o]
  /\ Leave(w, IF from[w] = "asleep" THEN "clear" ELSE "run")
  /\ from' = [from EXCEPT ![w] = "pop"]

DequeueFromHead(w) ==
  /\ pc[w] = "dequeue"
  /\ m_globalQueueMutex = Main
  /\ m_globalQueueHead # << >>
  /\ m_globalQueueHead' = Tail(m_globalQueueHead)
  /\ Found(w, Head(m_globalQueueHead))
  /\ UNCHANGED <<localQueue, m_globalQueueTail, m_globalQueueMutex, detached, sleepers,
                 m_stopRequested, application>>

DequeueFindsNothing(w) ==
  /\ pc[w] = "dequeue"
  /\ m_globalQueueMutex = Main
  /\ m_globalQueueHead = << >>
  /\ m_globalQueueTail = << >>
  /\ StartOthers(w, "steal")
  /\ UNCHANGED <<queues, sleepers, m_stopRequested, from, op, application>>

(* m_globalQueueTail.exchange(nullptr), with m_globalQueueMutex held.      *)
DequeueTakesTail(w) ==
  /\ pc[w] = "dequeue"
  /\ m_globalQueueMutex = Main
  /\ m_globalQueueHead = << >>
  /\ m_globalQueueTail # << >>
  /\ detached' = m_globalQueueTail
  /\ m_globalQueueTail' = << >>
  /\ m_globalQueueMutex' = w
  /\ Goto(w, "publish")
  /\ UNCHANGED <<localQueue, m_globalQueueHead, sleepers, m_stopRequested, scan, from, op,
                 application>>

(* A slip: the operations after the first are forgotten.                   *)
DequeuePublishesOne(w) ==
  /\ pc[w] = "publish"
  /\ m_globalQueueHead' = << >>
  /\ Found(w, Last(detached))
  /\ detached' = << >>
  /\ m_globalQueueMutex' = Main
  /\ UNCHANGED <<localQueue, m_globalQueueTail, sleepers, m_stopRequested,
                 application>>

(* A slip: the list is not reversed.                                       *)
DequeuePublishesUnreversed(w) ==
  /\ pc[w] = "publish"
  /\ m_globalQueueHead' = Tail(detached)
  /\ Found(w, Head(detached))
  /\ detached' = << >>
  /\ m_globalQueueMutex' = Main
  /\ UNCHANGED <<localQueue, m_globalQueueTail, sleepers, m_stopRequested,
                 application>>

(* The list is reversed, its first operation kept and the rest stored in   *)
(* m_globalQueueHead.                                                      *)
DequeuePublishes(w) ==
  /\ pc[w] = "publish"
  /\ m_globalQueueHead' = Tail(Reverse(detached))
  /\ Found(w, Last(detached))
  /\ detached' = << >>
  /\ m_globalQueueMutex' = Main
  /\ UNCHANGED <<localQueue, m_globalQueueTail, sleepers, m_stopRequested,
                 application>>

StealLabels == {"steal", "stealSkipped", "stealBlocking"}

Steals(w) ==
  /\ pc[w] \in StealLabels
  /\ scan[w] < ThreadCount
  /\ localQueue[scan[w]] # << >>
  /\ localQueue' = [localQueue EXCEPT ![scan[w]] = Tail(@)]
  /\ Found(w, Head(localQueue[scan[w]]))
  /\ UNCHANGED <<m_globalQueueTail, m_globalQueueHead, m_globalQueueMutex, detached, sleepers,
                 m_stopRequested, application>>

StealFindsNothing(w) ==
  /\ pc[w] \in StealLabels
  /\ scan[w] < ThreadCount
  /\ localQueue[scan[w]] = << >>
  /\ Scan(w, NextOther(w))
  /\ UNCHANGED <<queues, sleepers, m_stopRequested, pc, from, op, application>>

(* m_remoteMutex of worker v can be held by another worker that steals     *)
(* from v or looks at its queue, or by v itself in try_local_pop and       *)
(* try_local_enqueue.                                                      *)
LockMayBeHeld(v, w) ==
  \E u \in Workers \ {w} :
    \/ u = v /\ pc[u] \in {"pop", "run"}
    \/ u # v /\ pc[u] \in StealLabels \cup {"checkLocal"} /\ scan[u] = v

(* try_steal(&anyLocksUnavailable) fails to take the lock.                 *)
StealSkips(w) ==
  /\ pc[w] \in {"steal", "stealSkipped"}
  /\ scan[w] < ThreadCount
  /\ LockMayBeHeld(scan[w], w)
  /\ Goto(w, "stealSkipped")
  /\ Scan(w, NextOther(w))
  /\ UNCHANGED <<queues, sleepers, m_stopRequested, from, op, application>>

StealTriesAgain(w) ==
  /\ pc[w] = "stealSkipped"
  /\ scan[w] >= ThreadCount
  /\ StartOthers(w, "stealBlocking")
  /\ UNCHANGED <<queues, sleepers, m_stopRequested, from, op, application>>

(* tryGetRemote returns nullptr: to the spin loop, or to the check of      *)
(* m_stopRequested before sleeping.                                        *)
StealGivesUp(w) ==
  /\ pc[w] \in {"steal", "stealBlocking"}
  /\ scan[w] >= ThreadCount
  /\ from' = [from EXCEPT ![w] = "pop"]
  /\ Leave(w, IF from[w] = "asleep" THEN "checkStop" ELSE "spin")
  /\ UNCHANGED <<queues, sleepers, m_stopRequested, op, application>>

TryGetRemote(w) ==
  \/ DequeueFromHead(w)
  \/ DequeueFindsNothing(w)
  \/ DequeueTakesTail(w)
  \/ DequeuePublishes(w)
  \/ Steals(w)
  \/ StealFindsNothing(w)
  \/ StealSkips(w)
  \/ StealTriesAgain(w)
  \/ StealGivesUp(w)

-----------------------------------------------------------------------------
(* run_worker_thread: processing and spinning.                             *)

PopsLocal(w) ==
  /\ pc[w] = "pop"
  /\ localQueue[w] # << >>
  /\ op' = [op EXCEPT ![w] = Last(localQueue[w])]
  /\ localQueue' = [localQueue EXCEPT ![w] = Front(@)]
  /\ Goto(w, "run")
  /\ UNCHANGED <<m_globalQueueTail, m_globalQueueHead, m_globalQueueMutex, detached, sleepers,
                 m_stopRequested, scan, from, application>>

PopsNothing(w) ==
  /\ pc[w] = "pop"
  /\ localQueue[w] = << >>
  /\ from' = [from EXCEPT ![w] = "pop"]
  /\ Goto(w, "dequeue")
  /\ UNCHANGED <<queues, sleepers, m_stopRequested, scan, op, application>>

SpinStops(w) ==
  /\ pc[w] = "spin"
  /\ m_stopRequested
  /\ Goto(w, "exited")
  /\ UNCHANGED <<queues, sleepers, m_stopRequested, scan, from, op, application>>

(* approx_has_any_queued_work_for saw work somewhere.                      *)
SpinSeesWork(w) ==
  /\ pc[w] = "spin"
  /\ ~m_stopRequested
  /\ \/ m_globalQueueTail # << >>
     \/ m_globalQueueHead # << >>
     \/ \E v \in Workers \ {w} : localQueue[v] # << >>
  /\ from' = [from EXCEPT ![w] = "spin"]
  /\ Goto(w, "dequeue")
  /\ UNCHANGED <<queues, sleepers, m_stopRequested, scan, op, application>>

(* The loop of 30 iterations ends.                                         *)
SpinEnds(w) ==
  /\ pc[w] = "spin"
  /\ Goto(w, "mark")
  /\ UNCHANGED <<queues, sleepers, m_stopRequested, scan, from, op, application>>

Processes(w) ==
  \/ PopsLocal(w)
  \/ PopsNothing(w)
  \/ SpinStops(w)
  \/ SpinSeesWork(w)
  \/ SpinEnds(w)

-----------------------------------------------------------------------------
(* run_worker_thread: going to sleep.                                      *)

(* thread_state::notify_intent_to_sleep; a worker that woke up spuriously  *)
(* is still marked and is not counted again.                               *)
NotifyMarks(w) ==
  /\ pc[w] = "mark"
  /\ m_isSleeping' = [m_isSleeping EXCEPT ![w] = TRUE]
  /\ Goto(w, IF m_isSleeping[w] THEN "checkTail" ELSE "count")
  /\ UNCHANGED <<queues, m_wakeUpEvent, m_sleepingThreadCount, m_stopRequested, scan, from, op,
                 application>>

(* A slip: the queues are not checked again after the intent to sleep was  *)
(* published.                                                              *)
NotifyTrustsSpin(w) ==
  /\ pc[w] = "count"
  /\ m_sleepingThreadCount' = m_sleepingThreadCount + 1
  /\ Goto(w, "checkStop")
  /\ UNCHANGED <<queues, m_isSleeping, m_wakeUpEvent, m_stopRequested, scan, from, op,
                 application>>

NotifyCounts(w) ==
  /\ pc[w] = "count"
  /\ m_sleepingThreadCount' = m_sleepingThreadCount + 1
  /\ Goto(w, "checkTail")
  /\ UNCHANGED <<queues, m_isSleeping, m_wakeUpEvent, m_stopRequested, scan, from, op,
                 application>>

(* has_any_queued_work_for: the tail, then the head of the global queue,   *)
(* then each local queue.                                                  *)
FoundBeforeSleep(w) ==
  /\ from' = [from EXCEPT ![w] = "asleep"]
  /\ Leave(w, "dequeue")

CheckTail(w) ==
  /\ pc[w] = "checkTail"
  /\ \/ m_globalQueueTail # << >> /\ FoundBeforeSleep(w)
     \/ m_globalQueueTail = << >> /\ Goto(w, "checkHead") /\ UNCHANGED <<scan, from>>
  /\ UNCHANGED <<queues, sleepers, m_stopRequested, op, application>>

CheckHead(w) ==
  /\ pc[w] = "checkHead"
  /\ \/ m_globalQueueHead # << >> /\ FoundBeforeSleep(w)
     \/ m_globalQueueHead = << >> /\ StartOthers(w, "checkLocal") /\ UNCHANGED from
  /\ UNCHANGED <<queues, sleepers, m_stopRequested, op, application>>

CheckLocal(w) ==
  /\ pc[w] = "checkLocal"
  /\ scan[w] < ThreadCount
  /\ \/ localQueue[scan[w]] # << >> /\ FoundBeforeSleep(w)
     \/ localQueue[scan[w]] = << >> /\ Scan(w, NextOther(w)) /\ UNCHANGED <<pc, from>>
  /\ UNCHANGED <<queues, sleepers, m_stopRequested, op, application>>

CheckFindsNothing(w) ==
  /\ pc[w] = "checkLocal"
  /\ scan[w] >= ThreadCount
  /\ Leave(w, "checkStop")
  /\ UNCHANGED <<queues, sleepers, m_stopRequested, from, op, application>>

(* A slip: the worker does not look at m_stopRequested before sleeping.    *)
CheckStopSkipped(w) ==
  /\ pc[w] = "checkStop"
  /\ Goto(w, "asleep")
  /\ UNCHANGED <<queues, sleepers, m_stopRequested, scan, from, op, application>>

CheckStop(w) ==
  /\ pc[w] = "checkStop"
  /\ Goto(w, IF m_stopRequested THEN "exited" ELSE "asleep")
  /\ UNCHANGED <<queues, sleepers, m_stopRequested, scan, from, op, application>>

(* sleep_until_woken returns; m_isSleeping keeps its value.                *)
WakesUp(w) ==
  /\ pc[w] = "asleep"
  /\ m_wakeUpEvent[w]
  /\ m_wakeUpEvent' = [m_wakeUpEvent EXCEPT ![w] = FALSE]
  /\ Goto(w, "spin")
  /\ UNCHANGED <<queues, m_isSleeping, m_sleepingThreadCount, m_stopRequested, scan, from, op,
                 application>>

GoesToSleep(w) ==
  \/ NotifyMarks(w)
  \/ NotifyCounts(w)
  \/ CheckTail(w)
  \/ CheckHead(w)
  \/ CheckLocal(w)
  \/ CheckFindsNothing(w)
  \/ CheckStop(w)
  \/ WakesUp(w)

-----------------------------------------------------------------------------
(* try_clear_intent_to_sleep and wake_one_thread.                          *)

(* try_wake_up of worker i by thread t: the exchange of m_isSleeping, after*)
(* which t sets the event.                                                 *)
Unmark(i) ==
  /\ m_isSleeping[i]
  /\ m_isSleeping' = [m_isSleeping EXCEPT ![i] = FALSE]

Claim ==
  /\ m_sleepingThreadCount > 0
  /\ m_sleepingThreadCount' = m_sleepingThreadCount - 1

ClearFindsNobody(w) ==
  /\ pc[w] = "clear"
  /\ m_sleepingThreadCount = 0
  /\ Goto(w, "run")
  /\ UNCHANGED <<queues, sleepers, m_stopRequested, scan, from, op, application>>

ClearClaims(w) ==
  /\ pc[w] = "clear"
  /\ Claim
  /\ Goto(w, "clearOwn")
  /\ UNCHANGED <<queues, m_isSleeping, m_wakeUpEvent, m_stopRequested, scan, from, op,
                 application>>

ClearOwn(w) ==
  /\ pc[w] = "clearOwn"
  /\ Unmark(w)
  /\ Goto(w, "clearSignal")
  /\ Scan(w, w)
  /\ UNCHANGED <<queues, m_wakeUpEvent, m_sleepingThreadCount, m_stopRequested, from, op,
                 application>>

ClearOwnTooLate(w) ==
  /\ pc[w] = "clearOwn"
  /\ ~m_isSleeping[w]
  /\ StartOthers(w, "clearScan")
  /\ UNCHANGED <<queues, sleepers, m_stopRequested, from, op, application>>

(* The exchange for the next of the others: the pass ends at the first one *)
(* that is asleep.  With four workers or more it may also end with nobody  *)
(* woken, although one sleeper less is counted: those it went past can     *)
(* fall asleep while others wake up the ones ahead.                        *)
ClearOther(w) ==
  /\ pc[w] = "clearScan"
  /\ IF scan[w] < ThreadCount /\ m_isSleeping[scan[w]]
     THEN Unmark(scan[w]) /\ Goto(w, "clearSignal") /\ UNCHANGED scan
     ELSE /\ UNCHANGED m_isSleeping
          /\ IF NextOther(w) < ThreadCount
             THEN Scan(w, NextOther(w)) /\ UNCHANGED pc
             ELSE Leave(w, "run")
  /\ UNCHANGED <<queues, m_wakeUpEvent, m_sleepingThreadCount, m_stopRequested, from, op, application>>

ClearSignals(w) ==
  /\ pc[w] = "clearSignal"
  /\ m_wakeUpEvent' = [m_wakeUpEvent EXCEPT ![scan[w]] = TRUE]
  /\ Leave(w, "run")
  /\ UNCHANGED <<queues, m_isSleeping, m_sleepingThreadCount, m_stopRequested, from, op,
                 application>>

TryClearIntentToSleep(w) ==
  \/ ClearFindsNobody(w)
  \/ ClearClaims(w)
  \/ ClearOwn(w)
  \/ ClearOwnTooLate(w)
  \/ ClearOther(w)
  \/ ClearSignals(w)

WakeFindsNobody(t) ==
  /\ pc[t] = "wake"
  /\ m_sleepingThreadCount = 0
  /\ ReturnFromSchedule(t)
  /\ UNCHANGED <<queues, sleepers, m_stopRequested, from, op, application>>

(* A slip: the claim is not atomic, the count is not decremented.          *)
WakeWithoutClaim(t) ==
  /\ pc[t] = "wake"
  /\ m_sleepingThreadCount > 0
  /\ Goto(t, "wakeScan")
  /\ Scan(t, 0)
  /\ UNCHANGED <<queues, sleepers, m_stopRequested, from, op, application>>

WakeClaims(t) ==
  /\ pc[t] = "wake"
  /\ Claim
  /\ Goto(t, "wakeScan")
  /\ Scan(t, 0)
  /\ UNCHANGED <<queues, m_isSleeping, m_wakeUpEvent, m_stopRequested, from, op, application>>

WakeUnmarks(t) ==
  /\ pc[t] = "wakeScan"
  /\ Unmark(scan[t])
  /\ Goto(t, "wakeSignal")
  /\ UNCHANGED <<queues, m_wakeUpEvent, m_sleepingThreadCount, m_stopRequested, scan, from, op,
                 application>>

(* The outer `while (true)' starts over after the last worker.             *)
WakeSkips(t) ==
  /\ pc[t] = "wakeScan"
  /\ ~m_isSleeping[scan[t]]
  /\ Scan(t, (scan[t] + 1) % ThreadCount)
  /\ UNCHANGED <<queues, sleepers, m_stopRequested, pc, from, op, application>>

WakeSignals(t) ==
  /\ pc[t] = "wakeSignal"
  /\ m_wakeUpEvent' = [m_wakeUpEvent EXCEPT ![scan[t]] = TRUE]
  /\ ReturnFromSchedule(t)
  /\ UNCHANGED <<queues, m_isSleeping, m_sleepingThreadCount, m_stopRequested, from, op,
                 application>>

WakeOneThread(t) ==
  \/ WakeFindsNobody(t)
  \/ WakeClaims(t)
  \/ WakeUnmarks(t)
  \/ WakeSkips(t)
  \/ WakeSignals(t)

-----------------------------------------------------------------------------
(* schedule_impl, called by a submitter or by a coroutine a worker runs.   *)

RemoteEnqueue(o) ==
  /\ m_globalQueueTail' = Cons(o, m_globalQueueTail)
  /\ UNCHANGED localQueue

(* try_local_enqueue fails when the buffer is full and cannot grow.        *)
Enqueue(w, o) ==
  \/ /\ localQueue' = [localQueue EXCEPT ![w] = Append(@, o)]
     /\ UNCHANGED m_globalQueueTail
  \/ RemoteEnqueue(o)

Submit(s, o) ==
  /\ pc[s] = "idle"
  /\ ~m_stopRequested
  /\ o \in fresh \cap RemoteOps
  /\ RemoteEnqueue(o)
  /\ fresh' = fresh \ {o}
  /\ outstanding' = outstanding \cup {o}
  /\ Goto(s, "wake")
  /\ UNCHANGED <<m_globalQueueHead, m_globalQueueMutex, detached, sleepers, m_stopRequested,
                 scan, from, op>>

(* The coroutine that w resumed starts another one, which awaits           *)
(* schedule(), and goes on.                                                *)
RunStarts(w, o) ==
  /\ pc[w] = "run"
  /\ op[w] # NoOp
  /\ o \in fresh \cap WorkerOps
  /\ Enqueue(w, o)
  /\ fresh' = fresh \ {o}
  /\ outstanding' = outstanding \cup {o}
  /\ Goto(w, "wake")
  /\ UNCHANGED <<m_globalQueueHead, m_globalQueueMutex, detached, sleepers, m_stopRequested,
                 scan, from, op>>

(* The coroutine itself awaits schedule() again: from here on any worker   *)
(* may resume it, even before wake_one_thread returns on this one.         *)
RunAwaits(w, o) ==
  /\ pc[w] = "run"
  /\ op[w] # NoOp
  /\ o \in fresh \cap WorkerOps
  /\ Enqueue(w, o)
  /\ fresh' = fresh \ {o}
  /\ outstanding' = (outstanding \ {op[w]}) \cup {o}
  /\ op' = [op EXCEPT ![w] = NoOp]
  /\ Goto(w, "wake")
  /\ UNCHANGED <<m_globalQueueHead, m_globalQueueMutex, detached, sleepers, m_stopRequested,
                 scan, from>>

(* The coroutine completes, which may allow Main to destroy the pool.      *)
RunCompletes(w) ==
  /\ pc[w] = "run"
  /\ op[w] # NoOp
  /\ outstanding' = outstanding \ {op[w]}
  /\ op' = [op EXCEPT ![w] = NoOp]
  /\ UNCHANGED <<queues, sleepers, m_stopRequested, control, fresh>>

(* resume() returns.                                                       *)
RunReturns(w) ==
  /\ pc[w] = "run"
  /\ op[w] = NoOp
  /\ Goto(w, "pop")
  /\ UNCHANGED <<queues, sleepers, m_stopRequested, scan, from, op, application>>

Runs(w) ==
  \/ \E o \in Ops : RunStarts(w, o) \/ RunAwaits(w, o)
  \/ RunCompletes(w)
  \/ RunReturns(w)

-----------------------------------------------------------------------------
(* ~static_thread_pool: "It is up to the application to ensure all         *)
(* enqueued work has completed first".  A careful application waits, too,  *)
(* until no worker is inside of schedule ("callsReturned"); submitters     *)
(* have returned from it in any case.                                      *)
Shutdown ==
  /\ Destruction # "never"
  /\ pc[Main] = "idle"
  /\ outstanding = {}
  /\ \A s \in Submitters : pc[s] = "idle"
  /\ Destruction = "callsReturned" =>
       \A w \in Workers : pc[w] \notin {"wake", "wakeScan", "wakeSignal"}
  /\ m_stopRequested' = TRUE
  /\ Goto(Main, "stopScan")
  /\ Scan(Main, 0)
  /\ UNCHANGED <<queues, sleepers, from, op, application>>

StopUnmarks ==
  /\ pc[Main] = "stopScan"
  /\ scan[Main] < ThreadCount
  /\ Unmark(scan[Main])
  /\ Goto(Main, "stopSignal")
  /\ UNCHANGED <<queues, m_wakeUpEvent, m_sleepingThreadCount, m_stopRequested, scan, from, op,
                 application>>

StopSkips ==
  /\ pc[Main] = "stopScan"
  /\ scan[Main] < ThreadCount
  /\ ~m_isSleeping[scan[Main]]
  /\ Scan(Main, scan[Main] + 1)
  /\ UNCHANGED <<queues, sleepers, m_stopRequested, pc, from, op, application>>

StopSignals ==
  /\ pc[Main] = "stopSignal"
  /\ m_wakeUpEvent' = [m_wakeUpEvent EXCEPT ![scan[Main]] = TRUE]
  /\ Goto(Main, "stopScan")
  /\ Scan(Main, scan[Main] + 1)
  /\ UNCHANGED <<queues, m_isSleeping, m_sleepingThreadCount, m_stopRequested, from, op,
                 application>>

StopScanEnds ==
  /\ pc[Main] = "stopScan"
  /\ scan[Main] >= ThreadCount
  /\ Leave(Main, "joining")
  /\ UNCHANGED <<queues, sleepers, m_stopRequested, from, op, application>>

Join ==
  /\ pc[Main] = "joining"
  /\ \A w \in Workers : pc[w] = "exited"
  /\ Goto(Main, "joined")
  /\ UNCHANGED <<queues, sleepers, m_stopRequested, scan, from, op, application>>

Destroys ==
  \/ StopUnmarks
  \/ StopSkips
  \/ StopSignals
  \/ StopScanEnds
  \/ Join

WorkerStep(w) ==
  \/ TryGetRemote(w)
  \/ Processes(w)
  \/ GoesToSleep(w)
  \/ TryClearIntentToSleep(w)
  \/ WakeOneThread(w)
  \/ Runs(w)

Next ==
  \/ \E w \in Workers : WorkerStep(w)
  \/ \E s \in Submitters : WakeOneThread(s) \/ \E o \in Ops : Submit(s, o)
  \/ Shutdown
  \/ Destroys

Spec == Init /\ [][Next]_vars

(* The operating system runs every thread that can run.  Nothing makes a   *)
(* submitter submit or an application destroy the pool.                    *)
FairSpec ==
  /\ Spec
  /\ \A w \in Workers : WF_vars(WorkerStep(w))
  /\ \A s \in Submitters : WF_vars(WakeOneThread(s))
  /\ WF_vars(Destroys)

-----------------------------------------------------------------------------
(* What makes the pool correct.                                            *)

(* What the workers have to run or run, and what is queued: the global     *)
(* queue is its head list, the batch being reversed and the stack of new   *)
(* operations.                                                             *)
InHand == {op[w] : w \in Workers} \ {NoOp}
GlobalQueue == m_globalQueueHead \o Reverse(detached) \o Reverse(m_globalQueueTail)
LocallyQueued == UNION {ToSet(localQueue[w]) : w \in Workers}
Queued == LocallyQueued \cup ToSet(GlobalQueue)

Marked == {w \in Workers : m_isSleeping[w]}

(* Threads that took one off m_sleepingThreadCount and have not unmarked a *)
(* worker for it yet, and workers marked but not counted yet.              *)
Claimants == {t \in Threads : pc[t] \in {"wakeScan", "clearOwn", "clearScan"}}
Uncounted == {w \in Workers : pc[w] = "count"}

(* No operation is lost, queued twice, or run by two workers: the          *)
(* operations whose coroutine has not completed are those in a queue and   *)
(* those in the hand of a worker, each in one place.                       *)
OpsAccounted ==
  /\ TypeOK
  /\ outstanding = Queued \cup InHand
  /\ Queued \cap InHand = {}
  /\ LocallyQueued \cap ToSet(GlobalQueue) = {}
  /\ IsInjective(GlobalQueue)
  /\ \A w \in Workers : IsInjective(localQueue[w])
  /\ \A v, w \in Workers : v # w =>
       /\ ToSet(localQueue[v]) \cap ToSet(localQueue[w]) = {}
       /\ op[v] = op[w] => op[w] = NoOp

(* Until the pool is destroyed, wake_one_thread finds a worker to wake up: *)
(* "We should be guaranteed of finding a thread to wake-up here".  Every   *)
(* claim made on m_sleepingThreadCount, by it or by                        *)
(* try_clear_intent_to_sleep, is matched by a worker still marked as       *)
(* sleeping, and so is every unit of the count itself.                     *)
ClaimsAreCovered ==
  ~m_stopRequested =>
    m_sleepingThreadCount + Cardinality(Claimants) + Cardinality(Uncounted)
      <= Cardinality(Marked)

(* "Work enqueued to the thread-pool from a remote thread will be enqueued *)
(* to a global FIFO queue": an enqueue adds at the end and a dequeue       *)
(* removes at the front, through the three lists it is made of.            *)
GlobalQueueIsFifo ==
  [][\/ GlobalQueue' = GlobalQueue
     \/ \E o \in Ops : \/ GlobalQueue' = Append(GlobalQueue, o)
                       \/ GlobalQueue = Cons(o, GlobalQueue')]_vars

(* Every scheduled operation is taken by some worker (an operation is      *)
(* scheduled once, so the queues run empty in the end): no sequence of     *)
(* enqueues, failed searches and decisions to sleep leaves every worker    *)
(* asleep with an operation in a queue.                                    *)
EveryOpRuns == (Queued # {}) ~> (Queued = {})

(* ~static_thread_pool returns: every worker notices m_stopRequested, is   *)
(* woken up if it sleeps, and is joined.                                   *)
ShutdownCompletes == m_stopRequested ~> (pc[Main] = "joined")
=============================================================================
