----------------------------- MODULE TimerThread -----------------------------
(***************************************************************************)
(* schedule_after() in the Windows build (io_service.cpp): the             *)
(* timed_schedule_operation that a coroutine awaits, the thread that keeps *)
(* the timers, and the timer_queue with its fallback list for want of      *)
(* memory.                                                                 *)
(*                                                                         *)
(* Every operation is awaited on a thread of its own and may be cancelled  *)
(* by another thread at any time.  A list whose order nothing depends on   *)
(* is a set.  An operation whose token cannot be cancelled is one that     *)
(* nobody cancels.                                                         *)
(***************************************************************************)
EXTENDS Selection

CONSTANTS Operations,
          MaxTime,            \* bound: when the clock stops
          CallsFail           \* whether SetWaitableTimer() and the wait may fail

FarFuture == MaxTime + 1      \* a time that does not come
TimePointMax == MaxTime + 2   \* time_point::max()
Times == 0..TimePointMax

VARIABLES
  now,
  m_resumeTime, cancelled, m_refCount,  \* of the operations, and their tokens
  pc,                   \* where the thread that awaits an operation is in await_suspend()
  registered,           \* the operation has a cancellation_registration
  canceller,            \* where the callback of that registration is
  status,               \* of the awaiting coroutine
  m_timerState,         \* there is a timer thread
  m_newlyQueuedTimers, m_timerCancellationRequested, m_shutDownRequested,
  m_wakeUpEvent,
  m_waitableTimerEvent, \* when it is going to be signalled
  m_timerEntries,       \* the heap of the timer_queue
  m_overflowTimers,     \* its fallback, in ascending order
  newTimers, timersReadyToResume, lastSetWaitEventTime, threadPc,  \* of run()
  service               \* where ~io_service() is

vars == <<now, m_resumeTime, cancelled, m_refCount, pc, registered, canceller, status, m_timerState,
          m_newlyQueuedTimers, m_timerCancellationRequested, m_shutDownRequested, m_wakeUpEvent,
          m_waitableTimerEvent, m_timerEntries, m_overflowTimers, newTimers, timersReadyToResume,
          lastSetWaitEventTime, threadPc, service>>

time == <<now, m_resumeTime>>
queue == <<m_timerEntries, m_overflowTimers>>
run == <<newTimers, timersReadyToResume, lastSetWaitEventTime, threadPc>>
flags == <<m_timerCancellationRequested, m_shutDownRequested>>

Overflow == {m_overflowTimers[i] : i \in DOMAIN m_overflowTimers}

TypeOK ==
  /\ now \in 0..MaxTime
  /\ m_resumeTime \in [Operations -> 1..FarFuture]
  /\ cancelled \in [Operations -> BOOLEAN] /\ registered \in [Operations -> BOOLEAN]
  /\ m_refCount \in [Operations -> 0..2]
  /\ pc \in [Operations -> {"before", "ensure", "register", "registering", "push", "wake", "release", "returned"}]
  /\ canceller \in [Operations -> {"idle", "callback", "wake"}]
  /\ status \in [Operations -> {"awaiting", "scheduled", "resumed", "cancelled"}]
  /\ m_timerState \in BOOLEAN
  /\ \A list \in {m_newlyQueuedTimers, m_timerEntries, newTimers, timersReadyToResume} : list \subseteq Operations
  /\ m_overflowTimers \in Seq(Operations)
  /\ m_timerCancellationRequested \in BOOLEAN /\ m_shutDownRequested \in BOOLEAN /\ m_wakeUpEvent \in BOOLEAN
  /\ m_waitableTimerEvent \in Times /\ lastSetWaitEventTime \in Times
  /\ threadPc \in {"none", "wait", "cancelled", "new", "enqueue", "due", "schedule", "exited"}
  /\ service \in {"alive", "closing", "joining", "destroyed"}

(* A slip: only the timer thread counts.                                   *)
OneReference == 1

(* m_refCount: one for await_suspend() and one for the timer thread.       *)
InitialRefCount == 2

Init ==
  /\ now = 0
  /\ m_resumeTime \in [Operations -> 1..FarFuture]
  /\ cancelled = [o \in Operations |-> FALSE]
  /\ m_refCount = [o \in Operations |-> InitialRefCount]
  /\ pc = [o \in Operations |-> "before"]
  /\ registered = [o \in Operations |-> FALSE]
  /\ canceller = [o \in Operations |-> "idle"]
  /\ status = [o \in Operations |-> "awaiting"]
  /\ m_timerState = FALSE
  /\ m_newlyQueuedTimers = {}
  /\ m_timerCancellationRequested = FALSE /\ m_shutDownRequested = FALSE
  /\ m_wakeUpEvent = FALSE /\ m_waitableTimerEvent = TimePointMax
  /\ m_timerEntries = {} /\ m_overflowTimers = << >>
  /\ newTimers = {} /\ timersReadyToResume = {}
  /\ lastSetWaitEventTime = TimePointMax
  /\ threadPc = "none"
  /\ service = "alive"

Tick ==
  /\ now < MaxTime
  /\ now' = now + 1
  /\ UNCHANGED <<m_resumeTime, cancelled, m_refCount, pc, registered, canceller, status, m_timerState,
                 m_newlyQueuedTimers, flags, m_wakeUpEvent, m_waitableTimerEvent, queue, run, service>>

-----------------------------------------------------------------------------
(* timed_schedule_operation                                                *)

Goto(o, label) == pc' = [pc EXCEPT ![o] = label]

(* await_ready()                                                           *)
Await(o) ==
  /\ pc[o] = "before"
  /\ service = "alive"
  /\ \/ cancelled[o] /\ Goto(o, "returned") /\ status' = [status EXCEPT ![o] = "cancelled"]
     \/ ~cancelled[o] /\ Goto(o, "ensure") /\ UNCHANGED status
  /\ UNCHANGED <<time, cancelled, m_refCount, registered, canceller, m_timerState, m_newlyQueuedTimers,
                 flags, m_wakeUpEvent, m_waitableTimerEvent, queue, run, service>>

(* await_suspend(): ensure_timer_thread_started().  Of the threads that    *)
(* find no timer thread the first installs its own, the others drop theirs.*)
EnsureTimerThread(o) ==
  /\ pc[o] = "ensure"
  /\ m_timerState' = TRUE
  /\ threadPc' = IF m_timerState THEN threadPc ELSE "wait"
  /\ Goto(o, "register")
  /\ UNCHANGED <<time, cancelled, m_refCount, registered, canceller, status, m_newlyQueuedTimers, flags,
                 m_wakeUpEvent, m_waitableTimerEvent, queue, newTimers, timersReadyToResume,
                 lastSetWaitEventTime, service>>

(* The registration calls the callback at once if it comes too late.       *)
RegisterCallback(o) ==
  /\ pc[o] = "register"
  /\ registered' = [registered EXCEPT ![o] = TRUE]
  /\ \/ cancelled[o] /\ canceller' = [canceller EXCEPT ![o] = "callback"] /\ Goto(o, "registering")
     \/ ~cancelled[o] /\ Goto(o, "push") /\ UNCHANGED canceller
  /\ UNCHANGED <<time, cancelled, m_refCount, status, m_timerState, m_newlyQueuedTimers, flags, m_wakeUpEvent,
                 m_waitableTimerEvent, queue, run, service>>

CallbackReturns(o) ==
  /\ pc[o] = "registering"
  /\ canceller[o] = "idle"
  /\ Goto(o, "push")
  /\ UNCHANGED <<time, cancelled, m_refCount, registered, canceller, status, m_timerState, m_newlyQueuedTimers,
                 flags, m_wakeUpEvent, m_waitableTimerEvent, queue, run, service>>

(* The push on the list of new timers, which says whether it was empty;    *)
PushTimer(o) ==
  /\ pc[o] = "push"
  /\ m_newlyQueuedTimers' = m_newlyQueuedTimers \cup {o}
  /\ Goto(o, IF m_newlyQueuedTimers = {} THEN "wake" ELSE "release")
  /\ UNCHANGED <<time, cancelled, m_refCount, registered, canceller, status, m_timerState, flags, m_wakeUpEvent,
                 m_waitableTimerEvent, queue, run, service>>

WakeTimerThread(o) ==
  /\ pc[o] = "wake"
  /\ m_wakeUpEvent' = TRUE
  /\ Goto(o, "release")
  /\ UNCHANGED <<time, cancelled, m_refCount, registered, canceller, status, m_timerState, m_newlyQueuedTimers,
                 flags, m_waitableTimerEvent, queue, run, service>>

(* Who gives up the last reference schedules the coroutine.                *)
Release(o) ==
  /\ m_refCount' = [m_refCount EXCEPT ![o] = @ - 1]
  /\ status' = IF m_refCount[o] = 1 THEN [status EXCEPT ![o] = "scheduled"] ELSE status

ReleaseByAwaiter(o) ==
  /\ pc[o] = "release"
  /\ Release(o)
  /\ Goto(o, "returned")
  /\ UNCHANGED <<time, cancelled, registered, canceller, m_timerState, m_newlyQueuedTimers, flags, m_wakeUpEvent,
                 m_waitableTimerEvent, queue, run, service>>

(* await_resume(): the registration goes, after its callback has returned. *)
ResumeCoroutine(o) ==
  /\ status[o] = "scheduled"
  /\ canceller[o] = "idle"
  /\ registered' = [registered EXCEPT ![o] = FALSE]
  /\ status' = [status EXCEPT ![o] = IF cancelled[o] THEN "cancelled" ELSE "resumed"]
  /\ UNCHANGED <<time, cancelled, m_refCount, pc, canceller, m_timerState, m_newlyQueuedTimers, flags,
                 m_wakeUpEvent, m_waitableTimerEvent, queue, run, service>>

-----------------------------------------------------------------------------
(* Cancellation: request_timer_cancellation() is the callback              *)

RequestCancellation(o) ==
  /\ ~cancelled[o]
  /\ status[o] \in {"awaiting", "scheduled"}
  /\ cancelled' = [cancelled EXCEPT ![o] = TRUE]
  /\ canceller' = IF registered[o] THEN [canceller EXCEPT ![o] = "callback"] ELSE canceller
  /\ UNCHANGED <<time, m_refCount, pc, registered, status, m_timerState, m_newlyQueuedTimers, flags,
                 m_wakeUpEvent, m_waitableTimerEvent, queue, run, service>>

RequestTimerCancellation(o) ==
  /\ canceller[o] = "callback"
  /\ m_timerCancellationRequested' = TRUE
  /\ canceller' = [canceller EXCEPT ![o] = IF m_timerCancellationRequested THEN "idle" ELSE "wake"]
  /\ UNCHANGED <<time, cancelled, m_refCount, pc, registered, status, m_timerState, m_newlyQueuedTimers,
                 m_shutDownRequested, m_wakeUpEvent, m_waitableTimerEvent, queue, run, service>>

WakeForCancellation(o) ==
  /\ canceller[o] = "wake"
  /\ m_wakeUpEvent' = TRUE
  /\ canceller' = [canceller EXCEPT ![o] = "idle"]
  /\ UNCHANGED <<time, cancelled, m_refCount, pc, registered, status, m_timerState, m_newlyQueuedTimers, flags,
                 m_waitableTimerEvent, queue, run, service>>

-----------------------------------------------------------------------------
(* timer_thread_state::run()                                               *)

others == <<time, cancelled, pc, registered, canceller, m_timerState, service>>

(* WaitForMultipleObjectsEx() without a time limit: the timeout that run() *)
(* computes when SetWaitableTimer() fails is a variable of the iteration   *)
(* that ends there.  Both events reset themselves, the first goes first.   *)
WaitForEvents ==
  /\ threadPc = "wait"
  /\ \/ /\ m_wakeUpEvent
        /\ m_wakeUpEvent' = FALSE
        /\ threadPc' = "cancelled"
        /\ UNCHANGED <<m_waitableTimerEvent, lastSetWaitEventTime>>
     \/ /\ ~m_wakeUpEvent /\ m_waitableTimerEvent <= now
        /\ m_waitableTimerEvent' = TimePointMax
        /\ lastSetWaitEventTime' = TimePointMax
        /\ threadPc' = "due"
        /\ UNCHANGED m_wakeUpEvent
  /\ UNCHANGED <<others, m_refCount, status, m_newlyQueuedTimers, flags, queue, newTimers, timersReadyToResume>>

(* WAIT_FAILED is taken for a wake-up.                                     *)
WaitFails ==
  /\ CallsFail
  /\ threadPc = "wait"
  /\ threadPc' = "cancelled"
  /\ UNCHANGED <<others, m_refCount, status, m_newlyQueuedTimers, flags, m_wakeUpEvent, m_waitableTimerEvent, queue,
                 newTimers, timersReadyToResume, lastSetWaitEventTime>>

(* remove_cancelled_timers(), if cancellation was requested.               *)
RemoveCancelledTimers ==
  /\ threadPc = "cancelled"
  /\ LET gone == IF m_timerCancellationRequested THEN {o \in m_timerEntries \cup Overflow : cancelled[o]} ELSE {}
     IN  /\ timersReadyToResume' = timersReadyToResume \cup gone
         /\ m_timerEntries' = m_timerEntries \ gone
         /\ m_overflowTimers' = Selected(m_overflowTimers, Operations \ gone)
  /\ m_timerCancellationRequested' = FALSE
  /\ threadPc' = "new"
  /\ UNCHANGED <<others, m_refCount, status, m_newlyQueuedTimers, m_shutDownRequested, m_wakeUpEvent,
                 m_waitableTimerEvent, newTimers, lastSetWaitEventTime>>

TakeNewTimers ==
  /\ threadPc = "new"
  /\ newTimers' = m_newlyQueuedTimers
  /\ m_newlyQueuedTimers' = {}
  /\ threadPc' = IF m_newlyQueuedTimers = {} THEN "due" ELSE "enqueue"
  /\ UNCHANGED <<others, m_refCount, status, flags, m_wakeUpEvent, m_waitableTimerEvent, queue,
                 timersReadyToResume, lastSetWaitEventTime>>

(* A slip: the fallback list is a stack.                                   *)
InsertInFront(o, list) == <<o>> \o list

(* The part of the fallback list before the first that is due later: where *)
(* the loops over the list stop.                                           *)
DuePrefix(list, due) ==
  CHOOSE n \in 0..Len(list) :
    /\ \A i \in 1..n : m_resumeTime[list[i]] <= due
    /\ n < Len(list) => m_resumeTime[list[n + 1]] > due

(* enqueue_timer() without memory: the insertion sort into the fallback.   *)
InsertByDueTime(o, list) ==
  LET n == DuePrefix(list, m_resumeTime[o])
  IN  SubSeq(list, 1, n) \o <<o>> \o SubSeq(list, n + 1, Len(list))

(* One of the new timers, in the order of the list, which is arbitrary:    *)
(* cancelled already, or on to the heap, or to the fallback list.          *)
EnqueueNewTimer(o) ==
  /\ threadPc = "enqueue"
  /\ o \in newTimers
  /\ newTimers' = newTimers \ {o}
  /\ \/ /\ cancelled[o]
        /\ timersReadyToResume' = timersReadyToResume \cup {o}
        /\ UNCHANGED queue
     \/ /\ ~cancelled[o]
        /\ m_timerEntries' = m_timerEntries \cup {o}
        /\ UNCHANGED <<m_overflowTimers, timersReadyToResume>>
     \/ /\ ~cancelled[o]
        /\ m_overflowTimers' = InsertByDueTime(o, m_overflowTimers)
        /\ UNCHANGED <<m_timerEntries, timersReadyToResume>>
  /\ threadPc' = IF newTimers = {o} THEN "due" ELSE "enqueue"
  /\ UNCHANGED <<others, m_refCount, status, m_newlyQueuedTimers, flags, m_wakeUpEvent, m_waitableTimerEvent,
                 lastSetWaitEventTime>>

(* earliest_due_time(): of the heap's front and the fallback list's head.  *)
EarliestDueTime(entries, overflow) ==
  LET candidates == {m_resumeTime[o] : o \in entries}
                    \cup (IF overflow = << >> THEN {} ELSE {m_resumeTime[Head(overflow)]})
  IN  IF candidates = {} THEN TimePointMax ELSE CHOOSE t \in candidates : \A u \in candidates : t <= u

(* A slip: a timer is only set when none is set.                           *)
ArmOnlyOnce(due) == due # TimePointMax /\ lastSetWaitEventTime = TimePointMax

MustArm(due) == due # TimePointMax /\ due # lastSetWaitEventTime

(* dequeue_due_timers(), then SetWaitableTimer() for the earliest of those *)
(* that are left, unless it is set to that.                                *)
DequeueDueTimers ==
  /\ threadPc = "due"
  /\ LET n == DuePrefix(m_overflowTimers, now)
         due == {o \in m_timerEntries : m_resumeTime[o] <= now}
         earliest == EarliestDueTime(m_timerEntries', m_overflowTimers')
     IN  /\ m_timerEntries' = m_timerEntries \ due
         /\ m_overflowTimers' = SubSeq(m_overflowTimers, n + 1, Len(m_overflowTimers))
         /\ timersReadyToResume' = timersReadyToResume \cup due \cup {m_overflowTimers[i] : i \in 1..n}
         /\ \/ /\ MustArm(earliest)
               /\ m_waitableTimerEvent' = earliest
               /\ lastSetWaitEventTime' = earliest
            \/ /\ ~MustArm(earliest) \/ CallsFail
               /\ UNCHANGED <<m_waitableTimerEvent, lastSetWaitEventTime>>
  /\ threadPc' = "schedule"
  /\ UNCHANGED <<others, m_refCount, status, m_newlyQueuedTimers, flags, m_wakeUpEvent, newTimers>>

(* Give up the references to the timers that are ready, one by one.        *)
ScheduleReadyTimer(o) ==
  /\ threadPc = "schedule"
  /\ o \in timersReadyToResume
  /\ Release(o)
  /\ timersReadyToResume' = timersReadyToResume \ {o}
  /\ UNCHANGED <<others, m_newlyQueuedTimers, flags, m_wakeUpEvent, m_waitableTimerEvent, queue, newTimers,
                 lastSetWaitEventTime, threadPc>>

NextIteration ==
  /\ threadPc = "schedule"
  /\ timersReadyToResume = {}
  /\ threadPc' = IF m_shutDownRequested THEN "exited" ELSE "wait"
  /\ UNCHANGED <<others, m_refCount, status, m_newlyQueuedTimers, flags, m_wakeUpEvent, m_waitableTimerEvent, queue,
                 newTimers, timersReadyToResume, lastSetWaitEventTime>>

-----------------------------------------------------------------------------
(* ~io_service(), when the coroutines have been resumed: ~timer_thread_state() *)

RequestShutDown ==
  /\ service = "alive"
  /\ \A o \in Operations : status[o] \in {"resumed", "cancelled"} \/ pc[o] = "before"
  /\ m_shutDownRequested' = m_timerState
  /\ service' = IF m_timerState THEN "closing" ELSE "destroyed"
  /\ UNCHANGED <<time, cancelled, m_refCount, pc, registered, canceller, status, m_timerState, m_newlyQueuedTimers,
                 m_timerCancellationRequested, m_wakeUpEvent, m_waitableTimerEvent, queue, run>>

WakeForShutDown ==
  /\ service = "closing"
  /\ m_wakeUpEvent' = TRUE
  /\ service' = "joining"
  /\ UNCHANGED <<time, cancelled, m_refCount, pc, registered, canceller, status, m_timerState, m_newlyQueuedTimers,
                 flags, m_waitableTimerEvent, queue, run>>

JoinTimerThread ==
  /\ service = "joining"
  /\ threadPc = "exited"
  /\ service' = "destroyed"
  /\ UNCHANGED <<time, cancelled, m_refCount, pc, registered, canceller, status, m_timerState, m_newlyQueuedTimers,
                 flags, m_wakeUpEvent, m_waitableTimerEvent, queue, run>>

-----------------------------------------------------------------------------
ThreadStep ==
  \/ WaitForEvents \/ RemoveCancelledTimers \/ TakeNewTimers \/ DequeueDueTimers
  \/ NextIteration
  \/ \E o \in Operations : EnqueueNewTimer(o) \/ ScheduleReadyTimer(o)

AwaitStep(o) ==
  \/ EnsureTimerThread(o) \/ RegisterCallback(o) \/ CallbackReturns(o) \/ PushTimer(o)
  \/ WakeTimerThread(o) \/ ReleaseByAwaiter(o)

CallbackStep(o) == RequestTimerCancellation(o) \/ WakeForCancellation(o)
DestructorStep == WakeForShutDown \/ JoinTimerThread

Next ==
  \/ Tick \/ ThreadStep \/ WaitFails \/ RequestShutDown \/ DestructorStep
  \/ \E o \in Operations :
       Await(o) \/ AwaitStep(o) \/ ResumeCoroutine(o) \/ RequestCancellation(o) \/ CallbackStep(o)

(* Time passes, and every thread goes on with what it has begun.           *)
Spec ==
  /\ Init /\ [][Next]_vars
  /\ WF_vars(Tick) /\ WF_vars(ThreadStep) /\ WF_vars(DestructorStep)
  /\ \A o \in Operations : WF_vars(AwaitStep(o)) /\ WF_vars(CallbackStep(o))

-----------------------------------------------------------------------------
Lists(o) ==
  {l \in 1..5 : o \in <<m_newlyQueuedTimers, newTimers, m_timerEntries, Overflow, timersReadyToResume>>[l]}

(* A timer whose await_suspend() has pushed it is on exactly one of the    *)
(* lists until the timer thread gives up its reference: the lists share    *)
(* m_next.                                                                 *)
OnOneList ==
  \A o \in Operations :
    LET pushed == pc[o] \in {"wake", "release"} \/ (pc[o] = "returned" /\ status[o] = "awaiting")
    IN  Cardinality(Lists(o)) <= 1 /\ (pushed /\ m_refCount[o] = (IF pc[o] = "returned" THEN 1 ELSE 2)
                                         => Lists(o) # {})

(* When a coroutine is scheduled, neither thread uses its operation any    *)
(* more, and its time has come unless it was cancelled.                    *)
ScheduledAtRest ==
  \A o \in Operations :
    status[o] = "scheduled" =>
      /\ pc[o] = "returned" /\ Lists(o) = {}
      /\ m_resumeTime[o] <= now \/ cancelled[o]

(* Nobody is on the way to the timer thread when it is destroyed, and it   *)
(* leaves no timer behind (the assertion of ~timer_queue()).               *)
DestroyedUnused ==
  service # "alive" =>
    \A o \in Operations :
      pc[o] \in {"before", "returned"} /\ canceller[o] = "idle" /\ Lists(o) = {}

(* While the timer thread waits, the waitable timer is set so that it      *)
(* comes no later than any timer of the queue, on whatever list it is.     *)
ArmedForEarliest ==
  threadPc = "wait" => \A o \in m_timerEntries \cup Overflow : m_waitableTimerEvent <= m_resumeTime[o]

(* A timer that is awaited is scheduled when its time comes or when it is  *)
(* cancelled.                                                              *)
TimerFires ==
  \A o \in Operations :
    (pc[o] \notin {"before"} /\ (m_resumeTime[o] < FarFuture \/ cancelled[o])) ~> (status[o] # "awaiting")

(* The destructor returns: the wake-up that tells the timer thread to shut *)
(* down is not lost.                                                       *)
ServiceIsDestroyed == (service = "closing") ~> (service = "destroyed")
=============================================================================
