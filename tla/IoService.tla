------------------------------ MODULE IoService ------------------------------
(***************************************************************************)
(* cppcoro::io_service (io_service.cpp) with the message queue of the      *)
(* Linux build, a non-blocking pipe watched by epoll                       *)
(* (linux_message_queue.cpp), and io_work_scope (io_service.hpp).          *)
(*                                                                         *)
(* Coroutines await schedule() again and again, at first on threads of     *)
(* their own, then on the I/O thread that resumed them; each holds an      *)
(* io_work_scope until it completes.  I/O threads enter and leave the      *)
(* event loop, and Owner stops and resets the service.                     *)
(***************************************************************************)
EXTENDS IoParticipants, Sequences

CONSTANTS Owner,        \* the thread that calls stop() and reset()
          WakeUp,       \* the WAKEUP_TYPE message; a RESUME_TYPE one is the coroutine it names
          NullPtr,
          Signals       \* whether signals interrupt epoll_wait()

IoThreads == Blockers \cup Pollers

VARIABLES
  stopRequested, activeThreads,   \* m_threadState
  m_workCount,
  mq,                   \* the messages in the pipe
  m_scheduleOperations, \* the overflow list, its head first
  pc, waitForEvent, once, operations, message,  \* of the I/O threads
  status,               \* of a coroutine
  thread,               \* the I/O thread a coroutine runs on, itself if it is a thread of its own
  schedules,            \* how often a coroutine has awaited schedule()
  wakeUps,              \* how many wake-ups a caller of stop() still has to post
  resets

vars == <<stopRequested, activeThreads, m_workCount, mq, m_scheduleOperations, pc, waitForEvent, once,
          operations, message, status, thread, schedules, wakeUps, resets>>

threadState == <<stopRequested, activeThreads>>
queues == <<mq, m_scheduleOperations>>
loops == <<pc, waitForEvent, once, operations, message>>
coroutines == <<status, thread, schedules>>

TypeOK ==
  /\ stopRequested \in BOOLEAN
  /\ activeThreads \in 0..Cardinality(IoThreads)
  /\ m_workCount \in 0..Cardinality(Coroutines)
  /\ mq \in Seq(Coroutines \cup {WakeUp}) /\ Len(mq) <= Capacity
  /\ m_scheduleOperations \in Seq(Coroutines)
  /\ pc \in [IoThreads -> {"out", "check", "overflow", "reschedule", "wait", "read", "dispatch", "resume", "exit"}]
  /\ waitForEvent \in [IoThreads -> BOOLEAN] /\ once \in [IoThreads -> BOOLEAN]
  /\ operations \in [IoThreads -> Seq(Coroutines)]
  /\ message \in [IoThreads -> Coroutines \cup {WakeUp, NullPtr}]
  /\ status \in [Coroutines -> {"running", "full", "waiting", "finishing", "stopping", "done"}]
  /\ thread \in [Coroutines -> Coroutines \cup IoThreads]
  /\ schedules \in [Coroutines -> 0..MaxSchedules]
  /\ wakeUps \in [Coroutines \cup {Owner} -> 0..Cardinality(IoThreads)]
  /\ resets \in 0..MaxResets

Init ==
  /\ stopRequested = FALSE /\ activeThreads = 0
  /\ m_workCount = Cardinality(Coroutines)
  /\ mq = << >> /\ m_scheduleOperations = << >>
  /\ pc = [t \in IoThreads |-> "out"]
  /\ waitForEvent = [t \in IoThreads |-> t \in Blockers]
  /\ once = [t \in IoThreads |-> FALSE]
  /\ operations = [t \in IoThreads |-> << >>]
  /\ message = [t \in IoThreads |-> NullPtr]
  /\ status = [c \in Coroutines |-> "running"]
  /\ thread = [c \in Coroutines |-> c]
  /\ schedules = [c \in Coroutines |-> 0]
  /\ wakeUps = [a \in Coroutines \cup {Owner} |-> 0]
  /\ resets = 0

Goto(t, label) == pc' = [pc EXCEPT ![t] = label]

(* message_queue::enqueue_message(): write() to a pipe that may be full.   *)
Full == Len(mq) = Capacity
Enqueue(msg) == ~Full /\ mq' = Append(mq, msg)

-----------------------------------------------------------------------------
(* schedule() and the coroutines that await it                             *)

(* Coroutine c has suspended or completed: the thread that ran it returns  *)
(* from resume() and goes on with its loop, or leaves it.                  *)
ReturnFromResume(c) ==
  pc' = [t \in IoThreads |-> CASE t # thread[c] -> pc[t]
                               [] t = thread[c] /\ once[t] -> "exit"
                               [] OTHER -> "check"]

(* schedule_operation::await_suspend(), schedule_impl(): post the message. *)
Schedule(c) ==
  /\ status[c] = "running"
  /\ schedules[c] < MaxSchedules
  /\ schedules' = [schedules EXCEPT ![c] = @ + 1]
  /\ \/ Enqueue(c) /\ status' = [status EXCEPT ![c] = "waiting"] /\ ReturnFromResume(c)
     \/ Full /\ status' = [status EXCEPT ![c] = "full"] /\ UNCHANGED <<mq, pc>>
  /\ UNCHANGED <<threadState, m_workCount, m_scheduleOperations, waitForEvent, once, operations, message,
                 thread, wakeUps, resets>>

(* The queue was full: push the operation on the overflow list.            *)
PushOverflow(c) ==
  /\ status[c] = "full"
  /\ m_scheduleOperations' = <<c>> \o m_scheduleOperations
  /\ status' = [status EXCEPT ![c] = "waiting"]
  /\ ReturnFromResume(c)
  /\ UNCHANGED <<threadState, m_workCount, mq, waitForEvent, once, operations, message, thread, schedules,
                 wakeUps, resets>>

(* The coroutine completes: ~io_work_scope(), notify_work_finished().      *)
FinishWork(c) ==
  /\ status[c] = "running"
  /\ schedules[c] > 0
  /\ m_workCount' = m_workCount - 1
  /\ \/ m_workCount = 1 /\ status' = [status EXCEPT ![c] = "finishing"] /\ UNCHANGED pc
     \/ m_workCount # 1 /\ status' = [status EXCEPT ![c] = "done"] /\ ReturnFromResume(c)
  /\ UNCHANGED <<threadState, queues, waitForEvent, once, operations, message, thread, schedules, wakeUps, resets>>

-----------------------------------------------------------------------------
(* stop() and reset()                                                      *)

(* A slip: one wake-up for all threads.                                    *)
WakeOneThread == IF stopRequested \/ activeThreads = 0 THEN 0 ELSE 1

(* stop(): the first caller posts a wake-up for each thread in the loop.   *)
WakeUpsToPost == IF stopRequested THEN 0 ELSE activeThreads

OwnerStops ==
  /\ ~stopRequested
  /\ wakeUps[Owner] = 0
  /\ stopRequested' = TRUE
  /\ wakeUps' = [wakeUps EXCEPT ![Owner] = WakeUpsToPost]
  /\ UNCHANGED <<activeThreads, m_workCount, queues, loops, coroutines, resets>>

LastWorkStops(c) ==
  /\ status[c] = "finishing"
  /\ stopRequested' = TRUE
  /\ wakeUps' = [wakeUps EXCEPT ![c] = WakeUpsToPost]
  /\ status' = [status EXCEPT ![c] = "stopping"]
  /\ UNCHANGED <<activeThreads, m_workCount, queues, loops, thread, schedules, resets>>

(* post_wake_up_event(): a message that does not fit is dropped.           *)
PostWakeUp(a) ==
  /\ wakeUps[a] > 0
  /\ wakeUps' = [wakeUps EXCEPT ![a] = @ - 1]
  /\ Enqueue(WakeUp) \/ (Full /\ UNCHANGED mq)
  /\ UNCHANGED <<threadState, m_workCount, m_scheduleOperations, loops, coroutines, resets>>

StopReturns(c) ==
  /\ status[c] = "stopping"
  /\ wakeUps[c] = 0
  /\ status' = [status EXCEPT ![c] = "done"]
  /\ ReturnFromResume(c)
  /\ UNCHANGED <<threadState, m_workCount, queues, waitForEvent, once, operations, message, thread, schedules,
                 wakeUps, resets>>

(* reset(), called when all threads have left the loop.                    *)
Reset ==
  /\ stopRequested /\ activeThreads = 0 /\ wakeUps[Owner] = 0
  /\ resets < MaxResets
  /\ resets' = resets + 1
  /\ stopRequested' = FALSE
  /\ UNCHANGED <<activeThreads, m_workCount, queues, loops, coroutines, wakeUps>>

-----------------------------------------------------------------------------
(* The event loop                                                          *)

(* try_enter_event_loop(), from one of the four process functions.         *)
EnterEventLoop(t) ==
  /\ pc[t] = "out"
  /\ ~stopRequested
  /\ activeThreads' = activeThreads + 1
  /\ \E b \in BOOLEAN : once' = [once EXCEPT ![t] = b]
  /\ Goto(t, "check")
  /\ UNCHANGED <<stopRequested, m_workCount, queues, waitForEvent, operations, message, coroutines, wakeUps, resets>>

CheckStop(t) ==
  /\ pc[t] = "check"
  /\ Goto(t, IF stopRequested THEN "exit" ELSE "overflow")
  /\ UNCHANGED <<threadState, m_workCount, queues, waitForEvent, once, operations, message, coroutines, wakeUps, resets>>

(* A slip: the overflow list is left to others.                            *)
LeaveOverflow(t) ==
  /\ pc[t] = "overflow"
  /\ Goto(t, "wait")
  /\ UNCHANGED <<threadState, m_workCount, queues, waitForEvent, once, operations, message, coroutines, wakeUps, resets>>

(* try_reschedule_overflow_operations(): take the whole list,              *)
TakeOverflow(t) ==
  /\ pc[t] = "overflow"
  /\ operations' = [operations EXCEPT ![t] = m_scheduleOperations]
  /\ m_scheduleOperations' = << >>
  /\ Goto(t, IF m_scheduleOperations = << >> THEN "wait" ELSE "reschedule")
  /\ UNCHANGED <<threadState, m_workCount, mq, waitForEvent, once, message, coroutines, wakeUps, resets>>

(* A slip: the list is put back over what was pushed in the meantime.      *)
PutBackOver(ops, list) == ops

(* post them one by one, and put back those for which there is no room.    *)
PutBack(ops, list) == ops \o list

RescheduleOverflow(t) ==
  /\ pc[t] = "reschedule"
  /\ \/ /\ Enqueue(Head(operations[t]))
        /\ operations' = [operations EXCEPT ![t] = Tail(@)]
        /\ Goto(t, IF Len(operations[t]) = 1 THEN "wait" ELSE "reschedule")
        /\ UNCHANGED m_scheduleOperations
     \/ /\ Full
        /\ m_scheduleOperations' = PutBack(operations[t], m_scheduleOperations)
        /\ operations' = [operations EXCEPT ![t] = << >>]
        /\ Goto(t, "wait")
        /\ UNCHANGED mq
  /\ UNCHANGED <<threadState, m_workCount, waitForEvent, once, message, coroutines, wakeUps, resets>>

(* dequeue_message(): epoll_wait() says that the pipe can be read, or, if  *)
(* the thread does not wait, that it cannot;                               *)
EpollWait(t) ==
  /\ pc[t] = "wait"
  /\ \/ mq # << >> /\ Goto(t, "read")
     \/ mq = << >> /\ ~waitForEvent[t] /\ Goto(t, "exit")
  /\ UNCHANGED <<threadState, m_workCount, queues, waitForEvent, once, operations, message, coroutines, wakeUps, resets>>

(* it is interrupted by a signal while it blocks;                          *)
EpollInterrupted(t) ==
  /\ Signals
  /\ pc[t] = "wait"
  /\ mq = << >> /\ waitForEvent[t]
  /\ Goto(t, "exit")
  /\ UNCHANGED <<threadState, m_workCount, queues, waitForEvent, once, operations, message, coroutines, wakeUps, resets>>

(* read() takes a message, unless another thread has emptied the pipe.     *)
ReadPipe(t) ==
  /\ pc[t] = "read"
  /\ \/ /\ mq # << >>
        /\ message' = [message EXCEPT ![t] = Head(mq)]
        /\ mq' = Tail(mq)
        /\ Goto(t, "dispatch")
     \/ mq = << >> /\ Goto(t, "exit") /\ UNCHANGED <<message, mq>>
  /\ UNCHANGED <<threadState, m_workCount, m_scheduleOperations, waitForEvent, once, operations, coroutines,
                 wakeUps, resets>>

(* A RESUME_TYPE message: resume the coroutine.                            *)
ResumeCoroutine(t) ==
  /\ pc[t] = "dispatch"
  /\ message[t] \in Coroutines
  /\ status' = [status EXCEPT ![message[t]] = "running"]
  /\ thread' = [thread EXCEPT ![message[t]] = t]
  /\ message' = [message EXCEPT ![t] = NullPtr]
  /\ Goto(t, "resume")
  /\ UNCHANGED <<threadState, m_workCount, queues, waitForEvent, once, operations, schedules, wakeUps, resets>>

(* A WAKEUP_TYPE message, which may be left over from an earlier stop().   *)
HandleWakeUp(t) ==
  /\ pc[t] = "dispatch"
  /\ message[t] = WakeUp
  /\ message' = [message EXCEPT ![t] = NullPtr]
  /\ Goto(t, IF stopRequested THEN "exit" ELSE "overflow")
  /\ UNCHANGED <<threadState, m_workCount, queues, waitForEvent, once, operations, coroutines, wakeUps, resets>>

ExitEventLoop(t) ==
  /\ pc[t] = "exit"
  /\ activeThreads' = activeThreads - 1
  /\ Goto(t, "out")
  /\ UNCHANGED <<stopRequested, m_workCount, queues, waitForEvent, once, operations, message, coroutines, wakeUps, resets>>

-----------------------------------------------------------------------------
LoopStep(t) ==
  \/ CheckStop(t) \/ TakeOverflow(t) \/ RescheduleOverflow(t) \/ EpollWait(t) \/ ReadPipe(t)
  \/ ResumeCoroutine(t) \/ HandleWakeUp(t) \/ ExitEventLoop(t)

(* A coroutine that runs completes at the latest when it has awaited       *)
(* schedule() as often as it may.                                          *)
CoroutineStep(c) ==
  Schedule(c) \/ PushOverflow(c) \/ FinishWork(c) \/ LastWorkStops(c) \/ PostWakeUp(c) \/ StopReturns(c)

Next ==
  \/ \E t \in IoThreads : LoopStep(t) \/ EnterEventLoop(t) \/ EpollInterrupted(t)
  \/ \E c \in Coroutines : CoroutineStep(c)
  \/ OwnerStops \/ PostWakeUp(Owner) \/ Reset

(* Threads and coroutines go on with what they have begun, and a poller    *)
(* calls again when its call has returned.  No blocker need call again.    *)
Spec ==
  /\ Init /\ [][Next]_vars
  /\ \A t \in IoThreads : WF_vars(LoopStep(t))
  /\ \A t \in Pollers : WF_vars(EnterEventLoop(t))
  /\ \A c \in Coroutines : WF_vars(CoroutineStep(c))
  /\ WF_vars(PostWakeUp(Owner))

-----------------------------------------------------------------------------
Occurrences(c, s) == Cardinality({i \in DOMAIN s : s[i] = c})
Holders(c) == {t \in IoThreads : message[t] = c \/ Occurrences(c, operations[t]) > 0}

(* A coroutine that waits is in the pipe, on the overflow list or with one *)
(* thread, which is to post or resume it, and in one of these only once;   *)
(* one that runs is in none: it is neither lost nor resumed twice.         *)
WaitingIsInOnePlace ==
  \A c \in Coroutines :
    Occurrences(c, mq) + Occurrences(c, m_scheduleOperations) + Cardinality(Holders(c))
      = IF status[c] = "waiting" THEN 1 ELSE 0

(* The threads in the event loop are those that stop() counts.             *)
ActiveAreCounted == activeThreads = Cardinality({t \in IoThreads : pc[t] # "out"})

(* stop() gets every thread out of the event loop, however many messages   *)
(* and wake-ups of earlier stops are in the pipe.                          *)
StopEmptiesTheLoop == stopRequested ~> (activeThreads = 0)

(* A coroutine that awaits schedule() is resumed, from the overflow list   *)
(* too, unless the service is stopped; some thread calls again and again.  *)
ScheduledIsResumed ==
  \A c \in Coroutines : (status[c] = "waiting") ~> (status[c] # "waiting" \/ stopRequested)
=============================================================================
