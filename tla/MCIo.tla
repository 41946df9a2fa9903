-------------------------------- MODULE MCIo --------------------------------
(***************************************************************************)
(* io_service with its message queue, the timer thread of the Windows      *)
(* build, and the texts of IP addresses, in one model.  A behaviour is one *)
(* of the component that `chosen' names, with the others at rest.  The     *)
(* timer thread is looked at with system calls that succeed and, for one   *)
(* operation, with calls that fail.                                        *)
(***************************************************************************)
EXTENDS IoParticipants, SequencesExt

CONSTANTS Owner, WakeUp, NullPtr, Signals,
          Operations,         \* timers
          MaxTime,
          FirstDue            \* the timer that is due first, the only one awaited when system calls fail

ASSUME IoAssumption ==
  /\ WakeUp \notin Coroutines /\ NullPtr \notin Coroutines /\ WakeUp # NullPtr
  /\ FirstDue \in Operations
  /\ MaxTime \in Nat

VARIABLES
  chosen,
  (* IoService *)
  stopRequested, activeThreads, m_workCount, mq, m_scheduleOperations, pc, waitForEvent, once,
  operations, message, status, thread, schedules, wakeUps, resets,
  (* TimerThread *)
  now, m_resumeTime, cancelled, m_refCount, timerPc, registered, canceller, timerStatus, m_timerState,
  m_newlyQueuedTimers, m_timerCancellationRequested, m_shutDownRequested, m_wakeUpEvent,
  m_waitableTimerEvent, m_timerEntries, m_overflowTimers, newTimers, timersReadyToResume,
  lastSetWaitEventTime, threadPc, service,
  (* IpAddress *)
  phase, value, text, parsed

Service == INSTANCE IoService
Timers == INSTANCE TimerThread WITH CallsFail <- FALSE, pc <- timerPc, status <- timerStatus
Failing == INSTANCE TimerThread WITH CallsFail <- TRUE, pc <- timerPc, status <- timerStatus

(* Every pattern of zero parts in an IPv6 address, with parts of one to    *)
(* four digits between them, and IPv4 addresses with bytes of one to three *)
(* digits, each as an address and as an endpoint.                          *)
NonZeroParts == <<1, 16, 256, 4096, 43981, 65535, 2570, 9>>
Addresses ==
  {[i \in 1 .. 8 |-> IF nonZero[i] THEN NonZeroParts[i] ELSE 0] : nonZero \in [1 .. 8 -> BOOLEAN]}
  \cup [1 .. 4 -> {0, 10, 255}]
MCValues == [address : Addresses, port : {-1, 0, 65535}]

(* All texts put together from three pieces, alone and after "::", texts   *)
(* around the largest integer, endpoints with good and bad hosts and ports,*)
(* and short texts that stand before something else in memory.  32 is ':', *)
(* 33 '.', 34 and 35 are the brackets, 36 is 'x'.                          *)
Pieces == {<<0>>, <<8>>, <<8, 32>>, <<1, 31>>, <<32>>, <<32, 32>>, <<33>>, <<1, 33, 0, 33, 2, 5, 33>>,
           <<1, 32, 2, 32, 3, 32, 4, 32, 5, 32, 6, 32>>}
Pieced(n) == {FlattenSeq(t) : t \in UNION {[1 .. k -> Pieces] : k \in 0 .. n}}
Integers31 == {<<2, 1, 4, 7, 4, 8, 3, 6, 4>> \o d : d \in [1 .. 1 -> 0 .. 9] \cup [1 .. 2 -> {0, 7}]}
              \cup {<<2, 1, 4, 7, 4, 8, 3, 6, 5, 0>>, <<0, 36, 1>>}
EndpointTexts ==
  {h \o p : h \in {<<34, 32, 32, 35>>, <<34, 32, 32>>, <<32, 32, 35>>, <<34, 32, 32, 33, 8, 35>>,
                   <<8, 33, 8, 33, 8, 33, 8>>, <<8>>, <<34, 8, 35>>, <<>>},
           p \in {<<32>>, <<32, 0>>, <<32, 6, 5, 5, 3, 5>>, <<32, 6, 5, 5, 3, 6>>, <<32, 0, 8>>, <<33, 8>>,
                 <<32, 32, 8>>, <<32, 10>>, <<35, 32, 8>>}}
WholeTexts == Pieced(3) \cup {<<32, 32>> \o t : t \in Pieced(3)} \cup Integers31 \cup EndpointTexts
CutTexts == Pieced(2) \cup {<<32, 32, 8, 33, 8>>, <<32, 32, 8, 33, 8, 33, 8>>}
MCTexts == [view : WholeTexts, beyond : {<<>>}] \cup [view : CutTexts, beyond : {<<33, 8, 33, 8>>, <<32, 8>>}]

IpText == INSTANCE IpAddress WITH Values <- MCValues, Texts <- MCTexts, MaxInteger <- 2147483647

serviceVars ==
  <<stopRequested, activeThreads, m_workCount, mq, m_scheduleOperations, pc, waitForEvent, once,
    operations, message, status, thread, schedules, wakeUps, resets>>
timerVars ==
  <<now, m_resumeTime, cancelled, m_refCount, timerPc, registered, canceller, timerStatus, m_timerState,
    m_newlyQueuedTimers, m_timerCancellationRequested, m_shutDownRequested, m_wakeUpEvent,
    m_waitableTimerEvent, m_timerEntries, m_overflowTimers, newTimers, timersReadyToResume,
    lastSetWaitEventTime, threadPc, service>>
textVars == <<phase, value, text, parsed>>

Others == Operations \ {FirstDue}

MCInit ==
  /\ chosen \in {"io_service", "timers", "timers_failing", "texts"}
  /\ Service!Init
  /\ Timers!Init
  /\ chosen = "timers" => \A o \in Others : m_resumeTime[FirstDue] <= m_resumeTime[o]
  /\ chosen = "timers_failing" => \A o \in Others : m_resumeTime[o] = 1
  /\ chosen \in {"io_service", "texts"} => \A o \in Operations : m_resumeTime[o] = 1
  /\ IF chosen = "texts" THEN IpText!Init
     ELSE phase = "parsed" /\ value = IpText!NoAddress /\ text = <<>> /\ parsed = <<>>

TimersNext ==
  \/ chosen = "timers" /\ Timers!Next
  \/ /\ chosen = "timers_failing"
     /\ Failing!Next
     /\ \A o \in Others : timerPc'[o] = "before" /\ ~cancelled'[o]

MCNext ==
  /\ \/ chosen = "io_service" /\ Service!Next /\ UNCHANGED <<timerVars, textVars>>
     \/ TimersNext /\ UNCHANGED <<serviceVars, textVars>>
     \/ chosen = "texts" /\ IpText!Next /\ UNCHANGED <<serviceVars, timerVars>>
  /\ UNCHANGED chosen

(* Each component's own fairness.                                          *)
MCSpec ==
  /\ MCInit /\ [][MCNext]_<<chosen, serviceVars, timerVars, textVars>>
  /\ \A t \in Blockers \cup Pollers : WF_serviceVars(chosen = "io_service" /\ Service!LoopStep(t))
  /\ \A t \in Pollers : WF_serviceVars(chosen = "io_service" /\ Service!EnterEventLoop(t))
  /\ \A c \in Coroutines : WF_serviceVars(chosen = "io_service" /\ Service!CoroutineStep(c))
  /\ WF_serviceVars(chosen = "io_service" /\ Service!PostWakeUp(Owner))
  /\ WF_timerVars(chosen = "timers" /\ Timers!Tick)
  /\ WF_timerVars(chosen = "timers" /\ Timers!ThreadStep)
  /\ WF_timerVars(chosen = "timers" /\ Timers!DestructorStep)
  /\ \A o \in Operations :
       /\ WF_timerVars(chosen = "timers" /\ Timers!AwaitStep(o))
       /\ WF_timerVars(chosen = "timers" /\ Timers!CallbackStep(o))

-----------------------------------------------------------------------------
(* io_service: a coroutine that awaits schedule() is in one place from     *)
(* which it will be resumed, and the threads in the event loop are those   *)
(* that stop() counts.                                                     *)
ScheduleSafe == Service!TypeOK /\ Service!WaitingIsInOnePlace /\ Service!ActiveAreCounted

(* stop() gets every thread out of the event loop.                         *)
StopEmptiesTheLoop == (chosen = "io_service") => Service!StopEmptiesTheLoop

(* A coroutine that awaits schedule() is resumed unless the service stops. *)
ScheduledIsResumed == (chosen = "io_service") => Service!ScheduledIsResumed

(* The timer thread: a timer is on one list until the timer thread gives   *)
(* it up, a coroutine is scheduled when nobody uses its operation and not  *)
(* before its time, nobody uses the thread when it is destroyed, and, if   *)
(* no system call fails, the thread wakes up for the earliest timer.       *)
TimersSafe ==
  /\ Timers!TypeOK
  /\ Timers!OnOneList
  /\ Timers!ScheduledAtRest
  /\ Timers!DestroyedUnused
  /\ chosen = "timers" => Timers!ArmedForEarliest

(* If no system call fails, a timer fires when its time comes or when it   *)
(* is cancelled, and the destructor of the service returns.                *)
TimersLive == (chosen = "timers") => (Timers!TimerFires /\ Timers!ServiceIsDestroyed)

(* Addresses and endpoints: what to_string() writes is read back, and a    *)
(* text is read as what it denotes or refused.                             *)
TextsSafe == (chosen = "texts") => (IpText!TypeOK /\ IpText!RoundTrip /\ IpText!ReadsWhatIsDenoted)
=============================================================================
