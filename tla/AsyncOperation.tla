--------------------------- MODULE AsyncOperation ---------------------------
(***************************************************************************)
(* An I/O operation in the Linux build: async_operation and                *)
(* async_operation_cancellable (async_operation.hpp), what is common to    *)
(* all operations in linux.cpp, the handles that epoll watches             *)
(* (linux_message_queue.cpp), and how each operation starts.               *)
(*                                                                         *)
(* One coroutine awaits one operation, on any thread; cancellation is      *)
(* requested on any thread; one or several threads process events.  The    *)
(* pipe is shared with all else that goes on and may be full at any time,  *)
(* and epoll may refuse a handle.                                          *)
(***************************************************************************)
EXTENDS Integers

CONSTANT Threads

VARIABLES
  kind,             \* what the operation is on
  flavour,          \* "plain": async_operation; else async_operation_cancellable, without or with a "token"
  awaitingThread,   \* where await_suspend() runs
  cancellingThread, \* where request_cancellation() runs
  eventThreads,     \* the threads inside process_events()
  requested,        \* cancellation has been requested
  m_state, m_isCancelled,
  m_res,            \* "zero" as constructed, "error", "cancelled" or what was "performed"
  handle,           \* what epoll does for the handle: "unwatched", "watched", or "regular" that it refuses
  ready,            \* the handle can be read or written
  messages,         \* how many CALLBACK_TYPE messages for the operation are in the pipe
  lost,             \* one found the pipe full
  starter, callback, handler,   \* where await_suspend(), the cancellation callback and each event thread are
  result,           \* what the co_await gave
  terminated        \* whose exception left a noexcept function

vars == <<kind, flavour, awaitingThread, cancellingThread, eventThreads, requested, m_state, m_isCancelled, m_res, handle,
          ready, messages, lost, starter, callback, handler, result, terminated>>

setting == <<kind, flavour, awaitingThread, cancellingThread, eventThreads>>
flags == <<requested, m_isCancelled>>
pipe == <<messages, lost>>
ending == <<result, terminated>>

-----------------------------------------------------------------------------
(* How watch_handle() may end: epoll watches the handle, or watch_handle() *)
(* throws (the handle is watched for another operation, no memory, too     *)
(* many handles).  Of a file epoll may also say that it is a regular one,  *)
(* for which it has no use and a message is posted.                        *)
WatchHandle == {"watched", "throws"}
WatchFile == WatchHandle \cup {"regular"}

(* How try_start() of an operation may end: the system call or a check     *)
(* before it fails, or the handle is to be watched.                        *)
TimerTryStart == {"failed"} \cup WatchHandle
ConnectTryStart == {"failed"} \cup WatchHandle
AcceptTryStart == WatchHandle
DisconnectTryStart == WatchHandle
SendTryStart == WatchHandle
SendToTryStart == WatchHandle
RecvTryStart == WatchHandle
RecvFromTryStart == WatchHandle
FileReadTryStart == {"failed"} \cup WatchFile
FileWriteTryStart == {"failed"} \cup WatchFile

(* After try_start() the operations on files behave alike, and so do those *)
(* on sockets: each kind has the ends of all its operations.               *)
TryStartOutcomes ==
  [timer |-> TimerTryStart,
   file |-> FileReadTryStart \cup FileWriteTryStart,
   socket |-> ConnectTryStart \cup AcceptTryStart \cup DisconnectTryStart \cup SendTryStart \cup SendToTryStart
                \cup RecvTryStart \cup RecvFromTryStart]

Kinds == DOMAIN TryStartOutcomes

TypeOK ==
  /\ kind \in Kinds
  /\ flavour \in {"plain", "no_token", "token"}
  /\ awaitingThread \in Threads /\ cancellingThread \in Threads /\ eventThreads \subseteq Threads
  /\ requested \in BOOLEAN /\ ready \in BOOLEAN /\ lost \in BOOLEAN
  /\ m_state \in {"not_started", "started", "cancellation_requested", "completed"}
  /\ m_isCancelled \in BOOLEAN
  /\ m_res \in {"zero", "performed", "error", "cancelled"}
  /\ handle \in {"unwatched", "watched", "regular"}
  /\ messages \in Nat
  /\ starter \in {"before", "ready", "await", "registering", "start", "mark", "take_over", "cancel", "post", "suspended",
                  "not_suspended"}
  /\ callback \in {"idle", "load", "transfer", "cancel", "post", "flag", "returned"}
  /\ handler \in [Threads -> {"idle", "event", "perform", "state", "exchange", "resume"}]
  /\ result \in {"none", "operation_cancelled", "performed", "error", "cancelled", "zero"}
  /\ terminated \in {"no", "watch_handle", "unwatch_handle"}

Init ==
  /\ kind \in Kinds
  /\ flavour \in {"plain", "no_token", "token"}
  /\ awaitingThread \in Threads
  /\ cancellingThread \in IF flavour = "token" THEN Threads ELSE {awaitingThread}
  /\ eventThreads \in SUBSET Threads \ {{}}
  /\ requested = FALSE
  /\ m_state = "not_started" /\ m_isCancelled = FALSE /\ m_res = "zero"
  /\ handle = "unwatched" /\ ready = FALSE /\ messages = 0 /\ lost = FALSE
  /\ starter = "before" /\ callback = "idle" /\ handler = [t \in Threads |-> "idle"]
  /\ result = "none"
  /\ terminated = "no"

-----------------------------------------------------------------------------
StarterAtRest == starter \in {"before", "await", "suspended"}
CallbackAtRest == callback \in {"idle", "returned"}

(* One thread does one thing at a time.                                    *)
Free(t) ==
  /\ t = awaitingThread => StarterAtRest
  /\ t = cancellingThread => CallbackAtRest \/ starter = "registering"
  /\ handler[t] = "idle"

(* What is left of the program: once the coroutine has gone on, the        *)
(* operation is gone and nobody may touch it.                              *)
Alive == terminated = "no" /\ result = "none"

(* enqueue_message() of a callback, whose answer nobody looks at.          *)
Enqueue ==
  \/ messages' = messages + 1 /\ UNCHANGED lost
  \/ lost' = TRUE /\ UNCHANGED messages

(* unwatch_handle() throws if epoll does not know the handle.              *)
Unwatch ==
  IF handle = "unwatched" THEN terminated' = "unwatch_handle" /\ UNCHANGED handle
  ELSE handle' = (IF handle = "watched" THEN "unwatched" ELSE handle) /\ UNCHANGED terminated

HandleGetsReady ==
  /\ ~ready
  /\ ready' = TRUE
  /\ UNCHANGED <<setting, flags, m_state, m_res, handle, pipe, starter, callback, handler, ending>>

-----------------------------------------------------------------------------
(* await_suspend()                                                         *)

(* The constructor and await_ready(): an operation whose token has been    *)
(* cancelled counts as completed and is not started.                       *)
Construct ==
  /\ starter = "before" /\ Free(awaitingThread)
  /\ \/ /\ requested
        /\ m_state' = "completed"
        /\ starter' = "ready"
     \/ ~requested /\ starter' = "await" /\ UNCHANGED m_state
  /\ UNCHANGED <<setting, flags, m_res, handle, ready, pipe, callback, handler, ending>>

(* The registration of the callback, which is called at once if it is too  *)
(* late.                                                                   *)
Register ==
  /\ starter = "await" /\ Free(awaitingThread)
  /\ \/ /\ flavour = "token" /\ requested
        /\ callback' = "load" /\ starter' = "registering"
        /\ UNCHANGED m_state
     \/ /\ flavour = "token" /\ ~requested
        /\ starter' = "start"
        /\ UNCHANGED <<m_state, callback>>
     \/ /\ flavour # "token"
        /\ starter' = "start"
        /\ m_state' = "started"
        /\ UNCHANGED callback
  /\ UNCHANGED <<setting, flags, m_res, handle, ready, pipe, handler, ending>>

RegistrationReturns ==
  /\ starter = "registering" /\ callback = "returned"
  /\ starter' = "start"
  /\ UNCHANGED <<setting, flags, m_state, m_res, handle, ready, pipe, callback, handler, ending>>

(* try_start(), which is noexcept; without a token await_suspend() does    *)
(* not touch the operation after it.                                       *)
TryStart ==
  /\ starter = "start"
  /\ LET next == IF flavour = "token" THEN "mark" ELSE "suspended"
     IN  \/ /\ "failed" \in TryStartOutcomes[kind]
            /\ m_res' = "error" /\ starter' = "not_suspended"
            /\ UNCHANGED <<handle, pipe, terminated>>
         \/ /\ "watched" \in TryStartOutcomes[kind]
            /\ handle' = "watched" /\ starter' = next
            /\ UNCHANGED <<m_res, pipe, terminated>>
         \/ /\ "regular" \in TryStartOutcomes[kind]
            /\ handle' = "regular" /\ Enqueue /\ starter' = next
            /\ UNCHANGED <<m_res, terminated>>
         \/ /\ "throws" \in TryStartOutcomes[kind]
            /\ terminated' = "watch_handle"
            /\ UNCHANGED <<m_res, handle, pipe, starter>>
  /\ UNCHANGED <<setting, flags, m_state, ready, callback, handler, result>>

(* A slip: the coroutine stays suspended whatever the state was.           *)
MarkStartedBlindly ==
  /\ starter = "mark"
  /\ \/ m_state = "cancellation_requested" /\ starter' = "take_over" /\ UNCHANGED m_state
     \/ m_state # "cancellation_requested" /\ m_state' = "started" /\ starter' = "suspended"
  /\ UNCHANGED <<setting, flags, m_res, handle, ready, pipe, callback, handler, ending>>

(* The first compare-exchange: against completion and cancellation.        *)
MarkStarted ==
  /\ starter = "mark"
  /\ \/ m_state = "not_started" /\ m_state' = "started" /\ starter' = "suspended"
     \/ m_state = "cancellation_requested" /\ starter' = "take_over" /\ UNCHANGED m_state
     \/ m_state = "completed" /\ starter' = "not_suspended" /\ UNCHANGED m_state
  /\ UNCHANGED <<setting, flags, m_res, handle, ready, pipe, callback, handler, ending>>

(* The second one: cancellation was requested and is now this thread's.    *)
TakeOverCancellation ==
  /\ starter = "take_over"
  /\ IF m_state = "cancellation_requested"
       THEN m_state' = "started" /\ m_isCancelled' = TRUE /\ starter' = "cancel"
       ELSE starter' = "not_suspended" /\ UNCHANGED <<m_state, m_isCancelled>>
  /\ UNCHANGED <<setting, requested, m_res, handle, ready, pipe, callback, handler, ending>>

(* io_state::cancel(): unwatch the handle,                                 *)
CancelByStarter ==
  /\ starter = "cancel"
  /\ Unwatch
  /\ m_res' = "cancelled"
  /\ starter' = "post"
  /\ UNCHANGED <<setting, flags, m_state, ready, pipe, callback, handler, result>>

(* and post a message that completes the operation, if there is room.      *)
PostByStarter ==
  /\ starter = "post"
  /\ Enqueue
  /\ starter' = "suspended"
  /\ UNCHANGED <<setting, flags, m_state, m_res, handle, ready, callback, handler, ending>>

-----------------------------------------------------------------------------
(* on_cancellation_requested()                                             *)

RequestCancellation ==
  /\ flavour = "token" /\ ~requested /\ Free(cancellingThread)
  /\ requested' = TRUE
  /\ callback' = IF starter \in {"before", "await"} THEN callback ELSE "load"
  /\ UNCHANGED <<setting, m_state, m_isCancelled, m_res, handle, ready, pipe, starter, handler, ending>>

(* The load of m_state and, while the operation is being started, the      *)
(* compare-exchange that leaves cancelling to await_suspend().             *)
LoadState ==
  /\ callback = "load"
  /\ callback' = CASE m_state = "not_started" -> "transfer"
                   [] m_state = "completed" -> "returned"
                   [] OTHER -> "cancel"
  /\ UNCHANGED <<setting, flags, m_state, m_res, handle, ready, pipe, starter, handler, ending>>

TransferResponsibility ==
  /\ callback = "transfer"
  /\ m_state' = IF m_state = "not_started" THEN "cancellation_requested" ELSE m_state
  /\ callback' = IF m_state = "started" THEN "cancel" ELSE "returned"
  /\ UNCHANGED <<setting, flags, m_res, handle, ready, pipe, starter, handler, ending>>

CancelByCallback ==
  /\ callback = "cancel"
  /\ Unwatch
  /\ m_res' = "cancelled"
  /\ callback' = "post"
  /\ UNCHANGED <<setting, flags, m_state, ready, pipe, starter, handler, result>>

PostByCallback ==
  /\ callback = "post"
  /\ Enqueue
  /\ callback' = "flag"
  /\ UNCHANGED <<setting, flags, m_state, m_res, handle, ready, starter, handler, ending>>

SetIsCancelled ==
  /\ callback = "flag"
  /\ m_isCancelled' = TRUE
  /\ callback' = "returned"
  /\ UNCHANGED <<setting, requested, m_state, m_res, handle, ready, pipe, starter, handler, ending>>

-----------------------------------------------------------------------------
(* A thread that processes events: on_operation_completed()                *)

(* epoll reports the handle, to whoever asks, as long as it is watched and *)
(* ready, or the pipe has a message.                                       *)
TakeEvent(t) ==
  /\ t \in eventThreads /\ Free(t)
  /\ \/ handle = "watched" /\ ready /\ UNCHANGED messages
     \/ messages > 0 /\ messages' = messages - 1
  /\ handler' = [handler EXCEPT ![t] = "event"]
  /\ UNCHANGED <<setting, flags, m_state, m_res, handle, ready, lost, starter, callback, ending>>

LoadIsCancelled(t) ==
  /\ handler[t] = "event"
  /\ handler' = [handler EXCEPT ![t] = IF m_isCancelled THEN "state" ELSE "perform"]
  /\ UNCHANGED <<setting, flags, m_state, m_res, handle, ready, pipe, starter, callback, ending>>

(* Unless it was cancelled, on_operation_completed_base(): unwatch the     *)
(* handle and perform the operation.                                       *)
Perform(t) ==
  /\ handler[t] = "perform"
  /\ Unwatch
  /\ m_res' \in {"performed", "error"}
  /\ handler' = [handler EXCEPT ![t] = IF flavour = "plain" THEN "resume" ELSE "state"]
  /\ UNCHANGED <<setting, flags, m_state, ready, pipe, starter, callback, result>>

(* The load that tells whether await_suspend() has marked the operation.   *)
CompleteIfStarted(t) ==
  /\ handler[t] = "state"
  /\ \/ m_state = "started" /\ m_state' = "completed" /\ handler' = [handler EXCEPT ![t] = "resume"]
     \/ m_state # "started" /\ handler' = [handler EXCEPT ![t] = "exchange"] /\ UNCHANGED m_state
  /\ UNCHANGED <<setting, flags, m_res, handle, ready, pipe, starter, callback, ending>>

(* A slip: the coroutine is resumed whoever was first.                     *)
CompleteAndResume(t) ==
  /\ handler[t] = "exchange"
  /\ m_state' = "completed"
  /\ handler' = [handler EXCEPT ![t] = "resume"]
  /\ UNCHANGED <<setting, flags, m_res, handle, ready, pipe, starter, callback, ending>>

(* The exchange: who comes second goes on with the coroutine.              *)
ExchangeCompleted(t) ==
  /\ handler[t] = "exchange"
  /\ m_state' = "completed"
  /\ handler' = [handler EXCEPT ![t] = IF m_state = "started" THEN "resume" ELSE "idle"]
  /\ UNCHANGED <<setting, flags, m_res, handle, ready, pipe, starter, callback, ending>>

-----------------------------------------------------------------------------
(* await_resume(), on a thread that processes events or, if                *)
(* await_suspend() was not called or returned false, on the thread of the  *)
(* coroutine.  The registration goes after its callback has returned.      *)
AwaitResume ==
  /\ CallbackAtRest
  /\ result' = IF m_isCancelled THEN "operation_cancelled" ELSE m_res
  /\ UNCHANGED <<setting, flags, m_state, m_res, handle, ready, pipe, starter, callback, terminated>>

ResumeByHandler(t) ==
  /\ handler[t] = "resume"
  /\ AwaitResume
  /\ handler' = [handler EXCEPT ![t] = "idle"]

ContinueAtOnce ==
  /\ starter \in {"ready", "not_suspended"}
  /\ AwaitResume
  /\ UNCHANGED handler

StarterStep ==
  /\ Alive
  /\ \/ Construct \/ Register \/ RegistrationReturns \/ TryStart \/ MarkStarted \/ TakeOverCancellation
     \/ CancelByStarter \/ PostByStarter \/ ContinueAtOnce

CallbackStep ==
  /\ Alive
  /\ LoadState \/ TransferResponsibility \/ CancelByCallback \/ PostByCallback \/ SetIsCancelled

HandlerStep(t) ==
  /\ Alive
  /\ TakeEvent(t) \/ LoadIsCancelled(t) \/ Perform(t) \/ CompleteIfStarted(t) \/ ExchangeCompleted(t) \/ ResumeByHandler(t)

EnvironmentStep == Alive /\ (HandleGetsReady \/ RequestCancellation)

Next == EnvironmentStep \/ StarterStep \/ CallbackStep \/ \E t \in Threads : HandlerStep(t)

(* Every thread goes on; neither need the handle get ready nor anybody     *)
(* request cancellation.                                                   *)
Spec ==
  /\ Init /\ [][Next]_vars
  /\ WF_vars(StarterStep) /\ WF_vars(CallbackStep) /\ \A t \in Threads : WF_vars(HandlerStep(t))

-----------------------------------------------------------------------------
(* The uses that the code is made for: one thread processes events, and    *)
(* cancellation, if it is requested, is requested there, of an operation   *)
(* that was started there and is not on a regular file.                    *)
Sheltered ==
  \E t \in Threads :
    /\ eventThreads = {t}
    /\ requested => awaitingThread = t /\ cancellingThread = t /\ handle # "regular"

(* The coroutine goes on once, on one thread: after that nothing is left   *)
(* that refers to the operation, neither a watched handle nor a message    *)
(* nor a thread.                                                           *)
CompletesOnce ==
  /\ \A t \in Threads : handler[t] = "resume" =>
       /\ starter \notin {"ready", "not_suspended"}
       /\ \A u \in Threads \ {t} : handler[u] # "resume"
  /\ result # "none" =>
       /\ handle # "watched" /\ messages = 0
       /\ \A t \in Threads : handler[t] = "idle"
       /\ CallbackAtRest
       /\ starter \in {"suspended", "not_suspended", "ready"}

(* A handle is unwatched once, so that unwatch_handle() does not throw.    *)
UnwatchedOnce == terminated # "unwatch_handle"

(* On whatever threads all this happens: a co_await that succeeds has      *)
(* performed the operation, unless its token was cancelled before it was   *)
(* constructed, and one that was cancelled says so, although cancel()      *)
(* stores the error before m_isCancelled is set.                           *)
ResultIsTrue ==
  /\ result = "zero" => starter = "ready"
  /\ result # "cancelled"

(* An I/O operation is told the truth on whatever threads it is started,   *)
(* completed and cancelled; and in the uses above its coroutine goes on    *)
(* once, when nothing refers to the operation any more, and no exception   *)
(* of unwatch_handle() ends the program.                                   *)
OperationSafe == TypeOK /\ ResultIsTrue /\ (Sheltered => CompletesOnce /\ UnwatchedOnce)

(* An operation whose handle gets ready, that is cancelled, or whose       *)
(* handle is always ready completes, whichever threads race for it, unless *)
(* the pipe had no room for its message or an exception has ended the      *)
(* program.                                                                *)
OperationCompletes ==
  (starter # "before" /\ (ready \/ requested \/ handle = "regular")) ~> (result # "none" \/ lost \/ terminated # "no")

(* A delay that is cancelled before it has elapsed "will throw             *)
(* cppcoro::operation_cancelled" (io_service.hpp), unless the timer could  *)
(* not be set.                                                             *)
CancelledDelayThrows ==
  kind = "timer" /\ requested /\ ~ready => result \in {"none", "operation_cancelled", "error"}

(* "You can multiplex processing of events across multiple threads"        *)
(* (README.md): an operation that nobody cancels is unwatched once.        *)
EventThreadsMultiplex == ~requested => UnwatchedOnce

(* A request "to cancel the delayed schedule operation and schedule it for *)
(* resumption immediately" (io_service.hpp) is heeded, unless the program  *)
(* has ended.                                                              *)
CancelledDelayIsResumed ==
  (kind = "timer" /\ starter # "before" /\ requested) ~> (result # "none" \/ terminated # "no")
=============================================================================
