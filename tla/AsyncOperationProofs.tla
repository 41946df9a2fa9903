------------------------ MODULE AsyncOperationProofs ------------------------
(***************************************************************************)
(* An I/O operation in the Linux build, for any number of threads: what    *)
(* the run of MCEvents checks for three.        The inductive invariant    *)
(* has two parts.  One holds whichever threads race: where a result comes  *)
(* from.  The other is for the sheltered uses, with one event thread, and  *)
(* says for each place of await_suspend() what is still to come.           *)
(***************************************************************************)
EXTENDS AsyncOperation, TLAPS

(* Somebody who is to complete the operation, or to go on with the         *)
(* coroutine, finds that it was cancelled or has ended.                    *)
HasEnded == m_isCancelled \/ m_res # "zero"

ResultInv ==
  /\ ~requested => callback = "idle" /\ ~m_isCancelled /\ m_state # "cancellation_requested"
  /\ starter \in {"before", "await"} => callback = "idle"
  /\ \A t \in Threads : handler[t] \in {"state", "exchange", "resume"} => HasEnded
  /\ starter = "not_suspended" => HasEnded
  /\ m_state = "completed" => starter = "ready" \/ HasEnded
  /\ starter = "take_over" => m_state \in {"cancellation_requested", "completed"}
  /\ starter \in {"cancel", "post"} => m_isCancelled
  /\ m_res = "cancelled" => m_isCancelled \/ callback \in {"post", "flag"}
  /\ ResultIsTrue

(* One thing is going to end the operation: a handle that epoll watches,   *)
(* or a message in the pipe, if there was room.  Then nothing is left.     *)
NoMessage == messages = 0 /\ ~lost
MessageIsDue == messages = IF lost THEN 0 ELSE 1
EndIsDue == (handle = "watched" /\ NoMessage) \/ (handle = "regular" /\ MessageIsDue)
EndIsTaken == handle # "unwatched" /\ NoMessage
NothingIsDue == handle # "watched" /\ NoMessage
IsPerformed == NothingIsDue /\ m_res \in {"performed", "error"}

(* The operation before await_suspend() starts it.                         *)
StarterBegins(t) ==
  /\ handle = "unwatched" /\ NoMessage /\ handler[t] = "idle" /\ ~m_isCancelled /\ result = "none"
  /\ \/ starter \in {"before", "await"} /\ callback = "idle" /\ m_state = "not_started"
     \/ /\ starter = "registering" /\ requested
        /\ \/ callback \in {"load", "transfer"} /\ m_state = "not_started"
           \/ callback = "returned" /\ m_state = "cancellation_requested"
     \/ starter = "start" /\ ~requested /\ m_state = IF flavour = "token" THEN "not_started" ELSE "started"
     \/ starter = "start" /\ requested /\ callback = "returned" /\ m_state = "cancellation_requested"

(* It has been started, and await_suspend() has not told anybody.          *)
StarterMarks(t) ==
  /\ starter = "mark" /\ flavour = "token" /\ ~m_isCancelled /\ result = "none"
  /\ \/ /\ ~requested
        /\ \/ m_state = "not_started" /\ handler[t] = "idle" /\ EndIsDue
           \/ m_state = "not_started" /\ handler[t] \in {"event", "perform"} /\ EndIsTaken
           \/ m_state = "not_started" /\ handler[t] \in {"state", "exchange"} /\ IsPerformed
           \/ m_state = "completed" /\ handler[t] = "idle" /\ IsPerformed
     \/ /\ requested /\ callback = "returned" /\ m_state = "cancellation_requested"
        /\ handler[t] = "idle" /\ handle = "watched" /\ NoMessage

(* Cancellation was requested before it was started.                       *)
StarterCancels(t) ==
  /\ requested /\ callback = "returned" /\ handler[t] = "idle" /\ NoMessage /\ result = "none"
  /\ \/ starter = "take_over" /\ m_state = "cancellation_requested" /\ ~m_isCancelled /\ handle = "watched"
     \/ starter = "cancel" /\ m_state = "started" /\ m_isCancelled /\ handle = "watched"
     \/ starter = "post" /\ m_state = "started" /\ m_isCancelled /\ handle = "unwatched"

(* It takes its course, or the callback cancels it.                        *)
Suspended(t) ==
  /\ starter = "suspended" /\ result = "none"
  /\ \/ /\ ~m_isCancelled /\ ~requested
        /\ \/ m_state = "started" /\ handler[t] = "idle" /\ EndIsDue
           \/ m_state = "started" /\ handler[t] \in {"event", "perform"} /\ EndIsTaken
           \/ m_state = "started" /\ handler[t] \in {"state", "exchange"} /\ IsPerformed /\ flavour # "plain"
           \/ m_state = (IF flavour = "plain" THEN "started" ELSE "completed") /\ handler[t] = "resume" /\ IsPerformed
     \/ /\ ~m_isCancelled /\ requested /\ m_state = "started" /\ handler[t] = "idle"
        /\ \/ callback \in {"load", "cancel"} /\ handle = "watched" /\ NoMessage
           \/ callback = "post" /\ handle = "unwatched" /\ NoMessage
           \/ callback = "flag" /\ handle = "unwatched" /\ MessageIsDue
     \/ /\ m_isCancelled /\ requested /\ callback = "returned" /\ handle = "unwatched"
        /\ \/ m_state = "started" /\ handler[t] = "idle" /\ MessageIsDue
           \/ m_state = "started" /\ handler[t] \in {"event", "state"} /\ NoMessage
           \/ m_state = "completed" /\ handler[t] = "resume" /\ NoMessage

(* It is over: the coroutine goes on where it is, or has gone on.          *)
OperationEnds(t) ==
  /\ NothingIsDue /\ handler[t] = "idle" /\ callback \in {"idle", "returned"}
  /\ starter \in {"ready", "not_suspended"} \/ (starter = "suspended" /\ result # "none")

ShelteredOn(t) ==
  /\ eventThreads = {t}
  /\ requested => awaitingThread = t /\ cancellingThread = t /\ handle # "regular"

CourseInv(t) ==
  /\ terminated # "unwatch_handle"
  /\ StarterBegins(t) \/ StarterMarks(t) \/ StarterCancels(t) \/ Suspended(t) \/ OperationEnds(t)

OperationInv ==
  /\ TypeOK
  /\ requested => flavour = "token"
  /\ starter \in {"before", "await", "registering", "start"} => handle = "unwatched"
  /\ \A t \in Threads \ eventThreads : handler[t] = "idle"
  /\ ResultInv
  /\ \A t \in Threads : ShelteredOn(t) => CourseInv(t)

-----------------------------------------------------------------------------
LEMMA OperationInit == Init => OperationInv
  <1> SUFFICES ASSUME Init PROVE OperationInv
    OBVIOUS
  <1>1. TypeOK
    <2>1. 0 \in Nat
      OBVIOUS
    <2>2. QED BY <2>1, Zenon DEF Init, TypeOK
  <1>2. ResultInv
    BY DEF Init, ResultInv, ResultIsTrue
  <1>3. ASSUME NEW t \in Threads PROVE CourseInv(t)
    BY <1>3 DEF Init, CourseInv, StarterBegins, NoMessage
  <1>4. QED BY <1>1, <1>2, <1>3 DEF Init, OperationInv

(* Types.                                                                  *)
LEMMA OperationTypes ==
  ASSUME TypeOK, Next
  PROVE  TypeOK'
  <1> USE DEF TypeOK, setting, flags, pipe, ending
  <1>0. Enqueue => messages' \in Nat /\ lost' \in BOOLEAN
    <2>1. messages + 1 \in Nat
      OBVIOUS
    <2>2. QED BY <2>1, Zenon DEF Enqueue
  <1>1. CASE EnvironmentStep
    BY <1>1 DEF EnvironmentStep, HandleGetsReady, RequestCancellation
  <1>2. CASE StarterStep
    <2>1. CASE Construct
      BY <2>1 DEF Construct
    <2>2. CASE Register
      BY <2>2 DEF Register
    <2>3. CASE RegistrationReturns
      BY <2>3 DEF RegistrationReturns
    <2>4. CASE TryStart
      BY <1>0, <2>4 DEF TryStart
    <2>5. CASE MarkStarted
      BY <2>5 DEF MarkStarted
    <2>6. CASE TakeOverCancellation
      <3>1. m_isCancelled' \in BOOLEAN
        BY <2>6, Zenon DEF TakeOverCancellation
      <3>2. QED BY <2>6, <3>1 DEF TakeOverCancellation
    <2>7. CASE CancelByStarter
      BY <2>7 DEF CancelByStarter, Unwatch
    <2>8. CASE PostByStarter
      BY <1>0, <2>8 DEF PostByStarter
    <2>9. CASE ContinueAtOnce
      BY <2>9 DEF ContinueAtOnce, AwaitResume
    <2>10. QED BY <1>2, <2>1, <2>2, <2>3, <2>4, <2>5, <2>6, <2>7, <2>8, <2>9 DEF StarterStep
  <1>3. CASE CallbackStep
    <2>1. CASE LoadState
      BY <2>1 DEF LoadState
    <2>2. CASE TransferResponsibility
      BY <2>2 DEF TransferResponsibility
    <2>3. CASE CancelByCallback
      BY <2>3 DEF CancelByCallback, Unwatch
    <2>4. CASE PostByCallback
      BY <1>0, <2>4 DEF PostByCallback
    <2>5. CASE SetIsCancelled
      BY <2>5 DEF SetIsCancelled
    <2>6. QED BY <1>3, <2>1, <2>2, <2>3, <2>4, <2>5 DEF CallbackStep
  <1>4. ASSUME NEW t \in Threads, HandlerStep(t) PROVE TypeOK'
    <2>1. CASE TakeEvent(t)
      BY <2>1 DEF TakeEvent
    <2>2. CASE LoadIsCancelled(t)
      BY <2>2 DEF LoadIsCancelled
    <2>3. CASE Perform(t)
      BY <2>3 DEF Perform, Unwatch
    <2>4. CASE CompleteIfStarted(t)
      BY <2>4 DEF CompleteIfStarted
    <2>5. CASE ExchangeCompleted(t)
      BY <2>5 DEF ExchangeCompleted
    <2>6. CASE ResumeByHandler(t)
      BY <2>6 DEF ResumeByHandler, AwaitResume
    <2>7. QED BY <1>4, <2>1, <2>2, <2>3, <2>4, <2>5, <2>6 DEF HandlerStep
  <1>5. QED BY <1>1, <1>2, <1>3, <1>4 DEF Next

(* Where a result comes from, whichever threads race.                      *)
LEMMA ResultStep ==
  ASSUME OperationInv, Next, TypeOK'
  PROVE  ResultInv'
  <1> USE DEF OperationInv, TypeOK, ResultInv, HasEnded, ResultIsTrue, Alive, setting, flags, pipe, ending
  <1>1. CASE EnvironmentStep
    BY <1>1 DEF EnvironmentStep, HandleGetsReady, RequestCancellation
  <1>2. CASE StarterStep
    <2> USE <1>2 DEF StarterStep
    <2>1. CASE Construct
      BY <2>1 DEF Construct
    <2>2. CASE Register
      <3>1. requested' = requested /\ m_isCancelled' = m_isCancelled
        BY <2>2 DEF Register
      <3>2. CASE requested
        BY <2>2, <3>1, <3>2 DEF Register
      <3>3. CASE ~requested
        BY <2>2, <3>1, <3>3 DEF Register
      <3>4. QED BY <3>2, <3>3
    <2>3. CASE RegistrationReturns
      BY <2>3 DEF RegistrationReturns
    <2>4. CASE TryStart
      BY <2>4 DEF TryStart
    <2>5. CASE MarkStarted
      BY <2>5 DEF MarkStarted
    <2>6. CASE TakeOverCancellation
      <3>1. CASE m_state = "cancellation_requested"
        BY <2>6, <3>1 DEF TakeOverCancellation
      <3>2. CASE m_state # "cancellation_requested"
        BY <2>6, <3>2 DEF TakeOverCancellation
      <3>3. QED BY <3>1, <3>2
    <2>7. CASE CancelByStarter
      BY <2>7 DEF CancelByStarter
    <2>8. CASE PostByStarter
      BY <2>8 DEF PostByStarter
    <2>9. CASE ContinueAtOnce
      BY <2>9 DEF ContinueAtOnce, AwaitResume, CallbackAtRest
    <2>10. QED BY <2>1, <2>2, <2>3, <2>4, <2>5, <2>6, <2>7, <2>8, <2>9
  <1>3. CASE CallbackStep
    <2> USE <1>3 DEF CallbackStep
    <2>1. CASE LoadState
      BY <2>1 DEF LoadState
    <2>2. CASE TransferResponsibility
      BY <2>2 DEF TransferResponsibility
    <2>3. CASE CancelByCallback
      BY <2>3 DEF CancelByCallback
    <2>4. CASE PostByCallback
      BY <2>4 DEF PostByCallback
    <2>5. CASE SetIsCancelled
      BY <2>5 DEF SetIsCancelled
    <2>6. QED BY <2>1, <2>2, <2>3, <2>4, <2>5
  <1>4. ASSUME NEW t \in Threads, HandlerStep(t) PROVE ResultInv'
    <2> USE <1>4 DEF HandlerStep
    <2>1. CASE TakeEvent(t)
      BY <2>1 DEF TakeEvent
    <2>2. CASE LoadIsCancelled(t)
      BY <2>2 DEF LoadIsCancelled
    <2>3. CASE Perform(t)
      BY <2>3 DEF Perform
    <2>4. CASE CompleteIfStarted(t)
      BY <2>4 DEF CompleteIfStarted
    <2>5. CASE ExchangeCompleted(t)
      BY <2>5 DEF ExchangeCompleted
    <2>6. CASE ResumeByHandler(t)
      BY <2>6 DEF ResumeByHandler, AwaitResume, CallbackAtRest
    <2>7. QED BY <2>1, <2>2, <2>3, <2>4, <2>5, <2>6
  <1>5. QED BY <1>1, <1>2, <1>3, <1>4 DEF Next

(* What is sheltered was sheltered before, and its event thread is the     *)
(* only one that takes events.                                             *)
LEMMA ShelteredBefore ==
  ASSUME OperationInv, Next, NEW t \in Threads, ShelteredOn(t)'
  PROVE  ShelteredOn(t) /\ CourseInv(t) /\ \A u \in Threads \ {t} : ~HandlerStep(u)
  <1> USE DEF setting, flags, pipe, ending
  <1>1. /\ UNCHANGED setting
        /\ requested => requested'
        /\ handle = "regular" => handle' = "regular"
    <2> USE DEF Unwatch
    <2>1. CASE EnvironmentStep
      BY <2>1 DEF EnvironmentStep, HandleGetsReady, RequestCancellation
    <2>2. CASE StarterStep
      BY <2>2 DEF OperationInv, StarterStep, Construct, Register, RegistrationReturns, TryStart, MarkStarted, TakeOverCancellation,
                  CancelByStarter, PostByStarter, ContinueAtOnce, AwaitResume
    <2>3. CASE CallbackStep
      BY <2>3 DEF CallbackStep, LoadState, TransferResponsibility, CancelByCallback, PostByCallback, SetIsCancelled
    <2>4. ASSUME NEW u \in Threads, HandlerStep(u)
          PROVE  UNCHANGED setting /\ (requested => requested') /\ (handle = "regular" => handle' = "regular")
      BY <2>4 DEF HandlerStep, TakeEvent, LoadIsCancelled, Perform, CompleteIfStarted, ExchangeCompleted, ResumeByHandler,
                  AwaitResume
    <2>5. QED BY <2>1, <2>2, <2>3, <2>4 DEF Next
  <1>2. ShelteredOn(t)
    BY <1>1 DEF ShelteredOn
  <1>3. ASSUME NEW u \in Threads \ {t} PROVE ~HandlerStep(u)
    <2>1. u \notin eventThreads /\ handler[u] = "idle"
      BY <1>2, <1>3 DEF ShelteredOn, OperationInv
    <2>2. QED BY <2>1 DEF HandlerStep, TakeEvent, LoadIsCancelled, Perform, CompleteIfStarted, ExchangeCompleted,
                          ResumeByHandler
  <1>4. QED BY <1>2, <1>3 DEF OperationInv

(* In a sheltered use the operation takes its course.                      *)
LEMMA CourseStep ==
  ASSUME OperationInv, Next, TypeOK', NEW t \in Threads, ShelteredOn(t)'
  PROVE  CourseInv(t)'
  <1>1. ShelteredOn(t) /\ CourseInv(t) /\ \A u \in Threads \ {t} : ~HandlerStep(u)
    BY ShelteredBefore
  <1> USE <1>1 DEF OperationInv, TypeOK, CourseInv, StarterBegins, StarterMarks, StarterCancels, Suspended, OperationEnds,
                   EndIsDue, EndIsTaken, NothingIsDue, IsPerformed, NoMessage, MessageIsDue, ShelteredOn, Alive,
                   setting, flags, pipe, ending
  <1>2. CASE EnvironmentStep
    <2>1. CASE HandleGetsReady
      BY <2>1 DEF HandleGetsReady
    <2>2. CASE RequestCancellation
      BY <1>2, <2>2 DEF EnvironmentStep, RequestCancellation, ResultInv, Free, StarterAtRest, CallbackAtRest
    <2>3. QED BY <1>2, <2>1, <2>2 DEF EnvironmentStep
  <1>3. CASE StarterStep
    <2> USE <1>3 DEF StarterStep
    <2>1. CASE Construct
      BY <2>1 DEF Construct
    <2>2. CASE Register
      BY <2>2 DEF Register
    <2>3. CASE RegistrationReturns
      BY <2>3 DEF RegistrationReturns
    <2>4. CASE TryStart
      BY <2>4 DEF TryStart, Enqueue, ResultInv
    <2>5. CASE MarkStarted
      BY <2>5 DEF MarkStarted, ResultInv
    <2>6. CASE TakeOverCancellation
      BY <2>6 DEF TakeOverCancellation
    <2>7. CASE CancelByStarter
      BY <2>7 DEF CancelByStarter, Unwatch
    <2>8. CASE PostByStarter
      BY <2>8 DEF PostByStarter, Enqueue
    <2>9. CASE ContinueAtOnce
      BY <2>9 DEF ContinueAtOnce, AwaitResume, CallbackAtRest
    <2>10. QED BY <2>1, <2>2, <2>3, <2>4, <2>5, <2>6, <2>7, <2>8, <2>9
  <1>4. CASE CallbackStep
    <2> USE <1>4 DEF CallbackStep, ResultInv
    <2>1. CASE LoadState
      BY <2>1 DEF LoadState
    <2>2. CASE TransferResponsibility
      BY <2>2 DEF TransferResponsibility
    <2>3. CASE CancelByCallback
      BY <2>3 DEF CancelByCallback, Unwatch
    <2>4. CASE PostByCallback
      BY <2>4 DEF PostByCallback, Enqueue
    <2>5. CASE SetIsCancelled
      BY <2>5 DEF SetIsCancelled
    <2>6. QED BY <2>1, <2>2, <2>3, <2>4, <2>5
  <1>5. CASE HandlerStep(t)
    <2> USE <1>5 DEF HandlerStep
    <2>1. CASE TakeEvent(t)
      BY <2>1 DEF TakeEvent, Free, StarterAtRest, CallbackAtRest
    <2>2. CASE LoadIsCancelled(t)
      BY <2>2 DEF LoadIsCancelled
    <2>3. CASE Perform(t)
      BY <2>3 DEF Perform, Unwatch
    <2>4. CASE CompleteIfStarted(t)
      BY <2>4 DEF CompleteIfStarted
    <2>5. CASE ExchangeCompleted(t)
      BY <2>5 DEF ExchangeCompleted
    <2>6. CASE ResumeByHandler(t)
      BY <2>6 DEF ResumeByHandler, AwaitResume, CallbackAtRest
    <2>7. QED BY <2>1, <2>2, <2>3, <2>4, <2>5, <2>6
  <1>6. QED BY <1>1, <1>2, <1>3, <1>4, <1>5 DEF Next

LEMMA OperationStep ==
  ASSUME OperationInv, [Next]_vars
  PROVE  OperationInv'
  <1>1. CASE Next
    <2>1. TypeOK'
      BY <1>1, OperationTypes DEF OperationInv
    <2>2. ResultInv'
      BY <1>1, <2>1, ResultStep
    <2>3. \A t \in Threads : ShelteredOn(t)' => CourseInv(t)'
      BY <1>1, <2>1, CourseStep
    <2>4. /\ (requested => flavour = "token")'
          /\ (starter \in {"before", "await", "registering", "start"} => handle = "unwatched")'
          /\ (\A t \in Threads \ eventThreads : handler[t] = "idle")'
      <3> USE <1>1 DEF OperationInv, TypeOK, Unwatch, setting, flags
      <3>1. CASE EnvironmentStep
        BY <3>1 DEF EnvironmentStep, HandleGetsReady, RequestCancellation
      <3>2. CASE StarterStep
        BY <3>2 DEF StarterStep, Construct, Register, RegistrationReturns, TryStart, MarkStarted, TakeOverCancellation,
                    CancelByStarter, PostByStarter, ContinueAtOnce, AwaitResume
      <3>3. CASE CallbackStep
        BY <3>3 DEF CallbackStep, LoadState, TransferResponsibility, CancelByCallback, PostByCallback, SetIsCancelled
      <3>4. CASE \E t \in Threads : HandlerStep(t)
        BY <3>4 DEF HandlerStep, TakeEvent, LoadIsCancelled, Perform, CompleteIfStarted, ExchangeCompleted,
                    ResumeByHandler, AwaitResume
      <3>5. QED BY <3>1, <3>2, <3>3, <3>4 DEF Next
    <2>5. QED BY <2>1, <2>2, <2>3, <2>4 DEF OperationInv
  <1>2. CASE UNCHANGED vars
    BY <1>2 DEF vars, OperationInv, TypeOK, ResultInv, HasEnded, ResultIsTrue, ShelteredOn, CourseInv, StarterBegins,
                StarterMarks, StarterCancels, Suspended, OperationEnds, EndIsDue, EndIsTaken, NothingIsDue, IsPerformed,
                NoMessage, MessageIsDue
  <1>3. QED BY <1>1, <1>2

LEMMA OperationInvSuffices == OperationInv => OperationSafe
  <1> SUFFICES ASSUME OperationInv PROVE OperationSafe
    OBVIOUS
  <1>1. ASSUME Sheltered PROVE CompletesOnce /\ UnwatchedOnce
    <2>1. PICK t \in Threads : ShelteredOn(t)
      BY <1>1 DEF Sheltered, ShelteredOn
    <2>2. CourseInv(t) /\ \A u \in Threads \ {t} : handler[u] = "idle"
      BY <2>1 DEF OperationInv, ShelteredOn
    <2>3. CompletesOnce
      BY <2>2 DEF CompletesOnce, CourseInv, StarterBegins, StarterMarks, StarterCancels, Suspended, OperationEnds,
                  NothingIsDue, NoMessage, CallbackAtRest
    <2>4. UnwatchedOnce
      BY <2>2 DEF UnwatchedOnce, CourseInv
    <2>5. QED BY <2>3, <2>4
  <1>2. QED BY <1>1 DEF OperationSafe, OperationInv, ResultInv

(* Whichever threads start an I/O operation, process its events and cancel *)
(* it, and whether epoll refuses its handle or the pipe its message: a     *)
(* co_await that succeeds has performed the operation, unless its token    *)
(* was cancelled before it was constructed, and one that was cancelled     *)
(* says so.  With one event thread, which also does what cancelling there  *)
(* is, the coroutine goes on once, when neither a watched handle nor a     *)
(* message is left, and the handle is unwatched once.                      *)
THEOREM OperationIsSafe == Spec => []OperationSafe
  <1>1. QED BY OperationInit, OperationStep, OperationInvSuffices, PTL DEF Spec
=============================================================================
