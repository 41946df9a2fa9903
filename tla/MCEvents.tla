------------------------------ MODULE MCEvents ------------------------------
(***************************************************************************)
(* What coroutines and threads signal each other with, in one model:       *)
(* async_auto_reset_event, async_manual_reset_event, async_latch,          *)
(* single_consumer_event, single_consumer_async_auto_reset_event,          *)
(* cancellation, and an I/O operation of the Linux build, which completes  *)
(* or is cancelled.  They share no state; a behaviour is one of the        *)
(* component that `chosen' names, with the others at rest.  The latch is a *)
(* manual-reset event with a counter and has its variables; the            *)
(* single-consumer event is looked at with and without other threads that  *)
(* reset it.                                                               *)
(***************************************************************************)
EXTENDS EventParticipants, AsyncOperation

CONSTANTS AutoCoroutines,   \* coroutines that await the auto-reset event
          InitialCount, Amounts, MaxOverrun,
          Registrations, Cancellers, Entries, Nothing

ASSUME EventsAssumption ==
  /\ IsFiniteSet(AutoCoroutines)
  /\ AutoCoroutines \cap Setters = {}
  /\ InitialCount \in Int
  /\ Amounts \subseteq Nat
  /\ Entries \in Nat
  /\ Nothing \notin Registrations \cup Cancellers
  /\ Registrations \cap Cancellers = {}

VARIABLES
  chosen,
  (* AsyncAutoResetEvent *)
  setCount, waiterCount, m_newWaiters, m_waiters, m_refCount, autoPc, autoOldState, batch, taken, toResume,
  (* AsyncManualResetEvent and AsyncLatch *)
  isSet, waiters, manualPc, manualOldState, current, m_count,
  (* SingleConsumerEvent *)
  singleState, m_awaiter, singlePc, singleChanges, singleSeen,
  (* SingleConsumerAutoResetEvent *)
  signalState, consumer, setter, signalChanges, signalSeen,
  (* CancellationState *)
  tokenRequested, notified, sourceRefs, tokenRefs, deleted, m_registrationState, m_notificationThreadId, m_entries,
  entryIndex, cancelPc, position, running, calls

AutoEvent == INSTANCE AsyncAutoResetEvent WITH Coroutines <- AutoCoroutines, pc <- autoPc, oldState <- autoOldState
Latch == INSTANCE AsyncLatch WITH pc <- manualPc, oldState <- manualOldState
Single == INSTANCE SingleConsumerEvent WITH
  OthersReset <- FALSE, m_state <- singleState, pc <- singlePc, changes <- singleChanges, seen <- singleSeen
SingleReset == INSTANCE SingleConsumerEvent WITH
  OthersReset <- TRUE, m_state <- singleState, pc <- singlePc, changes <- singleChanges, seen <- singleSeen
Signal == INSTANCE SingleConsumerAutoResetEvent WITH
  m_state <- signalState, changes <- signalChanges, seen <- signalSeen
Cancellation == INSTANCE CancellationState WITH requested <- tokenRequested, pc <- cancelPc

autoVars == <<setCount, waiterCount, m_newWaiters, m_waiters, m_refCount, autoPc, autoOldState, batch, taken, toResume>>
latchVars == <<isSet, waiters, manualPc, manualOldState, current, m_count>>
singleVars == <<singleState, m_awaiter, singlePc, singleChanges, singleSeen>>
signalVars == <<signalState, consumer, setter, signalChanges, signalSeen>>
eventVars == <<autoVars, latchVars, singleVars, signalVars>>
cancellationVars ==
  <<tokenRequested, notified, sourceRefs, tokenRefs, deleted, m_registrationState, m_notificationThreadId, m_entries,
    entryIndex, cancelPc, position, running, calls>>

(* The threads of the operation are alike: the coroutine awaits it on one  *)
(* of them, whichever that is.                                             *)
MCInit ==
  /\ chosen \in {"auto_reset", "manual_reset", "latch", "single_consumer", "single_consumer_resets",
                "single_consumer_auto_reset", "cancellation", "operation"}
  /\ Init
  /\ AutoEvent!Init
  /\ IF chosen = "manual_reset" THEN Latch!Init /\ m_count = InitialCount ELSE Latch!LatchInit
  /\ Single!Init
  /\ Signal!Init
  /\ Cancellation!Init
  /\ chosen # "auto_reset" => setCount = 0
  /\ chosen \notin {"single_consumer", "single_consumer_resets"} => singleState = "not_set"
  /\ chosen # "single_consumer_auto_reset" => signalState = NullPtr
  /\ awaitingThread = CHOOSE t \in Threads : TRUE
  /\ chosen # "operation" => kind = "timer" /\ flavour = "plain" /\ eventThreads = Threads

AutoReset == chosen = "auto_reset" /\ AutoEvent!Next
ManualReset == chosen = "manual_reset" /\ Latch!Next /\ UNCHANGED m_count
CountDown == chosen = "latch" /\ Latch!LatchNext
SingleConsumer == chosen = "single_consumer" /\ Single!Next
SingleConsumerResets == chosen = "single_consumer_resets" /\ SingleReset!Next
SingleConsumerAutoReset == chosen = "single_consumer_auto_reset" /\ Signal!Next

EventNext ==
  \/ AutoReset /\ UNCHANGED <<latchVars, singleVars, signalVars>>
  \/ (ManualReset \/ CountDown) /\ UNCHANGED <<autoVars, singleVars, signalVars>>
  \/ (SingleConsumer \/ SingleConsumerResets) /\ UNCHANGED <<autoVars, latchVars, signalVars>>
  \/ SingleConsumerAutoReset /\ UNCHANGED <<autoVars, latchVars, singleVars>>

MCNext ==
  /\ \/ EventNext /\ UNCHANGED <<cancellationVars, vars>>
     \/ chosen = "cancellation" /\ Cancellation!Next /\ UNCHANGED <<eventVars, vars>>
     \/ chosen = "operation" /\ Next /\ UNCHANGED <<eventVars, cancellationVars>>
  /\ UNCHANGED chosen

(* Each component's own fairness: a call that has begun goes on, a single  *)
(* consumer keeps awaiting its event, callbacks return.                    *)
MCSpec ==
  /\ MCInit /\ [][MCNext]_<<chosen, eventVars, cancellationVars, vars>>
  /\ \A c \in AutoCoroutines : WF_autoVars(chosen = "auto_reset" /\ AutoEvent!AwaitSuspend(c))
  /\ \A a \in AutoCoroutines \cup Setters : WF_autoVars(chosen = "auto_reset" /\ AutoEvent!ResumeWaiters(a))
  /\ \A c \in Coroutines :
       WF_latchVars(chosen \in {"manual_reset", "latch"} /\ Latch!AwaitProceeds(c) /\ UNCHANGED m_count)
  /\ \A s \in Setters :
       /\ WF_latchVars(chosen \in {"manual_reset", "latch"} /\ Latch!CountDownProceeds(s))
       /\ WF_singleVars(chosen \in {"single_consumer", "single_consumer_resets"} /\ Single!SetStep(s))
       /\ WF_signalVars(chosen = "single_consumer_auto_reset" /\ Signal!SetStep(s))
  /\ WF_singleVars(chosen \in {"single_consumer", "single_consumer_resets"} /\ Single!ConsumerStep)
  /\ WF_signalVars(chosen = "single_consumer_auto_reset" /\ Signal!ConsumerStep)
  /\ \A r \in Registrations :
       WF_cancellationVars(chosen = "cancellation" /\ (Cancellation!Register(r) \/ Cancellation!Deregister(r)
                                                      \/ Cancellation!Release(r)))
  /\ \A q \in Cancellers :
       WF_cancellationVars(chosen = "cancellation" /\ cancelPc[q] # "source" /\ Cancellation!Request(q))
  /\ WF_vars(chosen = "operation" /\ StarterStep)
  /\ WF_vars(chosen = "operation" /\ CallbackStep)
  /\ \A t \in Threads : WF_vars(chosen = "operation" /\ HandlerStep(t))

-----------------------------------------------------------------------------
(* async_auto_reset_event: one actor at a time resumes waiters, it finds   *)
(* those it took on, none is lost or released twice, and an event that is  *)
(* set has nobody waiting.                                                 *)
AutoResetSafe ==
  /\ AutoEvent!TypeOK
  /\ AutoEvent!LockIsExclusive
  /\ AutoEvent!DequeueFindsWaiter
  /\ AutoEvent!OneReferencePerList
  /\ AutoEvent!SetMeansNoWaiter

(* Its waiters are released in the order in which they were pushed, and    *)
(* one that was released is resumed, whatever set() and co_await add.      *)
AutoResetReleases == AutoEvent!WaitersAreFifo /\ ((chosen = "auto_reset") => AutoEvent!ReleasedIsResumed)

(* async_manual_reset_event and async_latch: a coroutine is suspended      *)
(* exactly while it is in one place from which it will be resumed; and the *)
(* latch opens only when its count is used up.                             *)
ManualResetSafe ==
  /\ Latch!EventTypeOK
  /\ Latch!SuspendedIsInOneList
  /\ chosen = "latch" => Latch!LatchTypeOK /\ Latch!OpenMeansCountedDown

(* Who waits when the event is set is resumed, even if it is reset at      *)
(* once; a latch that is counted down opens for everybody who waits or     *)
(* begins to.                                                              *)
ManualResetReleases ==
  /\ (chosen = "manual_reset") => Latch!SetResumesAll
  /\ (chosen = "latch") => (Latch!SetResumesAll /\ Latch!CountedDownOpens)

(* single_consumer_event: a suspended consumer is owed exactly one         *)
(* resume(), whatever set() and reset() come between.                      *)
(* single_consumer_async_auto_reset_event: one setter resumes the consumer *)
(* and only one that is suspended.                                         *)
SingleConsumerSafe ==
  /\ Single!TypeOK
  /\ Single!OneResumeIsOwed
  /\ Signal!TypeOK
  /\ Signal!ResumedOnce

(* A set() ends the wait although a reset() follows; and what is written   *)
(* before set() is looked at, unless others reset, also when another set() *)
(* takes the signal back.                                                  *)
SingleConsumerSees ==
  /\ (chosen = "single_consumer") => (Single!SetEndsTheWait /\ Single!EveryChangeIsSeen)
  /\ (chosen = "single_consumer_resets") => Single!SetEndsTheWait
  /\ (chosen = "single_consumer_auto_reset") => Signal!EveryChangeIsSeen

(* ~cancellation_registration returns if the callbacks do.                 *)
CancellationLive == (chosen = "cancellation") => Cancellation!DestructorReturns
=============================================================================
