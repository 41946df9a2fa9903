----------------------------- MODULE MCContention ----------------------------
(***************************************************************************)
(* The components with the most contended state, in one model, for their   *)
(* safety only and in larger instances: the work queue of a thread of      *)
(* static_thread_pool, the pool with three threads, cancellation and       *)
(* multi_producer_sequencer.                                               *)
(* They share no state; a behaviour is one of the component that `chosen'  *)
(* names, with the others at rest.                                         *)
(***************************************************************************)
EXTENDS WorkQueue, SequencerParticipants

CONSTANTS ThreadCount, Submitters, Main, RemoteOps, WorkerOps, NoOp, Destruction,
          Registrations, Cancellers, Entries, Nothing

(* Somebody holds the state of a cancellation when it is created.          *)
ASSUME CancellationUsers ==
  /\ Entries \in Nat
  /\ IsFiniteSet(Registrations) /\ IsFiniteSet(Cancellers)
  /\ Registrations \cap Cancellers = {}
  /\ Registrations \cup Cancellers # {}
  /\ Nothing \notin Registrations \cup Cancellers

VARIABLES
  chosen,
  (* ThreadPool *)
  localQueue, m_globalQueueTail, m_globalQueueHead, m_globalQueueMutex, detached,
  m_isSleeping, m_wakeUpEvent, m_sleepingThreadCount, m_stopRequested,
  poolPc, scan, from, op, fresh, outstanding,
  (* CancellationState *)
  requested, notified, sourceRefs, tokenRefs, deleted,
  m_registrationState, m_notificationThreadId, m_entries, entryIndex,
  cancelPc, position, running, calls,
  (* MultiProducerSequencer *)
  m_published, m_nextToClaim, m_awaiters, m_targetSequence, m_lastKnownPublished, m_readyToResume,
  m_claimedRange, consumed, sequencerPc, awaiters, awaitersToRequeue, awaitersToResume, targetSequence,
  lastKnownPublished, m_consumerBarrier, claimTarget, lastConsumed

Pool == INSTANCE ThreadPool WITH pc <- poolPc
Cancellation == INSTANCE CancellationState WITH pc <- cancelPc
Sequencer == INSTANCE MultiProducerSequencer WITH pc <- sequencerPc

poolVars ==
  <<localQueue, m_globalQueueTail, m_globalQueueHead, m_globalQueueMutex, detached,
    m_isSleeping, m_wakeUpEvent, m_sleepingThreadCount, m_stopRequested,
    poolPc, scan, from, op, fresh, outstanding>>
cancellationVars ==
  <<requested, notified, sourceRefs, tokenRefs, deleted,
    m_registrationState, m_notificationThreadId, m_entries, entryIndex,
    cancelPc, position, running, calls>>

sequencerVars ==
  <<m_published, m_nextToClaim, m_awaiters, m_targetSequence, m_lastKnownPublished, m_readyToResume,
    m_claimedRange, consumed, sequencerPc, awaiters, awaitersToRequeue, awaitersToResume, targetSequence,
    lastKnownPublished, m_consumerBarrier, claimTarget, lastConsumed>>

MCInit ==
  /\ chosen \in {"work_queue", "thread_pool", "cancellation", "multi_producer_sequencer"}
  /\ Init
  /\ Pool!Init
  /\ Cancellation!Init
  /\ Sequencer!Init

MCNext ==
  /\ \/ chosen = "work_queue" /\ Next /\ UNCHANGED <<poolVars, cancellationVars, sequencerVars>>
     \/ chosen = "thread_pool" /\ Pool!Next /\ UNCHANGED <<vars, cancellationVars, sequencerVars>>
     \/ chosen = "cancellation" /\ Cancellation!Next /\ UNCHANGED <<vars, poolVars, sequencerVars>>
     \/ chosen = "multi_producer_sequencer" /\ Sequencer!Next /\ UNCHANGED <<vars, poolVars, cancellationVars>>
  /\ UNCHANGED chosen

MCSpec == MCInit /\ [][MCNext]_<<chosen, vars, poolVars, cancellationVars, sequencerVars>>

-----------------------------------------------------------------------------
(* static_thread_pool with three threads: the count of sleeping threads    *)
(* covers every wake-up that somebody has claimed, also when a thread that *)
(* wakes by itself finds others asleep.                                    *)
ClaimsAreCovered == chosen = "thread_pool" => Pool!TypeOK /\ Pool!ClaimsAreCovered

(* Cancellation: a callback is started once, never after its registration  *)
(* is destroyed; no registration is missed; and the shared state goes with *)
(* its last user.                                                          *)
CancellationSafe ==
  chosen = "cancellation" =>
    /\ Cancellation!CallbackNotAfterDestruction
    /\ Cancellation!NoCallbackMissed
    /\ Cancellation!DeletedWhenUnused

(* multi_producer_sequencer: what a consumer may read has been published   *)
(* without a gap and not overwritten, no two producers write a slot at the *)
(* same time, and a wait operation is on exactly one list although         *)
(* producers and consumers pass the lists around.                          *)
MultiSafe ==
  chosen = "multi_producer_sequencer" =>
    Sequencer!AvailableIsPublished /\ Sequencer!ClaimedSlotsAreFree /\ Sequencer!OnOneList
=============================================================================
