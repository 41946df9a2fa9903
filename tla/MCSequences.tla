----------------------------- MODULE MCSequences -----------------------------
(***************************************************************************)
(* sequence_barrier, with clients that use it as a cursor,                 *)
(* single_producer_sequencer, which uses two of them, and                  *)
(* multi_producer_sequencer, in one model.  They share no state; a         *)
(* behaviour is one of the component that `chosen' names, with the others  *)
(* at rest.                                                                *)
(***************************************************************************)
EXTENDS SequenceBarrier, SequencerParticipants

CONSTANTS Readers, Producer,   \* of the sequencer with a single producer
          MaxSingleClaim

ASSUME SingleProducerAssumption ==
  /\ Producer \notin Readers
  /\ NoResult \notin Sequences
  /\ BufferSize + 1 < 2^(Width - 1)   \* the buffer and one more fit in half the range
  /\ MaxSingleClaim \in Nat \ {0}

VARIABLES
  chosen,
  (* SingleProducerSequencer *)
  m_nextToClaim, claimed, m_count, buffer, nextToRead, sequencerPc,
  m_producerBarrier, waitTarget, available, m_consumerBarrier, claimTarget, lastConsumed,
  (* MultiProducerSequencer *)
  m_published, multiNextToClaim, multiAwaiters, multiTarget, multiLastKnown, multiReady,
  m_claimedRange, consumed, multiPc, awaiters, multiToRequeue, multiToResume, multiTargetSequence,
  lastKnownPublished, multiConsumerBarrier, multiClaimTarget, multiLastConsumed

Sequencer == INSTANCE SingleProducerSequencer WITH
  Consumers <- Readers, MaxClaim <- MaxSingleClaim, pc <- sequencerPc
Multi == INSTANCE MultiProducerSequencer WITH
  m_nextToClaim <- multiNextToClaim, m_awaiters <- multiAwaiters, m_targetSequence <- multiTarget,
  m_lastKnownPublished <- multiLastKnown, m_readyToResume <- multiReady, pc <- multiPc,
  awaitersToRequeue <- multiToRequeue, awaitersToResume <- multiToResume,
  targetSequence <- multiTargetSequence, m_consumerBarrier <- multiConsumerBarrier,
  claimTarget <- multiClaimTarget, lastConsumed <- multiLastConsumed

sequencerVars ==
  <<m_nextToClaim, claimed, m_count, buffer, nextToRead, sequencerPc,
    m_producerBarrier, waitTarget, available, m_consumerBarrier, claimTarget, lastConsumed>>
multiVars ==
  <<m_published, multiNextToClaim, multiAwaiters, multiTarget, multiLastKnown, multiReady,
    m_claimedRange, consumed, multiPc, awaiters, multiToRequeue, multiToResume, multiTargetSequence,
    lastKnownPublished, multiConsumerBarrier, multiClaimTarget, multiLastConsumed>>

MCInit ==
  /\ chosen \in {"barrier", "single_producer_sequencer", "multi_producer_sequencer"}
  /\ Init
  /\ Sequencer!Init
  /\ Multi!Init

MCNext ==
  /\ \/ chosen = "barrier" /\ Next /\ UNCHANGED <<sequencerVars, multiVars>>
     \/ chosen = "single_producer_sequencer" /\ Sequencer!Next /\ UNCHANGED <<barrierVars, multiVars>>
     \/ chosen = "multi_producer_sequencer" /\ Multi!Next /\ UNCHANGED <<barrierVars, sequencerVars>>
  /\ UNCHANGED chosen

(* Each component's own fairness: calls that have been made go on.         *)
MCSpec ==
  /\ MCInit /\ [][MCNext]_<<chosen, barrierVars, sequencerVars, multiVars>>
  /\ \A c \in Waiters : WF_barrierVars(chosen = "barrier" /\ WaitProceeds(c))
  /\ WF_barrierVars(chosen = "barrier" /\ PublishProceeds)
  /\ WF_sequencerVars(chosen = "single_producer_sequencer" /\ Sequencer!ProducerStep)
  /\ WF_sequencerVars(chosen = "single_producer_sequencer" /\ Sequencer!PublishRead)
  /\ \A c \in Readers :
       WF_sequencerVars(chosen = "single_producer_sequencer" /\ Sequencer!ConsumerStep(c))
  /\ \A p \in Producers : WF_multiVars(chosen = "multi_producer_sequencer" /\ Multi!ProducerStep(p))
  /\ \A c \in Consumers : WF_multiVars(chosen = "multi_producer_sequencer" /\ Multi!ConsumerStep(c))
  /\ WF_multiVars(chosen = "multi_producer_sequencer" /\ Multi!PublishRead)

-----------------------------------------------------------------------------
(* sequence_barrier: an operation that waits is on exactly one list, and   *)
(* one on the stack whose number has been published is attended to.        *)
BarrierSafe == BarrierTypeOK /\ OnOneList /\ SatisfiedIsAttended

(* single_producer_sequencer: what a consumer may read is in the buffer,   *)
(* although the producer goes on writing up to a buffer ahead of it.       *)
SequencerSafe == Sequencer!TypeOK /\ Sequencer!ReadsWhatWasWritten /\ Sequencer!ClaimsWithinBuffer

(* Every claim succeeds and everything that is published is read.          *)
SequencerLive == (chosen = "single_producer_sequencer") => Sequencer!EverythingIsRead

(* multi_producer_sequencer: when everything up to a consumer's target is  *)
(* there, whichever producer came last, the consumer gets to read it.      *)
MultiLive == (chosen = "multi_producer_sequencer") => Multi!PublishedIsResumed
=============================================================================
