----------------------- MODULE SingleProducerSequencer -----------------------
(***************************************************************************)
(* cppcoro::single_producer_sequencer (single_producer_sequencer.hpp): one *)
(* producer and several consumers of a ring buffer, kept apart by two      *)
(* sequence_barriers.  m_producerBarrier tells the consumers what has been *)
(* written; the consumer barrier tells the producer what has been read.    *)
(* Both appear by their abstract specification, SequenceCursor, which      *)
(* SequenceBarrier shows sequence_barrier to implement.                    *)
(*                                                                         *)
(* The clients are the loops of the library's README: the producer claims, *)
(* writes and publishes; a consumer waits for the number after the last    *)
(* one it has read, reads all that is available and says so.  What all     *)
(* consumers have read is published on the consumer barrier by one         *)
(* coroutine (with a single consumer, by that consumer).                   *)
(***************************************************************************)
EXTENDS SequenceTraits, FiniteSets

CONSTANTS Consumers, Producer, NoResult,
          BufferSize,  \* a power of two
          MaxClaim     \* bound on the argument of claim_up_to()

VARIABLES
  m_nextToClaim,
  claimed,          \* the range the producer has claimed: [begin, end, next to write]
  m_count,          \* of the claim operation
  buffer,           \* the ring buffer; an element is the number it was written for
  nextToRead,       \* of each consumer
  pc,
  m_producerBarrier, waitTarget, available,     \* producer barrier and its waits
  m_consumerBarrier, claimTarget, lastConsumed  \* consumer barrier and its wait

producerBarrier == <<m_producerBarrier, waitTarget, available>>
consumerBarrier == <<m_consumerBarrier, claimTarget, lastConsumed>>
vars == <<m_nextToClaim, claimed, m_count, buffer, nextToRead, pc, producerBarrier, consumerBarrier>>

Written == INSTANCE SequenceCursor WITH
  Waiters <- Consumers, published <- m_producerBarrier, target <- waitTarget, result <- available
Read == INSTANCE SequenceCursor WITH
  Waiters <- {Producer}, published <- m_consumerBarrier, target <- claimTarget, result <- lastConsumed

Slot(sequence) == sequence % BufferSize

TypeOK ==
  /\ m_nextToClaim \in Sequences
  /\ claimed \in [begin : Sequences, end : Sequences, next : Sequences]
  /\ m_count \in 1..MaxClaim
  /\ buffer \in [0..(BufferSize - 1) -> Sequences]
  /\ nextToRead \in [Consumers -> Sequences]
  /\ pc[Producer] \in {"idle", "claim", "write"}
  /\ \A c \in Consumers : pc[c] \in {"idle", "wait", "read"}
  /\ m_producerBarrier \in Sequences
  /\ m_consumerBarrier \in Sequences
  /\ available \in [Consumers -> Sequences \cup {NoResult}]
  /\ lastConsumed[Producer] \in Sequences \cup {NoResult}

(* The constructor.  m_nextToClaim is the number after initialSequence.    *)
Init ==
  /\ m_nextToClaim = Advance(initial_sequence, 1)
  /\ claimed = [begin |-> 0, end |-> 0, next |-> 0]
  /\ m_count = 1
  /\ buffer = [i \in 0..(BufferSize - 1) |-> initial_sequence]
  /\ nextToRead = [c \in Consumers |-> Advance(initial_sequence, 1)]
  /\ pc = [t \in Consumers \cup {Producer} |-> "idle"]
  /\ Written!CursorInit
  /\ Read!CursorInit

Goto(t, label) == pc' = [pc EXCEPT ![t] = label]

-----------------------------------------------------------------------------
(* The producer                                                            *)

(* A slip: the number to be claimed is waited for, not the one it replaces.*)
LateClaim(count) ==
  /\ pc[Producer] = "idle"
  /\ Read!WaitUntilPublished(Producer, m_nextToClaim)
  /\ m_count' = count
  /\ Goto(Producer, "claim")
  /\ UNCHANGED <<m_nextToClaim, claimed, buffer, nextToRead, producerBarrier>>

(* claim_one() and claim_up_to(count) wait until the slot of m_nextToClaim *)
(* has been read.                                                          *)
Claim(count) ==
  /\ pc[Producer] = "idle"
  /\ Read!WaitUntilPublished(Producer, Advance(m_nextToClaim, -BufferSize))
  /\ m_count' = count
  /\ Goto(Producer, "claim")
  /\ UNCHANGED <<m_nextToClaim, claimed, buffer, nextToRead, producerBarrier>>

(* The range [begin, end) that claim_up_to()'s await_resume() returns.     *)
ClaimedRange ==
  LET lastAvailableSequence == Advance(lastConsumed[Producer], BufferSize)
      availableCount == Advance((lastAvailableSequence - m_nextToClaim) % 2^Width, 1)
      countToClaim   == IF m_count < availableCount THEN m_count ELSE availableCount
  IN [begin |-> m_nextToClaim, end |-> Advance(m_nextToClaim, countToClaim), next |-> m_nextToClaim]

(* A slip: the whole count is claimed, however much of it is available.    *)
UnlimitedRange ==
  [begin |-> m_nextToClaim, end |-> Advance(m_nextToClaim, m_count), next |-> m_nextToClaim]

ClaimResumesUnlimited ==
  /\ pc[Producer] = "claim"
  /\ lastConsumed[Producer] # NoResult
  /\ claimed' = UnlimitedRange
  /\ m_nextToClaim' = claimed'.end
  /\ Goto(Producer, "write")
  /\ UNCHANGED <<m_count, buffer, nextToRead, producerBarrier, consumerBarrier>>

(* await_resume().  claim_one() takes m_nextToClaim++, which is what       *)
(* claim_up_to(1) takes.                                                   *)
ClaimResumes ==
  /\ pc[Producer] = "claim"
  /\ lastConsumed[Producer] # NoResult
  /\ claimed' = ClaimedRange
  /\ m_nextToClaim' = claimed'.end
  /\ Goto(Producer, "write")
  /\ UNCHANGED <<m_count, buffer, nextToRead, producerBarrier, consumerBarrier>>

WriteElement ==
  /\ pc[Producer] = "write"
  /\ claimed.next # claimed.end
  /\ buffer' = [buffer EXCEPT ![Slot(claimed.next)] = claimed.next]
  /\ claimed' = [claimed EXCEPT !.next = Advance(@, 1)]
  /\ UNCHANGED <<m_nextToClaim, m_count, nextToRead, pc, producerBarrier, consumerBarrier>>

(* publish(range) publishes its last number.                               *)
Publish ==
  /\ pc[Producer] = "write"
  /\ claimed.next = claimed.end
  /\ Written!PublishSequence(Advance(claimed.end, -1))
  /\ Goto(Producer, "idle")
  /\ UNCHANGED <<m_nextToClaim, claimed, m_count, buffer, nextToRead, consumerBarrier>>

-----------------------------------------------------------------------------
(* The consumers                                                           *)

WaitForNext(c) ==
  /\ pc[c] = "idle"
  /\ Written!WaitUntilPublished(c, nextToRead[c])
  /\ Goto(c, "wait")
  /\ UNCHANGED <<m_nextToClaim, claimed, m_count, buffer, nextToRead, consumerBarrier>>

ReadElement(c) ==
  /\ pc[c] \in {"wait", "read"}
  /\ available[c] # NoResult
  /\ nextToRead' = [nextToRead EXCEPT ![c] = Advance(@, 1)]
  /\ Goto(c, IF nextToRead[c] = available[c] THEN "idle" ELSE "read")
  /\ UNCHANGED <<m_nextToClaim, claimed, m_count, buffer, producerBarrier, consumerBarrier>>

(* Everything before the number the slowest consumer will read next, or    *)
(* before the batch it is reading, is published on the consumer barrier.   *)
BatchBegin(c) == IF pc[c] = "read" THEN waitTarget[c] ELSE nextToRead[c]
PublishRead ==
  \E s \in Sequences :
    /\ \A c \in Consumers : Precedes(s, BatchBegin(c))
    /\ \E c \in Consumers : s = Advance(BatchBegin(c), -1)
    /\ Read!PublishSequence(s)
    /\ UNCHANGED <<m_nextToClaim, claimed, m_count, buffer, nextToRead, pc, producerBarrier>>

(* The barriers resume those who wait.                                     *)
WaitResumes(c) ==
  /\ Written!ResumeWaiter(c)
  /\ UNCHANGED <<m_nextToClaim, claimed, m_count, buffer, nextToRead, pc, consumerBarrier>>
ClaimWaitResumes ==
  /\ Read!ResumeWaiter(Producer)
  /\ UNCHANGED <<m_nextToClaim, claimed, m_count, buffer, nextToRead, pc, producerBarrier>>

ConsumerStep(c) == WaitForNext(c) \/ WaitResumes(c) \/ ReadElement(c)

(* The producer's steps once it has begun to claim.                        *)
ProducerStep == ClaimWaitResumes \/ ClaimResumes \/ WriteElement \/ Publish

Next ==
  \/ \E count \in 1..MaxClaim : Claim(count)
  \/ ProducerStep
  \/ \E c \in Consumers : ConsumerStep(c)
  \/ PublishRead

(* The producer need not claim, but what it claims it publishes; consumers *)
(* run their loop and what they have read is reported.                     *)
Spec ==
  /\ Init
  /\ [][Next]_vars
  /\ WF_vars(ProducerStep)
  /\ WF_vars(PublishRead)
  /\ \A c \in Consumers : WF_vars(ConsumerStep(c))

-----------------------------------------------------------------------------
(* What a consumer has been told is available, and has not read yet, is in *)
(* the buffer: it was written before it was published and the producer,    *)
(* who may be writing at the same time, does not overwrite it.             *)
ReadsWhatWasWritten ==
  \A c \in Consumers : pc[c] \in {"wait", "read"} /\ available[c] # NoResult =>
    /\ ~Precedes(available[c], nextToRead[c])
    /\ \A n \in 0..Difference(available[c], nextToRead[c]) :
         LET s == Advance(nextToRead[c], n) IN buffer[Slot(s)] = s

(* The library's README: the producer can never be more than bufferSize    *)
(* elements ahead of what the slowest consumer has read; and it claims at  *)
(* least one slot, in order, after everything published.                   *)
ClaimsWithinBuffer ==
  /\ Difference(m_nextToClaim, m_consumerBarrier) \in 1..(BufferSize + 1)
  /\ pc[Producer] = "write" =>
       /\ claimed.begin = Advance(m_producerBarrier, 1)
       /\ Precedes(claimed.begin, claimed.end)

(* Every claim succeeds, for the consumers get to read what fills the      *)
(* buffer; and every consumer reads on while there is something to read.   *)
EverythingIsRead ==
  /\ pc[Producer] = "claim" ~> pc[Producer] = "write"
  /\ \A c \in Consumers :
       pc[c] = "wait" /\ ~Precedes(m_producerBarrier, nextToRead[c]) ~> pc[c] = "idle"
=============================================================================
