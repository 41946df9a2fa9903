----------------------- MODULE MultiProducerSequencer -----------------------
(***************************************************************************)
(* cppcoro::multi_producer_sequencer (multi_producer_sequencer.hpp).       *)
(* Producers claim numbers with a fetch_add, wait on the consumer barrier  *)
(* until the slots are free, and publish them in any order by storing each *)
(* number in its slot of m_published.  A number counts as published once   *)
(* all before it are, so every thread finds out by scanning the slots.     *)
(* Coroutines that wait are on a lock-free stack that publishers and       *)
(* waiters take, sort and put back.                                        *)
(*                                                                         *)
(* The consumer barrier appears by its abstract specification,             *)
(* SequenceCursor.  Consumers wait for a number up to MaxReach after the   *)
(* last one they have read, read what is available, and what all of them   *)
(* have read is published on the barrier.  A resumed coroutine is          *)
(* rescheduled at once.                                                    *)
(***************************************************************************)
EXTENDS SequencerParticipants, SequencesExt, Selection

Threads == Producers \cup Consumers

VARIABLES
  m_published,           \* the last number published in each slot
  m_nextToClaim,
  m_awaiters,            \* the stack, newest first
  m_targetSequence,      \* the wait operation of each consumer:
  m_lastKnownPublished,
  m_readyToResume,
  m_claimedRange,        \* of each producer
  consumed,              \* the last number each consumer has read
  pc,                    \* where each thread is, and its local variables:
  awaiters,
  awaitersToRequeue,
  awaitersToResume,
  targetSequence,        \* what the scan is for: earliestTargetSequence in publish()
  lastKnownPublished,
  m_consumerBarrier, claimTarget, lastConsumed   \* the consumer barrier and its waits

operations == <<m_targetSequence, m_lastKnownPublished, m_readyToResume>>
lists == <<awaiters, awaitersToRequeue, awaitersToResume>>
scan == <<targetSequence, lastKnownPublished>>
consumerBarrier == <<m_consumerBarrier, claimTarget, lastConsumed>>
clients == <<m_nextToClaim, m_claimedRange, consumed, consumerBarrier>>
vars == <<m_published, m_awaiters, operations, pc, lists, scan, clients>>

Barrier == INSTANCE SequenceCursor WITH
  Waiters <- Producers, published <- m_consumerBarrier, target <- claimTarget, result <- lastConsumed

Slot(sequence) == sequence % BufferSize

NoRange == [begin |-> 0, end |-> 0]

TypeOK ==
  /\ m_published \in [0..(BufferSize - 1) -> Sequences]
  /\ m_nextToClaim \in Sequences
  /\ m_awaiters \in Seq(Consumers)
  /\ m_targetSequence \in [Consumers -> Sequences]
  /\ m_lastKnownPublished \in [Consumers -> Sequences]
  /\ m_readyToResume \in [Consumers -> BOOLEAN]
  /\ m_claimedRange \in [Producers -> [begin : Sequences, end : Sequences]]
  /\ consumed \in [Consumers -> Sequences]
  /\ \A p \in Producers :
       pc[p] \in {"idle", "claim", "publish", "load", "exchange", "after", "requeue", "scan", "reacquire", "resume"}
  /\ \A c \in Consumers : pc[c] \in {"idle", "enqueue", "scan", "acquire", "resume", "suspended", "read"}
  /\ awaiters \in [Threads -> Seq(Consumers)]
  /\ awaitersToRequeue \in [Threads -> Seq(Consumers)]
  /\ awaitersToResume \in [Threads -> Seq(Consumers)]
  /\ targetSequence \in [Threads -> Sequences]
  /\ lastKnownPublished \in [Threads -> Sequences]
  /\ m_consumerBarrier \in Sequences

(* The constructor: the slots hold the numbers up to initialSequence.      *)
Init ==
  /\ m_published = [i \in 0..(BufferSize - 1) |->
                      CHOOSE s \in {Advance(initial_sequence, -n) : n \in 0..(BufferSize - 1)} : Slot(s) = i]
  /\ m_nextToClaim = Advance(initial_sequence, 1)
  /\ m_awaiters = << >>
  /\ m_targetSequence = [c \in Consumers |-> initial_sequence]
  /\ m_lastKnownPublished = [c \in Consumers |-> initial_sequence]
  /\ m_readyToResume = [c \in Consumers |-> FALSE]
  /\ m_claimedRange = [p \in Producers |-> NoRange]
  /\ consumed = [c \in Consumers |-> initial_sequence]
  /\ pc = [t \in Threads |-> "idle"]
  /\ awaiters = [t \in Threads |-> << >>]
  /\ awaitersToRequeue = [t \in Threads |-> << >>]
  /\ awaitersToResume = [t \in Threads |-> << >>]
  /\ targetSequence = [t \in Threads |-> initial_sequence]
  /\ lastKnownPublished = [t \in Threads |-> initial_sequence]
  /\ Barrier!CursorInit

Goto(t, label) == pc' = [pc EXCEPT ![t] = label]

IsPublished(sequence) == m_published[Slot(sequence)] = sequence

(* Those of a list whose targets are, or are not, after `published'.       *)
Satisfied(list, published) ==
  Selected(list, {c \in Consumers : Difference(m_targetSequence[c], published) <= 0})
Unsatisfied(list, published) ==
  Selected(list, {c \in Consumers : Difference(m_targetSequence[c], published) > 0})

(* published + minDiff, minDiff over the list; the largest difference when *)
(* the list is empty.                                                      *)
EarliestTarget(list, published) ==
  LET diffs == {Difference(m_targetSequence[c], published) : c \in ToSet(list)} \cup {2^(Width - 1) - 1}
  IN Advance(published, CHOOSE m \in diffs : \A n \in diffs : m <= n)

-----------------------------------------------------------------------------
(* claim_one(), claim_up_to(count)                                         *)

(* A slip: the number before the one that is overwritten is waited for.    *)
EarlyClaim(p, count) ==
  LET m_count == IF count < BufferSize THEN count ELSE BufferSize
      range   == [begin |-> m_nextToClaim, end |-> Advance(m_nextToClaim, m_count)] IN
  /\ pc[p] = "idle"
  /\ m_nextToClaim' = range.end
  /\ m_claimedRange' = [m_claimedRange EXCEPT ![p] = range]
  /\ Barrier!WaitUntilPublished(p, Advance(range.end, -2 - BufferSize))
  /\ Goto(p, "claim")
  /\ UNCHANGED <<m_published, m_awaiters, operations, lists, scan, consumed>>

(* The numbers are claimed first; then their slots are waited for.         *)
Claim(p, count) ==
  LET m_count == IF count < BufferSize THEN count ELSE BufferSize
      range   == [begin |-> m_nextToClaim, end |-> Advance(m_nextToClaim, m_count)] IN
  /\ pc[p] = "idle"
  /\ m_nextToClaim' = range.end
  /\ m_claimedRange' = [m_claimedRange EXCEPT ![p] = range]
  /\ Barrier!WaitUntilPublished(p, Advance(range.end, -1 - BufferSize))
  /\ Goto(p, "claim")
  /\ UNCHANGED <<m_published, m_awaiters, operations, lists, scan, consumed>>

ClaimWaitResumes(p) ==
  /\ Barrier!ResumeWaiter(p)
  /\ UNCHANGED <<m_published, m_awaiters, operations, pc, lists, scan, m_nextToClaim, m_claimedRange, consumed>>

(* The producer goes on to write the elements.                             *)
ClaimResumes(p) ==
  /\ pc[p] = "claim"
  /\ lastConsumed[p] # NoResult
  /\ Goto(p, "publish")
  /\ UNCHANGED <<m_published, m_awaiters, operations, lists, scan, clients>>

-----------------------------------------------------------------------------
(* publish()                                                               *)

Store(p, sequence) ==
  /\ m_published' = [m_published EXCEPT ![Slot(sequence)] = sequence]
  /\ IF sequence = m_claimedRange[p].begin
     THEN Goto(p, "load") /\ m_claimedRange' = [m_claimedRange EXCEPT ![p] = NoRange]
     ELSE UNCHANGED <<pc, m_claimedRange>>
  /\ UNCHANGED <<m_awaiters, operations, lists, scan, m_nextToClaim, consumed, consumerBarrier>>

(* publish(range): the numbers after the first, in order, then the first.  *)
PublishStores(p) ==
  LET range == m_claimedRange[p]
      rest  == {Advance(range.begin, n) : n \in 1..(Difference(range.end, range.begin) - 1)}
      left  == {s \in rest : ~IsPublished(s)} IN
  /\ pc[p] = "publish"
  /\ IF left = {} THEN Store(p, range.begin)
     ELSE Store(p, CHOOSE s \in left : \A r \in left : ~Precedes(r, s))

(* resume_ready_awaiters()                                                 *)
PublishLoads(p) ==
  /\ pc[p] = "load"
  /\ Goto(p, IF m_awaiters = << >> THEN "idle" ELSE "exchange")
  /\ UNCHANGED <<m_published, m_awaiters, operations, lists, scan, clients>>

(* A slip: the list is read but left where it is.                          *)
ReadAwaiters(p, otherwise) ==
  /\ awaiters' = [awaiters EXCEPT ![p] = m_awaiters]
  /\ IF m_awaiters = << >>
     THEN Goto(p, otherwise) /\ UNCHANGED lastKnownPublished
     ELSE /\ Goto(p, "after")
          /\ lastKnownPublished' = [lastKnownPublished EXCEPT ![p] = m_lastKnownPublished[Head(m_awaiters)]]
  /\ UNCHANGED <<m_published, m_awaiters, operations, awaitersToRequeue, awaitersToResume,
                 targetSequence, clients>>

(* Take the whole list; an empty one is somebody else's business.          *)
TakeAwaiters(p, otherwise) ==
  /\ awaiters' = [awaiters EXCEPT ![p] = m_awaiters]
  /\ m_awaiters' = << >>
  /\ IF m_awaiters = << >>
     THEN Goto(p, otherwise) /\ UNCHANGED lastKnownPublished
     ELSE /\ Goto(p, "after")
          /\ lastKnownPublished' = [lastKnownPublished EXCEPT ![p] = m_lastKnownPublished[Head(m_awaiters)]]
  /\ UNCHANGED <<m_published, operations, awaitersToRequeue, awaitersToResume, targetSequence, clients>>

PublishAcquires(p) == pc[p] = "exchange" /\ TakeAwaiters(p, "idle")

(* last_published_after(), one load per step, and the sorting of the list  *)
(* once it is known.                                                       *)
PublishSorts(p) ==
  LET next      == Advance(lastKnownPublished[p], 1)
      published == lastKnownPublished[p]
      later     == Unsatisfied(awaiters[p], published) IN
  /\ pc[p] = "after"
  /\ IF IsPublished(next)
     THEN /\ lastKnownPublished' = [lastKnownPublished EXCEPT ![p] = next]
          /\ UNCHANGED <<pc, m_lastKnownPublished, lists, targetSequence>>
     ELSE /\ awaitersToResume' = [awaitersToResume EXCEPT ![p] = @ \o Satisfied(awaiters[p], published)]
          /\ awaitersToRequeue' = [awaitersToRequeue EXCEPT ![p] = later]
          /\ targetSequence' = [targetSequence EXCEPT ![p] = EarliestTarget(later, published)]
          /\ m_lastKnownPublished' =
               [c \in Consumers |-> IF c \in ToSet(awaiters[p]) THEN published ELSE m_lastKnownPublished[c]]
          /\ awaiters' = [awaiters EXCEPT ![p] = << >>]
          /\ Goto(p, IF later = << >> THEN "resume" ELSE "requeue")
          /\ UNCHANGED lastKnownPublished
  /\ UNCHANGED <<m_published, m_awaiters, m_targetSequence, m_readyToResume, clients>>

(* A slip: no second look at the slots after the list has been put back.   *)
PublishRequeuesOnce(p) ==
  /\ pc[p] = "requeue"
  /\ m_awaiters' = awaitersToRequeue[p] \o m_awaiters
  /\ awaitersToRequeue' = [awaitersToRequeue EXCEPT ![p] = << >>]
  /\ Goto(p, "resume")
  /\ UNCHANGED <<m_published, operations, awaiters, awaitersToResume, scan, clients>>

PublishRequeues(p) ==
  /\ pc[p] = "requeue"
  /\ m_awaiters' = awaitersToRequeue[p] \o m_awaiters
  /\ awaitersToRequeue' = [awaitersToRequeue EXCEPT ![p] = << >>]
  /\ Goto(p, "scan")
  /\ UNCHANGED <<m_published, operations, awaiters, awaitersToResume, scan, clients>>

(* Was the earliest target published before the list was back?             *)
PublishScans(p) ==
  LET next == Advance(lastKnownPublished[p], 1) IN
  /\ pc[p] = "scan"
  /\ IF IsPublished(next)
     THEN /\ lastKnownPublished' = [lastKnownPublished EXCEPT ![p] = next]
          /\ Goto(p, IF next = targetSequence[p] THEN "reacquire" ELSE "scan")
     ELSE Goto(p, "resume") /\ UNCHANGED lastKnownPublished
  /\ UNCHANGED <<m_published, m_awaiters, operations, lists, targetSequence, clients>>

PublishReacquires(p) == pc[p] = "reacquire" /\ TakeAwaiters(p, "resume")

PublishReturns(p) ==
  /\ pc[p] = "resume"
  /\ awaitersToResume[p] = << >>
  /\ Goto(p, "idle")
  /\ targetSequence' = [targetSequence EXCEPT ![p] = initial_sequence]
  /\ lastKnownPublished' = [lastKnownPublished EXCEPT ![p] = initial_sequence]
  /\ UNCHANGED <<m_published, m_awaiters, operations, lists, clients>>

(* resume(lastKnownPublished) of the next operation on the list: the       *)
(* second of this and the exchange in await_suspend() to come makes the    *)
(* coroutine run.                                                          *)
ResumeAwaiter(t) ==
  /\ pc[t] = "resume"
  /\ awaitersToResume[t] # << >>
  /\ LET c == Head(awaitersToResume[t]) IN
       /\ m_lastKnownPublished' = [m_lastKnownPublished EXCEPT ![c] = lastKnownPublished[t]]
       /\ m_readyToResume' = [m_readyToResume EXCEPT ![c] = TRUE]
       /\ pc' = IF m_readyToResume[c] THEN [pc EXCEPT ![c] = "read"] ELSE pc
  /\ awaitersToResume' = [awaitersToResume EXCEPT ![t] = Tail(@)]
  /\ UNCHANGED <<m_published, m_awaiters, m_targetSequence, awaiters, awaitersToRequeue, scan, clients>>

-----------------------------------------------------------------------------
(* wait_until_published(target, lastKnownPublished), with the last number  *)
(* the consumer has read, so that await_ready() is false.                  *)
Wait(c, target) ==
  /\ pc[c] = "idle"
  /\ m_targetSequence' = [m_targetSequence EXCEPT ![c] = target]
  /\ m_lastKnownPublished' = [m_lastKnownPublished EXCEPT ![c] = consumed[c]]
  /\ m_readyToResume' = [m_readyToResume EXCEPT ![c] = FALSE]
  /\ targetSequence' = [targetSequence EXCEPT ![c] = target]
  /\ lastKnownPublished' = [lastKnownPublished EXCEPT ![c] = consumed[c]]
  /\ Goto(c, "enqueue")
  /\ UNCHANGED <<m_published, m_awaiters, lists, clients>>

(* add_awaiter()                                                           *)
EnqueueAwaiter(c) ==
  /\ pc[c] = "enqueue"
  /\ m_awaiters' = <<c>> \o m_awaiters
  /\ Goto(c, "scan")
  /\ UNCHANGED <<m_published, operations, lists, scan, clients>>

(* One load per step: what was published while the operation was pushed?   *)
ScanPublished(c) ==
  LET next == Advance(lastKnownPublished[c], 1) IN
  /\ pc[c] = "scan"
  /\ IF IsPublished(next)
     THEN lastKnownPublished' = [lastKnownPublished EXCEPT ![c] = next] /\ UNCHANGED pc
     ELSE /\ Goto(c, IF Precedes(lastKnownPublished[c], targetSequence[c]) THEN "resume" ELSE "acquire")
          /\ UNCHANGED lastKnownPublished
  /\ UNCHANGED <<m_published, m_awaiters, operations, lists, targetSequence, clients>>

(* The stack is taken to be sorted.  The code compares lastKnownPublished  *)
(* with its local targetSequence, not with the target of the operation at  *)
(* hand: the difference is never positive here, every operation counts as  *)
(* ready and nothing is put back.                                          *)
AcquireAwaiters(c) ==
  /\ pc[c] = "acquire"
  /\ awaitersToResume' = [awaitersToResume EXCEPT ![c] = m_awaiters]
  /\ m_awaiters' = << >>
  /\ Goto(c, "resume")
  /\ UNCHANGED <<m_published, operations, awaiters, awaitersToRequeue, scan, clients>>

(* await_suspend() after add_awaiter().                                    *)
SuspendOrContinue(c) ==
  /\ pc[c] = "resume"
  /\ awaitersToResume[c] = << >>
  /\ m_readyToResume' = [m_readyToResume EXCEPT ![c] = TRUE]
  /\ Goto(c, IF m_readyToResume[c] THEN "read" ELSE "suspended")
  /\ targetSequence' = [targetSequence EXCEPT ![c] = initial_sequence]
  /\ lastKnownPublished' = [lastKnownPublished EXCEPT ![c] = initial_sequence]
  /\ UNCHANGED <<m_published, m_awaiters, m_targetSequence, m_lastKnownPublished, lists, clients>>

(* The consumer reads up to the result of the wait.                        *)
ReadElements(c) ==
  /\ pc[c] = "read"
  /\ consumed' = [consumed EXCEPT ![c] = m_lastKnownPublished[c]]
  /\ Goto(c, "idle")
  /\ UNCHANGED <<m_published, m_awaiters, operations, lists, scan, m_nextToClaim, m_claimedRange, consumerBarrier>>

(* What the slowest consumer has read is published on the barrier.         *)
PublishRead ==
  \E c \in Consumers :
    /\ \A d \in Consumers : ~Precedes(consumed[d], consumed[c])
    /\ Barrier!PublishSequence(consumed[c])
    /\ UNCHANGED <<m_published, m_awaiters, operations, pc, lists, scan, m_nextToClaim, m_claimedRange, consumed>>

-----------------------------------------------------------------------------
ClaimBounded(p, count) == m_nextToClaim + count <= MaxNumber + 1 /\ Claim(p, count)

ProducerStep(p) ==
  \/ ClaimWaitResumes(p) \/ ClaimResumes(p)
  \/ PublishStores(p) \/ PublishLoads(p) \/ PublishAcquires(p) \/ PublishSorts(p)
  \/ PublishRequeues(p) \/ PublishScans(p) \/ PublishReacquires(p)
  \/ ResumeAwaiter(p) \/ PublishReturns(p)

ConsumerStep(c) ==
  \/ EnqueueAwaiter(c) \/ ScanPublished(c) \/ AcquireAwaiters(c)
  \/ ResumeAwaiter(c) \/ SuspendOrContinue(c) \/ ReadElements(c)

Next ==
  \/ \E p \in Producers : ProducerStep(p) \/ \E count \in 1..MaxClaim : ClaimBounded(p, count)
  \/ \E c \in Consumers : ConsumerStep(c) \/ \E n \in 1..MaxReach : Wait(c, Advance(consumed[c], n))
  \/ PublishRead

SafetySpec == Init /\ [][Next]_vars

(* Calls that have been made go on; nobody has to claim or to wait.        *)
Spec ==
  /\ SafetySpec
  /\ \A p \in Producers : WF_vars(ProducerStep(p))
  /\ \A c \in Consumers : WF_vars(ConsumerStep(c))
  /\ WF_vars(PublishRead)

-----------------------------------------------------------------------------
(* What a consumer is told is available has been published, without a gap, *)
(* since what it had read before, and has not been overwritten.            *)
AvailableIsPublished ==
  \A c \in Consumers : pc[c] = "read" =>
    \A n \in 1..Difference(m_lastKnownPublished[c], consumed[c]) : IsPublished(Advance(consumed[c], n))

(* wait_until_published() ends with a result that reaches its target.      *)
WaitsForTarget ==
  \A c \in Consumers : pc[c] = "read" => ~Precedes(m_lastKnownPublished[c], m_targetSequence[c])

(* The slots a producer writes hold nothing that some consumer has still   *)
(* to read, and no other producer writes them at the same time.            *)
ClaimedSlots(p) ==
  {Slot(Advance(m_claimedRange[p].begin, n)) :
     n \in 0..(Difference(m_claimedRange[p].end, m_claimedRange[p].begin) - 1)}
ClaimedSlotsAreFree ==
  \A p \in Producers : pc[p] = "publish" =>
    /\ \A c \in Consumers : Difference(m_claimedRange[p].end, consumed[c]) - 1 <= BufferSize
    /\ \A q \in Producers \ {p} : pc[q] = "publish" => ClaimedSlots(p) \cap ClaimedSlots(q) = {}

Positions(c, list) == {i \in DOMAIN list : list[i] = c}
Places(c) ==
  ({"stack"} \X Positions(c, m_awaiters))
  \cup UNION {({<<"taken", t>>} \X Positions(c, awaiters[t]))
              \cup ({<<"requeue", t>>} \X Positions(c, awaitersToRequeue[t]))
              \cup ({<<"resume", t>>} \X Positions(c, awaitersToResume[t])) : t \in Threads}

(* A wait operation is on exactly one list, once, from the push until it   *)
(* is marked ready; however the producers and the consumers pass the lists *)
(* around, none is lost or resumed twice.                                  *)
OnOneList ==
  /\ TypeOK
  /\ \A c \in Consumers :
       Cardinality(Places(c)) =
         IF pc[c] = "suspended" \/ (pc[c] \in {"scan", "acquire", "resume"} /\ ~m_readyToResume[c]) THEN 1 ELSE 0

TargetIsPublished(c) ==
  \A n \in 1..Difference(m_targetSequence[c], consumed[c]) : IsPublished(Advance(consumed[c], n))

(* When everything up to the target is there, whichever producer came last,*)
(* the consumer gets to read it.                                           *)
PublishedIsResumed ==
  \A c \in Consumers : (pc[c] # "idle" /\ TargetIsPublished(c)) ~> pc[c] = "read"
=============================================================================
