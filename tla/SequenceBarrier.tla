-------------------------- MODULE SequenceBarrier --------------------------
(***************************************************************************)
(* cppcoro::sequence_barrier (sequence_barrier.hpp).  One thread publishes *)
(* increasing sequence numbers; coroutines wait until a number has been    *)
(* published.  m_awaiters is a lock-free stack of wait operations.  Both   *)
(* publish() and add_awaiter() may take the whole stack, sort out what is  *)
(* satisfied and put the rest back, so an operation moves between the      *)
(* stack and the private lists of several threads until somebody resumes   *)
(* it.  An operation is identified with the coroutine that waits.          *)
(*                                                                         *)
(* A resumed coroutine is rescheduled on its scheduler, here at once.      *)
(***************************************************************************)
EXTENDS SequenceTraits, FiniteSets, SequencesExt, Selection

CONSTANTS Waiters,     \* coroutines that wait
          Publisher    \* the thread that publishes

ASSUME BarrierAssumption == Publisher \notin Waiters

VARIABLES
  m_lastPublished,
  m_awaiters,            \* the stack, newest first
  m_targetSequence,      \* the wait operation of each coroutine:
  m_lastKnownPublished,
  m_readyToResume,
  pc,                    \* where each thread is
  awaitersToRequeue,     \* local lists of add_awaiter() and publish()
  awaitersToResume,
  targetSequence,        \* local variable of add_awaiter()
  lastKnown              \* local lastKnownPublished, or publish()'s argument

operations == <<m_targetSequence, m_lastKnownPublished, m_readyToResume>>
locals == <<awaitersToRequeue, awaitersToResume, targetSequence, lastKnown>>
barrierVars == <<m_lastPublished, m_awaiters, operations, pc, locals>>

Threads == Waiters \cup {Publisher}

BarrierTypeOK ==
  /\ m_lastPublished \in Sequences
  /\ m_awaiters \in Seq(Waiters)
  /\ m_targetSequence \in [Waiters -> Sequences]
  /\ m_lastKnownPublished \in [Waiters -> Sequences]
  /\ m_readyToResume \in [Waiters -> BOOLEAN]
  /\ \A c \in Waiters : pc[c] \in {"idle", "enqueue", "check", "acquire", "resume", "suspended"}
  /\ pc[Publisher] \in {"idle", "load", "exchange", "requeue", "resume"}
  /\ awaitersToRequeue \in [Threads -> Seq(Waiters)]
  /\ awaitersToResume \in [Threads -> Seq(Waiters)]
  /\ targetSequence \in [Waiters -> Sequences]
  /\ lastKnown \in [Threads -> Sequences]

BarrierInit(initialSequence) ==
  /\ m_lastPublished = initialSequence
  /\ m_awaiters = << >>
  /\ m_targetSequence = [c \in Waiters |-> initialSequence]
  /\ m_lastKnownPublished = [c \in Waiters |-> initialSequence]
  /\ m_readyToResume = [c \in Waiters |-> FALSE]
  /\ pc = [t \in Threads |-> "idle"]
  /\ awaitersToRequeue = [t \in Threads |-> << >>]
  /\ awaitersToResume = [t \in Threads |-> << >>]
  /\ targetSequence = [c \in Waiters |-> initial_sequence]
  /\ lastKnown = [t \in Threads |-> initial_sequence]

Goto(t, label) == pc' = [pc EXCEPT ![t] = label]

(* Of a list of operations, those whose target is not after `published',   *)
(* and the others, in the order of the list.                               *)
Satisfied(list, published) ==
  Selected(list, {c \in Waiters : Difference(m_targetSequence[c], published) <= 0})
Unsatisfied(list, published) ==
  Selected(list, {c \in Waiters : Difference(m_targetSequence[c], published) > 0})

-----------------------------------------------------------------------------
(* wait_until_published(target): the constructor loads m_lastPublished and *)
(* await_ready() compares.                                                 *)
Wait(c, target) ==
  /\ pc[c] = "idle"
  /\ m_targetSequence' = [m_targetSequence EXCEPT ![c] = target]
  /\ m_lastKnownPublished' = [m_lastKnownPublished EXCEPT ![c] = m_lastPublished]
  /\ m_readyToResume' = [m_readyToResume EXCEPT ![c] = FALSE]
  /\ \/ /\ ~Precedes(m_lastPublished, target)
        /\ UNCHANGED <<pc, locals>>
     \/ /\ Precedes(m_lastPublished, target)
        /\ awaitersToRequeue' = [awaitersToRequeue EXCEPT ![c] = <<c>>]
        /\ targetSequence' = [targetSequence EXCEPT ![c] = target]
        /\ Goto(c, "enqueue")
        /\ UNCHANGED <<awaitersToResume, lastKnown>>
  /\ UNCHANGED <<m_lastPublished, m_awaiters>>

(* add_awaiter(): push the list, one or more operations, on the stack.     *)
EnqueueAwaiters(c) ==
  /\ pc[c] = "enqueue"
  /\ m_awaiters' = awaitersToRequeue[c] \o m_awaiters
  /\ awaitersToRequeue' = [awaitersToRequeue EXCEPT ![c] = << >>]
  /\ Goto(c, "check")
  /\ UNCHANGED <<m_lastPublished, operations, awaitersToResume, targetSequence, lastKnown>>

(* A slip: what was published while the list was being pushed is ignored.  *)
SkipCheck(c) ==
  /\ pc[c] = "check"
  /\ Goto(c, "resume")
  /\ UNCHANGED <<m_lastPublished, m_awaiters, operations, locals>>

(* The publisher may not have seen the push: look whether it should have.  *)
CheckPublished(c) ==
  /\ pc[c] = "check"
  /\ lastKnown' = [lastKnown EXCEPT ![c] = m_lastPublished]
  /\ Goto(c, IF Precedes(m_lastPublished, targetSequence[c]) THEN "resume" ELSE "acquire")
  /\ UNCHANGED <<m_lastPublished, m_awaiters, operations,
                 awaitersToRequeue, awaitersToResume, targetSequence>>

(* A slip: the target to check for next time is not brought up to date.    *)
AcquireKeepsTarget(c) ==
  LET later == Unsatisfied(m_awaiters, lastKnown[c]) IN
  /\ pc[c] = "acquire"
  /\ m_awaiters' = << >>
  /\ awaitersToResume' = [awaitersToResume EXCEPT ![c] = @ \o Satisfied(m_awaiters, lastKnown[c])]
  /\ awaitersToRequeue' = [awaitersToRequeue EXCEPT ![c] = later]
  /\ targetSequence' = [targetSequence EXCEPT ![c] = Advance(lastKnown[c], 2^(Width - 1) - 1)]
  /\ Goto(c, IF later = << >> THEN "resume" ELSE "enqueue")
  /\ UNCHANGED <<m_lastPublished, operations, lastKnown>>

(* Take the stack, sort it, and go round again with what is not satisfied, *)
(* checking for the earliest of its targets.                               *)
AcquireAwaiters(c) ==
  LET later   == Unsatisfied(m_awaiters, lastKnown[c])
      diffs   == {Difference(m_targetSequence[d], lastKnown[c]) : d \in ToSet(later)}
      minDiff == CHOOSE m \in diffs \cup {2^(Width - 1) - 1} :
                   \A n \in diffs \cup {2^(Width - 1) - 1} : m <= n
  IN
  /\ pc[c] = "acquire"
  /\ m_awaiters' = << >>
  /\ awaitersToResume' = [awaitersToResume EXCEPT ![c] = @ \o Satisfied(m_awaiters, lastKnown[c])]
  /\ awaitersToRequeue' = [awaitersToRequeue EXCEPT ![c] = later]
  /\ targetSequence' = [targetSequence EXCEPT ![c] = Advance(lastKnown[c], minDiff)]
  /\ Goto(c, IF later = << >> THEN "resume" ELSE "enqueue")
  /\ UNCHANGED <<m_lastPublished, operations, lastKnown>>

(* await_suspend() after add_awaiter(): the coroutine stays suspended      *)
(* unless somebody, maybe this thread, has marked it ready meanwhile.      *)
SuspendOrContinue(c) ==
  /\ pc[c] = "resume"
  /\ awaitersToResume[c] = << >>
  /\ m_readyToResume' = [m_readyToResume EXCEPT ![c] = TRUE]
  /\ Goto(c, IF m_readyToResume[c] THEN "idle" ELSE "suspended")
  /\ targetSequence' = [targetSequence EXCEPT ![c] = initial_sequence]
  /\ lastKnown' = [lastKnown EXCEPT ![c] = initial_sequence]
  /\ UNCHANGED <<m_lastPublished, m_awaiters, m_targetSequence, m_lastKnownPublished,
                 awaitersToRequeue, awaitersToResume>>

-----------------------------------------------------------------------------
(* resume(): of this and the exchange in await_suspend(), the second to    *)
(* come makes the coroutine run.                                           *)
ResumeAwaiter(t) ==
  /\ pc[t] = "resume"
  /\ awaitersToResume[t] # << >>
  /\ LET c == Head(awaitersToResume[t]) IN
       /\ m_lastKnownPublished' = [m_lastKnownPublished EXCEPT ![c] = lastKnown[t]]
       /\ m_readyToResume' = [m_readyToResume EXCEPT ![c] = TRUE]
       /\ pc' = IF m_readyToResume[c] THEN [pc EXCEPT ![c] = "idle"] ELSE pc
  /\ awaitersToResume' = [awaitersToResume EXCEPT ![t] = Tail(@)]
  /\ UNCHANGED <<m_lastPublished, m_awaiters, m_targetSequence,
                 awaitersToRequeue, targetSequence, lastKnown>>

-----------------------------------------------------------------------------
(* publish(sequence)                                                       *)

Publish(sequence) ==
  /\ pc[Publisher] = "idle"
  /\ m_lastPublished' = sequence
  /\ lastKnown' = [lastKnown EXCEPT ![Publisher] = sequence]
  /\ Goto(Publisher, "load")
  /\ UNCHANGED <<m_awaiters, operations, awaitersToRequeue, awaitersToResume, targetSequence>>

PublishLoads ==
  /\ pc[Publisher] = "load"
  /\ Goto(Publisher, IF m_awaiters = << >> THEN "idle" ELSE "exchange")
  /\ UNCHANGED <<m_lastPublished, m_awaiters, operations, locals>>

(* The list may be gone by now: then whoever took it takes care of it.     *)
PublishAcquires ==
  /\ pc[Publisher] = "exchange"
  /\ m_awaiters' = << >>
  /\ LET published == lastKnown[Publisher]
         later     == Unsatisfied(m_awaiters, published) IN
       /\ awaitersToResume' = [awaitersToResume EXCEPT ![Publisher] = Satisfied(m_awaiters, published)]
       /\ awaitersToRequeue' = [awaitersToRequeue EXCEPT ![Publisher] = later]
       /\ Goto(Publisher, IF later # << >> THEN "requeue"
                          ELSE IF m_awaiters = << >> THEN "idle" ELSE "resume")
  /\ UNCHANGED <<m_lastPublished, operations, targetSequence, lastKnown>>

PublishRequeues ==
  /\ pc[Publisher] = "requeue"
  /\ m_awaiters' = awaitersToRequeue[Publisher] \o m_awaiters
  /\ awaitersToRequeue' = [awaitersToRequeue EXCEPT ![Publisher] = << >>]
  /\ Goto(Publisher, "resume")
  /\ UNCHANGED <<m_lastPublished, operations, awaitersToResume, targetSequence, lastKnown>>

PublishReturns ==
  /\ pc[Publisher] = "resume"
  /\ awaitersToResume[Publisher] = << >>
  /\ Goto(Publisher, "idle")
  /\ UNCHANGED <<m_lastPublished, m_awaiters, operations, locals>>

WaitProceeds(c) ==
  \/ EnqueueAwaiters(c)
  \/ CheckPublished(c)
  \/ AcquireAwaiters(c)
  \/ ResumeAwaiter(c)
  \/ SuspendOrContinue(c)

PublishProceeds ==
  \/ PublishLoads
  \/ PublishAcquires
  \/ PublishRequeues
  \/ ResumeAwaiter(Publisher)
  \/ PublishReturns

-----------------------------------------------------------------------------
Positions(c, list) == {i \in DOMAIN list : list[i] = c}

Places(c) ==
  ({<<"stack", Publisher>>} \X Positions(c, m_awaiters))
  \cup UNION {({<<"requeue", t>>} \X Positions(c, awaitersToRequeue[t]))
             \cup ({<<"resume", t>>} \X Positions(c, awaitersToResume[t])) : t \in Threads}

(* A wait operation that is not ready yet, or whose coroutine is suspended,*)
(* is on exactly one list, once: the stack or a private list of a thread   *)
(* that has taken it.  No other operation is on a list, so none is resumed *)
(* twice and none is forgotten.                                            *)
OnOneList ==
  \A c \in Waiters :
    Cardinality(Places(c)) =
      IF pc[c] = "suspended" \/ (pc[c] # "idle" /\ ~m_readyToResume[c]) THEN 1 ELSE 0

(* No satisfied operation is left on the stack unattended: the publisher   *)
(* is about to look at the stack, or a waiter is about to take it or to    *)
(* check for a target that is not after the operation's own.               *)
SatisfiedIsAttended ==
  \A c \in ToSet(m_awaiters) : ~Precedes(m_lastPublished, m_targetSequence[c]) =>
    \/ pc[Publisher] \in {"load", "exchange"}
    \/ \E d \in Waiters :
         \/ pc[d] = "acquire"
         \/ pc[d] = "check" /\ ~Precedes(m_targetSequence[c], targetSequence[d])

-----------------------------------------------------------------------------
(* A sequence_barrier used as the cursor of a ring buffer: the publisher   *)
(* moves on by 1 .. MaxStep but no further than Window ahead of what any   *)
(* waiter has seen, and a waiter waits for a number 1 .. MaxAhead after    *)
(* the last one it has seen.  A number that a slow thread still holds may  *)
(* be a window behind that; as long as all of them fit in half the range,  *)
(* sequence numbers wrap around without end.                               *)

CONSTANTS MaxStep, Window, MaxAhead,
          Pending   \* the result of a wait that goes on

ASSUME WindowAssumption ==
  /\ MaxStep \in Nat /\ Window \in Nat /\ MaxAhead \in Nat
  /\ 2 * Window + MaxAhead < 2^(Width - 1) /\ MaxStep < 2^(Width - 1)
  /\ Pending \notin Sequences

Init == BarrierInit(initial_sequence)

WaitAhead(c) == \E n \in 1..MaxAhead : Wait(c, Advance(m_lastKnownPublished[c], n))

PublishAhead ==
  \E n \in 1..MaxStep :
    /\ \A c \in Waiters : Difference(m_lastPublished, m_lastKnownPublished[c]) + n <= Window
    /\ Publish(Advance(m_lastPublished, n))

Next ==
  \/ \E c \in Waiters : WaitAhead(c) \/ WaitProceeds(c)
  \/ PublishAhead
  \/ PublishProceeds

(* Calls that have been made go on; nobody has to publish or to wait.      *)
Spec ==
  /\ Init /\ [][Next]_barrierVars
  /\ \A c \in Waiters : WF_barrierVars(WaitProceeds(c))
  /\ WF_barrierVars(PublishProceeds)

Cursor == INSTANCE SequenceCursor WITH
  published <- m_lastPublished,
  target    <- m_targetSequence,
  result    <- [c \in Waiters |-> IF pc[c] = "idle" THEN m_lastKnownPublished[c] ELSE Pending],
  NoResult  <- Pending

(* The barrier implements the cursor: however publish() and the calls of   *)
(* several waiters interleave, a coroutine goes on only with a result      *)
(* between its target and the last number published, it goes on once per   *)
(* wait, and it does go on once its target is published.                   *)
ImplementsCursor == Cursor!CursorSpec
=============================================================================
