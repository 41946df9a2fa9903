--------------------------- MODULE SequenceCursor ---------------------------
(***************************************************************************)
(* What a sequence_barrier promises, without its list of waiters: a number *)
(* that only moves forward, and waits that end, with a result between the  *)
(* target and the last number published, once the target is published.     *)
(* result[c] is NoResult while c waits.                                    *)
(***************************************************************************)
EXTENDS SequenceTraits

CONSTANTS Waiters, NoResult

VARIABLES published, target, result

cursorVars == <<published, target, result>>

CursorInit ==
  /\ published = initial_sequence
  /\ target = [c \in Waiters |-> initial_sequence]
  /\ result = [c \in Waiters |-> initial_sequence]

WaitUntilPublished(c, t) ==
  /\ result[c] # NoResult
  /\ target' = [target EXCEPT ![c] = t]
  /\ result' = [result EXCEPT ![c] = IF Precedes(published, t) THEN NoResult ELSE published]
  /\ UNCHANGED published

ResumeWaiter(c) ==
  /\ result[c] = NoResult
  /\ \E n \in 0..Difference(published, target[c]) :
       result' = [result EXCEPT ![c] = Advance(target[c], n)]
  /\ UNCHANGED <<published, target>>

PublishSequence(sequence) ==
  /\ Precedes(published, sequence)
  /\ published' = sequence
  /\ UNCHANGED <<target, result>>

CursorNext ==
  \/ \E c \in Waiters : ResumeWaiter(c) \/ \E t \in Sequences : WaitUntilPublished(c, t)
  \/ \E s \in Sequences : PublishSequence(s)

(* A wait whose target is published ends.                                  *)
CursorSpec ==
  /\ CursorInit
  /\ [][CursorNext]_cursorVars
  /\ \A c \in Waiters : WF_cursorVars(ResumeWaiter(c))
=============================================================================
