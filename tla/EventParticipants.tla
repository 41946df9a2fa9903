-------------------------- MODULE EventParticipants --------------------------
(***************************************************************************)
(* The threads around an event, and the addresses that an event keeps in   *)
(* its state word.                                                         *)
(***************************************************************************)
EXTENDS Participants

CONSTANTS Setters,      \* threads that call set(), reset() or count_down()
          Consumer,     \* the coroutine that awaits a single-consumer event
          ThisEvent,    \* the address of the event
          MaxChanges    \* bound: what a setter writes before it calls set()

ASSUME EventParticipantsAssumption ==
  /\ Coroutines \cap Setters = {}
  /\ Consumer \notin Setters \cup {NullPtr}
  /\ ThisEvent \notin Coroutines \cup {NullPtr, Consumer}
  /\ MaxChanges \in Nat
=============================================================================
