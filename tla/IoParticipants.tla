--------------------------- MODULE IoParticipants ---------------------------
(***************************************************************************)
(* The threads and coroutines around an io_service, and its bounds.        *)
(***************************************************************************)
EXTENDS Integers, FiniteSets

CONSTANTS Blockers,     \* I/O threads that call process_events() or process_one_event()
          Pollers,      \* I/O threads that keep calling the functions that do not wait
          Coroutines,   \* coroutines that await schedule(), each started on a thread of its own
          Capacity,     \* how many messages fit into the pipe
          MaxSchedules, \* bound: how often a coroutine awaits schedule()
          MaxResets     \* bound: how often the service is reset

(* A pipe holds thousands of messages, more than there are I/O threads:    *)
(* stop() counts on that when it ignores a wake-up it could not post.      *)
ASSUME IoParticipantsAssumption ==
  /\ IsFiniteSet(Blockers) /\ IsFiniteSet(Pollers) /\ IsFiniteSet(Coroutines)
  /\ Blockers \cap Pollers = {} /\ Coroutines \cap (Blockers \cup Pollers) = {}
  /\ Capacity \in Nat /\ Capacity >= Cardinality(Blockers \cup Pollers)
  /\ MaxSchedules \in Nat /\ MaxResets \in Nat
=============================================================================
