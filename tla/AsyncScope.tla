----------------------------- MODULE AsyncScope -----------------------------
(***************************************************************************)
(* cppcoro::async_scope (async_scope.hpp).  The owner, and any work that   *)
(* still runs, spawns more work; the owner awaits join() once.  m_count    *)
(* counts the work in flight and one for the owner, who gives it up in     *)
(* join().  m_continuation is a plain member: whoever brings the count to  *)
(* zero must find it stored.                                               *)
(***************************************************************************)
EXTENDS Participants

CONSTANTS Creator,      \* the coroutine that owns the scope
          Work          \* awaitables that may be spawned

Owner == Creator   \* the coroutine that awaits join()

VARIABLES
  m_count,
  m_continuation,
  owner,    \* where the owner is
  work      \* state of each awaitable

vars == <<m_count, m_continuation, owner, work>>

Running == {w \in Work : work[w] = "running"}

TypeOK ==
  /\ m_count \in Nat
  /\ m_continuation \in {Owner, NullPtr}
  /\ owner \in {"spawning", "await_suspend", "fetch_sub", "suspended", "joined"}
  /\ work \in [Work -> {"not_spawned", "running", "resume", "finished"}]

Init ==
  /\ m_count = 1
  /\ m_continuation = NullPtr
  /\ owner = "spawning"
  /\ work = [w \in Work |-> "not_spawned"]

(* spawn(): on_work_started() runs inside the call, which is made by the   *)
(* owner before join() or by work that has not finished.                   *)
Spawn(w) ==
  /\ work[w] = "not_spawned"
  /\ owner = "spawning" \/ Running # {}
  /\ m_count' = m_count + 1
  /\ work' = [work EXCEPT ![w] = "running"]
  /\ UNCHANGED <<m_continuation, owner>>

(* A slip: work that ends first, while others run, resumes the owner.      *)
WorkFinishesEarly(w) ==
  /\ work[w] = "running"
  /\ m_count' = m_count - 1
  /\ work' = [work EXCEPT ![w] = IF m_count <= 2 /\ owner = "suspended" THEN "resume" ELSE "finished"]
  /\ UNCHANGED <<m_continuation, owner>>

(* on_work_finished(), run by the scope guard when the awaitable is done.  *)
WorkFinishes(w) ==
  /\ work[w] = "running"
  /\ m_count' = m_count - 1
  /\ work' = [work EXCEPT ![w] = IF m_count = 1 THEN "resume" ELSE "finished"]
  /\ UNCHANGED <<m_continuation, owner>>

WorkResumesOwner(w) ==
  /\ work[w] = "resume"
  /\ owner' = "joined"
  /\ work' = [work EXCEPT ![w] = "finished"]
  /\ UNCHANGED <<m_count, m_continuation>>

(* join(): await_ready() finds the owner's own count.                      *)
Join ==
  /\ owner = "spawning"
  /\ owner' = IF m_count = 0 THEN "joined" ELSE "await_suspend"
  /\ UNCHANGED <<m_count, m_continuation, work>>

JoinStores ==
  /\ owner = "await_suspend"
  /\ m_continuation' = Owner
  /\ owner' = "fetch_sub"
  /\ UNCHANGED <<m_count, work>>

(* A slip: the owner suspends although nothing is left to wait for.        *)
JoinAlwaysSuspends ==
  /\ owner = "fetch_sub"
  /\ m_count' = m_count - 1
  /\ owner' = "suspended"
  /\ UNCHANGED <<m_continuation, work>>

(* m_count.fetch_sub(1) > 1: there is work left and the owner suspends.    *)
JoinSuspends ==
  /\ owner = "fetch_sub"
  /\ m_count' = m_count - 1
  /\ owner' = IF m_count > 1 THEN "suspended" ELSE "joined"
  /\ UNCHANGED <<m_continuation, work>>

OwnerStep == Join \/ JoinStores \/ JoinSuspends

WorkStep(w) == WorkFinishes(w) \/ WorkResumesOwner(w)

Next == OwnerStep \/ \E w \in Work : Spawn(w) \/ WorkStep(w)

(* Work that was spawned completes, and the owner goes through with join().*)
Spec ==
  /\ Init /\ [][Next]_vars
  /\ WF_vars(OwnerStep)
  /\ \A w \in Work : WF_vars(WorkStep(w))

-----------------------------------------------------------------------------
(* join() completes only after all work, also that spawned by other work   *)
(* while the owner waits; and no work touches the scope any more.          *)
JoinedMeansDone == owner = "joined" => \A w \in Work : work[w] \in {"not_spawned", "finished"}

(* At most one piece of work resumes the owner, when it is suspended and   *)
(* the plain member m_continuation holds its handle.                       *)
ResumesTheOwner ==
  \A w \in Work : work[w] = "resume" =>
    /\ owner = "suspended"
    /\ m_continuation = Owner
    /\ \A v \in Work \ {w} : work[v] # "resume"

(* join() completes, whichever of the owner and the work is last to give   *)
(* up its count.                                                           *)
JoinCompletes == <>(owner = "joined")
=============================================================================
