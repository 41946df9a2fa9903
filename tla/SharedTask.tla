----------------------------- MODULE SharedTask -----------------------------
(***************************************************************************)
(* cppcoro::shared_task (shared_task.hpp): a lazily started coroutine that *)
(* several coroutines may await, kept alive by its reference count.        *)
(* m_waiters is NotStarted, Ready or the list of waiters, newest first.    *)
(*                                                                         *)
(* The first to await the task runs its body as a call; the body either    *)
(* completes in that call or suspends and is completed later by Worker,    *)
(* maybe before the call has returned.  A coroutine awaits only through a  *)
(* shared_task object that it keeps until it has been resumed.             *)
(***************************************************************************)
EXTENDS Participants, SequencesExt

CONSTANTS Creator,      \* the coroutine that makes the task
          Worker,       \* a thread that completes what has suspended
          NotStarted, Ready

Threads == Coroutines \cup {Worker}

VARIABLES
  m_waiters,
  m_refCount,
  handles,      \* coroutines whose shared_task refers to the coroutine frame
  alive,        \* the frame has not been destroyed
  body,         \* "initial", "running", "suspended" or "final"
  pc,           \* where each coroutine is in co_await, and the worker
  toResume      \* final_awaiter's local list of waiters

vars == <<m_waiters, m_refCount, handles, alive, body, pc, toResume>>

TypeOK ==
  /\ m_waiters \in {NotStarted, Ready} \cup Seq(Coroutines)
  /\ m_refCount \in 0..Cardinality(Coroutines)
  /\ handles \subseteq Coroutines
  /\ alive \in BOOLEAN
  /\ body \in {"initial", "running", "suspended", "final"}
  /\ \A c \in Coroutines :
       pc[c] \in {"idle", "load", "start", "body", "resuming", "reload", "enqueue", "suspended", "result", "done"}
  /\ pc[Worker] \in {"idle", "body", "resuming"}
  /\ toResume \in [Threads -> Seq(Coroutines)]

Init ==
  /\ m_waiters = NotStarted
  /\ m_refCount = 1
  /\ handles = {Creator}
  /\ alive = TRUE
  /\ body = "initial"
  /\ pc = [t \in Threads |-> "idle"]
  /\ toResume = [t \in Threads |-> << >>]

Goto(t, label) == pc' = [pc EXCEPT ![t] = label]

-----------------------------------------------------------------------------
(* The reference count                                                     *)

(* A slip: a copy does not count.                                          *)
CopyUncounted(c, d) ==
  /\ c \in handles
  /\ d \notin handles
  /\ pc[d] = "idle"
  /\ handles' = handles \cup {d}
  /\ UNCHANGED <<m_waiters, m_refCount, alive, body, pc, toResume>>

(* Copy construction: d gets a copy of c's shared_task.                    *)
Copy(c, d) ==
  /\ c \in handles
  /\ d \notin handles
  /\ pc[d] = "idle"
  /\ m_refCount' = m_refCount + 1
  /\ handles' = handles \cup {d}
  /\ UNCHANGED <<m_waiters, alive, body, pc, toResume>>

(* Move construction: c's object is left without a coroutine.              *)
Move(c, d) ==
  /\ c \in handles
  /\ d \notin handles
  /\ pc[c] \in {"idle", "done"}
  /\ pc[d] = "idle"
  /\ handles' = (handles \ {c}) \cup {d}
  /\ UNCHANGED <<m_waiters, m_refCount, alive, body, pc, toResume>>

(* destroy(): the last reference destroys the frame.                       *)
Destroy(c) ==
  /\ c \in handles
  /\ pc[c] \in {"idle", "done"}
  /\ handles' = handles \ {c}
  /\ m_refCount' = m_refCount - 1
  /\ alive' = (alive /\ m_refCount # 1)
  /\ UNCHANGED <<m_waiters, body, pc, toResume>>

-----------------------------------------------------------------------------
(* co_await                                                                *)

AwaitReady(c) ==
  /\ c \in handles
  /\ pc[c] = "idle"
  /\ Goto(c, IF m_waiters = Ready THEN "result" ELSE "load")
  /\ UNCHANGED <<m_waiters, m_refCount, handles, alive, body, toResume>>

(* try_await(): is the coroutine started?                                  *)
LoadWaiters(c) ==
  /\ pc[c] = "load"
  /\ Goto(c, IF m_waiters = NotStarted THEN "start" ELSE "enqueue")
  /\ UNCHANGED <<m_waiters, m_refCount, handles, alive, body, toResume>>

(* The compare_exchange lets one coroutine start it.                       *)
TryStart(c) ==
  /\ pc[c] = "start"
  /\ \/ /\ m_waiters = NotStarted
        /\ m_waiters' = << >>
        /\ body' = "running"
        /\ Goto(c, "body")
     \/ /\ m_waiters # NotStarted
        /\ Goto(c, "enqueue")
        /\ UNCHANGED <<m_waiters, body>>
  /\ UNCHANGED <<m_refCount, handles, alive, toResume>>

(* coroutine.resume() returns because the body has suspended, ...          *)
BodySuspends(c) ==
  /\ pc[c] = "body"
  /\ body' = "suspended"
  /\ Goto(c, "reload")
  /\ UNCHANGED <<m_waiters, m_refCount, handles, alive, toResume>>

WorkerResumesBody ==
  /\ body = "suspended"
  /\ pc[Worker] = "idle"
  /\ body' = "running"
  /\ Goto(Worker, "body")
  /\ UNCHANGED <<m_waiters, m_refCount, handles, alive, toResume>>

(* ... or has run to final_awaiter: the result is there, the list of       *)
(* waiters is taken.                                                       *)
FinalSuspend(t) ==
  /\ pc[t] = "body"
  /\ m_waiters' = Ready
  /\ toResume' = [toResume EXCEPT ![t] = m_waiters]
  /\ body' = "final"
  /\ Goto(t, "resuming")
  /\ UNCHANGED <<m_refCount, handles, alive>>

ResumeWaiter(t) ==
  /\ pc[t] = "resuming"
  /\ toResume[t] # << >>
  /\ Goto(Head(toResume[t]), "result")
  /\ toResume' = [toResume EXCEPT ![t] = Tail(@)]
  /\ UNCHANGED <<m_waiters, m_refCount, handles, alive, body>>

AllResumed(t) ==
  /\ pc[t] = "resuming"
  /\ toResume[t] = << >>
  /\ Goto(t, IF t = Worker THEN "idle" ELSE "reload")
  /\ UNCHANGED <<m_waiters, m_refCount, handles, alive, body, toResume>>

(* The starter loads m_waiters again; its value is checked when pushing.   *)
ReloadWaiters(c) ==
  /\ pc[c] = "reload"
  /\ Goto(c, "enqueue")
  /\ UNCHANGED <<m_waiters, m_refCount, handles, alive, body, toResume>>

(* A slip: completion is not checked for, the task counts as running.      *)
EnqueueBlindly(c) ==
  /\ pc[c] = "enqueue"
  /\ m_waiters' = IF m_waiters = Ready THEN <<c>> ELSE <<c>> \o m_waiters
  /\ Goto(c, "suspended")
  /\ UNCHANGED <<m_refCount, handles, alive, body, toResume>>

Enqueue(c) ==
  /\ pc[c] = "enqueue"
  /\ \/ /\ m_waiters = Ready
        /\ Goto(c, "result")
        /\ UNCHANGED m_waiters
     \/ /\ m_waiters # Ready
        /\ m_waiters' = <<c>> \o m_waiters
        /\ Goto(c, "suspended")
  /\ UNCHANGED <<m_refCount, handles, alive, body, toResume>>

(* await_resume() reads the result from the promise.                       *)
AwaitResume(c) ==
  /\ pc[c] = "result"
  /\ Goto(c, "done")
  /\ UNCHANGED <<m_waiters, m_refCount, handles, alive, body, toResume>>

-----------------------------------------------------------------------------
AwaitStep(c) ==
  \/ LoadWaiters(c) \/ TryStart(c) \/ BodySuspends(c) \/ ReloadWaiters(c)
  \/ Enqueue(c) \/ AwaitResume(c)

BodyStep(t) == FinalSuspend(t) \/ ResumeWaiter(t) \/ AllResumed(t)

Next ==
  \/ \E c \in Coroutines : AwaitReady(c) \/ Destroy(c) \/ AwaitStep(c)
  \/ \E c, d \in Coroutines : Copy(c, d) \/ Move(c, d)
  \/ \E t \in Threads : BodyStep(t)
  \/ WorkerResumesBody

(* The body, if started, completes; a co_await that has begun goes on.     *)
Spec ==
  /\ Init
  /\ [][Next]_vars
  /\ \A c \in Coroutines : WF_vars(AwaitStep(c) \/ BodyStep(c))
  /\ WF_vars(WorkerResumesBody \/ BodyStep(Worker))

-----------------------------------------------------------------------------
Positions(c, list) == {i \in DOMAIN list : list[i] = c}
WaiterList == IF m_waiters \in {NotStarted, Ready} THEN << >> ELSE m_waiters

(* A coroutine that is suspended is on exactly one list, of the promise    *)
(* before completion or of final_awaiter after it; no other one is.        *)
SuspendedIsOnOneList ==
  \A c \in Coroutines :
    Cardinality(({Worker} \X Positions(c, WaiterList))
                \cup UNION {{<<"resuming", t>>} \X Positions(c, toResume[t]) : t \in Threads})
      = IF pc[c] = "suspended" THEN 1 ELSE 0

(* However many coroutines find the task not started, the body is run by   *)
(* one thread at a time and not again once it has suspended or completed.  *)
RunByOneThread ==
  Cardinality({t \in Threads : pc[t] = "body"}) = IF body = "running" THEN 1 ELSE 0

(* The promise is touched neither after it has been destroyed nor before   *)
(* the result is there: those who are on their way to m_waiters or to the  *)
(* result, and the thread that runs the body, have it alive.               *)
AliveWhenUsed ==
  /\ \A c \in Coroutines :
       pc[c] \in {"load", "start", "body", "reload", "enqueue", "suspended", "result"} => alive
  /\ \A c \in Coroutines : pc[c] \in {"result", "done"} => body = "final"
  /\ body \in {"running", "suspended"} => alive
  /\ handles # {} => alive

(* Every co_await ends, whether the task completes in the call that starts *)
(* it, while its waiters are being pushed, or later.                       *)
AwaitEnds == \A c \in Coroutines : pc[c] = "load" ~> pc[c] = "done"
=============================================================================
