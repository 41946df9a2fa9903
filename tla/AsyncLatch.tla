----------------------------- MODULE AsyncLatch -----------------------------
(***************************************************************************)
(* cppcoro::async_latch (async_latch.hpp): a counter in front of an        *)
(* async_manual_reset_event that nobody resets.  The setters of the event  *)
(* are the threads that call count_down().                                 *)
(***************************************************************************)
EXTENDS Integers, AsyncManualResetEvent

CONSTANTS InitialCount,   \* argument of the constructor
          Amounts,        \* arguments of count_down()
          MaxOverrun      \* bound: no count_down() this far below zero

VARIABLE m_count

latchVars == <<m_count, eventVars>>

LatchTypeOK == EventTypeOK /\ m_count \in Int

LatchInit ==
  /\ m_count = InitialCount
  /\ EventInit(InitialCount <= 0)

(* A slip: the latch opens one too early.                                  *)
CountDownEarly(s, n) ==
  /\ pc[s] = "running"
  /\ m_count > -MaxOverrun
  /\ m_count' = m_count - n
  /\ Goto(s, IF m_count - 1 <= n THEN "set" ELSE "running")
  /\ UNCHANGED <<isSet, waiters, oldState, current>>

(* m_count.fetch_sub(n) <= n: the count has reached zero or was there.     *)
CountDown(s, n) ==
  /\ pc[s] = "running"
  /\ m_count > -MaxOverrun
  /\ m_count' = m_count - n
  /\ Goto(s, IF m_count <= n THEN "set" ELSE "running")
  /\ UNCHANGED <<isSet, waiters, oldState, current>>

LatchSets(s) ==
  /\ pc[s] = "set"
  /\ SetExchanges(s)
  /\ UNCHANGED m_count

CountDownProceeds(s) == LatchSets(s) \/ (SetProceeds(s) /\ UNCHANGED m_count)

LatchNext ==
  \/ \E c \in Coroutines : CoAwait(c) /\ UNCHANGED m_count
  \/ \E s \in Setters : CountDownProceeds(s) \/ \E n \in Amounts : CountDown(s, n)

(* Calls that have started go on.                                          *)
LatchSpec ==
  /\ LatchInit
  /\ [][LatchNext]_latchVars
  /\ \A c \in Coroutines : WF_latchVars(AwaitProceeds(c) /\ UNCHANGED m_count)
  /\ \A s \in Setters : WF_latchVars(CountDownProceeds(s))

(* The latch is open only when the count is used up: a coroutine that runs *)
(* past co_await has waited for all of it, whichever thread counts last    *)
(* and however far below zero others count.                                *)
OpenMeansCountedDown ==
  (isSet \/ \E s \in Setters : pc[s] \in {"set", "resume"}) => m_count <= 0

(* "Any coroutines awaiting this latch will be resumed once the count      *)
(* reaches zero", also those that start to wait meanwhile.                 *)
CountedDownOpens ==
  \A c \in Coroutines : (m_count <= 0 /\ pc[c] # "running") ~> (pc[c] = "running")
=============================================================================
