------------------------ MODULE AsyncManualResetEvent ------------------------
(***************************************************************************)
(* cppcoro::async_manual_reset_event (lib/async_manual_reset_event.cpp).   *)
(*                                                                         *)
(* m_state is the address of the event when it is set, and otherwise the   *)
(* address of the newest operation of a linked stack of waiters or         *)
(* nullptr.  It is represented by `isSet' and by the stack `waiters',      *)
(* newest first; StateWord is the value that a load or an exchange sees.   *)
(* A coroutine that waits again reuses the address of its operation.  A    *)
(* coroutine that is resumed runs beside its resumer.                      *)
(***************************************************************************)
EXTENDS EventParticipants, SequencesExt

VARIABLES
  isSet,      \* m_state = this
  waiters,    \* the stack m_state points to
  pc,         \* where each coroutine or setter is
  oldState,   \* local variable of await_suspend()
  current     \* the operations set() has not resumed yet

eventVars == <<isSet, waiters, pc, oldState, current>>

StateWord ==
  IF isSet THEN ThisEvent ELSE IF waiters = << >> THEN NullPtr ELSE Head(waiters)

EventTypeOK ==
  /\ isSet \in BOOLEAN
  /\ waiters \in Seq(Coroutines)
  /\ isSet => waiters = << >>
  /\ \A c \in Coroutines : pc[c] \in {"running", "suspending", "suspended"}
  /\ \A s \in Setters : pc[s] \in {"running", "set", "resume"}
  /\ oldState \in [Coroutines -> Coroutines \cup {ThisEvent, NullPtr}]
  /\ current \in [Setters -> Seq(Coroutines)]

EventInit(initiallySet) ==
  /\ isSet = initiallySet
  /\ waiters = << >>
  /\ pc = [t \in Coroutines \cup Setters |-> "running"]
  /\ oldState = [c \in Coroutines |-> NullPtr]
  /\ current = [s \in Setters |-> << >>]

Goto(t, label) == pc' = [pc EXCEPT ![t] = label]

-----------------------------------------------------------------------------
(* co_await: await_ready() finds the event set, or the coroutine suspends. *)

AwaitIsReady(c) ==
  /\ pc[c] = "running"
  /\ isSet
  /\ UNCHANGED eventVars

AwaitLoads(c) ==
  /\ pc[c] = "running"
  /\ ~isSet
  /\ oldState' = [oldState EXCEPT ![c] = StateWord]
  /\ Goto(c, "suspending")
  /\ UNCHANGED <<isSet, waiters, current>>

SuspendFindsSet(c) ==
  /\ pc[c] = "suspending"
  /\ oldState[c] = ThisEvent
  /\ oldState' = [oldState EXCEPT ![c] = NullPtr]
  /\ Goto(c, "running")
  /\ UNCHANGED <<isSet, waiters, current>>

SuspendQueues(c) ==
  /\ pc[c] = "suspending"
  /\ oldState[c] # ThisEvent
  /\ oldState[c] = StateWord
  /\ waiters' = Cons(c, waiters)
  /\ oldState' = [oldState EXCEPT ![c] = NullPtr]
  /\ Goto(c, "suspended")
  /\ UNCHANGED <<isSet, current>>

SuspendRetries(c) ==
  /\ pc[c] = "suspending"
  /\ oldState[c] # ThisEvent
  /\ oldState[c] # StateWord
  /\ oldState' = [oldState EXCEPT ![c] = StateWord]
  /\ UNCHANGED <<isSet, waiters, pc, current>>

CoAwait(c) ==
  \/ AwaitIsReady(c)
  \/ AwaitLoads(c)
  \/ SuspendFindsSet(c)
  \/ SuspendQueues(c)
  \/ SuspendRetries(c)

-----------------------------------------------------------------------------
(* set() and reset().                                                      *)

(* m_state.exchange(this): whoever was queued is to be resumed.            *)
SetExchanges(s) ==
  /\ isSet' = TRUE
  /\ waiters' = << >>
  /\ current' = [current EXCEPT ![s] = waiters]
  /\ Goto(s, "resume")
  /\ UNCHANGED oldState

(* A slip: only the newest waiter is resumed.                              *)
SetResumesOne(s) ==
  /\ pc[s] = "resume"
  /\ current[s] # << >>
  /\ pc' = [pc EXCEPT ![Head(current[s])] = "running", ![s] = "running"]
  /\ current' = [current EXCEPT ![s] = << >>]
  /\ UNCHANGED <<isSet, waiters, oldState>>

(* `next' is read before the waiter is resumed.                            *)
SetResumes(s) ==
  /\ pc[s] = "resume"
  /\ current[s] # << >>
  /\ Goto(Head(current[s]), "running")
  /\ current' = [current EXCEPT ![s] = Tail(@)]
  /\ UNCHANGED <<isSet, waiters, oldState>>

SetReturns(s) ==
  /\ pc[s] = "resume"
  /\ current[s] = << >>
  /\ Goto(s, "running")
  /\ UNCHANGED <<isSet, waiters, oldState, current>>

SetProceeds(s) == SetResumes(s) \/ SetReturns(s)

(* A slip: nullptr is stored whatever m_state was.                         *)
ResetStores(s) ==
  /\ pc[s] = "running"
  /\ isSet' = FALSE
  /\ waiters' = << >>
  /\ UNCHANGED <<pc, oldState, current>>

Reset(s) ==
  /\ pc[s] = "running"
  /\ isSet
  /\ isSet' = FALSE
  /\ UNCHANGED <<waiters, pc, oldState, current>>

Set(s) == pc[s] = "running" /\ SetExchanges(s)

Init == \E initiallySet \in BOOLEAN : EventInit(initiallySet)

Next ==
  \/ \E c \in Coroutines : CoAwait(c)
  \/ \E s \in Setters : Set(s) \/ SetProceeds(s) \/ Reset(s)

AwaitProceeds(c) == pc[c] = "suspending" /\ CoAwait(c)

(* A call that has started goes on; nobody has to set the event.           *)
Spec ==
  /\ Init /\ [][Next]_eventVars
  /\ \A c \in Coroutines : WF_eventVars(AwaitProceeds(c))
  /\ \A s \in Setters : WF_eventVars(SetProceeds(s))

-----------------------------------------------------------------------------
(* What makes the event correct.                                           *)

InList(c) == c \in ToSet(waiters) \/ \E s \in Setters : c \in ToSet(current[s])

(* No waiter is lost or resumed twice: a coroutine is suspended exactly    *)
(* while it is on the stack or in the list of one set() that will resume   *)
(* it, and in one place of one of them.  reset(), which may come between   *)
(* two set(), drops nobody.                                                *)
SuspendedIsInOneList ==
  /\ \A c \in Coroutines : (pc[c] = "suspended") <=> InList(c)
  /\ \A s, t \in Setters : s # t => ToSet(current[s]) \cap ToSet(current[t]) = {}
  /\ \A s \in Setters :
       /\ ToSet(current[s]) \cap ToSet(waiters) = {}
       /\ IsInjective(current[s])
  /\ IsInjective(waiters)

(* A coroutine that waits when the event is set is resumed, even if the    *)
(* event is reset right away.                                              *)
SetResumesAll ==
  \A c \in Coroutines : (isSet /\ pc[c] = "suspended") ~> (pc[c] = "running")
=============================================================================
