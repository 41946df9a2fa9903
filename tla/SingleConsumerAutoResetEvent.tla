-------------------- MODULE SingleConsumerAutoResetEvent --------------------
(***************************************************************************)
(* cppcoro::single_consumer_async_auto_reset_event, used as its README     *)
(* shows it: threads make changes and call set() after each; one coroutine *)
(* looks at what has changed and, when nothing of interest has, awaits the *)
(* event and looks again.                                                  *)
(*                                                                         *)
(* m_state is nullptr (not set), the address of the event (set) or that of *)
(* the handle of the waiting coroutine.  set() takes two exchanges when    *)
(* somebody waits; other calls of set() may come between them.             *)
(***************************************************************************)
EXTENDS EventParticipants

VARIABLES
  m_state,
  consumer,   \* "looking", "await_suspend", "reset" or "suspended"
  setter,     \* where each setter is
  changes,    \* changes each setter has made
  seen        \* of each setter's changes, those the coroutine has looked at

vars == <<m_state, consumer, setter, changes, seen>>

(* The last conjunct is the assertion in await_suspend(): its              *)
(* compare-exchange fails only on a set event, never on a handle left over *)
(* from an earlier wait.                                                   *)
TypeOK ==
  /\ m_state \in {ThisEvent, Consumer, NullPtr}
  /\ consumer \in {"looking", "await_suspend", "reset", "suspended"}
  /\ setter \in [Setters -> {"changing", "set", "clear", "resume"}]
  /\ changes \in [Setters -> 0..MaxChanges]
  /\ seen \in [Setters -> 0..MaxChanges]
  /\ m_state = Consumer => consumer = "suspended"

Init ==
  /\ m_state \in {ThisEvent, NullPtr}
  /\ consumer = "looking"
  /\ setter = [s \in Setters |-> "changing"]
  /\ changes = [s \in Setters |-> 0]
  /\ seen = [s \in Setters |-> 0]

(* The code around the event.                                              *)
Change(s) ==
  /\ setter[s] = "changing"
  /\ changes[s] < MaxChanges
  /\ changes' = [changes EXCEPT ![s] = @ + 1]
  /\ setter' = [setter EXCEPT ![s] = "set"]
  /\ UNCHANGED <<m_state, consumer, seen>>

Look ==
  /\ consumer = "looking"
  /\ seen' = changes
  /\ consumer' = "await_suspend"
  /\ UNCHANGED <<m_state, setter, changes>>

-----------------------------------------------------------------------------
(* A slip: a coroutine that finds the event set leaves its handle in it.   *)
AwaitResetsToHandle ==
  /\ consumer = "reset"
  /\ m_state' = Consumer
  /\ consumer' = "looking"
  /\ UNCHANGED <<setter, changes, seen>>

(* A slip: the coroutine suspends on an event that was set meanwhile.      *)
AwaitSuspendStores ==
  /\ consumer = "await_suspend"
  /\ m_state' = Consumer
  /\ consumer' = "suspended"
  /\ UNCHANGED <<setter, changes, seen>>

(* The compare-exchange nullptr -> handle; when it fails the event is set. *)
AwaitSuspend ==
  /\ consumer = "await_suspend"
  /\ \/ /\ m_state = NullPtr
        /\ m_state' = Consumer
        /\ consumer' = "suspended"
     \/ /\ m_state # NullPtr
        /\ consumer' = "reset"
        /\ UNCHANGED m_state
  /\ UNCHANGED <<setter, changes, seen>>

(* exchange(nullptr), return false.                                        *)
AwaitResets ==
  /\ consumer = "reset"
  /\ m_state' = NullPtr
  /\ consumer' = "looking"
  /\ UNCHANGED <<setter, changes, seen>>

(* exchange(this).                                                         *)
Set(s) ==
  /\ setter[s] = "set"
  /\ m_state' = ThisEvent
  /\ setter' = [setter EXCEPT ![s] = IF m_state = Consumer THEN "clear" ELSE "changing"]
  /\ UNCHANGED <<consumer, changes, seen>>

(* exchange(nullptr): takes back what this call, and any call that came in *)
(* between, has set.                                                       *)
SetClears(s) ==
  /\ setter[s] = "clear"
  /\ m_state' = NullPtr
  /\ setter' = [setter EXCEPT ![s] = "resume"]
  /\ UNCHANGED <<consumer, changes, seen>>

SetResumes(s) ==
  /\ setter[s] = "resume"
  /\ consumer' = "looking"
  /\ setter' = [setter EXCEPT ![s] = "changing"]
  /\ UNCHANGED <<m_state, changes, seen>>

ConsumerStep == Look \/ AwaitSuspend \/ AwaitResets

SetStep(s) == Set(s) \/ SetClears(s) \/ SetResumes(s)

Next == ConsumerStep \/ \E s \in Setters : Change(s) \/ SetStep(s)

(* The coroutine keeps awaiting and a set() that was called is finished;   *)
(* nobody has to make a change.                                            *)
Spec ==
  /\ Init /\ [][Next]_vars
  /\ WF_vars(ConsumerStep)
  /\ \A s \in Setters : WF_vars(SetStep(s))

-----------------------------------------------------------------------------
(* At most one setter is going to resume the coroutine, and only a         *)
(* suspended one whose handle is no longer in m_state.                     *)
ResumedOnce ==
  \A s \in Setters : setter[s] \in {"clear", "resume"} =>
    /\ consumer = "suspended"
    /\ m_state # Consumer
    /\ \A t \in Setters \ {s} : setter[t] \notin {"clear", "resume"}

(* No signal is lost: a change whose set() falls between the two exchanges *)
(* of another set(), and is taken back by it, is still looked at.          *)
EveryChangeIsSeen == (seen # changes) ~> (seen = changes)
=============================================================================
