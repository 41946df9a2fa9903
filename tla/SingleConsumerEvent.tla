------------------------ MODULE SingleConsumerEvent ------------------------
(***************************************************************************)
(* cppcoro::single_consumer_event (single_consumer_event.hpp): a           *)
(* manual-reset event for one awaiting coroutine.  Threads write something *)
(* and call set(); the coroutine awaits the event, resets it and looks at  *)
(* what was written.  Other threads may reset the event at any time.       *)
(* m_awaiter is a plain member, written before the state says that         *)
(* somebody waits and read after that state has been taken.                *)
(***************************************************************************)
EXTENDS EventParticipants

CONSTANT OthersReset   \* whether other threads call reset()

VARIABLES
  m_state,     \* "not_set", "not_set_consumer_waiting" or "set"
  m_awaiter,   \* the handle to resume
  pc,          \* where the consumer and each setter is
  changes,     \* writes each setter has made
  seen         \* of these, the ones the consumer has looked at

vars == <<m_state, m_awaiter, pc, changes, seen>>

TypeOK ==
  /\ m_state \in {"not_set", "not_set_consumer_waiting", "set"}
  /\ m_awaiter \in {Consumer, NullPtr}
  /\ m_state = "not_set_consumer_waiting" => m_awaiter = Consumer
  /\ pc[Consumer] \in {"awaiting", "await_suspend", "exchange", "suspended", "released", "looking"}
  /\ \A s \in Setters : pc[s] \in {"writing", "set", "resume"}
  /\ changes \in [Setters -> 0..MaxChanges]
  /\ seen \in [Setters -> 0..MaxChanges]

Init ==
  /\ m_state \in {"set", "not_set"}
  /\ m_awaiter = NullPtr
  /\ pc = [t \in Setters \cup {Consumer} |-> IF t = Consumer THEN "awaiting" ELSE "writing"]
  /\ changes = [s \in Setters |-> 0]
  /\ seen = [s \in Setters |-> 0]

Goto(t, label) == pc' = [pc EXCEPT ![t] = label]

-----------------------------------------------------------------------------
(* The code around the event.                                              *)

Write(s) ==
  /\ pc[s] = "writing"
  /\ changes[s] < MaxChanges
  /\ changes' = [changes EXCEPT ![s] = @ + 1]
  /\ Goto(s, "set")
  /\ UNCHANGED <<m_state, m_awaiter, seen>>

Look ==
  /\ pc[Consumer] = "looking"
  /\ seen' = changes
  /\ Goto(Consumer, "awaiting")
  /\ UNCHANGED <<m_state, m_awaiter, changes>>

-----------------------------------------------------------------------------
(* await_ready(): is_set().                                                *)
AwaitReady ==
  /\ pc[Consumer] = "awaiting"
  /\ Goto(Consumer, IF m_state = "set" THEN "released" ELSE "await_suspend")
  /\ UNCHANGED <<m_state, m_awaiter, changes, seen>>

StoreHandle ==
  /\ pc[Consumer] = "await_suspend"
  /\ m_awaiter' = Consumer
  /\ Goto(Consumer, "exchange")
  /\ UNCHANGED <<m_state, changes, seen>>

(* A slip: a store in place of the compare-exchange.                       *)
AwaitSuspendStores ==
  /\ pc[Consumer] = "exchange"
  /\ m_state' = "not_set_consumer_waiting"
  /\ Goto(Consumer, "suspended")
  /\ UNCHANGED <<m_awaiter, changes, seen>>

(* The compare-exchange from not_set: it fails when the event was set      *)
(* after await_ready(), and the coroutine goes on.                         *)
AwaitSuspend ==
  /\ pc[Consumer] = "exchange"
  /\ \/ /\ m_state = "not_set"
        /\ m_state' = "not_set_consumer_waiting"
        /\ Goto(Consumer, "suspended")
     \/ /\ m_state # "not_set"
        /\ Goto(Consumer, "released")
        /\ UNCHANGED m_state
  /\ UNCHANGED <<m_awaiter, changes, seen>>

Set(s) ==
  /\ pc[s] = "set"
  /\ m_state' = "set"
  /\ Goto(s, IF m_state = "not_set_consumer_waiting" THEN "resume" ELSE "writing")
  /\ UNCHANGED <<m_awaiter, changes, seen>>

(* A slip: set() resumes only if the event is still set.                   *)
SetResumesIfStillSet(s) ==
  /\ pc[s] = "resume"
  /\ pc' = IF m_state = "set" THEN [pc EXCEPT ![s] = "writing", ![m_awaiter] = "released"]
           ELSE [pc EXCEPT ![s] = "writing"]
  /\ UNCHANGED <<m_state, m_awaiter, changes, seen>>

(* m_awaiter.resume(): the coroutine runs on, beside the setter.           *)
SetResumes(s) ==
  /\ pc[s] = "resume"
  /\ pc' = [pc EXCEPT ![s] = "writing", ![m_awaiter] = "released"]
  /\ UNCHANGED <<m_state, m_awaiter, changes, seen>>

(* A slip: reset() also takes back "a consumer waits".                     *)
ResetStores == m_state' = "not_set"

(* The compare-exchange set -> not_set; another state stays as it is.      *)
ResetState == m_state' = IF m_state = "set" THEN "not_set" ELSE m_state

ResetByConsumer ==
  /\ pc[Consumer] = "released"
  /\ ResetState
  /\ Goto(Consumer, "looking")
  /\ UNCHANGED <<m_awaiter, changes, seen>>

ResetByOther ==
  /\ OthersReset
  /\ ResetState
  /\ UNCHANGED <<m_awaiter, pc, changes, seen>>

ConsumerStep == AwaitReady \/ StoreHandle \/ AwaitSuspend \/ ResetByConsumer \/ Look

SetStep(s) == Set(s) \/ SetResumes(s)

Next == ConsumerStep \/ ResetByOther \/ \E s \in Setters : Write(s) \/ SetStep(s)

(* The consumer keeps awaiting and a set() that was called is finished;    *)
(* nobody has to write or to reset.                                        *)
Spec ==
  /\ Init /\ [][Next]_vars
  /\ WF_vars(ConsumerStep)
  /\ \A s \in Setters : WF_vars(SetStep(s))

-----------------------------------------------------------------------------
(* A suspended consumer is owed exactly one resume(): either the state     *)
(* says that it waits, or one setter has taken that state and is about to  *)
(* resume it; a consumer that is not suspended is owed none.  A reset() or *)
(* a second set() in between changes nothing.                              *)
OneResumeIsOwed ==
  Cardinality({s \in Setters : pc[s] = "resume"})
    + (IF m_state = "not_set_consumer_waiting" THEN 1 ELSE 0)
  = (IF pc[Consumer] = "suspended" THEN 1 ELSE 0)

(* A set() ends the wait of a suspended consumer even when a reset()       *)
(* follows before the consumer runs.                                       *)
SetEndsTheWait ==
  (pc[Consumer] = "suspended" /\ m_state # "not_set_consumer_waiting")
    ~> (pc[Consumer] = "released")

(* What is written before set() is looked at, whether set() finds the      *)
(* consumer suspended, between await_ready() and its suspension, or between*)
(* its reset() and its look, as long as nobody else resets the event.      *)
EveryChangeIsSeen == (seen # changes) ~> (seen = changes)
=============================================================================
