---------------------------- MODULE EventProofs ----------------------------
(***************************************************************************)
(* The events, for any number of coroutines and threads: what the run of   *)
(* MCEvents checks for a few.  Each part states an inductive invariant,    *)
(* shows that it holds initially and is kept by each action, and what      *)
(* follows from it.                                                        *)
(***************************************************************************)
EXTENDS MCEvents, ListProofs

-----------------------------------------------------------------------------
(* single_consumer_async_auto_reset_event                                  *)

SignalInv == Signal!TypeOK /\ Signal!ResumedOnce

LEMMA SignalInit == Signal!Init => SignalInv
  BY EventParticipantsAssumption DEF Signal!Init, SignalInv, Signal!TypeOK, Signal!ResumedOnce

LEMMA SignalStep == SignalInv /\ [Signal!Next]_Signal!vars => SignalInv'
  <1> SUFFICES ASSUME SignalInv, [Signal!Next]_Signal!vars PROVE SignalInv'
    OBVIOUS
  <1> USE EventParticipantsAssumption DEF SignalInv, Signal!TypeOK, Signal!ResumedOnce
  <1>1. CASE UNCHANGED Signal!vars
    BY <1>1 DEF Signal!vars
  <1>2. CASE Signal!ConsumerStep
    BY <1>2 DEF Signal!ConsumerStep, Signal!Look, Signal!AwaitSuspend, Signal!AwaitResets
  <1>3. ASSUME NEW s \in Setters, Signal!Change(s)
        PROVE  SignalInv'
    BY <1>3 DEF Signal!Change
  <1>4. ASSUME NEW s \in Setters, Signal!Set(s)
        PROVE  SignalInv'
    BY <1>4 DEF Signal!Set
  <1>5. ASSUME NEW s \in Setters, Signal!SetClears(s)
        PROVE  SignalInv'
    BY <1>5 DEF Signal!SetClears
  <1>6. ASSUME NEW s \in Setters, Signal!SetResumes(s)
        PROVE  SignalInv'
    BY <1>6 DEF Signal!SetResumes
  <1>7. QED BY <1>1, <1>2, <1>3, <1>4, <1>5, <1>6 DEF Signal!Next, Signal!SetStep
-----------------------------------------------------------------------------
(* single_consumer_event                                                   *)

SingleThreads == Setters \cup {Consumer}

(* Who owes the consumer a resume(), and that the handle is stored before  *)
(* somebody may use it.                                                    *)
SingleInv ==
  /\ Single!TypeOK
  /\ DOMAIN singlePc = SingleThreads /\ singlePc = [t \in SingleThreads |-> singlePc[t]]
  /\ singlePc[Consumer] \in {"exchange", "suspended"} => m_awaiter = Consumer
  /\ singleState = "not_set_consumer_waiting" =>
       singlePc[Consumer] = "suspended" /\ \A s \in Setters : singlePc[s] # "resume"
  /\ \A s \in Setters : singlePc[s] = "resume" =>
       singlePc[Consumer] = "suspended" /\ \A t \in Setters : singlePc[t] = "resume" => t = s
  /\ singlePc[Consumer] = "suspended" =>
       singleState = "not_set_consumer_waiting" \/ \E s \in Setters : singlePc[s] = "resume"

LEMMA SingleInit == Single!Init => SingleInv
  BY EventParticipantsAssumption DEF Single!Init, SingleInv, Single!TypeOK, SingleThreads

(* The proof does not depend on whether others reset the event.            *)
LEMMA SingleStep == SingleInv /\ ([Single!Next]_Single!vars \/ [SingleReset!Next]_Single!vars) => SingleInv'
  <1> SUFFICES ASSUME SingleInv, [Single!Next]_Single!vars \/ [SingleReset!Next]_Single!vars PROVE SingleInv'
    OBVIOUS
  <1> USE EventParticipantsAssumption DEF SingleInv, Single!TypeOK, SingleThreads
  <1>1. CASE UNCHANGED Single!vars
    BY <1>1 DEF Single!vars
  <1>2. CASE Single!ConsumerStep \/ SingleReset!ConsumerStep
    BY <1>2 DEF Single!ConsumerStep, Single!AwaitReady, Single!StoreHandle, Single!AwaitSuspend, Single!ResetByConsumer,
       Single!Look, Single!Goto, Single!ResetState, SingleReset!ConsumerStep, SingleReset!AwaitReady, SingleReset!StoreHandle,
       SingleReset!AwaitSuspend, SingleReset!ResetByConsumer, SingleReset!Look, SingleReset!Goto, SingleReset!ResetState
  <1>3. CASE Single!ResetByOther \/ SingleReset!ResetByOther
    BY <1>3 DEF Single!ResetByOther, Single!ResetState, SingleReset!ResetByOther, SingleReset!ResetState
  <1>4. ASSUME NEW s \in Setters, Single!Write(s) \/ SingleReset!Write(s)
        PROVE  SingleInv'
    BY <1>4 DEF Single!Write, Single!Goto, SingleReset!Write, SingleReset!Goto
  <1>5. ASSUME NEW s \in Setters, Single!Set(s) \/ SingleReset!Set(s)
        PROVE  SingleInv'
    BY <1>5 DEF Single!Set, Single!Goto, SingleReset!Set, SingleReset!Goto
  <1>6. ASSUME NEW s \in Setters, Single!SetResumes(s) \/ SingleReset!SetResumes(s)
        PROVE  SingleInv'
    BY <1>6 DEF Single!SetResumes, Single!Goto, SingleReset!SetResumes, SingleReset!Goto
  <1>7. QED BY <1>1, <1>2, <1>3, <1>4, <1>5, <1>6 DEF Single!Next, Single!SetStep, SingleReset!Next, SingleReset!SetStep

LEMMA SingleCardinality == ASSUME NEW S PROVE Single!Cardinality(S) = Cardinality(S)
  BY DEF Single!Cardinality, Cardinality

LEMMA SingleInvSuffices == SingleInv => Single!OneResumeIsOwed
  <1> DEFINE Resuming == {s \in Setters : singlePc[s] = "resume"}
  <1> SUFFICES ASSUME SingleInv
               PROVE  Cardinality(Resuming) + (IF singleState = "not_set_consumer_waiting" THEN 1 ELSE 0)
                        = (IF singlePc[Consumer] = "suspended" THEN 1 ELSE 0)
    BY SingleCardinality DEF Single!OneResumeIsOwed
  <1>1. CASE Resuming = {}
    <2>1. Cardinality(Resuming) = 0
      BY <1>1, FS_EmptySet
    <2>2. singlePc[Consumer] = "suspended" <=> singleState = "not_set_consumer_waiting"
      BY <1>1 DEF SingleInv
    <2>3. QED BY <2>1, <2>2
  <1>2. ASSUME NEW s \in Setters, singlePc[s] = "resume"
        PROVE  /\ Cardinality(Resuming) = 1
               /\ singleState # "not_set_consumer_waiting" /\ singlePc[Consumer] = "suspended"
    <2>1. Resuming = {s}
      BY <1>2 DEF SingleInv
    <2>2. QED BY <1>2, <2>1, FS_Singleton DEF SingleInv
  <1>3. QED BY <1>1, <1>2
-----------------------------------------------------------------------------
(* Both of them beside the others.                                         *)

LEMMA SingleFrame ==
  ASSUME [MCNext]_<<chosen, eventVars, cancellationVars, vars>>
  PROVE  /\ [Single!Next]_Single!vars \/ [SingleReset!Next]_Single!vars
         /\ [Signal!Next]_Signal!vars
  BY DEF MCNext, EventNext, AutoReset, ManualReset, CountDown, SingleConsumer, SingleConsumerResets, SingleConsumerAutoReset,
     eventVars, singleVars, signalVars, Single!vars, Signal!vars

(* A suspended consumer is owed one resume() whatever set() and reset()    *)
(* come between, and one setter resumes it, when it is suspended; so the   *)
(* assertion in await_suspend() holds.                                     *)
THEOREM SingleConsumerIsSafe == MCSpec => []SingleConsumerSafe
  <1>1. MCInit => SingleInv /\ SignalInv
    BY SingleInit, SignalInit DEF MCInit
  <1>2. SingleInv /\ SignalInv /\ [MCNext]_<<chosen, eventVars, cancellationVars, vars>> => SingleInv' /\ SignalInv'
    BY SingleFrame, SingleStep, SignalStep
  <1>3. SingleInv /\ SignalInv => SingleConsumerSafe
    BY SingleInvSuffices DEF SingleConsumerSafe, SingleInv, SignalInv
  <1>4. QED BY <1>1, <1>2, <1>3, PTL DEF MCSpec
-----------------------------------------------------------------------------
(* async_manual_reset_event and async_latch                                *)

(* The suspended coroutines are each on one list, once.                    *)
LatchLists ==
  /\ \A c \in Coroutines :
       manualPc[c] = "suspended" <=> c \in ToSet(waiters) \/ \E s \in Setters : c \in ToSet(current[s])
  /\ \A s, t \in Setters, c \in Coroutines : c \in ToSet(current[s]) /\ c \in ToSet(current[t]) => s = t
  /\ \A s \in Setters, c \in Coroutines : c \in ToSet(current[s]) => c \notin ToSet(waiters)
  /\ \A s \in Setters : IsInjective(current[s])
  /\ IsInjective(waiters)

(* A setter has a list only while it resumes the coroutines on it.         *)
LatchInv ==
  /\ Latch!EventTypeOK
  /\ manualPc \in [Coroutines \cup Setters -> {"running", "suspending", "suspended", "set", "resume"}]
  /\ LatchLists
  /\ \A s \in Setters : manualPc[s] # "resume" => current[s] = << >>
  /\ chosen = "latch" => m_count \in Int /\ Latch!OpenMeansCountedDown

(* The latch has its own copies of these operators.                        *)
LEMMA LatchOperators ==
  ASSUME NEW s
  PROVE  /\ Latch!ToSet(s) = ToSet(s)
         /\ Latch!IsInjective(s) <=> IsInjective(s)
         /\ \A e : Latch!Cons(e, s) = <<e>> \o s
  BY DEF Latch!ToSet, ToSet, Latch!IsInjective, IsInjective, Latch!Cons

LEMMA LatchListsSuffice ==
  ASSUME Latch!EventTypeOK, LatchLists
  PROVE  Latch!SuspendedIsInOneList
  <1>1. /\ ToSet(waiters) \subseteq Coroutines
        /\ \A s \in Setters : ToSet(current[s]) \subseteq Coroutines
    BY DEF Latch!EventTypeOK, ToSet
  <1>2. \A c \in Coroutines : manualPc[c] = "suspended" <=> Latch!InList(c)
    BY LatchOperators DEF LatchLists, Latch!InList
  <1>3. \A s, t \in Setters : s # t => ToSet(current[s]) \cap ToSet(current[t]) = {}
    BY <1>1 DEF LatchLists
  <1>4. \A s \in Setters : ToSet(current[s]) \cap ToSet(waiters) = {}
    BY <1>1 DEF LatchLists
  <1>5. QED BY <1>2, <1>3, <1>4, LatchOperators DEF LatchLists, Latch!SuspendedIsInOneList

LEMMA LatchInitially ==
  ASSUME NEW b \in BOOLEAN, Latch!EventInit(b)
  PROVE  /\ Latch!EventTypeOK
         /\ manualPc \in [Coroutines \cup Setters -> {"running", "suspending", "suspended", "set", "resume"}]
         /\ LatchLists
         /\ \A s \in Setters : manualPc[s] # "resume" => current[s] = << >>
  <1> USE EventParticipantsAssumption DEF Latch!EventInit
  <1>1. << >> \in Seq(Coroutines)
    OBVIOUS
  <1>2. Latch!EventTypeOK
    BY <1>1 DEF Latch!EventTypeOK
  <1>3. LatchLists
    BY EmptyList DEF LatchLists
  <1>4. QED BY <1>2, <1>3

(* co_await                                                                *)
LEMMA LatchAwaits ==
  ASSUME LatchInv, UNCHANGED <<chosen, m_count>>, NEW c \in Coroutines, Latch!CoAwait(c)
  PROVE  LatchInv'
  <1> USE EventParticipantsAssumption DEF LatchInv
  <1>1. CASE Latch!AwaitIsReady(c)
    BY <1>1 DEF Latch!AwaitIsReady, Latch!eventVars, Latch!EventTypeOK, LatchLists, Latch!OpenMeansCountedDown
  <1>2. Latch!StateWord \in Coroutines \cup {ThisEvent, NullPtr}
    BY DEF Latch!StateWord, Latch!EventTypeOK
  <1>3. CASE Latch!AwaitLoads(c) \/ Latch!SuspendFindsSet(c) \/ Latch!SuspendRetries(c)
    <2>1. /\ UNCHANGED <<isSet, waiters, current>>
          /\ manualPc[c] # "suspended" /\ manualPc'[c] \in {"running", "suspending"}
          /\ \A t \in Coroutines \cup Setters : t # c => manualPc'[t] = manualPc[t]
          /\ manualPc' \in [Coroutines \cup Setters -> {"running", "suspending", "suspended", "set", "resume"}]
          /\ manualOldState' \in [Coroutines -> Coroutines \cup {ThisEvent, NullPtr}]
      BY <1>2, <1>3 DEF Latch!AwaitLoads, Latch!SuspendFindsSet, Latch!SuspendRetries, Latch!Goto, Latch!EventTypeOK
    <2>2. Latch!EventTypeOK'
      BY <2>1 DEF Latch!EventTypeOK
    <2>3. LatchLists'
      BY <2>1 DEF LatchLists
    <2>4. QED BY <2>1, <2>2, <2>3 DEF Latch!OpenMeansCountedDown
  <1>4. CASE Latch!SuspendQueues(c)
    <2>1. /\ waiters' = <<c>> \o waiters /\ manualPc[c] = "suspending" /\ manualPc'[c] = "suspended"
          /\ UNCHANGED <<isSet, current>>
          /\ \A t \in Coroutines \cup Setters : t # c => manualPc'[t] = manualPc[t]
          /\ manualPc' \in [Coroutines \cup Setters -> {"running", "suspending", "suspended", "set", "resume"}]
          /\ manualOldState' \in [Coroutines -> Coroutines \cup {ThisEvent, NullPtr}]
          /\ ~isSet
      BY <1>4, LatchOperators DEF Latch!SuspendQueues, Latch!Goto, Latch!EventTypeOK, Latch!StateWord
    <2>2. /\ waiters \in Seq(Coroutines) /\ IsInjective(waiters) /\ c \notin ToSet(waiters)
          /\ \A s \in Setters : c \notin ToSet(current[s])
      BY <2>1, LatchOperators DEF Latch!EventTypeOK, LatchLists
    <2>3. waiters' \in Seq(Coroutines) /\ IsInjective(waiters') /\ ToSet(waiters') = ToSet(waiters) \cup {c}
      BY <2>1, <2>2, PushDistinct
    <2>4. Latch!EventTypeOK'
      BY <2>1, <2>3 DEF Latch!EventTypeOK
    <2>5. LatchLists'
      <3>1. ASSUME NEW d \in Coroutines
            PROVE  manualPc'[d] = "suspended" <=> d \in ToSet(waiters') \/ \E s \in Setters : d \in ToSet(current'[s])
        BY <2>1, <2>2, <2>3 DEF LatchLists
      <3>2. ASSUME NEW s \in Setters
            PROVE  \A d \in Coroutines : d \in ToSet(current'[s]) => d \notin ToSet(waiters')
        BY <2>1, <2>2, <2>3 DEF LatchLists
      <3>3. QED BY <2>1, <2>3, <3>1, <3>2 DEF LatchLists
    <2>6. QED BY <2>1, <2>4, <2>5 DEF Latch!OpenMeansCountedDown
  <1>5. QED BY <1>1, <1>3, <1>4 DEF Latch!CoAwait

(* set() takes the stack of waiters, ...                                   *)
LEMMA LatchExchanges ==
  ASSUME LatchInv, UNCHANGED <<chosen, m_count>>, NEW s \in Setters, manualPc[s] \in {"running", "set"},
         Latch!SetExchanges(s), chosen = "latch" => manualPc[s] = "set"
  PROVE  LatchInv'
  <1> USE EventParticipantsAssumption DEF LatchInv
  <1>1. /\ isSet' /\ isSet' \in BOOLEAN /\ waiters' = << >> /\ UNCHANGED manualOldState
        /\ waiters \in Seq(Coroutines) /\ current[s] = << >>
        /\ current' \in [Setters -> Seq(Coroutines)] /\ current'[s] = waiters
        /\ \A t \in Setters : t # s => current'[t] = current[t]
        /\ manualPc'[s] = "resume" /\ s \notin Coroutines
        /\ \A t \in Coroutines \cup Setters : t # s => manualPc'[t] = manualPc[t]
        /\ manualPc' \in [Coroutines \cup Setters -> {"running", "suspending", "suspended", "set", "resume"}]
    BY DEF Latch!SetExchanges, Latch!EventTypeOK, Latch!Goto
  <1>2. << >> \in Seq(Coroutines)
    OBVIOUS
  <1>3. Latch!EventTypeOK'
    BY <1>1, <1>2 DEF Latch!EventTypeOK
  <1>4. LatchLists'
    <2>1. ASSUME NEW c \in Coroutines
          PROVE  manualPc'[c] = "suspended" <=> \E t \in Setters : c \in ToSet(current'[t])
      BY <1>1, EmptyList DEF LatchLists
    <2>2. ASSUME NEW t \in Setters, NEW u \in Setters, NEW c \in Coroutines,
                 c \in ToSet(current'[t]), c \in ToSet(current'[u])
          PROVE  t = u
      BY <1>1, <2>2, EmptyList DEF LatchLists
    <2>3. ASSUME NEW t \in Setters
          PROVE  IsInjective(current'[t])
      BY <1>1 DEF LatchLists
    <2>4. QED BY <1>1, <2>1, <2>2, <2>3, EmptyList DEF LatchLists
  <1>5. chosen' = "latch" => m_count' \in Int /\ Latch!OpenMeansCountedDown'
    BY <1>1 DEF Latch!OpenMeansCountedDown
  <1>6. QED BY <1>1, <1>3, <1>4, <1>5

(* ... resumes them one after the other ...                                *)
LEMMA LatchResumes ==
  ASSUME LatchInv, UNCHANGED <<chosen, m_count>>, NEW s \in Setters, Latch!SetResumes(s)
  PROVE  LatchInv'
  <1> USE EventParticipantsAssumption DEF LatchInv
  <1> DEFINE h == Head(current[s])
  <1>1. current[s] \in Seq(Coroutines) /\ current[s] # << >> /\ IsInjective(current[s])
    BY DEF Latch!SetResumes, Latch!EventTypeOK, LatchLists
  <1>2. /\ h \in Coroutines /\ h \in ToSet(current[s]) /\ Tail(current[s]) \in Seq(Coroutines)
        /\ IsInjective(Tail(current[s])) /\ ToSet(Tail(current[s])) = ToSet(current[s]) \ {h}
    BY <1>1, TailDistinct
  <1>3. /\ h \notin ToSet(waiters) /\ h \notin Setters
        /\ \A t \in Setters : t # s => h \notin ToSet(current[t])
    BY <1>2 DEF LatchLists
  <1> HIDE DEF h
  <1>4. /\ UNCHANGED <<isSet, waiters, manualOldState>> /\ manualPc[s] = "resume"
        /\ current' \in [Setters -> Seq(Coroutines)] /\ current'[s] = Tail(current[s])
        /\ \A t \in Setters : t # s => current'[t] = current[t]
        /\ manualPc'[h] = "running"
        /\ \A t \in Coroutines \cup Setters : t # h => manualPc'[t] = manualPc[t]
        /\ manualPc' \in [Coroutines \cup Setters -> {"running", "suspending", "suspended", "set", "resume"}]
    BY <1>2 DEF Latch!SetResumes, Latch!EventTypeOK, Latch!Goto, h
  <1>5. Latch!EventTypeOK'
    BY <1>2, <1>3, <1>4 DEF Latch!EventTypeOK
  <1>6. LatchLists'
    <2>1. ASSUME NEW c \in Coroutines
          PROVE  manualPc'[c] = "suspended" <=> c \in ToSet(waiters) \/ \E t \in Setters : c \in ToSet(current'[t])
      <3>1. \A t \in Setters : c \in ToSet(current'[t]) <=> c \in ToSet(current[t]) /\ c # h
        BY <1>2, <1>3, <1>4
      <3>2. manualPc'[c] = "suspended" <=> manualPc[c] = "suspended" /\ c # h
        BY <1>4
      <3>3. QED BY <1>3, <3>1, <3>2 DEF LatchLists
    <2>2. ASSUME NEW t \in Setters
          PROVE  ToSet(current'[t]) \subseteq ToSet(current[t]) /\ IsInjective(current'[t])
      BY <1>2, <1>4 DEF LatchLists
    <2>3. QED BY <1>4, <2>1, <2>2 DEF LatchLists
  <1>7. chosen' = "latch" => m_count' \in Int /\ Latch!OpenMeansCountedDown'
    BY <1>2, <1>3, <1>4 DEF Latch!OpenMeansCountedDown
  <1>8. QED BY <1>3, <1>4, <1>5, <1>6, <1>7

(* ... and returns; reset() and count_down() concern no list.              *)
LEMMA LatchCounts ==
  ASSUME LatchInv, UNCHANGED chosen, NEW s \in Setters,
         \/ Latch!SetReturns(s) /\ UNCHANGED m_count
         \/ Latch!Reset(s) /\ UNCHANGED m_count
         \/ \E n \in Amounts : Latch!CountDown(s, n)
  PROVE  LatchInv'
  <1> USE EventParticipantsAssumption, EventsAssumption DEF LatchInv
  <1>1. /\ UNCHANGED <<waiters, manualOldState, current>> /\ isSet' \in BOOLEAN /\ (isSet' => isSet)
        /\ manualPc'[s] \in {"running", "set"} /\ current[s] = << >> /\ s \notin Coroutines
        /\ \A t \in Coroutines \cup Setters : t # s => manualPc'[t] = manualPc[t]
        /\ manualPc' \in [Coroutines \cup Setters -> {"running", "suspending", "suspended", "set", "resume"}]
    <2>1. isSet \in BOOLEAN /\ manualPc[s] \in {"running", "set", "resume"} /\ s \notin Coroutines
      BY DEF Latch!EventTypeOK
    <2>2. CASE Latch!SetReturns(s)
      BY <2>1, <2>2 DEF Latch!SetReturns, Latch!Goto
    <2>3. CASE Latch!Reset(s)
      BY <2>1, <2>3 DEF Latch!Reset
    <2>4. CASE \E n \in Amounts : Latch!CountDown(s, n)
      BY <2>1, <2>4 DEF Latch!CountDown, Latch!Goto
    <2>5. QED BY <2>2, <2>3, <2>4
  <1>2. Latch!EventTypeOK'
    BY <1>1 DEF Latch!EventTypeOK
  <1>3. LatchLists'
    BY <1>1 DEF LatchLists
  <1>4. ASSUME chosen' = "latch"
        PROVE  m_count' \in Int /\ Latch!OpenMeansCountedDown'
    <2>1. CASE UNCHANGED m_count /\ manualPc'[s] = "running"
      BY <1>1, <1>4, <2>1 DEF Latch!OpenMeansCountedDown
    <2>2. ASSUME NEW n \in Amounts, Latch!CountDown(s, n)
          PROVE  m_count' \in Int /\ Latch!OpenMeansCountedDown'
      <3>1. n \in Nat /\ m_count \in Int /\ m_count' = m_count - n /\ (manualPc'[s] = "set" => m_count <= n)
        BY <1>4, <2>2 DEF Latch!CountDown, Latch!Goto
      <3>2. QED BY <1>1, <1>4, <3>1 DEF Latch!OpenMeansCountedDown
    <2>3. QED BY <1>1, <2>1, <2>2 DEF Latch!SetReturns, Latch!Reset, Latch!Goto
  <1>5. QED BY <1>1, <1>2, <1>3, <1>4

LEMMA LatchStep == LatchInv /\ [MCNext]_<<chosen, eventVars, cancellationVars, vars>> => LatchInv'
  <1> SUFFICES ASSUME LatchInv, [MCNext]_<<chosen, eventVars, cancellationVars, vars>> PROVE LatchInv'
    OBVIOUS
  <1>1. /\ UNCHANGED chosen
        /\ \/ UNCHANGED latchVars
           \/ chosen = "manual_reset" /\ Latch!Next /\ UNCHANGED m_count
           \/ chosen = "latch" /\ Latch!LatchNext
    BY DEF MCNext, EventNext, AutoReset, ManualReset, CountDown, SingleConsumer, SingleConsumerResets,
       SingleConsumerAutoReset, eventVars
  <1>2. CASE UNCHANGED latchVars
    BY <1>1, <1>2 DEF latchVars, LatchInv, Latch!EventTypeOK, LatchLists, Latch!OpenMeansCountedDown
  <1>3. CASE chosen = "manual_reset" /\ Latch!Next /\ UNCHANGED m_count
    BY <1>1, <1>3, LatchAwaits, LatchExchanges, LatchResumes, LatchCounts
       DEF Latch!Next, Latch!Set, Latch!SetProceeds
  <1>4. CASE chosen = "latch" /\ Latch!LatchNext
    BY <1>1, <1>4, LatchAwaits, LatchExchanges, LatchResumes, LatchCounts
       DEF Latch!LatchNext, Latch!LatchSets, Latch!CountDownProceeds, Latch!SetProceeds
  <1>5. QED BY <1>1, <1>2, <1>3, <1>4

(* No waiter is lost or resumed twice, however co_await, set() and reset() *)
(* interleave, and a latch opens only when its count is used up.           *)
THEOREM ManualResetIsSafe == MCSpec => []ManualResetSafe
  <1>1. MCInit => LatchInv
    <2> SUFFICES ASSUME MCInit PROVE LatchInv
      OBVIOUS
    <2>1. PICK b \in BOOLEAN : Latch!EventInit(b)
      <3>1. (InitialCount <= 0) \in BOOLEAN
        OBVIOUS
      <3>2. QED BY <3>1 DEF MCInit, Latch!Init, Latch!LatchInit
    <2>2. chosen = "latch" => m_count \in Int /\ Latch!OpenMeansCountedDown
      BY EventsAssumption DEF MCInit, Latch!LatchInit, Latch!EventInit, Latch!OpenMeansCountedDown
    <2>3. QED BY <2>1, <2>2, LatchInitially DEF LatchInv
  <1>2. LatchInv => ManualResetSafe
    BY LatchListsSuffice DEF LatchInv, ManualResetSafe, Latch!LatchTypeOK
  <1>3. QED BY <1>1, <1>2, LatchStep, PTL DEF MCSpec
-----------------------------------------------------------------------------
(* async_auto_reset_event                                                  *)

AutoActors == AutoCoroutines \cup Setters

(* The two lists in the order in which their waiters are released, and     *)
(* the coroutines whose operation some list refers to.                     *)
Order == m_waiters \o Reverse(m_newWaiters)
Listed(c) == c \in ToSet(Order) \/ \E a \in AutoActors : c \in ToSet(toResume[a])
NotAwaiting == {"running", "acquire", "push", "suspended"}
LockHolds(a) == autoPc[a] \in {"dequeue", "release"}

AutoTypes ==
  /\ AutoEvent!TypeOK
  /\ \A s \in Setters : autoPc[s] \in {"running", "dequeue", "release", "resume"}
  /\ \A c \in AutoCoroutines : autoPc[c] = "acquire" => autoOldState[c][1] > autoOldState[c][2]

(* An operation is on one list at most, which has one of its references;   *)
(* the other one is that of await_suspend().                               *)
AutoLists ==
  /\ IsInjective(Order)
  /\ \A a \in AutoActors :
       /\ IsInjective(toResume[a])
       /\ toResume[a] # << >> => autoPc[a] \in {"dequeue", "release", "resume"}
       /\ \A c \in AutoCoroutines : c \in ToSet(toResume[a]) =>
            c \notin ToSet(Order) /\ \A b \in AutoActors : c \in ToSet(toResume[b]) => a = b
  /\ \A c \in AutoCoroutines :
       /\ autoPc[c] \in {"running", "acquire", "push"} => ~Listed(c)
       /\ autoPc[c] = "suspended" => Listed(c)
       /\ m_refCount[c] = (IF Listed(c) THEN 1 ELSE 0) + (IF autoPc[c] \in NotAwaiting THEN 0 ELSE 1)

(* One actor has the lock, while both counts are positive, and what it     *)
(* took on is covered by both.                                             *)
AutoLock ==
  /\ \A a, b \in AutoActors : LockHolds(a) /\ LockHolds(b) => a = b
  /\ (\E a \in AutoActors : LockHolds(a)) <=> setCount > 0 /\ waiterCount > 0
  /\ \A a \in AutoActors :
       /\ LockHolds(a) => batch[a] > 0 /\ batch[a] <= setCount /\ batch[a] <= waiterCount
       /\ autoPc[a] = "dequeue" => taken[a] < batch[a]
       /\ autoPc[a] = "release" => taken[a] = batch[a]
       /\ ~LockHolds(a) => taken[a] = 0

(* A waiter is queued before it is counted, and dequeued before that is    *)
(* taken back.                                                             *)
AutoCounts ==
  /\ \A a \in AutoActors :
       LockHolds(a) => Len(Order) + taken[a] = waiterCount + Cardinality(AutoEvent!Pushed)
  /\ (\A a \in AutoActors : ~LockHolds(a)) => Len(Order) = waiterCount + Cardinality(AutoEvent!Pushed)

AutoInv == AutoTypes /\ AutoLists /\ AutoLock /\ AutoCounts

AutoLabels == NotAwaiting \cup {"count", "dequeue", "release", "resume", "unref"}

LEMMA AutoOperators ==
  ASSUME NEW s
  PROVE  /\ AutoEvent!ToSet(s) = ToSet(s)
         /\ AutoEvent!Reverse(s) = Reverse(s)
         /\ \A e : AutoEvent!Cons(e, s) = Cons(e, s)
  BY DEF AutoEvent!ToSet, ToSet, AutoEvent!Reverse, Reverse, AutoEvent!Cons, Cons

LEMMA AutoShape ==
  ASSUME AutoEvent!TypeOK
  PROVE  /\ setCount \in Nat /\ waiterCount \in Nat
         /\ m_newWaiters \in Seq(AutoCoroutines) /\ m_waiters \in Seq(AutoCoroutines)
         /\ autoPc \in [AutoActors -> AutoLabels]
         /\ batch \in [AutoActors -> Nat] /\ taken \in [AutoActors -> Nat]
         /\ toResume \in [AutoActors -> Seq(AutoCoroutines)]
         /\ AutoEvent!Actors = AutoActors
         /\ Order \in Seq(AutoCoroutines) /\ Len(Order) \in Nat
  <1>1. AutoEvent!Actors = AutoActors /\ AutoEvent!Labels = AutoLabels
    BY DEF AutoEvent!Actors, AutoActors, AutoEvent!Labels, AutoEvent!LockLabels, AutoLabels, NotAwaiting
  <1>2. m_newWaiters \in Seq(AutoCoroutines) /\ m_waiters \in Seq(AutoCoroutines)
    BY DEF AutoEvent!TypeOK
  <1>3. Order \in Seq(AutoCoroutines)
    BY <1>2, QueueOfTwo DEF Order
  <1>4. Len(Order) \in Nat
    BY <1>3
  <1>5. QED BY <1>1, <1>2, <1>3, <1>4 DEF AutoEvent!TypeOK

(* The coroutines that have pushed their operation and not counted it yet. *)
LEMMA AutoPushed ==
  /\ IsFiniteSet(AutoEvent!Pushed) /\ Cardinality(AutoEvent!Pushed) \in Nat
  /\ \A c \in AutoEvent!Pushed : Cardinality(AutoEvent!Pushed \ {c}) = Cardinality(AutoEvent!Pushed) - 1
  /\ \A c : c \notin AutoEvent!Pushed => Cardinality(AutoEvent!Pushed \cup {c}) = Cardinality(AutoEvent!Pushed) + 1
  <1>1. IsFiniteSet(AutoEvent!Pushed)
    BY EventsAssumption, FS_Subset DEF AutoEvent!Pushed
  <1>2. QED BY <1>1, FS_CardinalityType, FS_AddElement, FS_RemoveElement

LEMMA AutoInit == AutoEvent!Init => AutoInv
  <1> SUFFICES ASSUME AutoEvent!Init PROVE AutoInv
    OBVIOUS
  <1> USE EventsAssumption DEF AutoEvent!Init
  <1>1. AutoTypes
    <2>1. << >> \in Seq(AutoCoroutines)
      OBVIOUS
    <2>2. AutoEvent!TypeOK
      BY <2>1 DEF AutoEvent!TypeOK, AutoEvent!Labels, AutoEvent!LockLabels, AutoEvent!OutOfScope
    <2>3. QED BY <2>2 DEF AutoTypes, AutoEvent!Actors
  <1>2. Order = << >> /\ Len(Order) = 0
    BY DEF Order, Reverse
  <1>3. \A a \in AutoActors : toResume[a] = << >> /\ autoPc[a] = "running" /\ taken[a] = 0
    BY DEF AutoActors, AutoEvent!Actors
  <1>4. \A c \in AutoCoroutines : ~Listed(c)
    BY <1>2, <1>3, EmptyList DEF Listed
  <1>5. AutoLists
    BY <1>2, <1>3, <1>4, EmptyList DEF AutoLists, NotAwaiting, AutoActors
  <1>6. AutoLock
    BY <1>3 DEF AutoLock, LockHolds
  <1>7. Cardinality(AutoEvent!Pushed) = 0
    <2>1. AutoEvent!Pushed = {}
      BY <1>3 DEF AutoEvent!Pushed, AutoActors
    <2>2. QED BY <2>1, FS_EmptySet
  <1>8. AutoCounts
    BY <1>2, <1>3, <1>7 DEF AutoCounts, LockHolds
  <1>9. QED BY <1>1, <1>5, <1>6, <1>8 DEF AutoInv

(* set() and reset() that only count, and co_await up to the push.         *)
LEMMA AutoCalls ==
  ASSUME AutoInv, NEW a \in AutoActors,
         \/ a \in Setters /\ (AutoEvent!SetCounts(a) \/ AutoEvent!Reset(a))
         \/ a \in AutoCoroutines /\ (AutoEvent!CoAwait(a) \/ AutoEvent!AcquireSucceeds(a) \/ AutoEvent!AcquireFails(a))
  PROVE  AutoInv'
  <1> USE DEF AutoInv
  <1>1. AutoEvent!TypeOK
    BY DEF AutoTypes
  <1>2. /\ UNCHANGED <<waiterCount, m_newWaiters, m_waiters, m_refCount, batch, taken, toResume>>
        /\ autoPc[a] \in {"running", "acquire", "push"} /\ autoPc'[a] \in {"running", "acquire", "push"}
        /\ a \in Setters => autoPc'[a] = "running"
        /\ \A t \in AutoActors : t # a => autoPc'[t] = autoPc[t]
        /\ autoPc' \in [AutoActors -> AutoLabels]
    BY <1>1, AutoShape, EventsAssumption DEF AutoEvent!SetCounts, AutoEvent!Reset, AutoEvent!CoAwait, AutoEvent!AcquireSucceeds,
       AutoEvent!AcquireFails, AutoEvent!Goto, AutoEvent!resumer, AutoEvent!state, AutoLabels, NotAwaiting
  <1>3. /\ autoOldState' \in [AutoCoroutines -> Nat \X Nat]
        /\ \A c \in AutoCoroutines : c # a => autoOldState'[c] = autoOldState[c]
        /\ a \in AutoCoroutines /\ autoPc'[a] = "acquire" => autoOldState'[a][1] > autoOldState'[a][2]
    <2>1. autoOldState \in [AutoCoroutines -> Nat \X Nat]
      BY <1>1 DEF AutoEvent!TypeOK
    <2>2. CASE a \in Setters
      BY <2>1, <2>2, EventsAssumption DEF AutoEvent!SetCounts, AutoEvent!Reset
    <2>3. CASE a \in AutoCoroutines /\ AutoEvent!CoAwait(a)
      <3>1. \/ autoOldState'[a] = <<setCount, waiterCount>> /\ setCount > waiterCount
            \/ autoPc'[a] = "push" /\ autoOldState' = autoOldState
        BY <1>1, <2>1, <2>3, AutoShape DEF AutoEvent!CoAwait, AutoEvent!Goto, AutoEvent!state
      <3>2. autoOldState' = [autoOldState EXCEPT ![a] = <<setCount, waiterCount>>] \/ autoOldState' = autoOldState
        BY <2>3 DEF AutoEvent!CoAwait, AutoEvent!state
      <3>3. <<setCount, waiterCount>> \in Nat \X Nat
        BY <1>1, AutoShape
      <3>4. QED BY <2>1, <3>1, <3>2, <3>3
    <2>4. CASE a \in AutoCoroutines /\ (AutoEvent!AcquireSucceeds(a) \/ AutoEvent!AcquireFails(a))
      <3>1. autoOldState' = [autoOldState EXCEPT ![a] = <<0, 0>>] /\ autoPc'[a] # "acquire"
        BY <1>1, <2>4, AutoShape DEF AutoEvent!AcquireSucceeds, AutoEvent!AcquireFails, AutoEvent!Goto, AutoEvent!OutOfScope
      <3>2. <<0, 0>> \in Nat \X Nat
        OBVIOUS
      <3>3. QED BY <2>1, <3>1, <3>2
    <2>5. QED BY <2>2, <2>3, <2>4 DEF AutoActors
  <1>4. /\ setCount' \in Nat
        /\ setCount' > 0 /\ waiterCount > 0 <=> setCount > 0 /\ waiterCount > 0
        /\ setCount' >= setCount \/ setCount' >= waiterCount
    <2>1. CASE UNCHANGED setCount
      BY <1>1, <2>1, AutoShape
    <2>2. CASE a \in Setters /\ AutoEvent!SetCounts(a)
      BY <1>1, <2>2, AutoShape DEF AutoEvent!SetCounts
    <2>3. CASE a \in Setters /\ AutoEvent!Reset(a)
      BY <1>1, <2>3, AutoShape DEF AutoEvent!Reset
    <2>4. CASE a \in AutoCoroutines /\ AutoEvent!AcquireSucceeds(a)
      <3>1. setCount > waiterCount /\ setCount' = setCount - 1
        BY <2>4 DEF AutoEvent!AcquireSucceeds, AutoEvent!state, AutoTypes
      <3>2. QED BY <1>1, <3>1, AutoShape
    <2>5. QED BY <2>1, <2>2, <2>3, <2>4 DEF AutoEvent!CoAwait, AutoEvent!AcquireFails, AutoEvent!state
  <1>5. Order' = Order /\ AutoEvent!Pushed' = AutoEvent!Pushed /\ \A c \in AutoCoroutines : Listed(c)' <=> Listed(c)
    BY <1>2 DEF Order, AutoEvent!Pushed, Listed, AutoActors
  <1>6. \A t \in AutoActors : LockHolds(t)' <=> LockHolds(t)
    BY <1>2 DEF LockHolds
  <1>7. AutoTypes'
    BY <1>1, <1>2, <1>3, <1>4, AutoShape DEF AutoTypes, AutoEvent!TypeOK, AutoEvent!Labels, AutoEvent!LockLabels, AutoLabels,
       NotAwaiting, AutoActors
  <1>8. AutoLists'
    BY <1>2, <1>5 DEF AutoLists, NotAwaiting, AutoActors
  <1>9. AutoLock'
    BY <1>1, <1>2, <1>4, <1>6, AutoShape, SMTT(40) DEF AutoLock, LockHolds
  <1>10. AutoCounts'
    BY <1>2, <1>5, <1>6 DEF AutoCounts
  <1>11. QED BY <1>7, <1>8, <1>9, <1>10

(* await_suspend() queues its operation.                                   *)
LEMMA AutoPush ==
  ASSUME AutoInv, NEW c \in AutoCoroutines, AutoEvent!Push(c)
  PROVE  AutoInv'
  <1> USE DEF AutoInv
  <1>1. AutoEvent!TypeOK /\ c \in AutoActors
    BY DEF AutoTypes, AutoActors
  <1>2. /\ UNCHANGED <<setCount, waiterCount, m_waiters, autoOldState, batch, taken, toResume>>
        /\ autoPc[c] = "push" /\ autoPc' = [autoPc EXCEPT ![c] = "count"]
        /\ m_refCount' = [m_refCount EXCEPT ![c] = 2] /\ m_newWaiters' = Cons(c, m_newWaiters)
    BY AutoOperators DEF AutoEvent!Push, AutoEvent!Goto, AutoEvent!state, AutoEvent!resumer
  <1>3. /\ autoPc'[c] = "count" /\ \A t \in AutoActors : t # c => autoPc'[t] = autoPc[t]
        /\ autoPc' \in [AutoActors -> AutoLabels]
        /\ m_refCount'[c] = 2 /\ \A d \in AutoCoroutines : d # c => m_refCount'[d] = m_refCount[d]
        /\ m_refCount' \in [AutoCoroutines -> 0 .. 2]
        /\ m_newWaiters' \in Seq(AutoCoroutines)
    <2>1. m_refCount \in [AutoCoroutines -> 0 .. 2]
      BY <1>1 DEF AutoEvent!TypeOK
    <2>2. QED BY <1>1, <1>2, <2>1, AutoShape DEF AutoLabels, Cons
  <1>4. ~Listed(c) /\ c \notin ToSet(Order)
    BY <1>2 DEF AutoLists, Listed
  <1>5. Order' = Append(Order, c)
    <2>1. m_waiters \in Seq(AutoCoroutines) /\ m_newWaiters \in Seq(AutoCoroutines)
      BY <1>1, AutoShape
    <2>2. m_waiters \o Reverse(Cons(c, m_newWaiters)) = Append(m_waiters \o Reverse(m_newWaiters), c)
      BY <2>1, QueueOfTwo, SMTT(40)
    <2>3. QED BY <1>2, <2>2 DEF Order
  <1>6. IsInjective(Order') /\ ToSet(Order') = ToSet(Order) \cup {c} /\ Len(Order') = Len(Order) + 1
    BY <1>1, <1>4, <1>5, AutoShape, AppendDistinct DEF AutoLists
  <1>7. \A d \in AutoCoroutines : Listed(d)' <=> Listed(d) \/ d = c
    BY <1>2, <1>6 DEF Listed
  <1>8. Cardinality(AutoEvent!Pushed') = Cardinality(AutoEvent!Pushed) + 1
    <2>1. AutoEvent!Pushed' = AutoEvent!Pushed \cup {c} /\ c \notin AutoEvent!Pushed
      BY <1>1, <1>2, <1>3 DEF AutoEvent!Pushed, AutoActors
    <2>2. QED BY <2>1, AutoPushed
  <1>9. \A t \in AutoActors : LockHolds(t)' <=> LockHolds(t)
    BY <1>2, <1>3 DEF LockHolds
  <1>10. AutoTypes'
    BY <1>1, <1>2, <1>3, EventsAssumption DEF AutoTypes, AutoEvent!TypeOK, AutoEvent!Labels, AutoEvent!LockLabels, AutoLabels,
       NotAwaiting, AutoActors, AutoEvent!Actors
  <1>11. AutoLists'
    BY <1>2, <1>3, <1>4, <1>6, <1>7 DEF AutoLists, NotAwaiting, AutoActors, Listed
  <1>12. AutoLock'
    BY <1>2, <1>3, <1>9 DEF AutoLock, LockHolds
  <1>13. AutoCounts'
    <2>1. Cardinality(AutoEvent!Pushed) \in Nat /\ Len(Order) \in Nat /\ waiterCount \in Nat
      BY <1>1, AutoShape, AutoPushed
    <2>2. \A t \in AutoActors : taken[t] \in Nat
      BY <1>1, AutoShape
    <2>3. CASE \E t \in AutoActors : LockHolds(t)
      <3>1. ASSUME NEW t \in AutoActors, LockHolds(t)
            PROVE  Len(Order') + taken'[t] = waiterCount' + Cardinality(AutoEvent!Pushed')
        <4>1. Len(Order) + taken[t] = waiterCount + Cardinality(AutoEvent!Pushed)
          BY <3>1 DEF AutoCounts
        <4>2. QED BY <1>2, <1>6, <1>8, <2>1, <2>2, <4>1, SMTT(40)
      <3>2. QED BY <1>9, <2>3, <3>1 DEF AutoCounts
    <2>4. CASE \A t \in AutoActors : ~LockHolds(t)
      BY <1>2, <1>6, <1>8, <1>9, <2>1, <2>4 DEF AutoCounts
    <2>5. QED BY <2>3, <2>4
  <1>14. QED BY <1>10, <1>11, <1>12, <1>13

(* ... and counts itself, which may give it the lock.                      *)
LEMMA AutoCount ==
  ASSUME AutoInv, NEW c \in AutoCoroutines, AutoEvent!Count(c)
  PROVE  AutoInv'
  <1> USE DEF AutoInv
  <1>1. AutoEvent!TypeOK /\ c \in AutoActors
    BY DEF AutoTypes, AutoActors
  <1>2. /\ UNCHANGED <<setCount, m_newWaiters, m_waiters, autoOldState, m_refCount, toResume>>
        /\ waiterCount' = waiterCount + 1 /\ autoPc[c] = "count"
        /\ \A t \in AutoActors : t # c => autoPc'[t] = autoPc[t] /\ batch'[t] = batch[t] /\ taken'[t] = taken[t]
        /\ autoPc' \in [AutoActors -> AutoLabels] /\ batch' \in [AutoActors -> Nat] /\ taken' \in [AutoActors -> Nat]
        /\ taken'[c] = 0
        /\ \/ setCount > 0 /\ waiterCount = 0 /\ autoPc'[c] = "dequeue" /\ batch'[c] = 1
           \/ (setCount = 0 \/ waiterCount > 0) /\ autoPc'[c] = "unref"
    <2>1. autoPc[c] = "count" /\ taken[c] = 0
      BY <1>1 DEF AutoEvent!Count, AutoLock, LockHolds
    <2>2. CASE setCount > 0 /\ waiterCount = 0
      <3>1. AutoEvent!Resumable(setCount, 1) = 1
        BY <1>1, <2>2, AutoShape DEF AutoEvent!Resumable
      <3>2. AutoEvent!StartResuming(c, setCount, 1)
        BY <1>1, <2>2, AutoShape DEF AutoEvent!Count
      <3>3. QED BY <1>1, <2>1, <2>2, <3>1, <3>2, AutoShape DEF AutoEvent!Count, AutoEvent!StartResuming, AutoEvent!Goto, AutoLabels
    <2>3. CASE ~(setCount > 0 /\ waiterCount = 0)
      BY <1>1, <2>1, <2>3, AutoShape DEF AutoEvent!Count, AutoEvent!Goto, AutoEvent!resumer, AutoLabels
    <2>4. QED BY <2>2, <2>3
  <1>3. Order' = Order /\ \A d \in AutoCoroutines : Listed(d)' <=> Listed(d)
    BY <1>2 DEF Order, Listed
  <1>4. Cardinality(AutoEvent!Pushed') = Cardinality(AutoEvent!Pushed) - 1
    <2>1. AutoEvent!Pushed' = AutoEvent!Pushed \ {c} /\ c \in AutoEvent!Pushed
      BY <1>1, <1>2 DEF AutoEvent!Pushed, AutoActors
    <2>2. QED BY <2>1, AutoPushed
  <1>5. /\ \A t \in AutoActors : t # c => (LockHolds(t)' <=> LockHolds(t))
        /\ LockHolds(c)' <=> setCount > 0 /\ waiterCount = 0
        /\ ~LockHolds(c)
    BY <1>1, <1>2, AutoShape DEF LockHolds
  <1>6. AutoTypes'
    <2>1. waiterCount' \in Nat /\ c \notin Setters /\ autoPc'[c] # "acquire"
      BY <1>1, <1>2, EventsAssumption, AutoShape
    <2>2. AutoEvent!TypeOK'
      BY <1>1, <1>2, <2>1, AutoShape DEF AutoEvent!TypeOK, AutoEvent!Labels, AutoEvent!LockLabels, AutoLabels, NotAwaiting
    <2>3. QED BY <1>2, <2>1, <2>2 DEF AutoTypes, AutoActors
  <1>7. AutoLists'
    BY <1>2, <1>3 DEF AutoLists, NotAwaiting, AutoActors
  <1>8. AutoLock'
    <2>1. setCount \in Nat /\ waiterCount \in Nat /\ batch \in [AutoActors -> Nat]
      BY <1>1, AutoShape
    <2>2. CASE setCount > 0 /\ waiterCount = 0
      <3>1. \A t \in AutoActors : ~LockHolds(t)
        BY <2>1, <2>2 DEF AutoLock
      <3>2. \A t \in AutoActors : LockHolds(t)' <=> t = c
        BY <1>5, <2>2, <3>1
      <3>3. QED BY <1>1, <1>2, <2>1, <2>2, <3>1, <3>2 DEF AutoLock, LockHolds
    <2>3. CASE ~(setCount > 0 /\ waiterCount = 0)
      <3>1. autoPc'[c] = "unref" /\ \A t \in AutoActors : LockHolds(t)' <=> LockHolds(t)
        BY <1>2, <1>5, <2>1, <2>3
      <3>2. QED BY <1>1, <1>2, <1>5, <2>1, <2>3, <3>1 DEF AutoLock, LockHolds
    <2>4. QED BY <2>2, <2>3
  <1>9. AutoCounts'
    <2>1. /\ Cardinality(AutoEvent!Pushed) \in Nat /\ Len(Order) \in Nat
          /\ setCount \in Nat /\ waiterCount \in Nat /\ taken \in [AutoActors -> Nat]
      BY <1>1, AutoShape, AutoPushed
    <2>2. CASE setCount > 0 /\ waiterCount = 0
      <3>1. \A t \in AutoActors : ~LockHolds(t)
        BY <2>1, <2>2 DEF AutoLock
      <3>2. \A t \in AutoActors : LockHolds(t)' <=> t = c
        BY <1>5, <2>2, <3>1
      <3>3. QED BY <1>1, <1>2, <1>3, <1>4, <2>1, <3>1, <3>2 DEF AutoCounts
    <2>3. CASE ~(setCount > 0 /\ waiterCount = 0)
      <3>1. \A t \in AutoActors : (LockHolds(t)' <=> LockHolds(t)) /\ (LockHolds(t) => t # c)
        BY <1>5, <2>3
      <3>2. CASE \E t \in AutoActors : LockHolds(t)
        <4>1. ASSUME NEW t \in AutoActors, LockHolds(t)
              PROVE  Len(Order') + taken'[t] = waiterCount' + Cardinality(AutoEvent!Pushed')
          <5>1. Len(Order) + taken[t] = waiterCount + Cardinality(AutoEvent!Pushed)
            BY <4>1 DEF AutoCounts
          <5>2. taken'[t] = taken[t] /\ taken[t] \in Nat /\ Len(Order') = Len(Order)
            BY <1>2, <1>3, <2>1, <3>1, <4>1
          <5>3. QED BY <1>2, <1>4, <2>1, <5>1, <5>2
        <4>2. QED BY <3>1, <3>2, <4>1 DEF AutoCounts
      <3>3. CASE \A t \in AutoActors : ~LockHolds(t)
        BY <1>2, <1>3, <1>4, <2>1, <3>1, <3>3 DEF AutoCounts
      <3>4. QED BY <3>2, <3>3
    <2>4. QED BY <2>2, <2>3
  <1>10. QED BY <1>6, <1>7, <1>8, <1>9

(* set() acquires the lock.                                                *)
LEMMA AutoSetLocks ==
  ASSUME AutoInv, NEW s \in Setters, AutoEvent!SetLocks(s)
  PROVE  AutoInv'
  <1> USE DEF AutoInv
  <1>1. AutoEvent!TypeOK /\ s \in AutoActors /\ s \notin AutoCoroutines
    BY EventsAssumption DEF AutoTypes, AutoActors
  <1>2. /\ UNCHANGED <<waiterCount, m_newWaiters, m_waiters, autoOldState, m_refCount, toResume>>
        /\ setCount = 0 /\ setCount' = 1 /\ waiterCount > 0 /\ autoPc[s] = "running"
        /\ \A t \in AutoActors : t # s => autoPc'[t] = autoPc[t] /\ batch'[t] = batch[t] /\ taken'[t] = taken[t]
        /\ autoPc' \in [AutoActors -> AutoLabels] /\ batch' \in [AutoActors -> Nat] /\ taken' \in [AutoActors -> Nat]
        /\ taken'[s] = 0 /\ autoPc'[s] = "dequeue" /\ batch'[s] = 1
    <2>1. waiterCount > 0 => AutoEvent!Resumable(1, waiterCount) = 1
      BY <1>1, AutoShape DEF AutoEvent!Resumable
    <2>2. QED BY <1>1, <2>1, AutoShape DEF AutoEvent!SetLocks, AutoEvent!StartResuming, AutoEvent!Goto, AutoLabels
  <1>3. Order' = Order /\ AutoEvent!Pushed' = AutoEvent!Pushed /\ \A d \in AutoCoroutines : Listed(d)' <=> Listed(d)
    BY <1>1, <1>2 DEF Order, Listed, AutoEvent!Pushed, AutoActors
  <1>4. /\ \A t \in AutoActors : ~LockHolds(t) /\ (LockHolds(t)' <=> t = s)
    BY <1>1, <1>2, AutoShape DEF LockHolds, AutoLock
  <1>5. AutoTypes'
    <2>1. AutoEvent!TypeOK'
      BY <1>1, <1>2, AutoShape DEF AutoEvent!TypeOK, AutoEvent!Labels, AutoEvent!LockLabels, AutoLabels, NotAwaiting
    <2>2. QED BY <1>1, <1>2, <2>1 DEF AutoTypes, AutoActors
  <1>6. AutoLists'
    BY <1>1, <1>2, <1>3, SMTT(40) DEF AutoLists, NotAwaiting, AutoActors
  <1>7. AutoLock'
    BY <1>1, <1>2, <1>4, AutoShape DEF AutoLock, LockHolds
  <1>8. AutoCounts'
    BY <1>1, <1>2, <1>3, <1>4, AutoShape, AutoPushed DEF AutoCounts, AutoLock
  <1>9. QED BY <1>5, <1>6, <1>7, <1>8

(* The last reference decides whether await_suspend() suspends.            *)
LEMMA AutoUnref ==
  ASSUME AutoInv, NEW c \in AutoCoroutines, AutoEvent!Unref(c)
  PROVE  AutoInv'
  <1> USE DEF AutoInv
  <1>1. AutoEvent!TypeOK /\ c \in AutoActors
    BY DEF AutoTypes, AutoActors
  <1>2. /\ UNCHANGED <<setCount, waiterCount, m_newWaiters, m_waiters, autoOldState, batch, taken, toResume>>
        /\ autoPc[c] = "unref" /\ m_refCount' = [m_refCount EXCEPT ![c] = @ - 1]
        /\ autoPc' = [autoPc EXCEPT ![c] = IF m_refCount[c] = 1 THEN "running" ELSE "suspended"]
    BY DEF AutoEvent!Unref, AutoEvent!Goto, AutoEvent!state, AutoEvent!resumer
  <1>3. m_refCount[c] = (IF Listed(c) THEN 1 ELSE 0) + 1
    BY <1>2 DEF AutoLists, NotAwaiting
  <1>4. /\ autoPc'[c] = (IF Listed(c) THEN "suspended" ELSE "running")
        /\ \A t \in AutoActors : t # c => autoPc'[t] = autoPc[t]
        /\ autoPc' \in [AutoActors -> AutoLabels]
        /\ m_refCount'[c] = (IF Listed(c) THEN 1 ELSE 0)
        /\ \A d \in AutoCoroutines : d # c => m_refCount'[d] = m_refCount[d]
        /\ m_refCount' \in [AutoCoroutines -> 0 .. 2]
    <2>1. m_refCount \in [AutoCoroutines -> 0 .. 2]
      BY <1>1 DEF AutoEvent!TypeOK
    <2>2. QED BY <1>1, <1>2, <1>3, <2>1, AutoShape DEF AutoLabels, NotAwaiting
  <1>5. Order' = Order /\ AutoEvent!Pushed' = AutoEvent!Pushed /\ \A d \in AutoCoroutines : Listed(d)' <=> Listed(d)
    BY <1>2, <1>4 DEF Order, AutoEvent!Pushed, Listed, AutoActors
  <1>6. \A t \in AutoActors : LockHolds(t)' <=> LockHolds(t)
    BY <1>2, <1>4 DEF LockHolds
  <1>7. AutoTypes'
    BY <1>1, <1>2, <1>4, EventsAssumption, AutoShape DEF AutoTypes, AutoEvent!TypeOK, AutoEvent!Labels, AutoEvent!LockLabels,
       AutoLabels, NotAwaiting, AutoActors
  <1>8. AutoLists'
    BY <1>2, <1>4, <1>5 DEF AutoLists, NotAwaiting, AutoActors
  <1>9. AutoLock'
    BY <1>2, <1>4, <1>6 DEF AutoLock, LockHolds
  <1>10. AutoCounts'
    BY <1>2, <1>5, <1>6 DEF AutoCounts
  <1>11. QED BY <1>7, <1>8, <1>9, <1>10

(* resume_waiters() returns.                                               *)
LEMMA AutoResumeEnds ==
  ASSUME AutoInv, NEW a \in AutoActors, AutoEvent!ResumeEnds(a)
  PROVE  AutoInv'
  <1> USE DEF AutoInv
  <1>1. AutoEvent!TypeOK
    BY DEF AutoTypes
  <1>2. /\ UNCHANGED <<setCount, waiterCount, m_newWaiters, m_waiters, m_refCount, autoOldState, batch, taken, toResume>>
        /\ autoPc[a] = "resume" /\ toResume[a] = << >>
        /\ autoPc'[a] = (IF a \in AutoCoroutines THEN "unref" ELSE "running")
        /\ \A t \in AutoActors : t # a => autoPc'[t] = autoPc[t]
        /\ autoPc' \in [AutoActors -> AutoLabels]
    BY <1>1, AutoShape DEF AutoEvent!ResumeEnds, AutoEvent!Afterwards, AutoEvent!Goto, AutoEvent!state, AutoEvent!resumer,
       AutoLabels, NotAwaiting
  <1>3. Order' = Order /\ AutoEvent!Pushed' = AutoEvent!Pushed /\ \A d \in AutoCoroutines : Listed(d)' <=> Listed(d)
    BY <1>2 DEF Order, AutoEvent!Pushed, Listed, AutoActors
  <1>4. \A t \in AutoActors : LockHolds(t)' <=> LockHolds(t)
    BY <1>2 DEF LockHolds
  <1>5. AutoTypes'
    <2>1. AutoEvent!TypeOK'
      BY <1>1, <1>2, AutoShape DEF AutoEvent!TypeOK, AutoEvent!Labels, AutoEvent!LockLabels, AutoLabels, NotAwaiting
    <2>2. autoPc'[a] # "acquire" /\ (a \in Setters => autoPc'[a] = "running")
      BY <1>2, EventsAssumption
    <2>3. QED BY <1>2, <2>1, <2>2 DEF AutoTypes, AutoActors
  <1>6. AutoLists'
    BY <1>2, <1>3 DEF AutoLists, NotAwaiting, AutoActors
  <1>7. AutoLock'
    BY <1>2, <1>4 DEF AutoLock, LockHolds
  <1>8. AutoCounts'
    BY <1>2, <1>3, <1>4 DEF AutoCounts
  <1>9. QED BY <1>5, <1>6, <1>7, <1>8

(* The batch is subtracted from both counts, which gives the lock back or  *)
(* takes on the next batch.                                                *)
LEMMA AutoRelease ==
  ASSUME AutoInv, NEW a \in AutoActors, AutoEvent!Release(a)
  PROVE  AutoInv'
  <1> USE DEF AutoInv
  <1>1. AutoEvent!TypeOK
    BY DEF AutoTypes
  <1> DEFINE sets == setCount - batch[a]
             rest == waiterCount - batch[a]
  <1>2. /\ setCount \in Nat /\ waiterCount \in Nat /\ batch[a] \in Nat /\ taken[a] = batch[a]
        /\ LockHolds(a) /\ autoPc[a] = "release"
        /\ sets \in Nat /\ rest \in Nat
    <2>1. autoPc[a] = "release"
      BY DEF AutoEvent!Release
    <2>2. LockHolds(a) /\ taken[a] = batch[a] /\ batch[a] <= setCount /\ batch[a] <= waiterCount
      BY <2>1 DEF AutoLock, LockHolds
    <2>3. QED BY <1>1, <2>1, <2>2, AutoShape
  <1>3. /\ UNCHANGED <<m_newWaiters, m_waiters, m_refCount, autoOldState, toResume>>
        /\ setCount' = sets /\ waiterCount' = rest
        /\ \A t \in AutoActors : t # a => autoPc'[t] = autoPc[t] /\ batch'[t] = batch[t] /\ taken'[t] = taken[t]
        /\ autoPc' \in [AutoActors -> AutoLabels] /\ batch' \in [AutoActors -> Nat] /\ taken' \in [AutoActors -> Nat]
        /\ taken'[a] = 0
        /\ \/ sets > 0 /\ rest > 0 /\ autoPc'[a] = "dequeue" /\ batch'[a] > 0 /\ batch'[a] <= sets /\ batch'[a] <= rest
           \/ ~(sets > 0 /\ rest > 0) /\ autoPc'[a] = "resume"
    <2>1. CASE AutoEvent!Resumable(sets, rest) > 0 /\ AutoEvent!StartResuming(a, sets, rest)
      <3>1. sets > 0 /\ rest > 0 /\ AutoEvent!Resumable(sets, rest) \in Nat
            /\ AutoEvent!Resumable(sets, rest) <= sets /\ AutoEvent!Resumable(sets, rest) <= rest
        BY <1>2, <2>1 DEF AutoEvent!Resumable
      <3>2. QED BY <1>1, <2>1, <3>1, AutoShape DEF AutoEvent!Release, AutoEvent!StartResuming, AutoEvent!Goto, AutoLabels
    <2>2. CASE AutoEvent!Resumable(sets, rest) = 0 /\ AutoEvent!StopResuming(a)
      <3>1. ~(sets > 0 /\ rest > 0)
        BY <1>2, <2>2 DEF AutoEvent!Resumable
      <3>2. QED BY <1>1, <2>2, <3>1, AutoShape DEF AutoEvent!Release, AutoEvent!StopResuming, AutoEvent!Goto, AutoLabels
    <2>3. QED BY <2>1, <2>2 DEF AutoEvent!Release
  <1> HIDE DEF sets, rest
  <1>4. Order' = Order /\ AutoEvent!Pushed' = AutoEvent!Pushed /\ \A d \in AutoCoroutines : Listed(d)' <=> Listed(d)
    BY <1>2, <1>3 DEF Order, AutoEvent!Pushed, Listed, AutoActors
  <1>5. \A t \in AutoActors : (LockHolds(t) <=> t = a) /\ (LockHolds(t)' <=> t = a /\ sets > 0 /\ rest > 0)
    BY <1>2, <1>3 DEF LockHolds, AutoLock
  <1>6. AutoTypes'
    <2>1. autoPc'[a] \in {"dequeue", "resume"}
      BY <1>3
    <2>2. AutoEvent!TypeOK'
      BY <1>1, <1>2, <1>3, AutoShape DEF AutoEvent!TypeOK, AutoEvent!Labels, AutoEvent!LockLabels, AutoLabels, NotAwaiting
    <2>3. QED BY <1>3, <2>1, <2>2 DEF AutoTypes, AutoActors
  <1>7. AutoLists'
    BY <1>2, <1>3, <1>4, ZenonT(40) DEF AutoLists, NotAwaiting, AutoActors
  <1>8. AutoLock'
    <2>1. CASE sets > 0 /\ rest > 0
      BY <1>2, <1>3, <1>5, <2>1 DEF AutoLock, LockHolds
    <2>2. CASE ~(sets > 0 /\ rest > 0)
      BY <1>2, <1>3, <1>5, <2>2 DEF AutoLock, LockHolds
    <2>3. QED BY <2>1, <2>2
  <1>9. AutoCounts'
    <2>1. Len(Order) + batch[a] = waiterCount + Cardinality(AutoEvent!Pushed)
      BY <1>2 DEF AutoCounts
    <2>2. Cardinality(AutoEvent!Pushed) \in Nat /\ Len(Order) \in Nat
      BY <1>1, AutoShape, AutoPushed
    <2>3. Len(Order) = rest + Cardinality(AutoEvent!Pushed)
      BY <1>2, <2>1, <2>2 DEF rest
    <2>4. QED BY <1>2, <1>3, <1>4, <1>5, <2>2, <2>3 DEF AutoCounts
  <1>10. QED BY <1>6, <1>7, <1>8, <1>9

(* Dequeueing takes the oldest waiter, from m_newWaiters too.              *)
LEMMA AutoTakesOldest ==
  ASSUME AutoEvent!TypeOK, NEW a \in AutoActors, AutoEvent!Dequeue(a)
  PROVE  /\ UNCHANGED <<setCount, waiterCount, m_refCount, autoOldState, batch>>
         /\ m_newWaiters' \in Seq(AutoCoroutines) /\ m_waiters' \in Seq(AutoCoroutines)
         /\ Order # << >> /\ Order' = Tail(Order) /\ Head(Order) \in AutoCoroutines
         /\ toResume' = [toResume EXCEPT ![a] = Append(@, Head(Order))]
  <1>1. m_waiters \in Seq(AutoCoroutines) /\ m_newWaiters \in Seq(AutoCoroutines)
    BY AutoShape
  <1> DEFINE r == IF m_waiters = << >> THEN Reverse(m_newWaiters) ELSE m_waiters
             m == IF m_waiters = << >> THEN << >> ELSE m_newWaiters
  <1>2. r = AutoEvent!Refilled
    BY AutoOperators DEF AutoEvent!Refilled
  <1>3. /\ r # << >> /\ m_newWaiters' = m /\ m_waiters' = Tail(r)
        /\ toResume' = [toResume EXCEPT ![a] = Append(@, Head(r))]
        /\ UNCHANGED <<setCount, waiterCount, m_refCount, autoOldState, batch>>
    BY <1>2 DEF AutoEvent!Dequeue, AutoEvent!state
  <1> HIDE DEF r, m
  <1>4. /\ Order # << >> /\ Head(Order) = Head(r) /\ Head(r) \in AutoCoroutines
        /\ Tail(r) \in Seq(AutoCoroutines) /\ m \in Seq(AutoCoroutines)
        /\ Tail(r) \o Reverse(m) = Tail(Order)
    <2>1. r \in Seq(AutoCoroutines)
      BY <1>1, ReverseType DEF r
    <2>2. CASE m_waiters = << >>
      <3>1. r = Reverse(m_newWaiters) /\ m = << >> /\ Order = r /\ Tail(r) \o Reverse(m) = Tail(Order)
        BY <1>1, <2>2, QueueTakes DEF r, m, Order
      <3>2. QED BY <1>3, <2>1, <3>1, EmptyList
    <2>3. CASE m_waiters # << >>
      <3>1. r = m_waiters /\ m = m_newWaiters
        BY <2>3 DEF r, m
      <3>2. QED BY <1>1, <2>1, <2>3, <3>1, QueueTakes DEF Order
    <2>4. QED BY <2>2, <2>3
  <1>5. Order' = Tail(Order)
    BY <1>3, <1>4 DEF Order
  <1>6. QED BY <1>3, <1>4, <1>5

(* The holder of the lock moves the oldest waiter to its own list.         *)
LEMMA AutoDequeue ==
  ASSUME AutoInv, NEW a \in AutoActors, AutoEvent!Dequeue(a)
  PROVE  AutoInv'
  <1> USE DEF AutoInv
  <1>1. AutoEvent!TypeOK
    BY DEF AutoTypes
  <1> DEFINE h == Head(Order)
  <1>2. /\ UNCHANGED <<setCount, waiterCount, m_refCount, autoOldState, batch>>
        /\ m_newWaiters' \in Seq(AutoCoroutines) /\ m_waiters' \in Seq(AutoCoroutines)
        /\ Order # << >> /\ Order' = Tail(Order) /\ h \in AutoCoroutines
        /\ toResume' = [toResume EXCEPT ![a] = Append(@, h)]
    BY <1>1, AutoTakesOldest
  <1>3. /\ IsInjective(Order') /\ ToSet(Order') = ToSet(Order) \ {h} /\ h \in ToSet(Order)
        /\ Len(Order') = Len(Order) - 1
    <2>1. Order \in Seq(AutoCoroutines) /\ IsInjective(Order)
      BY <1>1, AutoShape DEF AutoLists
    <2>2. QED BY <1>2, <2>1, TailDistinct
  <1> HIDE DEF h
  <1>4. \A t \in AutoActors : h \notin ToSet(toResume[t])
    BY <1>2, <1>3 DEF AutoLists
  <1>5. /\ IsInjective(toResume'[a]) /\ ToSet(toResume'[a]) = ToSet(toResume[a]) \cup {h}
        /\ \A t \in AutoActors : t # a => toResume'[t] = toResume[t]
        /\ toResume' \in [AutoActors -> Seq(AutoCoroutines)]
    <2>1. toResume \in [AutoActors -> Seq(AutoCoroutines)] /\ toResume[a] \in Seq(AutoCoroutines)
      BY <1>1, AutoShape
    <2>2. IsInjective(toResume[a])
      BY DEF AutoLists
    <2>3. IsInjective(Append(toResume[a], h)) /\ ToSet(Append(toResume[a], h)) = ToSet(toResume[a]) \cup {h}
      BY <1>2, <1>4, <2>1, <2>2, AppendDistinct
    <2>4. QED BY <1>2, <2>1, <2>3
  <1>6. /\ autoPc[a] = "dequeue" /\ taken'[a] = taken[a] + 1
        /\ autoPc'[a] = (IF taken[a] + 1 = batch[a] THEN "release" ELSE "dequeue")
        /\ \A t \in AutoActors : t # a => autoPc'[t] = autoPc[t] /\ taken'[t] = taken[t]
        /\ autoPc' \in [AutoActors -> AutoLabels] /\ taken' \in [AutoActors -> Nat]
    BY <1>1, AutoShape DEF AutoEvent!Dequeue, AutoEvent!Goto, AutoLabels
  <1>7. \A d \in AutoCoroutines : Listed(d)' <=> Listed(d)
    BY <1>3, <1>5 DEF Listed
  <1>8. AutoEvent!Pushed' = AutoEvent!Pushed
    BY <1>6 DEF AutoEvent!Pushed, AutoActors
  <1>9. \A t \in AutoActors : (LockHolds(t)' <=> LockHolds(t)) /\ (LockHolds(t) <=> t = a)
    BY <1>6 DEF LockHolds, AutoLock
  <1>10. AutoTypes'
    <2>1. autoPc'[a] \in {"dequeue", "release"}
      BY <1>6
    <2>2. AutoEvent!TypeOK'
      BY <1>1, <1>2, <1>5, <1>6, AutoShape DEF AutoEvent!TypeOK, AutoEvent!Labels, AutoEvent!LockLabels, AutoLabels, NotAwaiting
    <2>3. QED BY <1>2, <1>6, <2>1, <2>2 DEF AutoTypes, AutoActors
  <1>11. AutoLists'
    <2>1. \A t \in AutoActors :
            /\ IsInjective(toResume'[t])
            /\ toResume'[t] # << >> => autoPc'[t] \in {"dequeue", "release", "resume"}
      BY <1>5, <1>6 DEF AutoLists
    <2>2. ASSUME NEW t \in AutoActors, NEW c \in AutoCoroutines, c \in ToSet(toResume'[t])
          PROVE  c \notin ToSet(Order') /\ \A b \in AutoActors : c \in ToSet(toResume'[b]) => t = b
      <3>1. CASE c = h
        BY <1>3, <1>4, <1>5, <2>2, <3>1
      <3>2. CASE c # h
        <4>1. \A b \in AutoActors : c \in ToSet(toResume'[b]) <=> c \in ToSet(toResume[b])
          BY <1>5, <3>2
        <4>2. QED BY <1>3, <2>2, <4>1 DEF AutoLists
      <3>3. QED BY <3>1, <3>2
    <2>3. ASSUME NEW c \in AutoCoroutines
          PROVE  /\ autoPc'[c] \in {"running", "acquire", "push"} => ~Listed(c)'
                 /\ autoPc'[c] = "suspended" => Listed(c)'
                 /\ m_refCount'[c] = (IF Listed(c)' THEN 1 ELSE 0) + (IF autoPc'[c] \in NotAwaiting THEN 0 ELSE 1)
      BY <1>2, <1>6, <1>7 DEF AutoLists, NotAwaiting, AutoActors
    <2>4. QED BY <1>3, <2>1, <2>2, <2>3 DEF AutoLists
  <1>12. AutoLock'
    <2>1. taken[a] \in Nat /\ batch[a] \in Nat /\ taken[a] < batch[a]
      BY <1>1, <1>6, AutoShape DEF AutoLock
    <2>2. autoPc'[a] = "dequeue" => taken'[a] < batch[a]
      BY <1>6, <2>1
    <2>3. autoPc'[a] = "release" => taken'[a] = batch[a]
      BY <1>6
    <2>4. ASSUME NEW t \in AutoActors
          PROVE  /\ LockHolds(t)' => batch'[t] > 0 /\ batch'[t] <= setCount' /\ batch'[t] <= waiterCount'
                 /\ autoPc'[t] = "dequeue" => taken'[t] < batch'[t]
                 /\ autoPc'[t] = "release" => taken'[t] = batch'[t]
                 /\ ~LockHolds(t)' => taken'[t] = 0
      <3>1. CASE t = a
        BY <1>2, <1>9, <2>2, <2>3, <3>1 DEF AutoLock
      <3>2. CASE t # a
        BY <1>2, <1>6, <1>9, <3>2 DEF AutoLock
      <3>3. QED BY <3>1, <3>2
    <2>5. QED BY <1>2, <1>9, <2>4 DEF AutoLock
  <1>13. AutoCounts'
    <2>1. Cardinality(AutoEvent!Pushed) \in Nat /\ Len(Order) \in Nat /\ waiterCount \in Nat /\ taken[a] \in Nat
      BY <1>1, AutoShape, AutoPushed
    <2>2. Len(Order) + taken[a] = waiterCount + Cardinality(AutoEvent!Pushed)
      BY <1>9 DEF AutoCounts
    <2>3. QED BY <1>2, <1>3, <1>6, <1>8, <1>9, <2>1, <2>2, SMTT(40) DEF AutoCounts
  <1>14. QED BY <1>10, <1>11, <1>12, <1>13

(* A waiter is resumed, or its await_suspend() is told not to suspend.     *)
LEMMA AutoResume ==
  ASSUME AutoInv, NEW a \in AutoActors, AutoEvent!Resume(a)
  PROVE  AutoInv'
  <1> USE DEF AutoInv
  <1>1. AutoEvent!TypeOK
    BY DEF AutoTypes
  <1> DEFINE h == Head(toResume[a])
  <1>2. /\ UNCHANGED <<setCount, waiterCount, m_newWaiters, m_waiters, autoOldState, batch, taken>>
        /\ autoPc[a] = "resume" /\ toResume[a] # << >>
        /\ m_refCount' = [m_refCount EXCEPT ![h] = @ - 1]
        /\ autoPc' = (IF m_refCount[h] = 1 THEN [autoPc EXCEPT ![h] = "running"] ELSE autoPc)
        /\ toResume' = [toResume EXCEPT ![a] = Tail(@)]
    BY DEF AutoEvent!Resume, AutoEvent!state
  <1>3. /\ IsInjective(toResume'[a]) /\ ToSet(toResume'[a]) = ToSet(toResume[a]) \ {h}
        /\ h \in ToSet(toResume[a]) /\ h \in AutoCoroutines /\ h \in AutoActors
        /\ \A t \in AutoActors : t # a => toResume'[t] = toResume[t]
        /\ toResume' \in [AutoActors -> Seq(AutoCoroutines)]
    <2>1. toResume \in [AutoActors -> Seq(AutoCoroutines)] /\ toResume[a] \in Seq(AutoCoroutines)
      BY <1>1, AutoShape
    <2>2. IsInjective(toResume[a])
      BY DEF AutoLists
    <2>3. /\ IsInjective(Tail(toResume[a])) /\ ToSet(Tail(toResume[a])) = ToSet(toResume[a]) \ {h}
          /\ h \in ToSet(toResume[a])
      BY <1>2, <2>1, <2>2, TailDistinct
    <2>4. h \in AutoCoroutines
      BY <1>2, <2>1
    <2>5. QED BY <1>2, <2>1, <2>3, <2>4 DEF AutoActors
  <1> HIDE DEF h
  <1>4. /\ Listed(h) /\ h \notin ToSet(Order) /\ \A t \in AutoActors : h \in ToSet(toResume[t]) => t = a
    BY <1>3 DEF AutoLists, Listed
  <1>5. \A d \in AutoCoroutines : Listed(d)' <=> Listed(d) /\ d # h
    <2>1. Order' = Order
      BY <1>2 DEF Order
    <2>2. QED BY <1>3, <1>4, <2>1 DEF Listed
  <1>6. /\ m_refCount[h] = 1 + (IF autoPc[h] \in NotAwaiting THEN 0 ELSE 1)
        /\ m_refCount[h] = 1 <=> autoPc[h] = "suspended"
    BY <1>3, <1>4 DEF AutoLists, NotAwaiting
  <1>7. /\ autoPc'[h] = (IF autoPc[h] = "suspended" THEN "running" ELSE autoPc[h])
        /\ \A t \in AutoActors : t # h => autoPc'[t] = autoPc[t]
        /\ autoPc' \in [AutoActors -> AutoLabels]
        /\ m_refCount'[h] = m_refCount[h] - 1
        /\ \A d \in AutoCoroutines : d # h => m_refCount'[d] = m_refCount[d]
        /\ m_refCount' \in [AutoCoroutines -> 0 .. 2]
    <2>1. m_refCount \in [AutoCoroutines -> 0 .. 2]
      BY <1>1 DEF AutoEvent!TypeOK
    <2>2. QED BY <1>1, <1>2, <1>3, <1>6, <2>1, AutoShape, SMTT(40) DEF AutoLabels, NotAwaiting
  <1>8. Order' = Order /\ AutoEvent!Pushed' = AutoEvent!Pushed
    BY <1>2, <1>7 DEF Order, AutoEvent!Pushed, AutoActors
  <1>9. \A t \in AutoActors : LockHolds(t)' <=> LockHolds(t)
    BY <1>7 DEF LockHolds
  <1>10. AutoTypes'
    <2>1. AutoEvent!TypeOK'
      BY <1>1, <1>2, <1>3, <1>7, AutoShape DEF AutoEvent!TypeOK, AutoEvent!Labels, AutoEvent!LockLabels, AutoLabels, NotAwaiting
    <2>2. QED BY <1>2, <1>3, <1>7, <2>1, EventsAssumption DEF AutoTypes, AutoActors
  <1>11. AutoLists'
    <2>1. \A t \in AutoActors :
            /\ IsInjective(toResume'[t])
            /\ toResume'[t] # << >> => autoPc'[t] \in {"dequeue", "release", "resume"}
      <3>1. \A t \in AutoActors : t # h \/ autoPc[t] # "suspended" => autoPc'[t] = autoPc[t]
        BY <1>7
      <3>2. \A t \in AutoActors : autoPc[t] = "suspended" => toResume'[t] = << >>
        BY <1>2, <1>3 DEF AutoLists
      <3>3. QED BY <1>2, <1>3, <3>1, <3>2 DEF AutoLists
    <2>2. ASSUME NEW t \in AutoActors, NEW c \in AutoCoroutines, c \in ToSet(toResume'[t])
          PROVE  c \notin ToSet(Order') /\ \A b \in AutoActors : c \in ToSet(toResume'[b]) => t = b
      BY <1>3, <1>8, <2>2 DEF AutoLists
    <2>3. ASSUME NEW c \in AutoCoroutines
          PROVE  /\ autoPc'[c] \in {"running", "acquire", "push"} => ~Listed(c)'
                 /\ autoPc'[c] = "suspended" => Listed(c)'
                 /\ m_refCount'[c] = (IF Listed(c)' THEN 1 ELSE 0) + (IF autoPc'[c] \in NotAwaiting THEN 0 ELSE 1)
      <3>1. CASE c = h
        BY <1>3, <1>4, <1>5, <1>6, <1>7, <3>1 DEF AutoLists, NotAwaiting, AutoActors
      <3>2. CASE c # h
        BY <1>5, <1>7, <3>2 DEF AutoLists, NotAwaiting, AutoActors
      <3>3. QED BY <3>1, <3>2
    <2>4. QED BY <1>8, <2>1, <2>2, <2>3 DEF AutoLists
  <1>12. AutoLock'
    BY <1>2, <1>7, <1>9 DEF AutoLock, LockHolds
  <1>13. AutoCounts'
    BY <1>2, <1>8, <1>9 DEF AutoCounts
  <1>14. QED BY <1>10, <1>11, <1>12, <1>13

LEMMA AutoFrame ==
  ASSUME [MCNext]_<<chosen, eventVars, cancellationVars, vars>>
  PROVE  [AutoEvent!Next]_autoVars
  BY DEF MCNext, EventNext, AutoReset, eventVars

LEMMA AutoStep == AutoInv /\ [AutoEvent!Next]_autoVars => AutoInv'
  <1> SUFFICES ASSUME AutoInv, [AutoEvent!Next]_autoVars PROVE AutoInv'
    OBVIOUS
  <1>1. ASSUME UNCHANGED autoVars PROVE AutoInv'
    <2>1. Order' = Order /\ AutoEvent!Pushed' = AutoEvent!Pushed
      BY <1>1 DEF autoVars, Order, AutoEvent!Pushed
    <2>2. \A c \in AutoCoroutines : Listed(c)' <=> Listed(c)
      BY <1>1, <2>1 DEF autoVars, Listed
    <2>3. \A a \in AutoActors : LockHolds(a)' <=> LockHolds(a)
      BY <1>1 DEF autoVars, LockHolds
    <2>4. AutoTypes' /\ AutoLists'
      BY <1>1, <2>1, <2>2 DEF autoVars, AutoInv, AutoTypes, AutoEvent!TypeOK, AutoLists
    <2>5. AutoLock' /\ AutoCounts'
      BY <1>1, <2>1, <2>3 DEF autoVars, AutoInv, AutoLock, AutoCounts
    <2>6. QED BY <2>4, <2>5 DEF AutoInv
  <1>2. ASSUME NEW s \in Setters, AutoEvent!Set(s) \/ AutoEvent!Reset(s) PROVE AutoInv'
    <2>1. s \in AutoActors
      BY DEF AutoActors
    <2>2. CASE AutoEvent!SetIsNoOp(s)
      BY <1>1, <2>2 DEF AutoEvent!SetIsNoOp, AutoEvent!vars, AutoEvent!state, AutoEvent!resumer, autoVars
    <2>3. QED BY <1>2, <2>1, <2>2, AutoCalls, AutoSetLocks DEF AutoEvent!Set
  <1>3. ASSUME NEW c \in AutoCoroutines,
               \/ AutoEvent!CoAwait(c) \/ AutoEvent!AcquireSucceeds(c) \/ AutoEvent!AcquireFails(c)
               \/ AutoEvent!AwaitSuspend(c)
        PROVE  AutoInv'
    <2>1. c \in AutoActors
      BY DEF AutoActors
    <2>2. QED BY <1>3, <2>1, AutoCalls, AutoPush, AutoCount, AutoUnref DEF AutoEvent!AwaitSuspend
  <1>4. ASSUME NEW a \in AutoActors, AutoEvent!ResumeWaiters(a) PROVE AutoInv'
    BY <1>4, AutoDequeue, AutoRelease, AutoResume, AutoResumeEnds DEF AutoEvent!ResumeWaiters
  <1>5. QED BY <1>1, <1>2, <1>3, <1>4 DEF AutoEvent!Next, AutoEvent!Actors, AutoActors

LEMMA AutoInvSuffices == AutoInv => AutoResetSafe
  <1> SUFFICES ASSUME AutoInv PROVE AutoResetSafe
    OBVIOUS
  <1> USE DEF AutoInv
  <1>1. AutoEvent!TypeOK
    BY DEF AutoTypes
  <1>2. \A a : a \in AutoEvent!LockHolders <=> a \in AutoActors /\ LockHolds(a)
    BY DEF AutoEvent!LockHolders, AutoEvent!LockLabels, AutoEvent!Actors, AutoActors, LockHolds
  <1>3. /\ ToSet(Order) = ToSet(m_waiters) \cup ToSet(m_newWaiters)
        /\ Len(Order) = Len(m_waiters) + Len(m_newWaiters)
    <2>1. m_waiters \in Seq(AutoCoroutines) /\ m_newWaiters \in Seq(AutoCoroutines)
      BY <1>1, AutoShape
    <2>2. QED BY <2>1, QueueOfTwo DEF Order
  <1>4. AutoEvent!Queued = ToSet(Order)
    BY <1>3, AutoOperators DEF AutoEvent!Queued
  <1>5. \A c : c \in AutoEvent!Released <=> \E a \in AutoActors : c \in ToSet(toResume[a])
    BY AutoOperators DEF AutoEvent!Released, AutoEvent!Actors, AutoActors
  <1>6. AutoEvent!LockIsExclusive
    BY <1>2 DEF AutoEvent!LockIsExclusive, AutoLock
  <1>7. AutoEvent!DequeueFindsWaiter
    <2>1. ASSUME NEW a \in AutoActors, LockHolds(a)
          PROVE  batch[a] - taken[a] <= Len(Order)
      <3>1. Len(Order) + taken[a] = waiterCount + Cardinality(AutoEvent!Pushed) /\ batch[a] <= waiterCount
        BY <2>1 DEF AutoCounts, AutoLock
      <3>2. Cardinality(AutoEvent!Pushed) \in Nat /\ Len(Order) \in Nat /\ waiterCount \in Nat
            /\ taken[a] \in Nat /\ batch[a] \in Nat
        BY <1>1, AutoShape, AutoPushed
      <3>3. QED BY <3>1, <3>2
    <2>2. QED BY <1>2, <1>3, <2>1 DEF AutoEvent!DequeueFindsWaiter
  <1>8. \A a \in AutoActors : ToSet(toResume[a]) \subseteq AutoCoroutines
    <2>1. ASSUME NEW a \in AutoActors PROVE ToSet(toResume[a]) \subseteq AutoCoroutines
      <3>1. toResume[a] \in Seq(AutoCoroutines)
        BY <1>1, AutoShape
      <3>2. QED BY <3>1 DEF ToSet
    <2>2. QED BY <2>1
  <1>9. AutoEvent!OneReferencePerList
    <2>1. \A c : ~(c \in AutoEvent!Queued /\ c \in AutoEvent!Released)
      BY <1>4, <1>5, <1>8 DEF AutoLists
    <2>2. AutoEvent!Queued \cap AutoEvent!Released = {}
      BY <2>1
    <2>3. \A c \in AutoCoroutines : c \in AutoEvent!Queued \cup AutoEvent!Released <=> Listed(c)
      BY <1>4, <1>5 DEF Listed
    <2>4. QED BY <2>2, <2>3 DEF AutoEvent!OneReferencePerList, AutoLists, NotAwaiting
  <1>10. AutoEvent!SetMeansNoWaiter
    <2>1. SUFFICES ASSUME AutoEvent!LockHolders = {}, AutoEvent!Pushed = {}, setCount > 0
                   PROVE  AutoEvent!Queued = {}
      BY DEF AutoEvent!SetMeansNoWaiter
    <2>2. \A a \in AutoActors : ~LockHolds(a)
      BY <1>2, <2>1
    <2>3. waiterCount = 0 /\ Cardinality(AutoEvent!Pushed) = 0
      BY <1>1, <2>1, <2>2, AutoShape, FS_EmptySet DEF AutoLock
    <2>4. Order \in Seq(AutoCoroutines) /\ Len(Order) = 0
      BY <1>1, <2>2, <2>3, AutoShape DEF AutoCounts
    <2>5. Order = << >>
      BY <2>4
    <2>6. QED BY <1>4, <2>5, EmptyList
  <1>11. QED BY <1>1, <1>6, <1>7, <1>9, <1>10 DEF AutoResetSafe

(* One actor at a time resumes waiters and finds those it took on; none is *)
(* lost, released twice or resumed while its await_suspend() runs; and an  *)
(* event that is set has nobody waiting.                                   *)
THEOREM AutoResetIsSafe == MCSpec => []AutoResetSafe
  <1>1. MCInit => AutoInv
    BY AutoInit DEF MCInit
  <1>2. AutoInv /\ [MCNext]_<<chosen, eventVars, cancellationVars, vars>> => AutoInv'
    BY AutoFrame, AutoStep
  <1>3. QED BY <1>1, <1>2, AutoInvSuffices, PTL DEF MCSpec

(* "Reverse order of new waiters so they are resumed in FIFO": a waiter is *)
(* appended to the queue or the oldest one leaves it, in every step.       *)
THEOREM AutoResetIsFifo == MCSpec => AutoEvent!WaitersAreFifo
  <1> DEFINE Fifo == \/ AutoEvent!WaitOrder' = AutoEvent!WaitOrder
                     \/ \E c \in AutoCoroutines : \/ AutoEvent!WaitOrder' = Append(AutoEvent!WaitOrder, c)
                                                  \/ AutoEvent!WaitOrder = AutoEvent!Cons(c, AutoEvent!WaitOrder')
  <1>1. AutoInv /\ [AutoEvent!Next]_autoVars => [Fifo]_AutoEvent!vars
    <2> SUFFICES ASSUME AutoInv, AutoEvent!Next \/ UNCHANGED autoVars PROVE Fifo
      OBVIOUS
    <2>1. AutoEvent!TypeOK /\ AutoEvent!WaitOrder = Order /\ AutoEvent!WaitOrder' = Order'
      BY AutoOperators DEF AutoInv, AutoTypes, AutoEvent!WaitOrder, Order
    <2>2. m_waiters \in Seq(AutoCoroutines) /\ m_newWaiters \in Seq(AutoCoroutines) /\ Order \in Seq(AutoCoroutines)
      BY <2>1, AutoShape
    <2>3. CASE UNCHANGED <<m_waiters, m_newWaiters>>
      BY <2>1, <2>3 DEF Order
    <2>4. ASSUME NEW c \in AutoCoroutines, AutoEvent!Push(c) PROVE Fifo
      <3>1. m_waiters' = m_waiters /\ m_newWaiters' = Cons(c, m_newWaiters)
        BY <2>4, AutoOperators DEF AutoEvent!Push
      <3>2. m_waiters \o Reverse(Cons(c, m_newWaiters)) = Append(m_waiters \o Reverse(m_newWaiters), c)
        BY <2>2, QueueOfTwo, SMTT(40)
      <3>3. Order' = Append(Order, c)
        BY <3>1, <3>2 DEF Order
      <3>4. QED BY <2>1, <3>3
    <2>5. ASSUME NEW a \in AutoActors, AutoEvent!Dequeue(a) PROVE Fifo
      <3>1. Order # << >> /\ Order' = Tail(Order)
        BY <2>1, <2>5, AutoTakesOldest
      <3>2. Order = <<Head(Order)>> \o Tail(Order) /\ Head(Order) \in AutoCoroutines
        BY <2>2, <3>1
      <3>3. QED BY <2>1, <3>1, <3>2 DEF AutoEvent!Cons
    <2>6. ASSUME NEW s \in Setters, AutoEvent!Set(s) \/ AutoEvent!Reset(s)
          PROVE  UNCHANGED <<m_waiters, m_newWaiters>>
      BY <2>6 DEF AutoEvent!Set, AutoEvent!SetIsNoOp, AutoEvent!SetCounts, AutoEvent!SetLocks, AutoEvent!Reset, AutoEvent!vars
    <2>7. ASSUME NEW c \in AutoCoroutines,
                 \/ AutoEvent!CoAwait(c) \/ AutoEvent!AcquireSucceeds(c) \/ AutoEvent!AcquireFails(c)
                 \/ AutoEvent!Count(c) \/ AutoEvent!Unref(c)
          PROVE  UNCHANGED <<m_waiters, m_newWaiters>>
      BY <2>7 DEF AutoEvent!CoAwait, AutoEvent!AcquireSucceeds, AutoEvent!AcquireFails, AutoEvent!Count, AutoEvent!Unref
    <2>8. ASSUME NEW a \in AutoActors, AutoEvent!Release(a) \/ AutoEvent!Resume(a) \/ AutoEvent!ResumeEnds(a)
          PROVE  UNCHANGED <<m_waiters, m_newWaiters>>
      BY <2>8 DEF AutoEvent!Release, AutoEvent!Resume, AutoEvent!ResumeEnds
    <2>9. UNCHANGED autoVars => UNCHANGED <<m_waiters, m_newWaiters>>
      BY DEF autoVars
    <2> HIDE DEF Fifo
    <2>10. QED BY <2>3, <2>4, <2>5, <2>6, <2>7, <2>8, <2>9
             DEF AutoEvent!Next, AutoEvent!AwaitSuspend, AutoEvent!ResumeWaiters, AutoEvent!Actors, AutoActors
  <1>2. AutoInv /\ [MCNext]_<<chosen, eventVars, cancellationVars, vars>> => AutoInv' /\ [Fifo]_AutoEvent!vars
    BY <1>1, AutoFrame, AutoStep
  <1>3. MCInit => AutoInv
    BY AutoInit DEF MCInit
  <1>4. QED BY <1>2, <1>3, PTL DEF MCSpec, AutoEvent!WaitersAreFifo
=============================================================================
