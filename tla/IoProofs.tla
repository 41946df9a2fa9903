------------------------------ MODULE IoProofs ------------------------------
(***************************************************************************)
(* io_service and its timer thread, for any number of I/O threads,         *)
(* coroutines and timers and any capacity of the pipe: what the run of     *)
(* MCIo checks for a few.                                                  *)
(***************************************************************************)
EXTENDS MCIo, ListProofs

-----------------------------------------------------------------------------
(* io_service                                                              *)

LoopThreads == Blockers \cup Pollers

LoopLabels == {"out", "check", "overflow", "reschedule", "wait", "read", "dispatch", "resume", "exit"}

ServiceTypes ==
  /\ stopRequested \in BOOLEAN
  /\ mq \in Seq(Coroutines \cup {WakeUp}) /\ Len(mq) <= Capacity
  /\ m_scheduleOperations \in Seq(Coroutines)
  /\ pc \in [LoopThreads -> LoopLabels]
  /\ waitForEvent \in [LoopThreads -> BOOLEAN] /\ once \in [LoopThreads -> BOOLEAN]
  /\ operations \in [LoopThreads -> Seq(Coroutines)]
  /\ message \in [LoopThreads -> Coroutines \cup {WakeUp, NullPtr}]
  /\ status \in [Coroutines -> {"running", "full", "waiting", "finishing", "stopping", "done"}]
  /\ thread \in [Coroutines -> Coroutines \cup LoopThreads]
  /\ schedules \in [Coroutines -> 0 .. MaxSchedules]
  /\ wakeUps \in [Coroutines \cup {Owner} -> 0 .. Cardinality(LoopThreads)]
  /\ resets \in 0 .. MaxResets

(* Who is in the event loop, and who holds an io_work_scope.               *)
Inside == {t \in LoopThreads : pc[t] # "out"}
Working == {c \in Coroutines : status[c] \in {"running", "full", "waiting"}}

ServiceCounts ==
  /\ activeThreads = Cardinality(Inside)
  /\ m_workCount = Cardinality(Working)

(* A thread has a message or a list of operations only where it uses it.   *)
ServiceLoops ==
  \A t \in LoopThreads :
    /\ message[t] # NullPtr => pc[t] = "dispatch"
    /\ operations[t] # << >> <=> pc[t] = "reschedule"

(* A thread resumes one coroutine at a time.                               *)
OnThread(c, t) == status[c] \in {"running", "full", "finishing", "stopping"} /\ thread[c] = t

ServiceThreads ==
  \A t \in LoopThreads, c \in Coroutines : OnThread(c, t) =>
    pc[t] = "resume" /\ \A d \in Coroutines : OnThread(d, t) => c = d

HeldBy(c, t) == message[t] = c \/ OnList(c, operations[t])

(* The places of a coroutine that waits, without counting.                 *)
PlacesOf(c) ==
  /\ OnceOnList(c, mq) /\ OnceOnList(c, m_scheduleOperations)
  /\ \A t \in LoopThreads : OnceOnList(c, operations[t])
  /\ ~(OnList(c, mq) /\ OnList(c, m_scheduleOperations))
  /\ \A t \in LoopThreads : HeldBy(c, t) =>
       /\ ~OnList(c, mq) /\ ~OnList(c, m_scheduleOperations)
       /\ \A u \in LoopThreads : HeldBy(c, u) => t = u
  /\ status[c] = "waiting" <=>
       OnList(c, mq) \/ OnList(c, m_scheduleOperations) \/ \E t \in LoopThreads : HeldBy(c, t)

ServicePlaces == \A c \in Coroutines : PlacesOf(c)

ServiceInv == ServiceTypes /\ ServiceCounts /\ ServiceLoops /\ ServiceThreads /\ ServicePlaces

LEMMA ServiceCardinality == ASSUME NEW S PROVE Service!Cardinality(S) = Cardinality(S)
  BY DEF Service!Cardinality, Cardinality

LEMMA ServiceParties ==
  /\ IsFiniteSet(LoopThreads) /\ Cardinality(LoopThreads) \in Nat
  /\ IsFiniteSet(Coroutines) /\ Cardinality(Coroutines) \in Nat
  /\ \A c \in Coroutines : c \notin LoopThreads /\ c # WakeUp /\ c # NullPtr
  /\ WakeUp # NullPtr /\ Capacity \in Nat /\ MaxSchedules \in Nat /\ MaxResets \in Nat
  <1>1. IsFiniteSet(LoopThreads)
    BY IoParticipantsAssumption, FS_Union DEF LoopThreads
  <1>2. Cardinality(LoopThreads) \in Nat /\ Cardinality(Coroutines) \in Nat
    BY <1>1, IoParticipantsAssumption, FS_CardinalityType
  <1>3. QED BY <1>1, <1>2, IoParticipantsAssumption, IoAssumption DEF LoopThreads

LEMMA InsideCounted ==
  /\ IsFiniteSet(Inside) /\ Cardinality(Inside) \in Nat /\ Cardinality(Inside) <= Cardinality(LoopThreads)
  /\ IsFiniteSet(Working) /\ Cardinality(Working) \in Nat /\ Cardinality(Working) <= Cardinality(Coroutines)
  <1>1. Inside \subseteq LoopThreads /\ Working \subseteq Coroutines
    BY DEF Inside, Working
  <1>2. QED BY <1>1, ServiceParties, FS_Subset, FS_CardinalityType

LEMMA ServiceInitially ==
  ASSUME Service!Init
  PROVE  ServiceInv
  <1> USE ServiceParties DEF Service!Init
  <1>1. Service!IoThreads = LoopThreads
    BY DEF Service!IoThreads, LoopThreads
  <1>2. ServiceTypes
    <2>1. 0 \in 0 .. Cardinality(LoopThreads) /\ 0 \in 0 .. MaxSchedules /\ 0 \in 0 .. MaxResets
      OBVIOUS
    <2>2. /\ wakeUps \in [Coroutines \cup {Owner} -> 0 .. Cardinality(LoopThreads)]
          /\ schedules \in [Coroutines -> 0 .. MaxSchedules] /\ resets \in 0 .. MaxResets
      BY <2>1
    <2>3. /\ mq \in Seq(Coroutines \cup {WakeUp}) /\ Len(mq) <= Capacity /\ m_scheduleOperations \in Seq(Coroutines)
          /\ operations \in [LoopThreads -> Seq(Coroutines)]
      BY <1>1
    <2>4. waitForEvent \in [LoopThreads -> BOOLEAN] /\ once \in [LoopThreads -> BOOLEAN]
      <3>1. waitForEvent = [t \in LoopThreads |-> t \in Blockers] /\ once = [t \in LoopThreads |-> FALSE]
        BY <1>1
      <3>2. \A t \in LoopThreads : (t \in Blockers) \in BOOLEAN
        OBVIOUS
      <3>3. QED BY <3>1, <3>2
    <2>5. /\ pc \in [LoopThreads -> LoopLabels] /\ message \in [LoopThreads -> Coroutines \cup {WakeUp, NullPtr}]
          /\ status \in [Coroutines -> {"running", "full", "waiting", "finishing", "stopping", "done"}]
          /\ thread \in [Coroutines -> Coroutines \cup LoopThreads] /\ stopRequested \in BOOLEAN
      BY <1>1 DEF LoopLabels
    <2>6. QED BY <2>2, <2>3, <2>4, <2>5 DEF ServiceTypes
  <1>3. ServiceCounts
    <2>1. Inside = {} /\ Working = Coroutines
      BY <1>1 DEF Inside, Working
    <2>2. QED BY <2>1, FS_EmptySet, ServiceCardinality DEF ServiceCounts
  <1>4. ServiceLoops /\ ServiceThreads
    BY <1>1 DEF ServiceLoops, ServiceThreads, OnThread
  <1>5. ServicePlaces
    BY <1>1, OnEmptyList DEF ServicePlaces, PlacesOf, HeldBy
  <1>6. QED BY <1>2, <1>3, <1>4, <1>5 DEF ServiceInv

(* What follows from the invariant.                                        *)
LEMMA CountOccurrences ==
  ASSUME NEW c, NEW S, NEW s \in Seq(S), OnceOnList(c, s)
  PROVE  Cardinality({i \in DOMAIN s : s[i] = c}) = IF OnList(c, s) THEN 1 ELSE 0
  <1>1. CASE OnList(c, s)
    <2>1. PICK i \in DOMAIN s : s[i] = c
      BY <1>1 DEF OnList
    <2>2. {j \in DOMAIN s : s[j] = c} = {i}
      BY <2>1 DEF OnceOnList
    <2>3. QED BY <1>1, <2>2, FS_Singleton
  <1>2. CASE ~OnList(c, s)
    <2>1. {j \in DOMAIN s : s[j] = c} = {}
      BY <1>2 DEF OnList
    <2>2. QED BY <1>2, <2>1, FS_EmptySet
  <1>3. QED BY <1>1, <1>2

LEMMA ServiceInvIsSafe ==
  ASSUME ServiceInv
  PROVE  ScheduleSafe
  <1> USE ServiceParties
  <1>1. ServiceTypes /\ ServiceCounts /\ ServiceLoops /\ ServiceThreads /\ ServicePlaces
    BY DEF ServiceInv
  <1>2. Service!IoThreads = LoopThreads
    BY DEF Service!IoThreads, LoopThreads
  <1>3. Service!TypeOK
    <2>1. activeThreads \in 0 .. Service!Cardinality(LoopThreads) /\ m_workCount \in 0 .. Service!Cardinality(Coroutines)
      BY <1>1, InsideCounted, ServiceCardinality DEF ServiceCounts
    <2>2. wakeUps \in [Coroutines \cup {Owner} -> 0 .. Service!Cardinality(LoopThreads)]
      BY <1>1, ServiceCardinality DEF ServiceTypes
    <2>3. QED BY <1>1, <1>2, <2>1, <2>2 DEF ServiceTypes, Service!TypeOK, LoopLabels
  <1>4. Service!ActiveAreCounted
    BY <1>1, <1>2, ServiceCardinality DEF Service!ActiveAreCounted, ServiceCounts, Inside
  <1>5. Service!WaitingIsInOnePlace
    <2>1. SUFFICES ASSUME NEW c \in Coroutines
                   PROVE  Service!Occurrences(c, mq) + Service!Occurrences(c, m_scheduleOperations)
                            + Service!Cardinality(Service!Holders(c)) = IF status[c] = "waiting" THEN 1 ELSE 0
      BY DEF Service!WaitingIsInOnePlace
    <2>2. PlacesOf(c)
      BY <1>1 DEF ServicePlaces
    <2>3. /\ Service!Occurrences(c, mq) = IF OnList(c, mq) THEN 1 ELSE 0
          /\ Service!Occurrences(c, m_scheduleOperations) = IF OnList(c, m_scheduleOperations) THEN 1 ELSE 0
      BY <1>1, <2>2, CountOccurrences, ServiceCardinality DEF Service!Occurrences, PlacesOf, ServiceTypes
    <2>4. ASSUME NEW t \in LoopThreads
          PROVE  Service!Occurrences(c, operations[t]) = IF OnList(c, operations[t]) THEN 1 ELSE 0
      BY <1>1, <2>2, CountOccurrences, ServiceCardinality DEF Service!Occurrences, PlacesOf, ServiceTypes
    <2>5. Service!Holders(c) = {t \in LoopThreads : HeldBy(c, t)}
      BY <1>2, <2>4 DEF Service!Holders, HeldBy
    <2>6. Service!Cardinality(Service!Holders(c)) = IF \E t \in LoopThreads : HeldBy(c, t) THEN 1 ELSE 0
      <3>1. CASE \E t \in LoopThreads : HeldBy(c, t)
        <4>1. PICK t \in LoopThreads : HeldBy(c, t)
          BY <3>1
        <4>2. Service!Holders(c) = {t}
          BY <2>2, <2>5, <4>1 DEF PlacesOf
        <4>3. QED BY <3>1, <4>2, FS_Singleton, ServiceCardinality
      <3>2. CASE ~\E t \in LoopThreads : HeldBy(c, t)
        <4>1. Service!Holders(c) = {}
          BY <2>5, <3>2
        <4>2. QED BY <3>2, <4>1, FS_EmptySet, ServiceCardinality
      <3>3. QED BY <3>1, <3>2
    <2>7. CASE OnList(c, mq)
      <3>1. ~OnList(c, m_scheduleOperations) /\ (~\E t \in LoopThreads : HeldBy(c, t)) /\ status[c] = "waiting"
        BY <2>2, <2>7 DEF PlacesOf
      <3>2. QED BY <2>3, <2>6, <2>7, <3>1
    <2>8. CASE ~OnList(c, mq) /\ OnList(c, m_scheduleOperations)
      <3>1. (~\E t \in LoopThreads : HeldBy(c, t)) /\ status[c] = "waiting"
        BY <2>2, <2>8 DEF PlacesOf
      <3>2. QED BY <2>3, <2>6, <2>8, <3>1
    <2>9. CASE ~OnList(c, mq) /\ ~OnList(c, m_scheduleOperations)
      <3>1. status[c] = "waiting" <=> \E t \in LoopThreads : HeldBy(c, t)
        BY <2>2, <2>9 DEF PlacesOf
      <3>2. QED BY <2>3, <2>6, <2>9, <3>1
    <2>10. QED BY <2>7, <2>8, <2>9
  <1>6. QED BY <1>3, <1>4, <1>5 DEF ScheduleSafe

-----------------------------------------------------------------------------
(* Steps of a thread in its event loop, which does not run a coroutine.    *)

LEMMA LoopMoves ==
  ASSUME ServiceInv, NEW t \in LoopThreads, NEW label \in LoopLabels \ {"resume"}, pc[t] # "resume",
         pc' = [pc EXCEPT ![t] = label], UNCHANGED <<status, thread>>
  PROVE  /\ pc' \in [LoopThreads -> LoopLabels] /\ pc'[t] = label /\ \A u \in LoopThreads : u # t => pc'[u] = pc[u]
         /\ ServiceThreads' /\ Working' = Working
         /\ (label = "out" <=> pc[t] = "out") => Inside' = Inside
  <1>1. pc \in [LoopThreads -> LoopLabels] /\ ServiceThreads
    BY DEF ServiceInv, ServiceTypes
  <1>2. pc' \in [LoopThreads -> LoopLabels] /\ pc'[t] = label /\ \A u \in LoopThreads : u # t => pc'[u] = pc[u]
    BY <1>1
  <1>3. \A u \in LoopThreads : pc[u] = "resume" => pc'[u] = "resume"
    BY <1>2
  <1>4. ServiceThreads'
    BY <1>1, <1>3 DEF ServiceThreads, OnThread
  <1>5. Working' = Working
    BY DEF Working
  <1>6. ASSUME label = "out" <=> pc[t] = "out" PROVE Inside' = Inside
    BY <1>2, <1>6 DEF Inside
  <1>7. QED BY <1>2, <1>4, <1>5, <1>6

LEMMA PlacesKept ==
  ASSUME ServicePlaces, UNCHANGED <<mq, m_scheduleOperations, operations>>,
         \A c \in Coroutines : status'[c] = "waiting" <=> status[c] = "waiting",
         \A c \in Coroutines, t \in LoopThreads : message'[t] = c <=> message[t] = c
  PROVE  ServicePlaces'
  <1> SUFFICES ASSUME NEW c \in Coroutines PROVE PlacesOf(c)'
    BY DEF ServicePlaces
  <1>1. PlacesOf(c)
    BY DEF ServicePlaces
  <1>2. \A t \in LoopThreads : HeldBy(c, t)' <=> HeldBy(c, t)
    BY DEF HeldBy
  <1>3. QED BY <1>1, <1>2 DEF PlacesOf

LEMMA QuietLoopStep ==
  ASSUME ServiceInv, NEW t \in LoopThreads,
         Service!CheckStop(t) \/ Service!EpollWait(t) \/ Service!EpollInterrupted(t) \/ Service!HandleWakeUp(t)
  PROVE  ServiceInv'
  <1> USE ServiceParties
  <1>1. ServiceTypes /\ ServiceCounts /\ ServiceLoops /\ ServiceThreads /\ ServicePlaces
    BY DEF ServiceInv
  <1>2. UNCHANGED <<stopRequested, activeThreads, m_workCount, mq, m_scheduleOperations, waitForEvent, once,
                    operations, status, thread, schedules, wakeUps, resets>>
    BY DEF Service!CheckStop, Service!EpollWait, Service!EpollInterrupted, Service!HandleWakeUp, Service!threadState,
       Service!queues, Service!coroutines
  <1>3. \/ message' = message /\ pc[t] # "dispatch"
        \/ pc[t] = "dispatch" /\ message[t] = WakeUp /\ message' = [message EXCEPT ![t] = NullPtr]
    BY DEF Service!CheckStop, Service!EpollWait, Service!EpollInterrupted, Service!HandleWakeUp
  <1>4. pc[t] \in {"check", "wait", "dispatch"} /\ \E label \in {"exit", "overflow", "read"} : pc' = [pc EXCEPT ![t] = label]
    BY DEF Service!CheckStop, Service!EpollWait, Service!EpollInterrupted, Service!HandleWakeUp, Service!Goto
  <1>5. PICK label \in {"exit", "overflow", "read"} : pc' = [pc EXCEPT ![t] = label]
    BY <1>4
  <1>6. label \in LoopLabels \ {"resume"} /\ label # "out"
    BY DEF LoopLabels
  <1>7. /\ pc' \in [LoopThreads -> LoopLabels] /\ pc'[t] = label /\ \A u \in LoopThreads : u # t => pc'[u] = pc[u]
        /\ ServiceThreads' /\ Working' = Working /\ Inside' = Inside
    BY <1>2, <1>4, <1>5, <1>6, LoopMoves
  <1>8. /\ message' \in [LoopThreads -> Coroutines \cup {WakeUp, NullPtr}] /\ message'[t] = NullPtr
        /\ \A u \in LoopThreads : u # t => message'[u] = message[u]
        /\ \A c \in Coroutines, u \in LoopThreads : message'[u] = c <=> message[u] = c
    BY <1>1, <1>3 DEF ServiceTypes, ServiceLoops
  <1>9. ServiceTypes'
    BY <1>1, <1>2, <1>7, <1>8 DEF ServiceTypes
  <1>10. ServiceCounts'
    BY <1>1, <1>2, <1>7 DEF ServiceCounts
  <1>11. ServiceLoops'
    BY <1>1, <1>2, <1>4, <1>7, <1>8 DEF ServiceLoops
  <1>12. ServicePlaces'
    BY <1>1, <1>2, <1>8, PlacesKept
  <1>13. QED BY <1>7, <1>9, <1>10, <1>11, <1>12 DEF ServiceInv

(* try_enter_event_loop() and exit_event_loop() count the thread.          *)
LEMMA EnterOrExitStep ==
  ASSUME ServiceInv, NEW t \in LoopThreads, Service!EnterEventLoop(t) \/ Service!ExitEventLoop(t)
  PROVE  ServiceInv'
  <1> USE ServiceParties
  <1>1. ServiceTypes /\ ServiceCounts /\ ServiceLoops /\ ServiceThreads /\ ServicePlaces
    BY DEF ServiceInv
  <1>2. UNCHANGED <<stopRequested, m_workCount, mq, m_scheduleOperations, waitForEvent,
                    operations, message, status, thread, schedules, wakeUps, resets>>
    BY DEF Service!EnterEventLoop, Service!ExitEventLoop, Service!queues, Service!coroutines
  <1>3. \/ pc[t] = "out" /\ pc' = [pc EXCEPT ![t] = "check"] /\ activeThreads' = activeThreads + 1
        \/ pc[t] = "exit" /\ pc' = [pc EXCEPT ![t] = "out"] /\ activeThreads' = activeThreads - 1
    BY DEF Service!EnterEventLoop, Service!ExitEventLoop, Service!Goto
  <1>4. PICK label \in {"check", "out"} : pc' = [pc EXCEPT ![t] = label]
    BY <1>3
  <1>5. label \in LoopLabels \ {"resume"} /\ pc[t] # "resume"
    BY <1>3 DEF LoopLabels
  <1>6. /\ pc' \in [LoopThreads -> LoopLabels] /\ pc'[t] = label /\ \A u \in LoopThreads : u # t => pc'[u] = pc[u]
        /\ ServiceThreads' /\ Working' = Working
    BY <1>2, <1>4, <1>5, LoopMoves
  <1>7. once' \in [LoopThreads -> BOOLEAN]
    <2>1. once' = once \/ \E b \in BOOLEAN : once' = [once EXCEPT ![t] = b]
      BY DEF Service!EnterEventLoop, Service!ExitEventLoop
    <2>2. QED BY <1>1, <2>1 DEF ServiceTypes
  <1>8. ServiceTypes'
    BY <1>1, <1>2, <1>6, <1>7 DEF ServiceTypes
  <1>9. ServiceCounts'
    <2>1. CASE pc[t] = "out"
      <3>1. t \notin Inside /\ Inside' = Inside \cup {t}
        BY <1>3, <1>6, <2>1 DEF Inside
      <3>2. Cardinality(Inside') = Cardinality(Inside) + 1
        BY <3>1, InsideCounted, FS_AddElement
      <3>3. QED BY <1>1, <1>2, <1>3, <1>6, <2>1, <3>2 DEF ServiceCounts
    <2>2. CASE pc[t] = "exit"
      <3>1. t \in Inside /\ Inside' = Inside \ {t}
        BY <1>3, <1>6, <2>2 DEF Inside
      <3>2. Cardinality(Inside') = Cardinality(Inside) - 1
        BY <3>1, InsideCounted, FS_RemoveElement
      <3>3. QED BY <1>1, <1>2, <1>3, <1>6, <2>2, <3>2 DEF ServiceCounts
    <2>3. QED BY <1>3, <2>1, <2>2
  <1>10. ServiceLoops'
    BY <1>1, <1>2, <1>3, <1>6 DEF ServiceLoops
  <1>11. ServicePlaces'
    BY <1>1, <1>2, PlacesKept
  <1>12. QED BY <1>6, <1>8, <1>9, <1>10, <1>11 DEF ServiceInv

(* try_reschedule_overflow_operations() takes the overflow list,           *)
LEMMA TakeOverflowStep ==
  ASSUME ServiceInv, NEW t \in LoopThreads, Service!TakeOverflow(t)
  PROVE  ServiceInv'
  <1> USE ServiceParties
  <1>1. ServiceTypes /\ ServiceCounts /\ ServiceLoops /\ ServiceThreads /\ ServicePlaces
    BY DEF ServiceInv
  <1>2. /\ pc[t] = "overflow" /\ operations' = [operations EXCEPT ![t] = m_scheduleOperations]
        /\ m_scheduleOperations' = << >>
        /\ pc' = [pc EXCEPT ![t] = IF m_scheduleOperations = << >> THEN "wait" ELSE "reschedule"]
        /\ UNCHANGED <<stopRequested, activeThreads, m_workCount, mq, waitForEvent, once, message, status, thread,
                       schedules, wakeUps, resets>>
    BY DEF Service!TakeOverflow, Service!Goto, Service!threadState, Service!coroutines
  <1>3. PICK label \in {"wait", "reschedule"} :
          label = IF m_scheduleOperations = << >> THEN "wait" ELSE "reschedule"
    OBVIOUS
  <1>4. label \in LoopLabels \ {"resume"} /\ label # "out"
    BY DEF LoopLabels
  <1>5. /\ pc' \in [LoopThreads -> LoopLabels] /\ pc'[t] = label /\ \A u \in LoopThreads : u # t => pc'[u] = pc[u]
        /\ ServiceThreads' /\ Working' = Working /\ Inside' = Inside
    BY <1>2, <1>3, <1>4, LoopMoves
  <1>6. /\ operations' \in [LoopThreads -> Seq(Coroutines)] /\ operations'[t] = m_scheduleOperations
        /\ \A u \in LoopThreads : u # t => operations'[u] = operations[u]
    BY <1>1, <1>2 DEF ServiceTypes
  <1>7. ServiceTypes'
    BY <1>1, <1>2, <1>5, <1>6, EmptyList DEF ServiceTypes
  <1>8. ServiceCounts'
    BY <1>1, <1>2, <1>5 DEF ServiceCounts
  <1>9. ServiceLoops'
    BY <1>1, <1>2, <1>3, <1>5, <1>6 DEF ServiceLoops
  <1>10. ServicePlaces'
    <2> SUFFICES ASSUME NEW c \in Coroutines PROVE PlacesOf(c)'
      BY DEF ServicePlaces
    <2>1. PlacesOf(c)
      BY <1>1 DEF ServicePlaces
    <2>2. operations[t] = << >> /\ message[t] = NullPtr
      BY <1>1, <1>2 DEF ServiceLoops
    <2>3. ~HeldBy(c, t) /\ ~OnList(c, m_scheduleOperations)' /\ OnceOnList(c, m_scheduleOperations)'
      BY <1>2, <2>2, OnEmptyList DEF HeldBy
    <2>4. /\ HeldBy(c, t)' <=> OnList(c, m_scheduleOperations)
          /\ \A u \in LoopThreads : u # t => (HeldBy(c, u)' <=> HeldBy(c, u))
      BY <1>2, <1>6, <2>2 DEF HeldBy
    <2>5. \A u \in LoopThreads : OnceOnList(c, operations'[u])
      BY <1>6, <2>1 DEF PlacesOf
    <2>6. QED BY <1>2, <2>1, <2>3, <2>4, <2>5 DEF PlacesOf
  <1>11. QED BY <1>5, <1>7, <1>8, <1>9, <1>10 DEF ServiceInv

(* ... posts the first of them,                                            *)
LEMMA RepostStep ==
  ASSUME ServiceInv, NEW t \in LoopThreads, Service!RescheduleOverflow(t), Service!Enqueue(Head(operations[t]))
  PROVE  ServiceInv'
  <1> USE ServiceParties
  <1>1. ServiceTypes /\ ServiceCounts /\ ServiceLoops /\ ServiceThreads /\ ServicePlaces
    BY DEF ServiceInv
  <1> DEFINE o == Head(operations[t])
             label == IF Len(operations[t]) = 1 THEN "wait" ELSE "reschedule"
  <1>2. /\ pc[t] = "reschedule" /\ Len(mq) # Capacity /\ mq' = Append(mq, o)
        /\ operations' = [operations EXCEPT ![t] = Tail(operations[t])] /\ pc' = [pc EXCEPT ![t] = label]
        /\ UNCHANGED <<stopRequested, activeThreads, m_workCount, m_scheduleOperations, waitForEvent, once, message,
                       status, thread, schedules, wakeUps, resets>>
    BY DEF Service!RescheduleOverflow, Service!Enqueue, Service!Full, Service!Goto, Service!threadState,
       Service!coroutines
  <1>3. /\ operations[t] \in Seq(Coroutines) /\ operations[t] # << >> /\ mq \in Seq(Coroutines \cup {WakeUp})
        /\ Len(mq) <= Capacity
    BY <1>1, <1>2 DEF ServiceTypes, ServiceLoops
  <1>4. o \in Coroutines /\ Tail(operations[t]) \in Seq(Coroutines) /\ (Tail(operations[t]) = << >> <=> label = "wait")
    <2>1. PICK l \in Seq(Coroutines) : l = operations[t]
      BY <1>3
    <2>2. Head(l) \in Coroutines /\ Tail(l) \in Seq(Coroutines) /\ (Tail(l) = << >> <=> Len(l) = 1)
      <3>1. l # << >> /\ Len(l) \in Nat /\ Head(l) \in Coroutines /\ Tail(l) \in Seq(Coroutines) /\ Len(Tail(l)) = Len(l) - 1
        BY <1>3, <2>1
      <3>2. Tail(l) = << >> <=> Len(Tail(l)) = 0
        BY <3>1, EmptySeq
      <3>3. QED BY <3>1, <3>2
    <2>3. QED BY <2>1, <2>2
  <1>5. label \in LoopLabels \ {"resume"} /\ label # "out"
    BY DEF LoopLabels
  <1> HIDE DEF label, o
  <1>6. /\ pc' \in [LoopThreads -> LoopLabels] /\ pc'[t] = label /\ \A u \in LoopThreads : u # t => pc'[u] = pc[u]
        /\ ServiceThreads' /\ Working' = Working /\ Inside' = Inside
    BY <1>2, <1>5, LoopMoves
  <1>7. /\ operations' \in [LoopThreads -> Seq(Coroutines)] /\ operations'[t] = Tail(operations[t])
        /\ \A u \in LoopThreads : u # t => operations'[u] = operations[u]
    BY <1>1, <1>2, <1>4 DEF ServiceTypes
  <1>8. mq' \in Seq(Coroutines \cup {WakeUp}) /\ Len(mq') <= Capacity
    BY <1>2, <1>3, <1>4
  <1>9. ServiceTypes'
    BY <1>1, <1>2, <1>6, <1>7, <1>8 DEF ServiceTypes
  <1>10. ServiceCounts'
    BY <1>1, <1>2, <1>6 DEF ServiceCounts
  <1>11. label \in {"wait", "reschedule"}
    BY DEF label
  <1>12. ServiceLoops'
    BY <1>1, <1>2, <1>4, <1>6, <1>7, <1>11 DEF ServiceLoops
  <1>13. ServicePlaces'
    <2> SUFFICES ASSUME NEW c \in Coroutines PROVE PlacesOf(c)'
      BY DEF ServicePlaces
    <2>1. PlacesOf(c)
      BY <1>1 DEF ServicePlaces
    <2>2. message[t] = NullPtr
      BY <1>1, <1>2 DEF ServiceLoops
    <2>3. /\ OnList(c, mq') <=> OnList(c, mq) \/ c = o
          /\ OnceOnList(c, mq) /\ (c = o => ~OnList(c, mq)) => OnceOnList(c, mq')
      <3>1. PICK q \in Seq(Coroutines \cup {WakeUp}) : q = mq
        BY <1>3
      <3>2. o \in Coroutines \cup {WakeUp}
        BY <1>4
      <3>3. /\ OnList(c, Append(q, o)) <=> OnList(c, q) \/ c = o
            /\ OnceOnList(c, q) /\ (c = o => ~OnList(c, q)) => OnceOnList(c, Append(q, o))
        BY <3>2, OnAppended
      <3>4. QED BY <1>2, <3>1, <3>3
    <2>4. /\ OnList(c, operations[t]) <=> c = o \/ OnList(c, operations'[t])
          /\ OnceOnList(c, operations'[t]) /\ (c = o => ~OnList(c, operations'[t]))
      BY <1>3, <1>7, <2>1, OnTail DEF o, PlacesOf
    <2>5. /\ HeldBy(c, t) <=> OnList(c, operations[t])
          /\ HeldBy(c, t)' <=> OnList(c, operations'[t])
          /\ \A u \in LoopThreads : u # t => (HeldBy(c, u)' <=> HeldBy(c, u))
      BY <1>2, <1>7, <2>2 DEF HeldBy
    <2>6. /\ \A u \in LoopThreads : OnceOnList(c, operations'[u])
          /\ UNCHANGED <<status, m_scheduleOperations>>
      BY <1>2, <1>7, <2>1, <2>4 DEF PlacesOf
    <2>7. CASE c = o
      <3>1. ~OnList(c, mq) /\ ~OnList(c, m_scheduleOperations) /\ HeldBy(c, t) /\ \A u \in LoopThreads : ~HeldBy(c, u)'
        BY <2>1, <2>4, <2>5, <2>7 DEF PlacesOf
      <3>2. QED BY <2>1, <2>3, <2>6, <2>7, <3>1 DEF PlacesOf
    <2>8. CASE c # o
      <3>1. (OnList(c, mq') <=> OnList(c, mq)) /\ \A u \in LoopThreads : HeldBy(c, u)' <=> HeldBy(c, u)
        BY <2>3, <2>4, <2>5, <2>8
      <3>2. QED BY <2>1, <2>3, <2>6, <2>8, <3>1 DEF PlacesOf
    <2>9. QED BY <2>7, <2>8
  <1>14. QED BY <1>6, <1>9, <1>10, <1>12, <1>13 DEF ServiceInv

(* ... or puts the rest back, before what was pushed in the meantime.      *)
LEMMA PutBackStep ==
  ASSUME ServiceInv, NEW t \in LoopThreads, Service!RescheduleOverflow(t), ~Service!Enqueue(Head(operations[t]))
  PROVE  ServiceInv'
  <1> USE ServiceParties
  <1>1. ServiceTypes /\ ServiceCounts /\ ServiceLoops /\ ServiceThreads /\ ServicePlaces
    BY DEF ServiceInv
  <1>2. /\ pc[t] = "reschedule" /\ m_scheduleOperations' = operations[t] \o m_scheduleOperations
        /\ operations' = [operations EXCEPT ![t] = << >>] /\ pc' = [pc EXCEPT ![t] = "wait"]
        /\ UNCHANGED <<stopRequested, activeThreads, m_workCount, mq, waitForEvent, once, message,
                       status, thread, schedules, wakeUps, resets>>
    BY DEF Service!RescheduleOverflow, Service!PutBack, Service!Goto, Service!threadState, Service!coroutines
  <1>3. operations[t] \in Seq(Coroutines) /\ m_scheduleOperations \in Seq(Coroutines)
    BY <1>1, <1>2 DEF ServiceTypes
  <1>4. "wait" \in LoopLabels \ {"resume"}
    BY DEF LoopLabels
  <1>5. /\ pc' \in [LoopThreads -> LoopLabels] /\ pc'[t] = "wait" /\ \A u \in LoopThreads : u # t => pc'[u] = pc[u]
        /\ ServiceThreads' /\ Working' = Working /\ Inside' = Inside
    BY <1>2, <1>4, LoopMoves
  <1>6. /\ operations' \in [LoopThreads -> Seq(Coroutines)] /\ operations'[t] = << >>
        /\ \A u \in LoopThreads : u # t => operations'[u] = operations[u]
    BY <1>1, <1>2, EmptyList DEF ServiceTypes
  <1>7. m_scheduleOperations' \in Seq(Coroutines)
    BY <1>2, <1>3
  <1>8. ServiceTypes'
    BY <1>1, <1>2, <1>5, <1>6, <1>7 DEF ServiceTypes
  <1>9. ServiceCounts'
    BY <1>1, <1>2, <1>5 DEF ServiceCounts
  <1>10. ServiceLoops'
    BY <1>1, <1>2, <1>5, <1>6 DEF ServiceLoops
  <1>11. ServicePlaces'
    <2> SUFFICES ASSUME NEW c \in Coroutines PROVE PlacesOf(c)'
      BY DEF ServicePlaces
    <2>1. PlacesOf(c)
      BY <1>1 DEF ServicePlaces
    <2>2. message[t] = NullPtr
      BY <1>1, <1>2 DEF ServiceLoops
    <2>3. /\ OnList(c, m_scheduleOperations') <=> OnList(c, operations[t]) \/ OnList(c, m_scheduleOperations)
          /\ /\ OnceOnList(c, operations[t]) /\ OnceOnList(c, m_scheduleOperations)
             /\ ~(OnList(c, operations[t]) /\ OnList(c, m_scheduleOperations))
             => OnceOnList(c, m_scheduleOperations')
      BY <1>2, <1>3, OnConcatenated
    <2>4. /\ HeldBy(c, t) <=> OnList(c, operations[t])
          /\ ~HeldBy(c, t)' /\ OnceOnList(c, operations'[t])
          /\ \A u \in LoopThreads : u # t => (HeldBy(c, u)' <=> HeldBy(c, u))
      BY <1>2, <1>6, <2>2, OnEmptyList DEF HeldBy
    <2>5. /\ \A u \in LoopThreads : OnceOnList(c, operations'[u])
          /\ UNCHANGED <<status, mq>>
      BY <1>2, <1>6, <2>1, <2>4 DEF PlacesOf
    <2>6. QED BY <2>1, <2>3, <2>4, <2>5 DEF PlacesOf
  <1>12. QED BY <1>5, <1>8, <1>9, <1>10, <1>11 DEF ServiceInv

(* A thread takes the first message out of the pipe.                       *)
LEMMA ReadStep ==
  ASSUME ServiceInv, NEW t \in LoopThreads, Service!ReadPipe(t)
  PROVE  ServiceInv'
  <1> USE ServiceParties
  <1>1. ServiceTypes /\ ServiceCounts /\ ServiceLoops /\ ServiceThreads /\ ServicePlaces
    BY DEF ServiceInv
  <1>2. /\ pc[t] = "read"
        /\ UNCHANGED <<stopRequested, activeThreads, m_workCount, m_scheduleOperations, waitForEvent, once, operations,
                       status, thread, schedules, wakeUps, resets>>
        /\ \/ /\ mq # << >> /\ message' = [message EXCEPT ![t] = Head(mq)] /\ mq' = Tail(mq)
              /\ pc' = [pc EXCEPT ![t] = "dispatch"]
           \/ mq' = mq /\ message' = message /\ pc' = [pc EXCEPT ![t] = "exit"]
    BY DEF Service!ReadPipe, Service!Goto, Service!threadState, Service!coroutines
  <1>3. PICK label \in {"dispatch", "exit"} : pc' = [pc EXCEPT ![t] = label]
    BY <1>2
  <1>4. label \in LoopLabels \ {"resume"} /\ label # "out"
    BY DEF LoopLabels
  <1>5. /\ pc' \in [LoopThreads -> LoopLabels] /\ pc'[t] = label /\ \A u \in LoopThreads : u # t => pc'[u] = pc[u]
        /\ ServiceThreads' /\ Working' = Working /\ Inside' = Inside
    BY <1>2, <1>3, <1>4, LoopMoves
  <1>6. message[t] = NullPtr /\ operations[t] = << >>
    BY <1>1, <1>2 DEF ServiceLoops
  <1>7. ServiceCounts'
    BY <1>1, <1>2, <1>5 DEF ServiceCounts
  <1>8. CASE mq' = mq /\ message' = message
    <2>1. ServiceTypes'
      BY <1>1, <1>2, <1>5, <1>8 DEF ServiceTypes
    <2>2. ServiceLoops'
      BY <1>1, <1>2, <1>5, <1>6, <1>8 DEF ServiceLoops
    <2>3. ServicePlaces'
      BY <1>1, <1>2, <1>8, PlacesKept
    <2>4. QED BY <1>5, <1>7, <2>1, <2>2, <2>3 DEF ServiceInv
  <1>9. CASE /\ mq # << >> /\ message' = [message EXCEPT ![t] = Head(mq)] /\ mq' = Tail(mq)
             /\ pc' = [pc EXCEPT ![t] = "dispatch"]
    <2>1. /\ mq \in Seq(Coroutines \cup {WakeUp}) /\ Head(mq) \in Coroutines \cup {WakeUp}
          /\ mq' \in Seq(Coroutines \cup {WakeUp}) /\ Len(mq') <= Capacity
      BY <1>1, <1>9 DEF ServiceTypes
    <2>2. pc'[t] = "dispatch"
      BY <1>1, <1>9 DEF ServiceTypes
    <2>3. /\ message' \in [LoopThreads -> Coroutines \cup {WakeUp, NullPtr}] /\ message'[t] = Head(mq)
          /\ \A u \in LoopThreads : u # t => message'[u] = message[u]
      BY <1>1, <1>9, <2>1 DEF ServiceTypes
    <2>4. ServiceTypes'
      BY <1>1, <1>2, <1>5, <2>1, <2>3 DEF ServiceTypes
    <2>5. ServiceLoops'
      BY <1>1, <1>2, <1>5, <1>6, <2>2, <2>3 DEF ServiceLoops
    <2>6. ServicePlaces'
      <3> SUFFICES ASSUME NEW c \in Coroutines PROVE PlacesOf(c)'
        BY DEF ServicePlaces
      <3>1. PlacesOf(c)
        BY <1>1 DEF ServicePlaces
      <3>2. /\ OnList(c, mq) <=> c = Head(mq) \/ OnList(c, mq')
            /\ OnceOnList(c, mq') /\ (c = Head(mq) => ~OnList(c, mq'))
        BY <1>9, <2>1, <3>1, OnTail DEF PlacesOf
      <3>3. /\ ~HeldBy(c, t) /\ (HeldBy(c, t)' <=> c = Head(mq))
            /\ \A u \in LoopThreads : u # t => (HeldBy(c, u)' <=> HeldBy(c, u))
        BY <1>2, <1>6, <2>3, OnEmptyList DEF HeldBy
      <3>4. UNCHANGED <<status, m_scheduleOperations, operations>>
        BY <1>2
      <3>5. QED BY <3>1, <3>2, <3>3, <3>4 DEF PlacesOf
    <2>7. QED BY <1>5, <1>7, <2>4, <2>5, <2>6 DEF ServiceInv
  <1>10. QED BY <1>2, <1>8, <1>9

(* The coroutine of the message runs on this thread.                       *)
LEMMA ResumeStep ==
  ASSUME ServiceInv, NEW t \in LoopThreads, Service!ResumeCoroutine(t)
  PROVE  ServiceInv'
  <1> USE ServiceParties
  <1>1. ServiceTypes /\ ServiceCounts /\ ServiceLoops /\ ServiceThreads /\ ServicePlaces
    BY DEF ServiceInv
  <1>2. PICK c \in Coroutines : message[t] = c
    BY DEF Service!ResumeCoroutine
  <1>3. /\ pc[t] = "dispatch" /\ status' = [status EXCEPT ![c] = "running"] /\ thread' = [thread EXCEPT ![c] = t]
        /\ message' = [message EXCEPT ![t] = NullPtr] /\ pc' = [pc EXCEPT ![t] = "resume"]
        /\ UNCHANGED <<stopRequested, activeThreads, m_workCount, mq, m_scheduleOperations, waitForEvent, once,
                       operations, schedules, wakeUps, resets>>
    BY <1>2 DEF Service!ResumeCoroutine, Service!Goto, Service!threadState, Service!queues
  <1>4. HeldBy(c, t) /\ status[c] = "waiting" /\ operations[t] = << >>
    BY <1>1, <1>2, <1>3 DEF ServicePlaces, PlacesOf, HeldBy, ServiceLoops
  <1>5. /\ status' \in [Coroutines -> {"running", "full", "waiting", "finishing", "stopping", "done"}]
        /\ status'[c] = "running" /\ \A d \in Coroutines : d # c => status'[d] = status[d]
        /\ thread' \in [Coroutines -> Coroutines \cup LoopThreads]
        /\ thread'[c] = t /\ \A d \in Coroutines : d # c => thread'[d] = thread[d]
    BY <1>1, <1>3 DEF ServiceTypes
  <1>6. /\ pc' \in [LoopThreads -> LoopLabels] /\ pc'[t] = "resume" /\ \A u \in LoopThreads : u # t => pc'[u] = pc[u]
        /\ message' \in [LoopThreads -> Coroutines \cup {WakeUp, NullPtr}] /\ message'[t] = NullPtr
        /\ \A u \in LoopThreads : u # t => message'[u] = message[u]
    BY <1>1, <1>3 DEF ServiceTypes, LoopLabels
  <1>7. ServiceTypes'
    BY <1>1, <1>3, <1>5, <1>6 DEF ServiceTypes
  <1>8. ServiceCounts'
    <2>1. Inside' = Inside
      BY <1>3, <1>6 DEF Inside
    <2>2. Working' = Working
      BY <1>4, <1>5 DEF Working
    <2>3. QED BY <1>1, <1>3, <2>1, <2>2 DEF ServiceCounts
  <1>9. ServiceLoops'
    BY <1>1, <1>3, <1>4, <1>6 DEF ServiceLoops
  <1>10. ServiceThreads'
    <2>1. \A d \in Coroutines : ~OnThread(d, t)
      BY <1>1, <1>3 DEF ServiceThreads
    <2>2. \A d \in Coroutines, u \in LoopThreads : OnThread(d, u)' => (d = c /\ u = t) \/ (d # c /\ u # t /\ OnThread(d, u))
      BY <1>5, <2>1 DEF OnThread
    <2>3. QED BY <1>1, <1>6, <2>2 DEF ServiceThreads
  <1>11. ServicePlaces'
    <2> SUFFICES ASSUME NEW d \in Coroutines PROVE PlacesOf(d)'
      BY DEF ServicePlaces
    <2>1. PlacesOf(d)
      BY <1>1 DEF ServicePlaces
    <2>2. /\ ~HeldBy(d, t)' /\ (HeldBy(d, t) <=> d = c)
          /\ \A u \in LoopThreads : u # t => (HeldBy(d, u)' <=> HeldBy(d, u))
      BY <1>2, <1>3, <1>4, <1>6, OnEmptyList DEF HeldBy
    <2>3. UNCHANGED <<mq, m_scheduleOperations, operations>>
      BY <1>3
    <2>4. CASE d = c
      BY <1>5, <2>1, <2>2, <2>3, <2>4 DEF PlacesOf
    <2>5. CASE d # c
      BY <1>5, <2>1, <2>2, <2>3, <2>5 DEF PlacesOf
    <2>6. QED BY <2>4, <2>5
  <1>12. QED BY <1>7, <1>8, <1>9, <1>10, <1>11 DEF ServiceInv

-----------------------------------------------------------------------------
(* Steps of a coroutine                                                    *)

Resumed == {"running", "full", "finishing", "stopping"}

(* A coroutine suspends or completes, and the thread that ran it, if it is *)
(* an I/O thread, is back in its loop.                                     *)
LEMMA ReturnMoves ==
  ASSUME ServiceInv, NEW c \in Coroutines, status[c] \in Resumed, NEW s \in {"waiting", "done"},
         status' = [status EXCEPT ![c] = s], Service!ReturnFromResume(c), UNCHANGED <<thread, message, operations>>
  PROVE  /\ pc' \in [LoopThreads -> LoopLabels] /\ Inside' = Inside /\ ServiceThreads' /\ ServiceLoops'
         /\ status' \in [Coroutines -> {"running", "full", "waiting", "finishing", "stopping", "done"}]
         /\ status'[c] = s /\ \A d \in Coroutines : d # c => status'[d] = status[d]
  <1>1. ServiceTypes /\ ServiceLoops /\ ServiceThreads
    BY DEF ServiceInv
  <1>2. Service!IoThreads = LoopThreads
    BY DEF Service!IoThreads, LoopThreads
  <1>3. /\ status' \in [Coroutines -> {"running", "full", "waiting", "finishing", "stopping", "done"}]
        /\ status'[c] = s /\ \A d \in Coroutines : d # c => status'[d] = status[d]
    BY <1>1 DEF ServiceTypes
  <1>4. DOMAIN pc' = LoopThreads /\ pc' = [u \in LoopThreads |-> pc'[u]]
    BY <1>2 DEF Service!ReturnFromResume
  <1>5. \A t \in LoopThreads : IF t # thread[c] THEN pc'[t] = pc[t] ELSE pc'[t] \in {"exit", "check"}
    <2> TAKE t \in LoopThreads
    <2>1. CASE t # thread[c]
      BY <1>2, <2>1 DEF Service!ReturnFromResume
    <2>2. CASE t = thread[c] /\ once[t]
      BY <1>2, <2>2 DEF Service!ReturnFromResume
    <2>3. CASE t = thread[c] /\ ~once[t]
      BY <1>2, <2>3 DEF Service!ReturnFromResume
    <2>4. QED BY <2>1, <2>2, <2>3
  <1>6. \A t \in LoopThreads : t = thread[c] => pc[t] = "resume" /\ \A d \in Coroutines : OnThread(d, t) => d = c
    BY <1>1 DEF ServiceThreads, OnThread, Resumed
  <1>7. pc' \in [LoopThreads -> LoopLabels]
    <2>1. \A t \in LoopThreads : pc'[t] \in LoopLabels
      BY <1>1, <1>5 DEF ServiceTypes, LoopLabels
    <2>2. QED BY <1>4, <2>1
  <1>8. Inside' = Inside
    BY <1>5, <1>6 DEF Inside
  <1>9. ServiceLoops'
    BY <1>1, <1>5, <1>6 DEF ServiceLoops
  <1>10. ServiceThreads'
    <2>1. \A d \in Coroutines, t \in LoopThreads : OnThread(d, t)' => d # c /\ OnThread(d, t) /\ t # thread[c]
      BY <1>3, <1>6 DEF OnThread
    <2>2. QED BY <1>1, <1>5, <2>1 DEF ServiceThreads
  <1>11. QED BY <1>3, <1>7, <1>8, <1>9, <1>10

(* A coroutine goes on on its thread.                                      *)
LEMMA RunsOn ==
  ASSUME ServiceInv, NEW c \in Coroutines, status[c] \in Resumed, NEW s \in Resumed,
         status' = [status EXCEPT ![c] = s], UNCHANGED <<pc, thread, message, operations>>
  PROVE  /\ Inside' = Inside /\ ServiceThreads' /\ ServiceLoops'
         /\ status' \in [Coroutines -> {"running", "full", "waiting", "finishing", "stopping", "done"}]
         /\ status'[c] = s /\ \A d \in Coroutines : d # c => status'[d] = status[d]
  <1>1. ServiceTypes /\ ServiceLoops /\ ServiceThreads
    BY DEF ServiceInv
  <1>2. /\ status' \in [Coroutines -> {"running", "full", "waiting", "finishing", "stopping", "done"}]
        /\ status'[c] = s /\ \A d \in Coroutines : d # c => status'[d] = status[d]
    BY <1>1 DEF ServiceTypes, Resumed
  <1>3. \A d \in Coroutines, t \in LoopThreads : OnThread(d, t)' <=> OnThread(d, t)
    BY <1>2 DEF OnThread, Resumed
  <1>4. QED BY <1>1, <1>2, <1>3 DEF ServiceThreads, ServiceLoops, Inside

(* A coroutine that gets into the pipe or on the overflow list waits.      *)
LEMMA PlacesEntered ==
  ASSUME ServiceInv, NEW c \in Coroutines, status[c] # "waiting", status'[c] = "waiting",
         \A d \in Coroutines : d # c => status'[d] = status[d], UNCHANGED <<message, operations>>,
         \/ mq' = Append(mq, c) /\ UNCHANGED m_scheduleOperations
         \/ m_scheduleOperations' = <<c>> \o m_scheduleOperations /\ UNCHANGED mq
  PROVE  ServicePlaces'
  <1> USE ServiceParties
  <1> SUFFICES ASSUME NEW d \in Coroutines PROVE PlacesOf(d)'
    BY DEF ServicePlaces
  <1>1. PlacesOf(d) /\ PlacesOf(c)
    BY DEF ServiceInv, ServicePlaces
  <1>2. PICK q \in Seq(Coroutines \cup {WakeUp}) : q = mq
    BY DEF ServiceInv, ServiceTypes
  <1>3. PICK l \in Seq(Coroutines) : l = m_scheduleOperations
    BY DEF ServiceInv, ServiceTypes
  <1>4. \A t \in LoopThreads : HeldBy(d, t)' <=> HeldBy(d, t)
    BY DEF HeldBy
  <1>5. ~OnList(c, mq) /\ ~OnList(c, m_scheduleOperations) /\ \A t \in LoopThreads : ~HeldBy(c, t)
    BY <1>1 DEF PlacesOf
  <1>6. CASE mq' = Append(mq, c) /\ UNCHANGED m_scheduleOperations
    <2>1. c \in Coroutines \cup {WakeUp}
      OBVIOUS
    <2>2. /\ OnList(d, Append(q, c)) <=> OnList(d, q) \/ d = c
          /\ OnceOnList(d, q) /\ (d = c => ~OnList(d, q)) => OnceOnList(d, Append(q, c))
      BY <2>1, OnAppended
    <2>3. (OnList(d, mq') <=> OnList(d, mq) \/ d = c) /\ OnceOnList(d, mq')
      BY <1>1, <1>2, <1>5, <1>6, <2>2 DEF PlacesOf
    <2>4. QED BY <1>1, <1>4, <1>5, <1>6, <2>3 DEF PlacesOf
  <1>7. CASE m_scheduleOperations' = <<c>> \o m_scheduleOperations /\ UNCHANGED mq
    <2>1. (OnList(d, <<c>>) <=> d = c) /\ OnceOnList(d, <<c>>) /\ <<c>> \in Seq(Coroutines)
      BY OnSingleton
    <2>2. /\ OnList(d, <<c>> \o l) <=> OnList(d, <<c>>) \/ OnList(d, l)
          /\ OnceOnList(d, <<c>>) /\ OnceOnList(d, l) /\ ~(OnList(d, <<c>>) /\ OnList(d, l)) => OnceOnList(d, <<c>> \o l)
      BY <2>1, OnConcatenated
    <2>3. (OnList(d, m_scheduleOperations') <=> d = c \/ OnList(d, m_scheduleOperations)) /\ OnceOnList(d, m_scheduleOperations')
      BY <1>1, <1>3, <1>5, <1>7, <2>1, <2>2 DEF PlacesOf
    <2>4. QED BY <1>1, <1>4, <1>5, <1>7, <2>3, SMTT(40) DEF PlacesOf
  <1>8. QED BY <1>6, <1>7

LEMMA ScheduleStep ==
  ASSUME ServiceInv, NEW c \in Coroutines, Service!Schedule(c) \/ Service!PushOverflow(c)
  PROVE  ServiceInv'
  <1> USE ServiceParties
  <1>1. ServiceTypes /\ ServiceCounts /\ ServiceLoops /\ ServiceThreads /\ ServicePlaces
    BY DEF ServiceInv
  <1>2. /\ status[c] \in {"running", "full"}
        /\ UNCHANGED <<stopRequested, activeThreads, m_workCount, waitForEvent, once, operations, message, thread,
                       wakeUps, resets>>
    BY DEF Service!Schedule, Service!PushOverflow, Service!threadState
  <1>3. schedules' \in [Coroutines -> 0 .. MaxSchedules]
    <2>1. schedules \in [Coroutines -> 0 .. MaxSchedules]
      BY <1>1 DEF ServiceTypes
    <2>2. CASE schedules[c] < MaxSchedules /\ schedules' = [schedules EXCEPT ![c] = @ + 1]
      <3>1. schedules[c] + 1 \in 0 .. MaxSchedules
        BY <2>1, <2>2
      <3>2. QED BY <2>1, <2>2, <3>1
    <2>3. QED BY <2>1, <2>2 DEF Service!Schedule, Service!PushOverflow
  <1>4. CASE status' = [status EXCEPT ![c] = "full"] /\ UNCHANGED <<mq, pc, m_scheduleOperations>>
    <2>1. /\ Inside' = Inside /\ ServiceThreads' /\ ServiceLoops'
          /\ status' \in [Coroutines -> {"running", "full", "waiting", "finishing", "stopping", "done"}]
          /\ status'[c] = "full" /\ \A d \in Coroutines : d # c => status'[d] = status[d]
      BY <1>2, <1>4, RunsOn DEF Resumed
    <2>2. ServiceTypes'
      BY <1>1, <1>2, <1>3, <1>4, <2>1 DEF ServiceTypes
    <2>3. Working' = Working
      BY <1>2, <2>1 DEF Working
    <2>4. ServiceCounts'
      BY <1>1, <1>2, <2>1, <2>3 DEF ServiceCounts
    <2>5. ServicePlaces'
      <3>1. \A d \in Coroutines : status'[d] = "waiting" <=> status[d] = "waiting"
        BY <1>2, <2>1
      <3>2. QED BY <1>1, <1>2, <1>4, <3>1, PlacesKept
    <2>6. QED BY <2>1, <2>2, <2>4, <2>5 DEF ServiceInv
  <1>5. CASE /\ status' = [status EXCEPT ![c] = "waiting"] /\ Service!ReturnFromResume(c)
             /\ \/ Len(mq) # Capacity /\ mq' = Append(mq, c) /\ UNCHANGED m_scheduleOperations
                \/ m_scheduleOperations' = <<c>> \o m_scheduleOperations /\ UNCHANGED mq
    <2>1. /\ pc' \in [LoopThreads -> LoopLabels] /\ Inside' = Inside /\ ServiceThreads' /\ ServiceLoops'
          /\ status' \in [Coroutines -> {"running", "full", "waiting", "finishing", "stopping", "done"}]
          /\ status'[c] = "waiting" /\ \A d \in Coroutines : d # c => status'[d] = status[d]
      BY <1>2, <1>5, ReturnMoves DEF Resumed
    <2>2. /\ mq' \in Seq(Coroutines \cup {WakeUp}) /\ Len(mq') <= Capacity
          /\ m_scheduleOperations' \in Seq(Coroutines)
      <3>1. mq \in Seq(Coroutines \cup {WakeUp}) /\ Len(mq) <= Capacity /\ m_scheduleOperations \in Seq(Coroutines)
        BY <1>1 DEF ServiceTypes
      <3>2. CASE Len(mq) # Capacity /\ mq' = Append(mq, c) /\ UNCHANGED m_scheduleOperations
        <4>1. mq' \in Seq(Coroutines \cup {WakeUp}) /\ Len(mq') = Len(mq) + 1
          BY <3>1, <3>2
        <4>2. QED BY <3>1, <3>2, <4>1
      <3>3. CASE m_scheduleOperations' = <<c>> \o m_scheduleOperations /\ UNCHANGED mq
        <4>1. <<c>> \in Seq(Coroutines)
          OBVIOUS
        <4>2. <<c>> \o m_scheduleOperations \in Seq(Coroutines)
          BY <3>1, <4>1, ConcatProperties
        <4>3. QED BY <3>1, <3>3, <4>2
      <3>4. QED BY <1>5, <3>2, <3>3
    <2>3. ServiceTypes'
      BY <1>1, <1>2, <1>3, <2>1, <2>2 DEF ServiceTypes
    <2>4. Working' = Working
      BY <1>2, <2>1 DEF Working
    <2>5. ServiceCounts'
      BY <1>1, <1>2, <2>1, <2>4 DEF ServiceCounts
    <2>6. ServicePlaces'
      BY <1>2, <1>5, <2>1, PlacesEntered
    <2>7. QED BY <2>1, <2>3, <2>5, <2>6 DEF ServiceInv
  <1>6. QED BY <1>4, <1>5 DEF Service!Schedule, Service!PushOverflow, Service!Enqueue, Service!Full

(* notify_work_finished() and the stop() of the last one.                  *)
LEMMA FinishStep ==
  ASSUME ServiceInv, NEW c \in Coroutines, Service!FinishWork(c) \/ Service!LastWorkStops(c) \/ Service!StopReturns(c)
  PROVE  ServiceInv'
  <1> USE ServiceParties
  <1>1. ServiceTypes /\ ServiceCounts /\ ServiceLoops /\ ServiceThreads /\ ServicePlaces
    BY DEF ServiceInv
  <1>2. /\ status[c] \in {"running", "finishing", "stopping"}
        /\ UNCHANGED <<activeThreads, mq, m_scheduleOperations, waitForEvent, once, operations, message, thread,
                       schedules, resets>>
    BY DEF Service!FinishWork, Service!LastWorkStops, Service!StopReturns, Service!threadState, Service!queues, Service!loops
  <1>3. stopRequested' \in BOOLEAN /\ wakeUps' \in [Coroutines \cup {Owner} -> 0 .. Cardinality(LoopThreads)]
    <2>1. wakeUps \in [Coroutines \cup {Owner} -> 0 .. Cardinality(LoopThreads)] /\ stopRequested \in BOOLEAN
      BY <1>1 DEF ServiceTypes
    <2>2. CASE Service!LastWorkStops(c)
      <3>1. Service!WakeUpsToPost \in 0 .. Cardinality(LoopThreads)
        BY <1>1, InsideCounted DEF Service!WakeUpsToPost, ServiceCounts
      <3>2. QED BY <2>1, <2>2, <3>1 DEF Service!LastWorkStops
    <2>3. CASE ~Service!LastWorkStops(c)
      BY <2>1, <2>3 DEF Service!FinishWork, Service!StopReturns, Service!threadState
    <2>4. QED BY <2>2, <2>3
  <1>4. \E s \in {"finishing", "stopping", "done"} :
          /\ status' = [status EXCEPT ![c] = s]
          /\ (s = "done" /\ Service!ReturnFromResume(c)) \/ (s # "done" /\ UNCHANGED pc)
    <2>1. CASE Service!FinishWork(c)
      <3>1. CASE status' = [status EXCEPT ![c] = "finishing"] /\ UNCHANGED pc
        BY <3>1, Zenon
      <3>2. CASE status' = [status EXCEPT ![c] = "done"] /\ Service!ReturnFromResume(c)
        BY <3>2, Zenon
      <3>3. QED BY <2>1, <3>1, <3>2 DEF Service!FinishWork
    <2>2. CASE Service!LastWorkStops(c)
      <3>1. status' = [status EXCEPT ![c] = "stopping"] /\ UNCHANGED pc
        BY <2>2 DEF Service!LastWorkStops, Service!loops
      <3>2. QED BY <3>1, Zenon
    <2>3. CASE Service!StopReturns(c)
      <3>1. status' = [status EXCEPT ![c] = "done"] /\ Service!ReturnFromResume(c)
        BY <2>3 DEF Service!StopReturns
      <3>2. QED BY <3>1, Zenon
    <2>4. QED BY <2>1, <2>2, <2>3
  <1>5. PICK s \in {"finishing", "stopping", "done"} :
          /\ status' = [status EXCEPT ![c] = s]
          /\ (s = "done" /\ Service!ReturnFromResume(c)) \/ (s # "done" /\ UNCHANGED pc)
    BY <1>4
  <1>6. /\ pc' \in [LoopThreads -> LoopLabels] /\ Inside' = Inside /\ ServiceThreads' /\ ServiceLoops'
        /\ status' \in [Coroutines -> {"running", "full", "waiting", "finishing", "stopping", "done"}]
        /\ status'[c] = s /\ \A d \in Coroutines : d # c => status'[d] = status[d]
    <2>1. CASE s = "done"
      BY <1>2, <1>5, <2>1, ReturnMoves DEF Resumed
    <2>2. CASE s # "done"
      <3>1. s \in Resumed /\ status[c] \in Resumed
        BY <1>2, <2>2 DEF Resumed
      <3>2. pc' = pc /\ pc \in [LoopThreads -> LoopLabels]
        BY <1>1, <1>5, <2>2 DEF ServiceTypes
      <3>3. QED BY <1>2, <1>5, <3>1, <3>2, RunsOn
    <2>3. QED BY <2>1, <2>2
  <1>7. ServiceTypes'
    BY <1>1, <1>2, <1>3, <1>6 DEF ServiceTypes
  <1>8. ServiceCounts'
    <2>1. CASE Service!FinishWork(c)
      <3>1. c \in Working /\ Working' = Working \ {c} /\ m_workCount' = m_workCount - 1
        BY <1>6, <2>1 DEF Working, Service!FinishWork
      <3>2. Cardinality(Working') = Cardinality(Working) - 1
        BY <3>1, InsideCounted, FS_RemoveElement
      <3>3. QED BY <1>1, <1>2, <1>6, <3>1, <3>2 DEF ServiceCounts
    <2>2. CASE ~Service!FinishWork(c)
      <3>1. status[c] \in {"finishing", "stopping"} /\ m_workCount' = m_workCount
        BY <2>2 DEF Service!LastWorkStops, Service!StopReturns
      <3>2. Working' = Working
        BY <1>6, <3>1 DEF Working
      <3>3. QED BY <1>1, <1>2, <1>6, <3>1, <3>2 DEF ServiceCounts
    <2>3. QED BY <2>1, <2>2
  <1>9. ServicePlaces'
    <2>1. \A d \in Coroutines : status'[d] = "waiting" <=> status[d] = "waiting"
      BY <1>2, <1>6
    <2>2. QED BY <1>1, <1>2, <2>1, PlacesKept
  <1>10. QED BY <1>6, <1>7, <1>8, <1>9 DEF ServiceInv

(* stop(), the wake-ups it posts, and reset().                             *)
LEMMA StopStep ==
  ASSUME ServiceInv, Service!OwnerStops \/ Service!Reset \/ \E a \in Coroutines \cup {Owner} : Service!PostWakeUp(a)
  PROVE  ServiceInv'
  <1> USE ServiceParties
  <1>1. ServiceTypes /\ ServiceCounts /\ ServiceLoops /\ ServiceThreads /\ ServicePlaces
    BY DEF ServiceInv
  <1>2. UNCHANGED <<activeThreads, m_workCount, m_scheduleOperations, pc, waitForEvent, once, operations, message, status,
                    thread, schedules>>
    BY DEF Service!OwnerStops, Service!Reset, Service!PostWakeUp, Service!threadState, Service!queues, Service!loops,
       Service!coroutines
  <1>3. ServiceCounts' /\ ServiceLoops' /\ ServiceThreads'
    BY <1>1, <1>2 DEF ServiceCounts, Inside, Working, ServiceLoops, ServiceThreads, OnThread
  <1>4. /\ wakeUps \in [Coroutines \cup {Owner} -> 0 .. Cardinality(LoopThreads)] /\ stopRequested \in BOOLEAN
        /\ resets \in 0 .. MaxResets
    BY <1>1 DEF ServiceTypes
  <1>5. CASE Service!OwnerStops \/ Service!Reset
    <2>1. stopRequested' \in BOOLEAN /\ mq' = mq
      BY <1>5 DEF Service!OwnerStops, Service!Reset, Service!queues
    <2>2. wakeUps' \in [Coroutines \cup {Owner} -> 0 .. Cardinality(LoopThreads)]
      <3>1. Service!WakeUpsToPost \in 0 .. Cardinality(LoopThreads)
        BY <1>1, InsideCounted DEF Service!WakeUpsToPost, ServiceCounts
      <3>2. QED BY <1>4, <1>5, <3>1 DEF Service!OwnerStops, Service!Reset
    <2>3. resets' \in 0 .. MaxResets
      BY <1>4, <1>5 DEF Service!OwnerStops, Service!Reset
    <2>4. ServiceTypes'
      BY <1>1, <1>2, <2>1, <2>2, <2>3 DEF ServiceTypes
    <2>5. ServicePlaces'
      BY <1>1, <1>2, <2>1, PlacesKept
    <2>6. QED BY <1>3, <2>4, <2>5 DEF ServiceInv
  <1>6. ASSUME NEW a \in Coroutines \cup {Owner}, Service!PostWakeUp(a) PROVE ServiceInv'
    <2>1. /\ wakeUps[a] > 0 /\ wakeUps' = [wakeUps EXCEPT ![a] = @ - 1] /\ UNCHANGED <<stopRequested, resets>>
          /\ mq' = mq \/ (Len(mq) # Capacity /\ mq' = Append(mq, WakeUp))
      BY <1>6 DEF Service!PostWakeUp, Service!Enqueue, Service!Full, Service!threadState
    <2>2. wakeUps' \in [Coroutines \cup {Owner} -> 0 .. Cardinality(LoopThreads)]
      <3>1. wakeUps[a] - 1 \in 0 .. Cardinality(LoopThreads)
        BY <1>4, <2>1
      <3>2. QED BY <1>4, <2>1, <3>1
    <2>3. PICK q \in Seq(Coroutines \cup {WakeUp}) : q = mq
      BY <1>1 DEF ServiceTypes
    <2>4. mq' \in Seq(Coroutines \cup {WakeUp}) /\ Len(mq') <= Capacity
      <3>1. Len(q) <= Capacity /\ Len(q) \in Nat
        BY <1>1, <2>3 DEF ServiceTypes
      <3>2. QED BY <2>1, <2>3, <3>1
    <2>5. ServiceTypes'
      BY <1>1, <1>2, <2>1, <2>2, <2>4 DEF ServiceTypes
    <2>6. ServicePlaces'
      <3> SUFFICES ASSUME NEW c \in Coroutines PROVE PlacesOf(c)'
        BY DEF ServicePlaces
      <3>1. PlacesOf(c)
        BY <1>1 DEF ServicePlaces
      <3>2. WakeUp \in Coroutines \cup {WakeUp}
        OBVIOUS
      <3>3. /\ OnList(c, Append(q, WakeUp)) <=> OnList(c, q) \/ c = WakeUp
            /\ OnceOnList(c, q) /\ (c = WakeUp => ~OnList(c, q)) => OnceOnList(c, Append(q, WakeUp))
        BY <3>2, OnAppended
      <3>4. (OnList(c, mq') <=> OnList(c, mq)) /\ OnceOnList(c, mq')
        BY <2>1, <2>3, <3>1, <3>3 DEF PlacesOf
      <3>5. \A t \in LoopThreads : HeldBy(c, t)' <=> HeldBy(c, t)
        BY <1>2 DEF HeldBy
      <3>6. QED BY <1>2, <3>1, <3>4, <3>5 DEF PlacesOf
    <2>7. QED BY <1>3, <2>5, <2>6 DEF ServiceInv
  <1>7. QED BY <1>5, <1>6

LEMMA ServiceStep ==
  ASSUME ServiceInv, Service!Next \/ UNCHANGED serviceVars
  PROVE  ServiceInv'
  <1>1. Service!IoThreads = LoopThreads
    BY DEF Service!IoThreads, LoopThreads
  <1>2. ASSUME NEW t \in LoopThreads, Service!LoopStep(t) \/ Service!EnterEventLoop(t) \/ Service!EpollInterrupted(t)
        PROVE  ServiceInv'
    BY <1>2, QuietLoopStep, EnterOrExitStep, TakeOverflowStep, RepostStep, PutBackStep, ReadStep, ResumeStep
       DEF Service!LoopStep
  <1>3. ASSUME NEW c \in Coroutines, Service!CoroutineStep(c) PROVE ServiceInv'
    BY <1>3, ScheduleStep, FinishStep, StopStep DEF Service!CoroutineStep
  <1>4. CASE Service!OwnerStops \/ Service!PostWakeUp(Owner) \/ Service!Reset
    BY <1>4, StopStep
  <1>5. CASE UNCHANGED serviceVars
    <2>1. UNCHANGED <<stopRequested, activeThreads, m_workCount, mq, m_scheduleOperations, pc, waitForEvent, once,
                      operations, message, status, thread, schedules, wakeUps, resets>>
      BY <1>5 DEF serviceVars
    <2>2. ServicePlaces'
      BY <2>1, PlacesKept DEF ServiceInv
    <2>3. QED BY <2>1, <2>2 DEF ServiceInv, ServiceTypes, ServiceCounts, Inside, Working, ServiceLoops, ServiceThreads, OnThread
  <1>6. QED BY <1>1, <1>2, <1>3, <1>4, <1>5 DEF Service!Next

(* However I/O threads enter, leave and block, coroutines await schedule() *)
(* with a pipe that may be full, and stop() and reset() are called: a      *)
(* coroutine that waits is in exactly one place it will be resumed from,   *)
(* and the threads in the event loop are those that stop() counts.         *)
THEOREM SchedulingIsSafe == MCSpec => []ScheduleSafe
  <1>1. MCInit => ServiceInv
    BY ServiceInitially DEF MCInit
  <1>2. ServiceInv /\ [MCNext]_<<chosen, serviceVars, timerVars, textVars>> => ServiceInv'
    BY ServiceStep DEF MCNext
  <1>3. ServiceInv => ScheduleSafe
    BY ServiceInvIsSafe
  <1>4. QED BY <1>1, <1>2, <1>3, PTL DEF MCSpec

-----------------------------------------------------------------------------
(* The timer thread                                                        *)

Fallback == Timers!Overflow

(* On one of the lists that share m_next.                                  *)
Listed(o) ==
  o \in m_newlyQueuedTimers \cup newTimers \cup m_timerEntries \cup Fallback \cup timersReadyToResume

DueOrCancelled(o) == m_resumeTime[o] <= now \/ cancelled[o]

(* Where await_suspend() has not handed the operation over.                *)
Unpushed == {"before", "ensure", "register", "registering", "push"}

(* Who holds a reference to an operation, and who may call back for it.    *)
TimerOperation(o) ==
  /\ timerPc[o] \in Unpushed => timerStatus[o] = "awaiting" /\ m_refCount[o] = 2 /\ ~Listed(o)
  /\ timerPc[o] \in {"wake", "release"} => timerStatus[o] = "awaiting" /\ m_refCount[o] = IF Listed(o) THEN 2 ELSE 1
  /\ timerPc[o] = "returned" =>
       IF timerStatus[o] = "awaiting" THEN Listed(o) /\ m_refCount[o] = 1 ELSE ~Listed(o)
  /\ timerPc[o] \notin Unpushed /\ ~Listed(o) => DueOrCancelled(o)
  /\ o \in timersReadyToResume => DueOrCancelled(o)
  /\ registered[o] => timerStatus[o] \in {"awaiting", "scheduled"} /\ timerPc[o] \notin {"before", "ensure", "register"}
  /\ canceller[o] # "idle" => registered[o]
  /\ timerPc[o] \in {"register", "registering", "push"} \/ Listed(o) => m_timerState
  /\ service # "alive" => timerPc[o] = "before" \/ timerStatus[o] \in {"resumed", "cancelled"}

TimerOperations == \A o \in Operations : TimerOperation(o)

(* A timer is on one list only, and the fallback is in ascending order.    *)
TimerLists ==
  /\ m_newlyQueuedTimers \cap (newTimers \cup m_timerEntries \cup Fallback \cup timersReadyToResume) = {}
  /\ newTimers \cap (m_timerEntries \cup Fallback \cup timersReadyToResume) = {}
  /\ m_timerEntries \cap (Fallback \cup timersReadyToResume) = {}
  /\ Fallback \cap timersReadyToResume = {}

Ascending(list) == \A i, j \in DOMAIN list : i < j => m_resumeTime[list[i]] <= m_resumeTime[list[j]]

(* What run() has in its hands, and what it has set the timer to.          *)
TimerLoop ==
  /\ newTimers # {} => threadPc = "enqueue"
  /\ timersReadyToResume # {} => threadPc \in {"new", "enqueue", "due", "schedule"}
  /\ threadPc = "none" <=> ~m_timerState
  /\ lastSetWaitEventTime = m_waitableTimerEvent
  /\ Ascending(m_overflowTimers)
  /\ chosen = "timers" /\ threadPc \in {"schedule", "wait"} =>
       \A o \in m_timerEntries \cup Fallback : m_waitableTimerEvent <= m_resumeTime[o]

TimersInv == Timers!TypeOK /\ TimerOperations /\ TimerLists /\ TimerLoop

LEMMA ListsKept ==
  ASSUME TimerLists,
         UNCHANGED <<m_newlyQueuedTimers, newTimers, m_timerEntries, m_overflowTimers, timersReadyToResume>>
  PROVE  /\ TimerLists' /\ Fallback' = Fallback
         /\ \A o : Listed(o)' <=> Listed(o)
  <1>1. Fallback' = Fallback
    BY DEF Fallback, Timers!Overflow
  <1>2. QED BY <1>1 DEF TimerLists, Listed

(* What a step has to leave alone of an operation.                         *)
LEMMA OperationKept ==
  ASSUME NEW o, TimerOperation(o),
         timerPc'[o] = timerPc[o], timerStatus'[o] = timerStatus[o], m_refCount'[o] = m_refCount[o],
         registered'[o] = registered[o], canceller'[o] = canceller[o] \/ canceller'[o] = "idle" \/ registered[o],
         Listed(o)' <=> Listed(o),
         DueOrCancelled(o) => DueOrCancelled(o)',
         o \in timersReadyToResume' => o \in timersReadyToResume \/ DueOrCancelled(o)',
         m_timerState => m_timerState',
         service' # "alive" => service # "alive" \/ timerPc[o] = "before" \/ timerStatus[o] \in {"resumed", "cancelled"}
  PROVE  TimerOperation(o)'
  <1> DEFINE L == Listed(o)
             D == DueOrCancelled(o)
  <1>1. L \in BOOLEAN /\ D \in BOOLEAN
    BY DEF Listed, DueOrCancelled
  <1> HIDE DEF L, D
  <1>2. /\ timerPc[o] \in Unpushed => timerStatus[o] = "awaiting" /\ m_refCount[o] = 2 /\ ~L
        /\ timerPc[o] \in {"wake", "release"} => timerStatus[o] = "awaiting" /\ m_refCount[o] = IF L THEN 2 ELSE 1
        /\ timerPc[o] = "returned" => IF timerStatus[o] = "awaiting" THEN L /\ m_refCount[o] = 1 ELSE ~L
        /\ timerPc[o] \notin Unpushed /\ ~L => D
        /\ o \in timersReadyToResume => D
        /\ registered[o] => timerStatus[o] \in {"awaiting", "scheduled"} /\ timerPc[o] \notin {"before", "ensure", "register"}
        /\ canceller[o] # "idle" => registered[o]
        /\ timerPc[o] \in {"register", "registering", "push"} \/ L => m_timerState
        /\ service # "alive" => timerPc[o] = "before" \/ timerStatus[o] \in {"resumed", "cancelled"}
    BY DEF TimerOperation, L, D
  <1>3. (L' <=> L) /\ (D => D') /\ (o \in timersReadyToResume' => o \in timersReadyToResume \/ D')
    BY DEF L, D
  <1>4. /\ timerPc'[o] \in Unpushed => timerStatus'[o] = "awaiting" /\ m_refCount'[o] = 2 /\ ~L'
        /\ timerPc'[o] \in {"wake", "release"} => timerStatus'[o] = "awaiting" /\ m_refCount'[o] = IF L' THEN 2 ELSE 1
        /\ timerPc'[o] = "returned" => IF timerStatus'[o] = "awaiting" THEN L' /\ m_refCount'[o] = 1 ELSE ~L'
    BY <1>2, <1>3
  <1>5. /\ timerPc'[o] \notin Unpushed /\ ~L' => D'
        /\ o \in timersReadyToResume' => D'
    BY <1>2, <1>3
  <1>6. /\ registered'[o] => timerStatus'[o] \in {"awaiting", "scheduled"} /\ timerPc'[o] \notin {"before", "ensure", "register"}
        /\ canceller'[o] # "idle" => registered'[o]
    BY <1>2
  <1>7. /\ timerPc'[o] \in {"register", "registering", "push"} \/ L' => m_timerState'
        /\ service' # "alive" => timerPc'[o] = "before" \/ timerStatus'[o] \in {"resumed", "cancelled"}
    BY <1>2, <1>3
  <1>8. QED BY <1>4, <1>5, <1>6, <1>7 DEF TimerOperation, Unpushed, L, D

LEMMA TimersInitially ==
  ASSUME Timers!Init
  PROVE  TimersInv
  <1> USE IoAssumption DEF Timers!Init
  <1>1. Timers!TypeOK
    <2>1. now \in 0 .. MaxTime /\ m_waitableTimerEvent \in Timers!Times /\ lastSetWaitEventTime \in Timers!Times
      BY DEF Timers!FarFuture, Timers!TimePointMax, Timers!Times
    <2>2. m_refCount \in [Operations -> 0 .. 2] /\ cancelled \in [Operations -> BOOLEAN] /\ registered \in [Operations -> BOOLEAN]
      BY DEF Timers!InitialRefCount
    <2>3. m_overflowTimers \in Seq(Operations)
      OBVIOUS
    <2>4. QED BY <2>1, <2>2, <2>3 DEF Timers!TypeOK
  <1>2. Fallback = {} /\ \A o : ~Listed(o)
    BY DEF Fallback, Timers!Overflow, Listed
  <1>3. TimerOperations
    BY <1>2 DEF TimerOperations, TimerOperation, Timers!InitialRefCount, Unpushed
  <1>4. TimerLists /\ TimerLoop
    BY <1>2 DEF TimerLists, TimerLoop, Ascending
  <1>5. QED BY <1>1, <1>3, <1>4 DEF TimersInv

(* What the properties say, from the invariant.                            *)
LEMMA TimersInvIsSafe ==
  ASSUME TimersInv
  PROVE  TimersSafe
  <1>1. Timers!TypeOK /\ TimerOperations /\ TimerLists /\ TimerLoop
    BY DEF TimersInv
  <1>2. ASSUME NEW o \in Operations
        PROVE  /\ Timers!Cardinality(Timers!Lists(o)) <= 1
               /\ Timers!Lists(o) = {} <=> ~Listed(o)
    <2> DEFINE lists == <<m_newlyQueuedTimers, newTimers, m_timerEntries, Timers!Overflow, timersReadyToResume>>
    <2>1. Timers!Lists(o) = {l \in 1 .. 5 : o \in lists[l]}
      BY DEF Timers!Lists
    <2>2. /\ lists[1] = m_newlyQueuedTimers /\ lists[2] = newTimers /\ lists[3] = m_timerEntries
          /\ lists[4] = Fallback /\ lists[5] = timersReadyToResume
      BY DEF Fallback
    <2> HIDE DEF lists
    <2>3. \A l \in 1 .. 5 : l = 1 \/ l = 2 \/ l = 3 \/ l = 4 \/ l = 5
      OBVIOUS
    <2>4. ASSUME NEW k \in 1 .. 5, NEW l \in 1 .. 5, o \in lists[k], o \in lists[l] PROVE k = l
      BY <1>1, <2>2, <2>3, <2>4 DEF TimerLists
    <2>5. Cardinality(Timers!Lists(o)) <= 1
      BY <2>1, <2>4, AtMostOne
    <2>6. Timers!Cardinality(Timers!Lists(o)) = Cardinality(Timers!Lists(o))
      BY DEF Timers!Cardinality, Cardinality
    <2>7. Listed(o) <=> \E l \in 1 .. 5 : o \in lists[l]
      BY <2>2, <2>3 DEF Listed
    <2>8. QED BY <2>1, <2>5, <2>6, <2>7
  <1>3. ASSUME NEW o \in Operations
        PROVE  /\ timerPc[o] \in Unpushed \cup {"wake", "release", "returned"}
               /\ timerStatus[o] \in {"awaiting", "scheduled", "resumed", "cancelled"}
               /\ TimerOperation(o)
    BY <1>1 DEF TimerOperations, Timers!TypeOK, Unpushed
  <1>4. Timers!OnOneList
    BY <1>2, <1>3 DEF Timers!OnOneList, TimerOperation, Unpushed
  <1>5. Timers!ScheduledAtRest
    BY <1>2, <1>3 DEF Timers!ScheduledAtRest, TimerOperation, DueOrCancelled, Unpushed
  <1>6. Timers!DestroyedUnused
    <2> SUFFICES ASSUME service # "alive", NEW o \in Operations
                 PROVE  timerPc[o] \in {"before", "returned"} /\ canceller[o] = "idle" /\ ~Listed(o)
      BY <1>2 DEF Timers!DestroyedUnused
    <2>1. CASE timerPc[o] = "before"
      BY <1>3, <2>1 DEF TimerOperation, Unpushed
    <2>2. CASE timerStatus[o] \in {"resumed", "cancelled"}
      BY <1>3, <2>2 DEF TimerOperation, Unpushed
    <2>3. QED BY <1>3, <2>1, <2>2 DEF TimerOperation
  <1>7. chosen = "timers" => Timers!ArmedForEarliest
    BY <1>1 DEF TimerLoop, Timers!ArmedForEarliest, Fallback
  <1>8. QED BY <1>1, <1>4, <1>5, <1>6, <1>7 DEF TimersSafe

-----------------------------------------------------------------------------
(* Steps that move no timer from a list to another.                        *)

(* What a step has to leave alone, or may change, for the rest.            *)
LEMMA TimerLoopKept ==
  ASSUME TimerLoop,
         UNCHANGED <<chosen, m_resumeTime, m_timerState, newTimers, timersReadyToResume, lastSetWaitEventTime, threadPc,
                     m_waitableTimerEvent, m_timerEntries, m_overflowTimers>>
  PROVE  TimerLoop'
  BY DEF TimerLoop, Ascending, Fallback, Timers!Overflow

LEMMA TickStep ==
  ASSUME TimersInv, Timers!Tick, UNCHANGED chosen
  PROVE  TimersInv'
  <1> USE IoAssumption
  <1>1. Timers!TypeOK /\ TimerOperations /\ TimerLists /\ TimerLoop
    BY DEF TimersInv
  <1>2. /\ now < MaxTime /\ now' = now + 1
        /\ UNCHANGED <<m_resumeTime, cancelled, m_refCount, timerPc, registered, canceller, timerStatus, m_timerState,
                       m_newlyQueuedTimers, m_timerCancellationRequested, m_shutDownRequested, m_wakeUpEvent,
                       m_waitableTimerEvent, m_timerEntries, m_overflowTimers, newTimers, timersReadyToResume,
                       lastSetWaitEventTime, threadPc, service>>
    BY DEF Timers!Tick, Timers!flags, Timers!queue, Timers!run
  <1>3. Timers!TypeOK'
    BY <1>1, <1>2 DEF Timers!TypeOK
  <1>4. TimerLists' /\ \A o : Listed(o)' <=> Listed(o)
    BY <1>1, <1>2, ListsKept
  <1>5. ASSUME NEW o \in Operations PROVE TimerOperation(o)'
    <2>1. now \in Int /\ m_resumeTime[o] \in Int
      BY <1>1 DEF Timers!TypeOK
    <2>2. DueOrCancelled(o) => DueOrCancelled(o)'
      BY <1>2, <2>1 DEF DueOrCancelled
    <2>3. QED BY <1>1, <1>2, <1>4, <2>2, OperationKept DEF TimerOperations
  <1>6. TimerLoop'
    BY <1>1, <1>2, TimerLoopKept
  <1>7. QED BY <1>3, <1>4, <1>5, <1>6 DEF TimersInv, TimerOperations

(* The thread that awaits, before it pushes the operation.                 *)
LEMMA BeforePushStep ==
  ASSUME TimersInv, NEW o \in Operations, UNCHANGED chosen,
         Timers!Await(o) \/ Timers!RegisterCallback(o) \/ Timers!CallbackReturns(o) \/ Timers!WakeTimerThread(o)
  PROVE  TimersInv'
  <1>1. Timers!TypeOK /\ TimerOperations /\ TimerLists /\ TimerLoop
    BY DEF TimersInv
  <1>2. UNCHANGED <<now, m_resumeTime, cancelled, m_refCount, m_timerState,
                    m_newlyQueuedTimers, m_timerCancellationRequested, m_shutDownRequested,
                    m_waitableTimerEvent, m_timerEntries, m_overflowTimers, newTimers, timersReadyToResume,
                    lastSetWaitEventTime, threadPc, service>>
    BY DEF Timers!Await, Timers!RegisterCallback, Timers!CallbackReturns, Timers!WakeTimerThread, Timers!flags, Timers!queue,
       Timers!run, Timers!time
  <1>3. \/ /\ timerPc[o] = "before" /\ service = "alive" /\ cancelled[o] /\ timerPc' = [timerPc EXCEPT ![o] = "returned"]
           /\ timerStatus' = [timerStatus EXCEPT ![o] = "cancelled"] /\ UNCHANGED <<registered, canceller, m_wakeUpEvent>>
        \/ /\ timerPc[o] = "before" /\ service = "alive" /\ timerPc' = [timerPc EXCEPT ![o] = "ensure"]
           /\ UNCHANGED <<timerStatus, registered, canceller, m_wakeUpEvent>>
        \/ /\ timerPc[o] = "register" /\ timerPc' = [timerPc EXCEPT ![o] = "registering"]
           /\ registered' = [registered EXCEPT ![o] = TRUE] /\ canceller' = [canceller EXCEPT ![o] = "callback"]
           /\ UNCHANGED <<timerStatus, m_wakeUpEvent>>
        \/ /\ timerPc[o] = "register" /\ timerPc' = [timerPc EXCEPT ![o] = "push"]
           /\ registered' = [registered EXCEPT ![o] = TRUE] /\ UNCHANGED <<canceller, timerStatus, m_wakeUpEvent>>
        \/ /\ timerPc[o] = "registering" /\ timerPc' = [timerPc EXCEPT ![o] = "push"]
           /\ UNCHANGED <<registered, canceller, timerStatus, m_wakeUpEvent>>
        \/ /\ timerPc[o] = "wake" /\ timerPc' = [timerPc EXCEPT ![o] = "release"] /\ m_wakeUpEvent' = TRUE
           /\ UNCHANGED <<registered, canceller, timerStatus>>
    BY DEF Timers!Await, Timers!RegisterCallback, Timers!CallbackReturns, Timers!WakeTimerThread, Timers!Goto
  <1>4. Timers!TypeOK'
    BY <1>1, <1>2, <1>3, ZenonT(60) DEF Timers!TypeOK
  <1>5. TimerLists' /\ \A p : Listed(p)' <=> Listed(p)
    BY <1>1, <1>2, ListsKept
  <1>6. TimerLoop'
    BY <1>1, <1>2, TimerLoopKept
  <1>7. \A p \in Operations : DueOrCancelled(p)' <=> DueOrCancelled(p)
    BY <1>2 DEF DueOrCancelled
  <1>8. ASSUME NEW p \in Operations, p # o PROVE TimerOperation(p)'
    <2>1. /\ timerPc'[p] = timerPc[p] /\ timerStatus'[p] = timerStatus[p] /\ m_refCount'[p] = m_refCount[p]
          /\ registered'[p] = registered[p] /\ canceller'[p] = canceller[p]
      BY <1>1, <1>2, <1>3, <1>8 DEF Timers!TypeOK
    <2>2. QED BY <1>1, <1>2, <1>5, <1>7, <2>1, OperationKept DEF TimerOperations
  <1>9. TimerOperation(o)'
    <2>1. TimerOperation(o)
      BY <1>1 DEF TimerOperations
    <2>2. /\ o \in DOMAIN timerPc /\ o \in DOMAIN timerStatus /\ o \in DOMAIN canceller
          /\ registered \in [Operations -> BOOLEAN]
      BY <1>1 DEF Timers!TypeOK
    <2>3. (cancelled[o] => DueOrCancelled(o)') /\ (Listed(o)' <=> Listed(o)) /\ (DueOrCancelled(o)' <=> DueOrCancelled(o))
      BY <1>2, <1>5, <1>7 DEF DueOrCancelled
    <2>4. CASE timerPc[o] = "before"
      <3>1. /\ timerStatus[o] = "awaiting" /\ m_refCount[o] = 2 /\ ~Listed(o) /\ ~registered[o] /\ canceller[o] = "idle"
            /\ o \notin timersReadyToResume
        BY <2>1, <2>4 DEF TimerOperation, Unpushed, Listed
      <3>2. CASE timerPc'[o] = "returned" /\ timerStatus'[o] = "cancelled" /\ cancelled[o]
        BY <1>2, <1>3, <2>2, <2>3, <2>4, <3>1, <3>2 DEF TimerOperation, Unpushed
      <3>3. CASE timerPc'[o] = "ensure" /\ timerStatus'[o] = "awaiting"
        BY <1>2, <1>3, <2>2, <2>3, <2>4, <3>1, <3>3 DEF TimerOperation, Unpushed
      <3>4. QED BY <1>3, <2>2, <2>4, <3>1, <3>2, <3>3
    <2>5. CASE timerPc[o] = "register"
      BY <1>2, <1>3, <2>1, <2>2, <2>3, <2>5 DEF TimerOperation, Unpushed
    <2>6. CASE timerPc[o] = "registering"
      BY <1>2, <1>3, <2>1, <2>2, <2>3, <2>6 DEF TimerOperation, Unpushed
    <2>7. CASE timerPc[o] = "wake"
      BY <1>2, <1>3, <2>1, <2>2, <2>3, <2>7 DEF TimerOperation, Unpushed
    <2>8. QED BY <1>3, <2>4, <2>5, <2>6, <2>7
  <1>10. QED BY <1>4, <1>5, <1>6, <1>8, <1>9 DEF TimersInv, TimerOperations

(* ensure_timer_thread_started(): a thread that is new has no timers.      *)
LEMMA EnsureStep ==
  ASSUME TimersInv, NEW o \in Operations, UNCHANGED chosen, Timers!EnsureTimerThread(o)
  PROVE  TimersInv'
  <1>1. Timers!TypeOK /\ TimerOperations /\ TimerLists /\ TimerLoop
    BY DEF TimersInv
  <1>2. /\ timerPc[o] = "ensure" /\ m_timerState' = TRUE /\ threadPc' = (IF m_timerState THEN threadPc ELSE "wait")
        /\ timerPc' = [timerPc EXCEPT ![o] = "register"]
        /\ UNCHANGED <<now, m_resumeTime, cancelled, m_refCount, registered, canceller, timerStatus,
                       m_newlyQueuedTimers, m_timerCancellationRequested, m_shutDownRequested, m_wakeUpEvent,
                       m_waitableTimerEvent, m_timerEntries, m_overflowTimers, newTimers, timersReadyToResume,
                       lastSetWaitEventTime, service>>
    BY DEF Timers!EnsureTimerThread, Timers!Goto, Timers!flags, Timers!queue, Timers!time
  <1>3. Timers!TypeOK'
    BY <1>1, <1>2 DEF Timers!TypeOK
  <1>4. TimerLists' /\ Fallback' = Fallback /\ \A p : Listed(p)' <=> Listed(p)
    BY <1>1, <1>2, ListsKept
  <1>5. \A p \in Operations : DueOrCancelled(p)' <=> DueOrCancelled(p)
    BY <1>2 DEF DueOrCancelled
  <1>6. ASSUME NEW p \in Operations, p # o PROVE TimerOperation(p)'
    <2>1. timerPc'[p] = timerPc[p]
      BY <1>1, <1>2, <1>6 DEF Timers!TypeOK
    <2>2. QED BY <1>1, <1>2, <1>4, <1>5, <2>1, OperationKept DEF TimerOperations
  <1>7. TimerOperation(o)'
    <2>1. TimerOperation(o) /\ timerPc'[o] = "register"
      BY <1>1, <1>2 DEF TimerOperations, Timers!TypeOK
    <2>2. (Listed(o)' <=> Listed(o)) /\ (DueOrCancelled(o)' <=> DueOrCancelled(o))
      BY <1>4, <1>5
    <2>3. QED BY <1>2, <2>1, <2>2 DEF TimerOperation, Unpushed
  <1>8. TimerLoop'
    <2>1. CASE m_timerState
      <3>1. UNCHANGED <<m_timerState, threadPc>>
        BY <1>1, <1>2, <2>1 DEF Timers!TypeOK
      <3>2. QED BY <1>1, <1>2, <3>1, TimerLoopKept
    <2>2. CASE ~m_timerState
      <3>1. \A p \in Operations : ~Listed(p)
        BY <1>1, <2>2 DEF TimerOperations, TimerOperation
      <3>2. m_timerEntries = {} /\ Fallback = {} /\ newTimers = {} /\ timersReadyToResume = {}
        BY <1>1, <3>1 DEF Listed, Timers!TypeOK, Fallback, Timers!Overflow
      <3>3. threadPc' = "wait"
        BY <1>2, <2>2
      <3>4. QED BY <1>1, <1>2, <1>4, <3>2, <3>3 DEF TimerLoop, Ascending
    <2>3. QED BY <2>1, <2>2
  <1>9. QED BY <1>3, <1>4, <1>6, <1>7, <1>8 DEF TimersInv, TimerOperations

(* await_suspend() gives up its reference: the coroutine is scheduled when *)
(* the timer thread has given up its own.                                  *)
LEMMA ReleaseByAwaiterStep ==
  ASSUME TimersInv, NEW o \in Operations, UNCHANGED chosen, Timers!ReleaseByAwaiter(o)
  PROVE  TimersInv'
  <1>1. Timers!TypeOK /\ TimerOperations /\ TimerLists /\ TimerLoop
    BY DEF TimersInv
  <1>2. /\ timerPc[o] = "release" /\ timerPc' = [timerPc EXCEPT ![o] = "returned"]
        /\ m_refCount' = [m_refCount EXCEPT ![o] = m_refCount[o] - 1]
        /\ timerStatus' = IF m_refCount[o] = 1 THEN [timerStatus EXCEPT ![o] = "scheduled"] ELSE timerStatus
        /\ UNCHANGED <<now, m_resumeTime, cancelled, registered, canceller, m_timerState,
                       m_newlyQueuedTimers, m_timerCancellationRequested, m_shutDownRequested, m_wakeUpEvent,
                       m_waitableTimerEvent, m_timerEntries, m_overflowTimers, newTimers, timersReadyToResume,
                       lastSetWaitEventTime, threadPc, service>>
    BY DEF Timers!ReleaseByAwaiter, Timers!Release, Timers!Goto, Timers!flags, Timers!queue, Timers!time, Timers!run
  <1>3. TimerOperation(o) /\ timerStatus[o] = "awaiting" /\ m_refCount[o] = IF Listed(o) THEN 2 ELSE 1
    BY <1>1, <1>2 DEF TimerOperations, TimerOperation
  <1>4. Timers!TypeOK'
    <2>1. m_refCount' \in [Operations -> 0 .. 2] /\ timerStatus' \in [Operations -> {"awaiting", "scheduled", "resumed", "cancelled"}]
      BY <1>1, <1>2, <1>3 DEF Timers!TypeOK
    <2>2. QED BY <1>1, <1>2, <2>1 DEF Timers!TypeOK
  <1>5. TimerLists' /\ \A p : Listed(p)' <=> Listed(p)
    BY <1>1, <1>2, ListsKept
  <1>6. \A p \in Operations : DueOrCancelled(p)' <=> DueOrCancelled(p)
    BY <1>2 DEF DueOrCancelled
  <1>7. ASSUME NEW p \in Operations, p # o PROVE TimerOperation(p)'
    <2>1. timerPc'[p] = timerPc[p] /\ timerStatus'[p] = timerStatus[p] /\ m_refCount'[p] = m_refCount[p]
      BY <1>1, <1>2, <1>7 DEF Timers!TypeOK
    <2>2. QED BY <1>1, <1>2, <1>5, <1>6, <2>1, OperationKept DEF TimerOperations
  <1>8. TimerOperation(o)'
    <2>1. /\ timerPc'[o] = "returned" /\ m_refCount'[o] = m_refCount[o] - 1
          /\ timerStatus'[o] = IF Listed(o) THEN "awaiting" ELSE "scheduled"
      BY <1>1, <1>2, <1>3 DEF Timers!TypeOK
    <2>2. (Listed(o)' <=> Listed(o)) /\ (DueOrCancelled(o)' <=> DueOrCancelled(o))
      BY <1>5, <1>6
    <2>3. service = "alive"
      BY <1>2, <1>3 DEF TimerOperation
    <2>4. CASE Listed(o)
      BY <1>2, <1>3, <2>1, <2>2, <2>3, <2>4 DEF TimerOperation, Unpushed
    <2>5. CASE ~Listed(o)
      BY <1>2, <1>3, <2>1, <2>2, <2>3, <2>5 DEF TimerOperation, Unpushed
    <2>6. QED BY <2>4, <2>5
  <1>9. TimerLoop'
    BY <1>1, <1>2, TimerLoopKept
  <1>10. QED BY <1>4, <1>5, <1>7, <1>8, <1>9 DEF TimersInv, TimerOperations

(* The coroutine is resumed, or somebody cancels it or calls back for it.  *)
LEMMA CoroutineOrCancellerStep ==
  ASSUME TimersInv, NEW o \in Operations, UNCHANGED chosen,
         \/ Timers!ResumeCoroutine(o) \/ Timers!RequestCancellation(o)
         \/ Timers!RequestTimerCancellation(o) \/ Timers!WakeForCancellation(o)
  PROVE  TimersInv'
  <1>1. Timers!TypeOK /\ TimerOperations /\ TimerLists /\ TimerLoop
    BY DEF TimersInv
  <1>2. UNCHANGED <<now, m_resumeTime, m_refCount, timerPc, m_timerState, m_newlyQueuedTimers, m_shutDownRequested,
                    m_waitableTimerEvent, m_timerEntries, m_overflowTimers, newTimers, timersReadyToResume,
                    lastSetWaitEventTime, threadPc, service>>
    BY DEF Timers!ResumeCoroutine, Timers!RequestCancellation, Timers!RequestTimerCancellation, Timers!WakeForCancellation,
       Timers!flags, Timers!queue, Timers!time, Timers!run
  <1>3. \/ /\ timerStatus[o] = "scheduled" /\ canceller[o] = "idle" /\ registered' = [registered EXCEPT ![o] = FALSE]
           /\ \E s \in {"cancelled", "resumed"} : timerStatus' = [timerStatus EXCEPT ![o] = s]
           /\ UNCHANGED <<cancelled, canceller>>
        \/ /\ timerStatus[o] \in {"awaiting", "scheduled"} /\ cancelled' = [cancelled EXCEPT ![o] = TRUE]
           /\ canceller' = canceller \/ (registered[o] /\ canceller' = [canceller EXCEPT ![o] = "callback"])
           /\ UNCHANGED <<timerStatus, registered>>
        \/ /\ canceller[o] # "idle" /\ \E c \in {"idle", "wake"} : canceller' = [canceller EXCEPT ![o] = c]
           /\ UNCHANGED <<timerStatus, registered, cancelled>>
    <2>1. CASE Timers!ResumeCoroutine(o)
      BY <2>1 DEF Timers!ResumeCoroutine
    <2>2. CASE Timers!RequestCancellation(o)
      BY <2>2, Zenon DEF Timers!RequestCancellation
    <2>3. CASE Timers!RequestTimerCancellation(o) \/ Timers!WakeForCancellation(o)
      <3>1. /\ canceller[o] # "idle" /\ UNCHANGED <<timerStatus, registered, cancelled>>
            /\ canceller' = [canceller EXCEPT ![o] = "idle"] \/ canceller' = [canceller EXCEPT ![o] = "wake"]
        BY <2>3 DEF Timers!RequestTimerCancellation, Timers!WakeForCancellation
      <3>2. QED BY <3>1
    <2>4. QED BY <2>1, <2>2, <2>3
  <1>4. Timers!TypeOK'
    <2>1. m_timerCancellationRequested' \in BOOLEAN /\ m_wakeUpEvent' \in BOOLEAN
      BY <1>1 DEF Timers!TypeOK, Timers!ResumeCoroutine, Timers!RequestCancellation, Timers!RequestTimerCancellation,
         Timers!WakeForCancellation, Timers!flags
    <2>2. /\ cancelled' \in [Operations -> BOOLEAN] /\ registered' \in [Operations -> BOOLEAN]
          /\ canceller' \in [Operations -> {"idle", "callback", "wake"}]
          /\ timerStatus' \in [Operations -> {"awaiting", "scheduled", "resumed", "cancelled"}]
      BY <1>1, <1>3, ZenonT(60) DEF Timers!TypeOK
    <2>3. QED BY <1>1, <1>2, <2>1, <2>2 DEF Timers!TypeOK
  <1>5. TimerLists' /\ \A p : Listed(p)' <=> Listed(p)
    BY <1>1, <1>2, ListsKept
  <1>6. ASSUME NEW p \in Operations, DueOrCancelled(p) PROVE DueOrCancelled(p)'
    <2>1. cancelled[p] => cancelled'[p]
      BY <1>1, <1>3 DEF Timers!TypeOK
    <2>2. QED BY <1>2, <1>6, <2>1 DEF DueOrCancelled
  <1>7. ASSUME NEW p \in Operations, p # o PROVE TimerOperation(p)'
    <2>1. registered'[p] = registered[p] /\ timerStatus'[p] = timerStatus[p] /\ canceller'[p] = canceller[p]
      BY <1>1, <1>3, <1>7 DEF Timers!TypeOK
    <2>2. QED BY <1>1, <1>2, <1>5, <1>6, <2>1, OperationKept DEF TimerOperations
  <1>8. TimerOperation(o)'
    <2>1. TimerOperation(o)
      BY <1>1 DEF TimerOperations
    <2>2. CASE timerStatus' # timerStatus \/ registered' # registered
      <3>1. /\ timerStatus[o] = "scheduled" /\ canceller'[o] = "idle" /\ ~registered'[o] /\ timerStatus'[o] \in {"cancelled", "resumed"}
        BY <1>1, <1>3, <2>2 DEF Timers!TypeOK
      <3>2. timerPc[o] = "returned" /\ ~Listed(o) /\ DueOrCancelled(o)
        <4>1. timerPc[o] \in Unpushed \cup {"wake", "release", "returned"}
          BY <1>1 DEF Timers!TypeOK, Unpushed
        <4>2. QED BY <2>1, <3>1, <4>1 DEF TimerOperation, Unpushed
      <3>3. DueOrCancelled(o)' /\ ~Listed(o)'
        BY <1>5, <1>6, <3>2
      <3>4. o \notin timersReadyToResume'
        BY <1>2, <3>2 DEF Listed
      <3>5. QED BY <1>2, <3>1, <3>2, <3>3, <3>4 DEF TimerOperation, Unpushed
    <2>3. CASE timerStatus' = timerStatus /\ registered' = registered
      <3>1. canceller'[o] = canceller[o] \/ canceller'[o] = "idle" \/ registered[o]
        BY <1>1, <1>3, <2>1, <2>3 DEF Timers!TypeOK, TimerOperation
      <3>2. QED BY <1>2, <1>5, <1>6, <2>1, <2>3, <3>1, OperationKept
    <2>4. QED BY <2>2, <2>3
  <1>9. TimerLoop'
    BY <1>1, <1>2, TimerLoopKept
  <1>10. QED BY <1>4, <1>5, <1>7, <1>8, <1>9 DEF TimersInv, TimerOperations

(* ~io_service(), when every coroutine that awaits has been resumed.       *)
LEMMA TimerShutDownStep ==
  ASSUME TimersInv, UNCHANGED chosen, Timers!RequestShutDown \/ Timers!DestructorStep
  PROVE  TimersInv'
  <1>1. Timers!TypeOK /\ TimerOperations /\ TimerLists /\ TimerLoop
    BY DEF TimersInv
  <1> USE DEF Timers!RequestShutDown, Timers!DestructorStep, Timers!WakeForShutDown, Timers!JoinTimerThread
  <1>2. UNCHANGED <<now, m_resumeTime, cancelled, m_refCount, timerPc, registered, canceller, timerStatus, m_timerState,
                    m_newlyQueuedTimers, m_timerCancellationRequested,
                    m_waitableTimerEvent, m_timerEntries, m_overflowTimers, newTimers, timersReadyToResume,
                    lastSetWaitEventTime, threadPc>>
    BY DEF Timers!flags, Timers!queue, Timers!time, Timers!run
  <1>3. /\ service' \in {"closing", "joining", "destroyed"}
        /\ service # "alive" \/ \A o \in Operations : timerStatus[o] \in {"resumed", "cancelled"} \/ timerPc[o] = "before"
    BY DEF Timers!flags
  <1>4. Timers!TypeOK'
    <2>1. m_shutDownRequested' \in BOOLEAN /\ m_wakeUpEvent' \in BOOLEAN
      BY <1>1 DEF Timers!TypeOK, Timers!flags
    <2>2. QED BY <1>1, <1>2, <1>3, <2>1 DEF Timers!TypeOK
  <1>5. TimerLists' /\ \A p : Listed(p)' <=> Listed(p)
    BY <1>1, <1>2, ListsKept
  <1>6. ASSUME NEW o \in Operations PROVE TimerOperation(o)'
    <2>1. DueOrCancelled(o)' <=> DueOrCancelled(o)
      BY <1>2 DEF DueOrCancelled
    <2>2. QED BY <1>1, <1>2, <1>3, <1>5, <2>1, OperationKept DEF TimerOperations
  <1>7. TimerLoop'
    BY <1>1, <1>2, TimerLoopKept
  <1>8. QED BY <1>4, <1>5, <1>6, <1>7 DEF TimersInv, TimerOperations

(* run() waits and starts the next iteration.                              *)
LEMMA TimerWaitStep ==
  ASSUME TimersInv, UNCHANGED chosen, Timers!WaitForEvents \/ Failing!WaitFails \/ Timers!NextIteration
  PROVE  TimersInv'
  <1> USE IoAssumption
  <1>1. Timers!TypeOK /\ TimerOperations /\ TimerLists /\ TimerLoop
    BY DEF TimersInv
  <1> USE DEF Timers!WaitForEvents, Failing!WaitFails, Timers!NextIteration
  <1>2. UNCHANGED <<now, m_resumeTime, cancelled, m_refCount, timerPc, registered, canceller, timerStatus, m_timerState,
                    m_newlyQueuedTimers, m_timerCancellationRequested, m_shutDownRequested,
                    m_timerEntries, m_overflowTimers, newTimers, timersReadyToResume, service>>
    BY DEF Timers!flags, Timers!queue, Timers!time, Timers!others, Failing!flags, Failing!queue, Failing!time, Failing!others
  <1>3. \/ threadPc = "wait" /\ threadPc' = "cancelled" /\ UNCHANGED <<m_waitableTimerEvent, lastSetWaitEventTime>>
        \/ /\ threadPc = "wait" /\ threadPc' = "due"
           /\ m_waitableTimerEvent' = Timers!TimePointMax /\ lastSetWaitEventTime' = Timers!TimePointMax
        \/ /\ threadPc = "schedule" /\ timersReadyToResume = {} /\ threadPc' \in {"exited", "wait"}
           /\ UNCHANGED <<m_waitableTimerEvent, lastSetWaitEventTime>>
    OBVIOUS
  <1>4. Timers!TypeOK'
    <2>1. m_wakeUpEvent' \in BOOLEAN
      BY <1>1 DEF Timers!TypeOK
    <2>2. Timers!TimePointMax \in Timers!Times
      BY DEF Timers!TimePointMax, Timers!Times
    <2>3. QED BY <1>1, <1>2, <1>3, <2>1, <2>2 DEF Timers!TypeOK
  <1>5. TimerLists' /\ Fallback' = Fallback /\ \A p : Listed(p)' <=> Listed(p)
    BY <1>1, <1>2, ListsKept
  <1>6. ASSUME NEW o \in Operations PROVE TimerOperation(o)'
    <2>1. DueOrCancelled(o)' <=> DueOrCancelled(o)
      BY <1>2 DEF DueOrCancelled
    <2>2. QED BY <1>1, <1>2, <1>5, <2>1, OperationKept DEF TimerOperations
  <1>7. TimerLoop'
    BY <1>1, <1>2, <1>3, <1>5 DEF TimerLoop, Ascending
  <1>8. QED BY <1>4, <1>5, <1>6, <1>7 DEF TimersInv, TimerOperations

-----------------------------------------------------------------------------
(* Steps of run() that move timers.                                        *)

(* What a move between two lists has to do.                                *)
LEMMA OperationMoved ==
  ASSUME TimerOperations,
         UNCHANGED <<now, m_resumeTime, cancelled, timerPc, registered, canceller, m_timerState, service,
                     m_refCount, timerStatus>>,
         \A o \in Operations : Listed(o)' <=> Listed(o),
         \A o \in Operations : o \in timersReadyToResume' => o \in timersReadyToResume \/ DueOrCancelled(o)
  PROVE  TimerOperations'
  <1> SUFFICES ASSUME NEW o \in Operations PROVE TimerOperation(o)'
    BY DEF TimerOperations
  <1>1. DueOrCancelled(o)' <=> DueOrCancelled(o)
    BY DEF DueOrCancelled
  <1>2. QED BY <1>1, OperationKept DEF TimerOperations

LEMMA TakeNewTimersStep ==
  ASSUME TimersInv, UNCHANGED chosen, Timers!TakeNewTimers
  PROVE  TimersInv'
  <1>1. Timers!TypeOK /\ TimerOperations /\ TimerLists /\ TimerLoop
    BY DEF TimersInv
  <1>2. /\ threadPc = "new" /\ newTimers' = m_newlyQueuedTimers /\ m_newlyQueuedTimers' = {}
        /\ threadPc' = IF m_newlyQueuedTimers = {} THEN "due" ELSE "enqueue"
        /\ UNCHANGED <<now, m_resumeTime, cancelled, m_refCount, timerPc, registered, canceller, timerStatus, m_timerState,
                       m_timerCancellationRequested, m_shutDownRequested, m_wakeUpEvent,
                       m_waitableTimerEvent, m_timerEntries, m_overflowTimers, timersReadyToResume,
                       lastSetWaitEventTime, service>>
    BY DEF Timers!TakeNewTimers, Timers!flags, Timers!queue, Timers!time, Timers!others
  <1>3. newTimers = {}
    BY <1>1, <1>2 DEF TimerLoop
  <1>4. Timers!TypeOK'
    BY <1>1, <1>2 DEF Timers!TypeOK
  <1>5. Fallback' = Fallback
    BY <1>2 DEF Fallback, Timers!Overflow
  <1>6. TimerLists'
    BY <1>1, <1>2, <1>3, <1>5 DEF TimerLists
  <1>7. \A o : Listed(o)' <=> Listed(o)
    BY <1>2, <1>3, <1>5 DEF Listed
  <1>8. TimerOperations'
    BY <1>1, <1>2, <1>7, OperationMoved
  <1>9. TimerLoop'
    BY <1>1, <1>2, <1>3, <1>5 DEF TimerLoop, Ascending
  <1>10. QED BY <1>4, <1>6, <1>8, <1>9 DEF TimersInv

(* await_suspend() pushes the operation on the list of new timers.         *)
LEMMA PushTimerStep ==
  ASSUME TimersInv, NEW o \in Operations, UNCHANGED chosen, Timers!PushTimer(o)
  PROVE  TimersInv'
  <1>1. Timers!TypeOK /\ TimerOperations /\ TimerLists /\ TimerLoop
    BY DEF TimersInv
  <1>2. /\ timerPc[o] = "push" /\ m_newlyQueuedTimers' = m_newlyQueuedTimers \cup {o}
        /\ UNCHANGED <<now, m_resumeTime, cancelled, m_refCount, registered, canceller, timerStatus, m_timerState,
                       m_timerCancellationRequested, m_shutDownRequested, m_wakeUpEvent, newTimers,
                       m_waitableTimerEvent, m_timerEntries, m_overflowTimers, timersReadyToResume,
                       lastSetWaitEventTime, threadPc, service>>
    BY DEF Timers!PushTimer, Timers!flags, Timers!queue, Timers!time, Timers!run
  <1>3. PICK label \in {"wake", "release"} : timerPc' = [timerPc EXCEPT ![o] = label]
    BY DEF Timers!PushTimer, Timers!Goto
  <1>4. TimerOperation(o) /\ ~Listed(o)
    BY <1>1, <1>2 DEF TimerOperations, TimerOperation, Unpushed
  <1>5. Timers!TypeOK'
    BY <1>1, <1>2, <1>3 DEF Timers!TypeOK
  <1>6. Fallback' = Fallback
    BY <1>2 DEF Fallback, Timers!Overflow
  <1>7. TimerLists'
    BY <1>1, <1>2, <1>4, <1>6 DEF TimerLists, Listed
  <1>8. \A p : Listed(p)' <=> Listed(p) \/ p = o
    BY <1>2, <1>6 DEF Listed
  <1>9. \A p \in Operations : DueOrCancelled(p)' <=> DueOrCancelled(p)
    BY <1>2 DEF DueOrCancelled
  <1>10. ASSUME NEW p \in Operations, p # o PROVE TimerOperation(p)'
    <2>1. timerPc'[p] = timerPc[p]
      BY <1>1, <1>3, <1>10 DEF Timers!TypeOK
    <2>2. QED BY <1>1, <1>2, <1>8, <1>9, <1>10, <2>1, OperationKept DEF TimerOperations
  <1>11. TimerOperation(o)'
    <2>1. Listed(o)' /\ timerPc'[o] \in {"wake", "release"} /\ o \notin timersReadyToResume'
      BY <1>1, <1>2, <1>3, <1>4, <1>8 DEF Timers!TypeOK, Listed
    <2>2. QED BY <1>2, <1>4, <2>1 DEF TimerOperation, Unpushed
  <1>12. TimerLoop'
    BY <1>1, <1>2, TimerLoopKept
  <1>13. QED BY <1>5, <1>7, <1>10, <1>11, <1>12 DEF TimersInv, TimerOperations

(* run() gives up its reference to a timer that is ready.                  *)
LEMMA ScheduleReadyStep ==
  ASSUME TimersInv, NEW o \in Operations, UNCHANGED chosen, Timers!ScheduleReadyTimer(o)
  PROVE  TimersInv'
  <1>1. Timers!TypeOK /\ TimerOperations /\ TimerLists /\ TimerLoop
    BY DEF TimersInv
  <1>2. /\ threadPc = "schedule" /\ o \in timersReadyToResume /\ timersReadyToResume' = timersReadyToResume \ {o}
        /\ m_refCount' = [m_refCount EXCEPT ![o] = m_refCount[o] - 1]
        /\ timerStatus' = IF m_refCount[o] = 1 THEN [timerStatus EXCEPT ![o] = "scheduled"] ELSE timerStatus
        /\ UNCHANGED <<now, m_resumeTime, cancelled, timerPc, registered, canceller, m_timerState, m_newlyQueuedTimers,
                       m_timerCancellationRequested, m_shutDownRequested, m_wakeUpEvent, newTimers,
                       m_waitableTimerEvent, m_timerEntries, m_overflowTimers,
                       lastSetWaitEventTime, threadPc, service>>
    BY DEF Timers!ScheduleReadyTimer, Timers!Release, Timers!flags, Timers!queue, Timers!time, Timers!others
  <1>3. TimerOperation(o) /\ Listed(o) /\ DueOrCancelled(o) /\ o \in Operations
    BY <1>1, <1>2 DEF TimerOperations, TimerOperation, Listed
  <1>4. /\ \/ timerPc[o] \in {"wake", "release"} /\ m_refCount[o] = 2
           \/ timerPc[o] = "returned" /\ m_refCount[o] = 1
        /\ timerStatus[o] = "awaiting"
    <2>1. timerPc[o] \in Unpushed \cup {"wake", "release", "returned"}
      BY <1>1 DEF Timers!TypeOK, Unpushed
    <2>2. QED BY <1>3, <2>1 DEF TimerOperation, Unpushed
  <1>5. Timers!TypeOK'
    <2>1. m_refCount' \in [Operations -> 0 .. 2] /\ timerStatus' \in [Operations -> {"awaiting", "scheduled", "resumed", "cancelled"}]
      BY <1>1, <1>2, <1>4 DEF Timers!TypeOK
    <2>2. QED BY <1>1, <1>2, <2>1 DEF Timers!TypeOK
  <1>6. Fallback' = Fallback
    BY <1>2 DEF Fallback, Timers!Overflow
  <1>7. TimerLists'
    BY <1>1, <1>2, <1>6 DEF TimerLists
  <1>8. \A p : Listed(p)' <=> Listed(p) /\ p # o
    BY <1>1, <1>2, <1>6 DEF Listed, TimerLists
  <1>9. \A p \in Operations : DueOrCancelled(p)' <=> DueOrCancelled(p)
    BY <1>2 DEF DueOrCancelled
  <1>10. ASSUME NEW p \in Operations, p # o PROVE TimerOperation(p)'
    <2>1. timerStatus'[p] = timerStatus[p] /\ m_refCount'[p] = m_refCount[p]
      BY <1>1, <1>2, <1>10 DEF Timers!TypeOK
    <2>2. QED BY <1>1, <1>2, <1>8, <1>9, <1>10, <2>1, OperationKept DEF TimerOperations
  <1>11. TimerOperation(o)'
    <2>1. ~Listed(o)' /\ DueOrCancelled(o)' /\ o \notin timersReadyToResume'
      BY <1>2, <1>3, <1>8, <1>9
    <2>2. service = "alive"
      BY <1>3, <1>4 DEF TimerOperation
    <2>3. CASE timerPc[o] \in {"wake", "release"} /\ m_refCount[o] = 2
      <3>1. m_refCount'[o] = 1 /\ timerStatus'[o] = "awaiting"
        BY <1>1, <1>2, <1>4, <2>3 DEF Timers!TypeOK
      <3>2. QED BY <1>2, <1>3, <2>1, <2>2, <2>3, <3>1 DEF TimerOperation, Unpushed
    <2>4. CASE timerPc[o] = "returned" /\ m_refCount[o] = 1
      <3>1. timerStatus'[o] = "scheduled"
        BY <1>1, <1>2, <2>4 DEF Timers!TypeOK
      <3>2. QED BY <1>2, <1>3, <2>1, <2>2, <2>4, <3>1 DEF TimerOperation, Unpushed
    <2>5. QED BY <1>4, <2>3, <2>4
  <1>12. TimerLoop'
    BY <1>1, <1>2, <1>6 DEF TimerLoop, Ascending
  <1>13. QED BY <1>5, <1>7, <1>10, <1>11, <1>12 DEF TimersInv, TimerOperations

LEMMA TimersSelected == ASSUME NEW list, NEW T PROVE Timers!Selected(list, T) = Selected(list, T)
  BY DEF Timers!Selected, Timers!Kept, Timers!Increasing, Timers!Cardinality, Selected, Kept, Increasing, Cardinality

(* remove_cancelled_timers()                                               *)
LEMMA RemoveCancelledStep ==
  ASSUME TimersInv, UNCHANGED chosen, Timers!RemoveCancelledTimers
  PROVE  TimersInv'
  <1>1. Timers!TypeOK /\ TimerOperations /\ TimerLists /\ TimerLoop
    BY DEF TimersInv
  <1> DEFINE gone == IF m_timerCancellationRequested THEN {o \in m_timerEntries \cup Fallback : cancelled[o]} ELSE {}
             rest == Operations \ gone
  <1>2. /\ threadPc = "cancelled" /\ threadPc' = "new" /\ m_timerCancellationRequested' = FALSE
        /\ timersReadyToResume' = timersReadyToResume \cup gone /\ m_timerEntries' = m_timerEntries \ gone
        /\ m_overflowTimers' = Selected(m_overflowTimers, rest)
        /\ UNCHANGED <<now, m_resumeTime, cancelled, m_refCount, timerPc, registered, canceller, timerStatus, m_timerState,
                       m_newlyQueuedTimers, m_shutDownRequested, m_wakeUpEvent, m_waitableTimerEvent, newTimers,
                       lastSetWaitEventTime, service>>
    BY TimersSelected DEF Timers!RemoveCancelledTimers, Fallback, Timers!time, Timers!others
  <1>3. /\ gone \subseteq m_timerEntries \cup Fallback /\ \A o \in gone : cancelled[o]
        /\ m_timerEntries \subseteq Operations /\ m_overflowTimers \in Seq(Operations) /\ Fallback \subseteq Operations
    BY <1>1 DEF Timers!TypeOK, Fallback, Timers!Overflow
  <1> HIDE DEF gone
  <1>4. /\ m_overflowTimers' \in Seq(Operations)
        /\ \A x : OnList(x, m_overflowTimers') <=> OnList(x, m_overflowTimers) /\ x \in rest
    BY <1>2, <1>3, SelectedList
  <1>5. Fallback' = Fallback \ gone
    <2>1. \A x : (x \in Fallback <=> OnList(x, m_overflowTimers)) /\ (x \in Fallback' <=> OnList(x, m_overflowTimers'))
      BY DEF Fallback, Timers!Overflow, OnList
    <2>2. QED BY <1>3, <1>4, <2>1
  <1>6. Timers!TypeOK'
    <2>1. \A list \in {m_newlyQueuedTimers', m_timerEntries', newTimers', timersReadyToResume'} : list \subseteq Operations
      BY <1>1, <1>2, <1>3 DEF Timers!TypeOK
    <2>2. QED BY <1>1, <1>2, <1>4, <2>1 DEF Timers!TypeOK
  <1>7. TimerLists'
    BY <1>1, <1>2, <1>3, <1>5 DEF TimerLists
  <1>8. \A o : Listed(o)' <=> Listed(o)
    BY <1>2, <1>3, <1>5 DEF Listed
  <1>9. TimerOperations'
    <2>1. \A o \in Operations : o \in timersReadyToResume' => o \in timersReadyToResume \/ DueOrCancelled(o)
      BY <1>2, <1>3 DEF DueOrCancelled
    <2>2. QED BY <1>1, <1>2, <1>8, <2>1, OperationMoved
  <1>10. Ascending(m_overflowTimers)'
    <2> SUFFICES ASSUME NEW i \in DOMAIN m_overflowTimers', NEW j \in DOMAIN m_overflowTimers', i < j
                 PROVE  m_resumeTime[m_overflowTimers'[i]] <= m_resumeTime[m_overflowTimers'[j]]
      BY <1>2 DEF Ascending
    <2>1. PICK k \in DOMAIN m_overflowTimers, l \in DOMAIN m_overflowTimers :
                 k < l /\ m_overflowTimers[k] = m_overflowTimers'[i] /\ m_overflowTimers[l] = m_overflowTimers'[j]
      BY <1>2, <1>3, SelectedOrder
    <2>2. QED BY <1>1, <2>1 DEF TimerLoop, Ascending
  <1>11. TimerLoop'
    BY <1>1, <1>2, <1>10 DEF TimerLoop
  <1>12. QED BY <1>6, <1>7, <1>9, <1>11 DEF TimersInv

(* Where the loops over the fallback list stop.                            *)
LEMMA DuePrefixOf ==
  ASSUME NEW list \in Seq(Operations), NEW due \in Int, m_resumeTime \in [Operations -> Int]
  PROVE  LET n == Timers!DuePrefix(list, due)
         IN  /\ n \in 0 .. Len(list)
             /\ \A i \in 1 .. n : m_resumeTime[list[i]] <= due
             /\ n < Len(list) => m_resumeTime[list[n + 1]] > due
  <1> DEFINE T == {n \in 0 .. Len(list) : n < Len(list) => m_resumeTime[list[n + 1]] > due}
             Stops(n) == /\ \A i \in 1 .. n : m_resumeTime[list[i]] <= due
                         /\ n < Len(list) => m_resumeTime[list[n + 1]] > due
  <1>1. Len(list) \in T /\ T \in SUBSET Nat /\ Len(list) \in Nat
    OBVIOUS
  <1> HIDE DEF T
  <1>2. PICK n \in T : \A m \in T : n <= m
    BY <1>1, LeastNumber
  <1>3. n \in 0 .. Len(list) /\ (n < Len(list) => m_resumeTime[list[n + 1]] > due)
    BY DEF T
  <1>4. ASSUME NEW i \in 1 .. n PROVE m_resumeTime[list[i]] <= due
    <2>1. i - 1 \in 0 .. Len(list) /\ i - 1 < Len(list) /\ i - 1 < n /\ (i - 1) + 1 = i /\ i \in 1 .. Len(list)
      BY <1>3
    <2>2. i - 1 \notin T
      BY <1>1, <1>2, <1>3, <2>1
    <2>3. ~(m_resumeTime[list[i]] > due)
      BY <2>1, <2>2 DEF T
    <2>4. m_resumeTime[list[i]] \in Int
      BY <2>1
    <2>5. QED BY <2>3, <2>4
  <1>5. Stops(n)
    BY <1>3, <1>4
  <1> HIDE DEF Stops
  <1>6. \E m \in 0 .. Len(list) : Stops(m)
    BY <1>3, <1>5
  <1>7. Timers!DuePrefix(list, due) = CHOOSE m \in 0 .. Len(list) : Stops(m)
    BY DEF Timers!DuePrefix, Stops
  <1>8. Timers!DuePrefix(list, due) \in 0 .. Len(list) /\ Stops(Timers!DuePrefix(list, due))
    BY <1>6, <1>7
  <1>9. QED BY <1>8 DEF Stops

(* enqueue_timer() keeps the fallback list in order.                       *)
LEMMA InsertedByDueTime ==
  ASSUME NEW list \in Seq(Operations), NEW o \in Operations, m_resumeTime \in [Operations -> Int], Ascending(list)
  PROVE  LET r == Timers!InsertByDueTime(o, list)
         IN  /\ r \in Seq(Operations)
             /\ Ascending(r)
             /\ {r[i] : i \in DOMAIN r} = {list[i] : i \in DOMAIN list} \cup {o}
  <1> DEFINE r == Timers!InsertByDueTime(o, list)
             n == Timers!DuePrefix(list, m_resumeTime[o])
             L == Len(list)
  <1>1. /\ n \in 0 .. L /\ \A i \in 1 .. n : m_resumeTime[list[i]] <= m_resumeTime[o]
        /\ n < L => m_resumeTime[list[n + 1]] > m_resumeTime[o]
    <2>1. m_resumeTime[o] \in Int
      OBVIOUS
    <2>2. QED BY <2>1, DuePrefixOf
  <1> DEFINE p == SubSeq(list, 1, n)
             s == SubSeq(list, n + 1, Len(list))
             b == p \o <<o>>
  <1>2. r = b \o s
    BY DEF Timers!InsertByDueTime
  <1> HIDE DEF n, r
  <1>3. /\ L \in Nat /\ DOMAIN list = 1 .. L /\ p \in Seq(Operations) /\ Len(p) = n
        /\ \A i \in 1 .. n : p[i] = list[i]
    BY <1>1
  <1>4. s \in Seq(Operations) /\ Len(s) = L - n /\ \A i \in 1 .. L - n : s[i] = list[n + i]
    BY <1>1
  <1> HIDE DEF p, s
  <1>5. b \in Seq(Operations) /\ Len(b) = n + 1 /\ b[n + 1] = o /\ \A i \in 1 .. n : b[i] = list[i]
    BY <1>1, <1>3
  <1> HIDE DEF b
  <1>6. /\ r \in Seq(Operations) /\ Len(r) = L + 1 /\ DOMAIN r = 1 .. L + 1
        /\ \A i \in 1 .. L + 1 : r[i] = IF i <= n + 1 THEN b[i] ELSE s[i - (n + 1)]
    <2>1. /\ r \in Seq(Operations) /\ Len(r) = Len(b) + Len(s) /\ DOMAIN r = 1 .. Len(b) + Len(s)
          /\ \A i \in 1 .. Len(b) + Len(s) : r[i] = IF i <= Len(b) THEN b[i] ELSE s[i - Len(b)]
      <3>1. b \in Seq(Operations) /\ s \in Seq(Operations)
        BY <1>4, <1>5
      <3>2. QED BY <1>2, <3>1
    <2>2. Len(b) + Len(s) = L + 1 /\ Len(b) = n + 1
      BY <1>1, <1>3, <1>4, <1>5
    <2>3. QED BY <2>1, <2>2
  <1>7. n \in Nat /\ L \in Nat /\ n <= L
    BY <1>1, <1>3
  <1>8. \A i \in 1 .. L : list[i] \in Operations /\ m_resumeTime[list[i]] \in Int /\ m_resumeTime[o] \in Int
    OBVIOUS
  <1> HIDE DEF L
  <1>9. \A i \in 1 .. L + 1 : r[i] = IF i <= n THEN list[i] ELSE IF i = n + 1 THEN o ELSE list[i - 1]
    <2> SUFFICES ASSUME NEW i \in 1 .. L + 1
                 PROVE  r[i] = IF i <= n THEN list[i] ELSE IF i = n + 1 THEN o ELSE list[i - 1]
      OBVIOUS
    <2>1. CASE i <= n + 1
      BY <1>1, <1>5, <1>6, <2>1
    <2>2. CASE i > n + 1
      <3>1. i - (n + 1) \in 1 .. L - n /\ n + (i - (n + 1)) = i - 1
        BY <1>7, <2>2
      <3>2. QED BY <1>1, <1>4, <1>6, <2>2, <3>1
    <2>3. QED BY <1>1, <2>1, <2>2
  <1>10. ASSUME NEW i \in 1 .. L, n < i PROVE m_resumeTime[o] <= m_resumeTime[list[i]]
    <2>1. n + 1 \in 1 .. L /\ n < L
      BY <1>3, <1>7, <1>10
    <2>2. n + 1 = i \/ m_resumeTime[list[n + 1]] <= m_resumeTime[list[i]]
      <3>1. n + 1 \in DOMAIN list /\ i \in DOMAIN list /\ (n + 1 = i \/ n + 1 < i)
        BY <1>3, <1>7, <1>10, <2>1
      <3>2. QED BY <3>1 DEF Ascending
    <2>3. QED BY <1>1, <1>8, <2>1, <2>2
  <1>11. Ascending(r)
    <2> SUFFICES ASSUME NEW i \in 1 .. L + 1, NEW j \in 1 .. L + 1, i < j
                 PROVE  m_resumeTime[r[i]] <= m_resumeTime[r[j]]
      BY <1>6 DEF Ascending
    <2>1. CASE i <= n
      <3>1. i \in 1 .. L /\ r[i] = list[i] /\ m_resumeTime[list[i]] <= m_resumeTime[o] /\ m_resumeTime[list[i]] \in Int
        BY <1>1, <1>3, <1>9, <1>8, <2>1
      <3>2. CASE j <= n
        <4>1. r[j] = list[j] /\ j \in 1 .. L
          BY <1>1, <1>3, <1>9, <3>2
        <4>2. QED BY <1>3, <3>1, <4>1 DEF Ascending
      <3>3. CASE j = n + 1
        BY <1>1, <1>9, <3>1, <3>3
      <3>4. CASE j > n + 1
        <4>1. r[j] = list[j - 1] /\ j - 1 \in 1 .. L /\ n < j - 1
          BY <1>1, <1>3, <1>9, <3>4
        <4>2. m_resumeTime[o] <= m_resumeTime[list[j - 1]]
          BY <1>10, <4>1
        <4>3. QED BY <1>8, <3>1, <4>1, <4>2
      <3>5. QED BY <1>1, <3>2, <3>3, <3>4
    <2>2. CASE i = n + 1
      <3>1. r[i] = o /\ r[j] = list[j - 1] /\ j - 1 \in 1 .. L /\ n < j - 1
        BY <1>1, <1>3, <1>9, <2>2, SMTT(30)
      <3>2. QED BY <1>10, <3>1
    <2>3. CASE i > n + 1
      <3>1. r[i] = list[i - 1] /\ r[j] = list[j - 1] /\ i - 1 \in 1 .. L /\ j - 1 \in 1 .. L /\ i - 1 < j - 1
        BY <1>1, <1>3, <1>9, <2>3
      <3>2. QED BY <1>3, <3>1 DEF Ascending
    <2>4. QED BY <1>1, <2>1, <2>2, <2>3
  <1>12. {r[i] : i \in DOMAIN r} = {list[i] : i \in DOMAIN list} \cup {o}
    <2>1. ASSUME NEW i \in DOMAIN r PROVE r[i] \in {list[k] : k \in DOMAIN list} \cup {o}
      <3>1. i \in 1 .. L + 1
        BY <1>6
      <3>2. (i <= n => i \in 1 .. L) /\ (i > n + 1 => i - 1 \in 1 .. L) /\ (i <= n \/ i = n + 1 \/ i > n + 1)
        BY <1>7, <3>1
      <3>3. QED BY <1>3, <1>7, <1>9, <3>1, <3>2
    <2>2. ASSUME NEW i \in DOMAIN list PROVE list[i] \in {r[k] : k \in DOMAIN r}
      <3>1. CASE i <= n
        <4>1. i \in DOMAIN r /\ r[i] = list[i]
          BY <1>1, <1>3, <1>6, <1>9, <3>1
        <4>2. QED BY <4>1
      <3>2. CASE i > n
        <4>1. i + 1 \in DOMAIN r /\ r[i + 1] = list[i]
          <5>1. i \in 1 .. L
            BY <1>3
          <5>2. i + 1 \in 1 .. L + 1 /\ ~(i + 1 <= n) /\ i + 1 # n + 1 /\ (i + 1) - 1 = i
            BY <1>7, <3>2, <5>1
          <5>3. QED BY <1>6, <1>9, <5>2
        <4>2. QED BY <4>1
      <3>3. QED BY <1>1, <1>3, <3>1, <3>2
    <2>3. n + 1 \in DOMAIN r /\ r[n + 1] = o
      BY <1>1, <1>3, <1>6, <1>9
    <2>4. QED BY <2>1, <2>2, <2>3
  <1>13. QED BY <1>6, <1>11, <1>12 DEF r

(* A new timer goes to the heap, to the fallback list or, cancelled, to    *)
(* those that are ready.                                                   *)
LEMMA EnqueueStep ==
  ASSUME TimersInv, NEW o \in Operations, UNCHANGED chosen, Timers!EnqueueNewTimer(o)
  PROVE  TimersInv'
  <1>1. Timers!TypeOK /\ TimerOperations /\ TimerLists /\ TimerLoop
    BY DEF TimersInv
  <1>2. /\ threadPc = "enqueue" /\ o \in newTimers /\ newTimers' = newTimers \ {o}
        /\ threadPc' = IF newTimers = {o} THEN "due" ELSE "enqueue"
        /\ UNCHANGED <<now, m_resumeTime, cancelled, m_refCount, timerPc, registered, canceller, timerStatus, m_timerState,
                       m_newlyQueuedTimers, m_timerCancellationRequested, m_shutDownRequested, m_wakeUpEvent,
                       m_waitableTimerEvent, lastSetWaitEventTime, service>>
    BY DEF Timers!EnqueueNewTimer, Timers!flags, Timers!time, Timers!others
  <1>3. /\ m_overflowTimers \in Seq(Operations) /\ m_timerEntries \subseteq Operations /\ Ascending(m_overflowTimers)
        /\ m_resumeTime \in [Operations -> Int]
    BY <1>1, IoAssumption DEF Timers!TypeOK, TimerLoop, Timers!FarFuture
  <1> DEFINE r == Timers!InsertByDueTime(o, m_overflowTimers)
  <1>4. r \in Seq(Operations) /\ Ascending(r) /\ {r[i] : i \in DOMAIN r} = Fallback \cup {o}
    BY <1>3, InsertedByDueTime DEF Fallback, Timers!Overflow
  <1>5. /\ m_overflowTimers' \in Seq(Operations) /\ Ascending(m_overflowTimers)'
        /\ \/ /\ timersReadyToResume' = timersReadyToResume \cup {o} /\ cancelled[o]
              /\ m_timerEntries' = m_timerEntries /\ Fallback' = Fallback
           \/ /\ m_timerEntries' = m_timerEntries \cup {o} /\ timersReadyToResume' = timersReadyToResume /\ Fallback' = Fallback
           \/ /\ Fallback' = Fallback \cup {o} /\ timersReadyToResume' = timersReadyToResume /\ m_timerEntries' = m_timerEntries
    <2> HIDE DEF r
    <2>1. CASE m_overflowTimers' = m_overflowTimers
      <3>1. \/ /\ timersReadyToResume' = timersReadyToResume \cup {o} /\ cancelled[o] /\ m_timerEntries' = m_timerEntries
            \/ m_timerEntries' = m_timerEntries \cup {o} /\ timersReadyToResume' = timersReadyToResume
            \/ m_overflowTimers' = r /\ timersReadyToResume' = timersReadyToResume /\ m_timerEntries' = m_timerEntries
        BY DEF Timers!EnqueueNewTimer, Timers!queue, r
      <3>2. Fallback' = Fallback /\ Ascending(m_overflowTimers)'
        BY <1>2, <1>3, <2>1 DEF Fallback, Timers!Overflow, Ascending
      <3>3. m_overflowTimers' = r => Fallback' = Fallback \cup {o}
        BY <1>4 DEF Fallback, Timers!Overflow
      <3>4. QED BY <1>3, <2>1, <3>1, <3>2, <3>3
    <2>2. CASE m_overflowTimers' # m_overflowTimers
      <3>1. m_overflowTimers' = r /\ timersReadyToResume' = timersReadyToResume /\ m_timerEntries' = m_timerEntries
        BY <2>2 DEF Timers!EnqueueNewTimer, Timers!queue, r
      <3>2. Fallback' = Fallback \cup {o} /\ Ascending(m_overflowTimers)'
        BY <1>2, <1>4, <3>1 DEF Fallback, Timers!Overflow, Ascending
      <3>3. QED BY <1>4, <3>1, <3>2
    <2>3. QED BY <2>1, <2>2
  <1>6. Timers!TypeOK'
    <2>1. \A list \in {m_newlyQueuedTimers', m_timerEntries', newTimers', timersReadyToResume'} : list \subseteq Operations
      BY <1>1, <1>2, <1>5 DEF Timers!TypeOK
    <2>2. QED BY <1>1, <1>2, <1>5, <2>1 DEF Timers!TypeOK
  <1>7. TimerLists'
    BY <1>1, <1>2, <1>5 DEF TimerLists
  <1>8. \A p : Listed(p)' <=> Listed(p)
    BY <1>2, <1>5 DEF Listed
  <1>9. TimerOperations'
    <2>1. \A p \in Operations : p \in timersReadyToResume' => p \in timersReadyToResume \/ DueOrCancelled(p)
      BY <1>5 DEF DueOrCancelled
    <2>2. QED BY <1>1, <1>2, <1>8, <2>1, OperationMoved
  <1>10. TimerLoop'
    BY <1>1, <1>2, <1>5 DEF TimerLoop
  <1>11. QED BY <1>6, <1>7, <1>9, <1>10 DEF TimersInv

(* What is left of the fallback list when its due timers are gone.         *)
LEMMA DueRemoved ==
  ASSUME NEW list \in Seq(Operations), m_resumeTime \in [Operations -> Int], now \in Int, Ascending(list)
  PROVE  LET n == Timers!DuePrefix(list, now)
             r == SubSeq(list, n + 1, Len(list))
         IN  /\ r \in Seq(Operations) /\ Ascending(r)
             /\ {r[i] : i \in DOMAIN r} = {o \in {list[i] : i \in DOMAIN list} : m_resumeTime[o] > now}
             /\ {list[i] : i \in 1 .. n} = {o \in {list[i] : i \in DOMAIN list} : m_resumeTime[o] <= now}
  <1> DEFINE n == Timers!DuePrefix(list, now)
             r == SubSeq(list, n + 1, Len(list))
             L == Len(list)
  <1>1. /\ n \in 0 .. L /\ \A i \in 1 .. n : m_resumeTime[list[i]] <= now
        /\ n < L => m_resumeTime[list[n + 1]] > now
    BY DuePrefixOf
  <1> HIDE DEF n
  <1>2. /\ L \in Nat /\ DOMAIN list = 1 .. L /\ r \in Seq(Operations) /\ DOMAIN r = 1 .. L - n
        /\ \A i \in 1 .. L - n : r[i] = list[n + i]
    BY <1>1
  <1>3. \A i \in 1 .. L : list[i] \in Operations /\ m_resumeTime[list[i]] \in Int
    OBVIOUS
  <1> HIDE DEF L, r
  <1>4. n \in Nat /\ n <= L
    BY <1>1, <1>2
  <1>5. ASSUME NEW i \in 1 .. L, n < i PROVE m_resumeTime[list[i]] > now
    <2>1. n + 1 \in 1 .. L /\ n < L /\ (n + 1 = i \/ n + 1 < i)
      BY <1>2, <1>4, <1>5, SMTT(30)
    <2>2. n + 1 = i \/ m_resumeTime[list[n + 1]] <= m_resumeTime[list[i]]
      BY <1>2, <2>1 DEF Ascending
    <2>3. QED BY <1>1, <1>3, <2>1, <2>2
  <1>6. ASSUME NEW i \in 1 .. L PROVE i \in 1 .. n <=> m_resumeTime[list[i]] <= now
    <2>1. CASE n < i
      BY <1>3, <1>4, <1>5, <2>1
    <2>2. CASE i <= n
      BY <1>1, <1>4, <2>2
    <2>3. QED BY <1>4, <2>1, <2>2
  <1>7. Ascending(r)
    <2> SUFFICES ASSUME NEW i \in 1 .. L - n, NEW j \in 1 .. L - n, i < j
                 PROVE  m_resumeTime[r[i]] <= m_resumeTime[r[j]]
      BY <1>2 DEF Ascending
    <2>1. n + i \in 1 .. L /\ n + j \in 1 .. L /\ n + i < n + j
      BY <1>2, <1>4
    <2>2. QED BY <1>2, <2>1 DEF Ascending
  <1>8. {r[i] : i \in DOMAIN r} = {o \in {list[i] : i \in DOMAIN list} : m_resumeTime[o] > now}
    <2>1. ASSUME NEW i \in 1 .. L - n PROVE n + i \in 1 .. L /\ r[i] = list[n + i] /\ m_resumeTime[list[n + i]] > now
      <3>1. n + i \in 1 .. L /\ n < n + i
        BY <1>2, <1>4
      <3>2. QED BY <1>2, <1>5, <3>1
    <2>2. ASSUME NEW i \in 1 .. L, m_resumeTime[list[i]] > now PROVE i - n \in 1 .. L - n /\ r[i - n] = list[i]
      <3>1. n < i
        BY <1>3, <1>4, <1>6, <2>2
      <3>2. i - n \in 1 .. L - n /\ n + (i - n) = i
        BY <1>2, <1>4, <3>1
      <3>3. QED BY <1>2, <3>2
    <2>3. QED BY <1>2, <2>1, <2>2
  <1>9. {list[i] : i \in 1 .. n} = {o \in {list[i] : i \in DOMAIN list} : m_resumeTime[o] <= now}
    <2>1. \A i \in 1 .. n : i \in 1 .. L
      BY <1>2, <1>4
    <2>2. QED BY <1>2, <1>6, <2>1
  <1>10. QED BY <1>2, <1>7, <1>8, <1>9 DEF r, n, L

(* earliest_due_time() is a lower bound, and the time of a timer.          *)
LEMMA EarliestIsLowerBound ==
  ASSUME NEW entries \in SUBSET Operations, NEW overflow \in Seq(Operations), m_resumeTime \in [Operations -> 1 .. Timers!FarFuture],
         Ascending(overflow)
  PROVE  LET earliest == Timers!EarliestDueTime(entries, overflow)
             queued == entries \cup {overflow[i] : i \in DOMAIN overflow}
         IN  /\ earliest \in Timers!Times
             /\ \A o \in queued : earliest <= m_resumeTime[o] /\ earliest # Timers!TimePointMax
  <1> USE IoAssumption
  <1> DEFINE heads == IF overflow = << >> THEN {} ELSE {m_resumeTime[Head(overflow)]}
             candidates == {m_resumeTime[o] : o \in entries} \cup heads
             earliest == Timers!EarliestDueTime(entries, overflow)
             queued == entries \cup {overflow[i] : i \in DOMAIN overflow}
  <1>1. earliest = IF candidates = {} THEN Timers!TimePointMax ELSE CHOOSE t \in candidates : \A u \in candidates : t <= u
    BY DEF Timers!EarliestDueTime
  <1>2. overflow # << >> => 1 \in DOMAIN overflow /\ Head(overflow) = overflow[1] /\ overflow[1] \in Operations
    OBVIOUS
  <1>3. candidates \in SUBSET (1 .. Timers!FarFuture)
    BY <1>2
  <1>4. Timers!FarFuture \in Nat /\ Timers!TimePointMax = Timers!FarFuture + 1 /\ Timers!Times = 0 .. Timers!FarFuture + 1
    BY DEF Timers!FarFuture, Timers!TimePointMax, Timers!Times
  <1>5. ASSUME NEW o \in queued PROVE \E t \in candidates : t <= m_resumeTime[o]
    <2>1. CASE o \in entries
      <3>1. m_resumeTime[o] \in candidates /\ m_resumeTime[o] \in 1 .. Timers!FarFuture
        BY <2>1
      <3>2. QED BY <1>4, <3>1
    <2>2. CASE o \notin entries
      <3>1. PICK i \in DOMAIN overflow : o = overflow[i]
        BY <2>2
      <3>2. /\ overflow # << >> /\ i \in Nat /\ (1 = i \/ 1 < i) /\ DOMAIN overflow = 1 .. Len(overflow)
            /\ overflow[i] \in Operations
        BY <3>1
      <3>3. m_resumeTime[overflow[1]] \in candidates /\ m_resumeTime[overflow[1]] \in 1 .. Timers!FarFuture
        BY <1>2, <3>2
      <3>4. m_resumeTime[overflow[1]] <= m_resumeTime[overflow[i]]
        BY <1>2, <1>4, <3>2, <3>3 DEF Ascending
      <3>5. QED BY <3>1, <3>3, <3>4
    <2>3. QED BY <2>1, <2>2
  <1> HIDE DEF candidates, earliest
  <1>6. CASE candidates = {}
    <2>1. queued = {}
      BY <1>5, <1>6
    <2>2. earliest \in Timers!Times
      BY <1>1, <1>4, <1>6
    <2>3. QED BY <2>1, <2>2 DEF earliest
  <1>7. CASE candidates # {}
    <2>1. candidates \in SUBSET Nat
      BY <1>3, <1>4
    <2>2. earliest \in candidates /\ \A u \in candidates : earliest <= u
      <3>1. \E t \in candidates : \A u \in candidates : t <= u
        BY <1>7, <2>1, LeastNumber
      <3>2. QED BY <1>1, <1>7, <3>1
    <2>3. earliest \in 1 .. Timers!FarFuture
      BY <1>3, <2>2
    <2>4. ASSUME NEW o \in queued PROVE earliest <= m_resumeTime[o]
      <3>1. PICK t \in candidates : t <= m_resumeTime[o]
        BY <1>5
      <3>2. earliest <= t /\ t \in Nat /\ m_resumeTime[o] \in 1 .. Timers!FarFuture
        <4>1. o \in Operations
          OBVIOUS
        <4>2. QED BY <2>1, <2>2, <4>1
      <3>3. QED BY <1>4, <2>3, <3>1, <3>2
    <2>5. QED BY <1>4, <2>3, <2>4 DEF earliest
  <1>8. QED BY <1>6, <1>7

(* The two views of the timer thread differ in the calls that may fail.    *)
LEMMA FailingOperators ==
  ASSUME NEW list, NEW due, NEW entries
  PROVE  /\ Failing!DuePrefix(list, due) = Timers!DuePrefix(list, due)
         /\ Failing!EarliestDueTime(entries, list) = Timers!EarliestDueTime(entries, list)
         /\ Failing!MustArm(due) <=> Timers!MustArm(due)
  BY DEF Failing!DuePrefix, Timers!DuePrefix, Failing!EarliestDueTime, Timers!EarliestDueTime, Failing!MustArm,
     Timers!MustArm, Failing!TimePointMax, Timers!TimePointMax

(* dequeue_due_timers(), then SetWaitableTimer().                          *)
LEMMA DequeueDueStep ==
  ASSUME TimersInv, UNCHANGED chosen,
         Timers!DequeueDueTimers \/ (Failing!DequeueDueTimers /\ chosen # "timers")
  PROVE  TimersInv'
  <1>1. Timers!TypeOK /\ TimerOperations /\ TimerLists /\ TimerLoop
    BY DEF TimersInv
  <1> DEFINE n == Timers!DuePrefix(m_overflowTimers, now)
             due == {o \in m_timerEntries : m_resumeTime[o] <= now}
             earliest == Timers!EarliestDueTime(m_timerEntries', m_overflowTimers')
             r == SubSeq(m_overflowTimers, n + 1, Len(m_overflowTimers))
  <1>2. /\ threadPc = "due" /\ threadPc' = "schedule" /\ m_timerEntries' = m_timerEntries \ due /\ m_overflowTimers' = r
        /\ timersReadyToResume' = timersReadyToResume \cup due \cup {m_overflowTimers[i] : i \in 1 .. n}
        /\ UNCHANGED <<now, m_resumeTime, cancelled, m_refCount, timerPc, registered, canceller, timerStatus, m_timerState,
                       m_newlyQueuedTimers, m_timerCancellationRequested, m_shutDownRequested, m_wakeUpEvent,
                       newTimers, service>>
    <2>1. CASE Timers!DequeueDueTimers
      BY <2>1 DEF Timers!DequeueDueTimers, Timers!others, Timers!time, Timers!flags
    <2>2. CASE Failing!DequeueDueTimers
      BY <2>2, FailingOperators DEF Failing!DequeueDueTimers, Failing!others, Failing!time, Failing!flags
    <2>3. QED BY <2>1, <2>2
  <1>3. /\ \/ /\ m_waitableTimerEvent' = earliest /\ lastSetWaitEventTime' = earliest
           \/ /\ UNCHANGED <<m_waitableTimerEvent, lastSetWaitEventTime>>
              /\ chosen = "timers" => ~Timers!MustArm(earliest)
    <2>1. CASE Timers!DequeueDueTimers
      BY <2>1 DEF Timers!DequeueDueTimers
    <2>2. CASE Failing!DequeueDueTimers /\ chosen # "timers"
      <3>1. Failing!EarliestDueTime(m_timerEntries', m_overflowTimers') = earliest
        BY FailingOperators
      <3>2. QED BY <2>2, <3>1 DEF Failing!DequeueDueTimers
    <2>3. QED BY <2>1, <2>2
  <1>4. /\ m_overflowTimers \in Seq(Operations) /\ m_timerEntries \subseteq Operations /\ Ascending(m_overflowTimers)
        /\ m_resumeTime \in [Operations -> 1 .. Timers!FarFuture] /\ now \in Int
        /\ timersReadyToResume \subseteq Operations /\ Fallback \subseteq Operations
    BY <1>1, IoAssumption DEF Timers!TypeOK, TimerLoop, Fallback, Timers!Overflow
  <1>5. m_resumeTime \in [Operations -> Int]
    BY <1>4, IoAssumption DEF Timers!FarFuture
  <1>6. /\ r \in Seq(Operations) /\ Ascending(r)
        /\ {r[i] : i \in DOMAIN r} = {o \in Fallback : m_resumeTime[o] > now}
        /\ {m_overflowTimers[i] : i \in 1 .. n} = {o \in Fallback : m_resumeTime[o] <= now}
    BY <1>4, <1>5, DueRemoved DEF Fallback, Timers!Overflow
  <1> HIDE DEF n, r, earliest
  <1>7. /\ m_overflowTimers' \in Seq(Operations) /\ Ascending(m_overflowTimers)'
        /\ Fallback' = {o \in Fallback : m_resumeTime[o] > now}
        /\ timersReadyToResume' = timersReadyToResume \cup due \cup {o \in Fallback : m_resumeTime[o] <= now}
    BY <1>2, <1>6 DEF Fallback, Timers!Overflow, Ascending
  <1>8. /\ earliest \in Timers!Times
        /\ \A o \in m_timerEntries' \cup Fallback' : earliest <= m_resumeTime[o] /\ earliest # Timers!TimePointMax
    <2>1. m_timerEntries' \in SUBSET Operations /\ Ascending(m_overflowTimers')
      BY <1>2, <1>4, <1>6
    <2>2. Fallback' = {m_overflowTimers'[i] : i \in DOMAIN m_overflowTimers'}
      BY DEF Fallback, Timers!Overflow
    <2>3. QED BY <1>4, <1>7, <2>1, <2>2, EarliestIsLowerBound DEF earliest
  <1>9. Timers!TypeOK'
    <2>1. \A list \in {m_newlyQueuedTimers', m_timerEntries', newTimers', timersReadyToResume'} : list \subseteq Operations
      BY <1>1, <1>2, <1>4, <1>7 DEF Timers!TypeOK
    <2>2. m_waitableTimerEvent' \in Timers!Times /\ lastSetWaitEventTime' \in Timers!Times
      BY <1>1, <1>3, <1>8 DEF Timers!TypeOK
    <2>3. QED BY <1>1, <1>2, <1>7, <2>1, <2>2 DEF Timers!TypeOK
  <1>10. ASSUME NEW o \in Operations PROVE m_resumeTime[o] <= now <=> ~(m_resumeTime[o] > now)
    BY <1>4, <1>5
  <1>11. TimerLists'
    BY <1>1, <1>2, <1>4, <1>7, <1>10 DEF TimerLists
  <1>12. \A o \in Operations : Listed(o)' <=> Listed(o)
    BY <1>2, <1>4, <1>7, <1>10 DEF Listed
  <1>13. TimerOperations'
    <2>1. \A o \in Operations : o \in timersReadyToResume' => o \in timersReadyToResume \/ DueOrCancelled(o)
      BY <1>7 DEF DueOrCancelled
    <2>2. QED BY <1>1, <1>2, <1>12, <2>1, OperationMoved
  <1>14. TimerLoop'
    <2>1. ASSUME chosen = "timers", NEW o \in m_timerEntries' \cup Fallback'
          PROVE  m_waitableTimerEvent' <= m_resumeTime[o]
      BY <1>1, <1>3, <1>8, <2>1 DEF TimerLoop, Timers!MustArm
    <2>2. lastSetWaitEventTime' = m_waitableTimerEvent'
      BY <1>1, <1>3 DEF TimerLoop
    <2>3. QED BY <1>1, <1>2, <1>7, <2>1, <2>2 DEF TimerLoop
  <1>15. QED BY <1>9, <1>11, <1>13, <1>14 DEF TimersInv

LEMMA TimersStep ==
  ASSUME TimersInv, UNCHANGED chosen, Timers!Next
  PROVE  TimersInv'
  <1>1. ~Timers!WaitFails
    BY DEF Timers!WaitFails
  <1>2. ASSUME Timers!ThreadStep PROVE TimersInv'
    BY <1>2, TimerWaitStep, RemoveCancelledStep, TakeNewTimersStep, DequeueDueStep, EnqueueStep, ScheduleReadyStep
       DEF Timers!ThreadStep
  <1>3. ASSUME NEW o \in Operations,
               \/ Timers!Await(o) \/ Timers!AwaitStep(o) \/ Timers!ResumeCoroutine(o)
               \/ Timers!RequestCancellation(o) \/ Timers!CallbackStep(o)
        PROVE  TimersInv'
    BY <1>3, BeforePushStep, EnsureStep, PushTimerStep, ReleaseByAwaiterStep, CoroutineOrCancellerStep
       DEF Timers!AwaitStep, Timers!CallbackStep
  <1>4. QED BY <1>1, <1>2, <1>3, TickStep, TimerShutDownStep DEF Timers!Next

(* A step of the view with failing calls is one of the other, a wait that  *)
(* fails, or a call of SetWaitableTimer() that may fail.                   *)
LEMMA FailingStep ==
  ASSUME Failing!Next
  PROVE  Timers!Next \/ Failing!WaitFails \/ Failing!DequeueDueTimers
  <1> USE DEF Failing!time, Timers!time, Failing!queue, Timers!queue, Failing!run, Timers!run, Failing!flags, Timers!flags,
              Failing!others, Timers!others, Failing!Goto, Timers!Goto, Failing!Release, Timers!Release
  <1>1. Failing!Tick => Timers!Tick
    BY DEF Failing!Tick, Timers!Tick
  <1>2. ASSUME NEW o \in Operations PROVE Failing!Await(o) => Timers!Await(o)
    BY DEF Failing!Await, Timers!Await
  <1>3. ASSUME NEW o \in Operations PROVE Failing!AwaitStep(o) => Timers!AwaitStep(o)
    <2>1. Failing!EnsureTimerThread(o) => Timers!EnsureTimerThread(o)
      BY DEF Failing!EnsureTimerThread, Timers!EnsureTimerThread
    <2>2. Failing!RegisterCallback(o) => Timers!RegisterCallback(o)
      BY DEF Failing!RegisterCallback, Timers!RegisterCallback
    <2>3. Failing!CallbackReturns(o) => Timers!CallbackReturns(o)
      BY DEF Failing!CallbackReturns, Timers!CallbackReturns
    <2>4. Failing!PushTimer(o) => Timers!PushTimer(o)
      BY DEF Failing!PushTimer, Timers!PushTimer
    <2>5. Failing!WakeTimerThread(o) => Timers!WakeTimerThread(o)
      BY DEF Failing!WakeTimerThread, Timers!WakeTimerThread
    <2>6. Failing!ReleaseByAwaiter(o) => Timers!ReleaseByAwaiter(o)
      BY DEF Failing!ReleaseByAwaiter, Timers!ReleaseByAwaiter
    <2>7. QED BY <2>1, <2>2, <2>3, <2>4, <2>5, <2>6 DEF Failing!AwaitStep, Timers!AwaitStep
  <1>4. ASSUME NEW o \in Operations
        PROVE  Failing!ResumeCoroutine(o) \/ Failing!RequestCancellation(o) \/ Failing!CallbackStep(o)
                 => Timers!ResumeCoroutine(o) \/ Timers!RequestCancellation(o) \/ Timers!CallbackStep(o)
    <2>1. Failing!ResumeCoroutine(o) => Timers!ResumeCoroutine(o)
      BY DEF Failing!ResumeCoroutine, Timers!ResumeCoroutine
    <2>2. Failing!RequestCancellation(o) => Timers!RequestCancellation(o)
      BY DEF Failing!RequestCancellation, Timers!RequestCancellation
    <2>3. Failing!RequestTimerCancellation(o) => Timers!RequestTimerCancellation(o)
      BY DEF Failing!RequestTimerCancellation, Timers!RequestTimerCancellation
    <2>4. Failing!WakeForCancellation(o) => Timers!WakeForCancellation(o)
      BY DEF Failing!WakeForCancellation, Timers!WakeForCancellation
    <2>5. QED BY <2>1, <2>2, <2>3, <2>4 DEF Failing!CallbackStep, Timers!CallbackStep
  <1>5. Failing!RequestShutDown \/ Failing!DestructorStep => Timers!RequestShutDown \/ Timers!DestructorStep
    BY DEF Failing!RequestShutDown, Timers!RequestShutDown, Failing!DestructorStep, Timers!DestructorStep,
       Failing!WakeForShutDown, Timers!WakeForShutDown, Failing!JoinTimerThread, Timers!JoinTimerThread
  <1>6. Failing!ThreadStep => Timers!ThreadStep \/ Failing!DequeueDueTimers
    <2>1. Failing!WaitForEvents => Timers!WaitForEvents
      BY DEF Failing!WaitForEvents, Timers!WaitForEvents, Failing!TimePointMax, Timers!TimePointMax
    <2>2. Failing!RemoveCancelledTimers => Timers!RemoveCancelledTimers
      <3>1. ASSUME NEW T PROVE Failing!Selected(m_overflowTimers, T) = Timers!Selected(m_overflowTimers, T)
        BY DEF Failing!Selected, Failing!Kept, Failing!Increasing, Failing!Cardinality,
           Timers!Selected, Timers!Kept, Timers!Increasing, Timers!Cardinality
      <3>2. Failing!Overflow = Timers!Overflow
        BY DEF Failing!Overflow, Timers!Overflow
      <3>3. QED BY <3>1, <3>2 DEF Failing!RemoveCancelledTimers, Timers!RemoveCancelledTimers
    <2>3. Failing!TakeNewTimers \/ Failing!NextIteration => Timers!TakeNewTimers \/ Timers!NextIteration
      BY DEF Failing!TakeNewTimers, Timers!TakeNewTimers, Failing!NextIteration, Timers!NextIteration
    <2>4. ASSUME NEW o \in Operations PROVE Failing!EnqueueNewTimer(o) => Timers!EnqueueNewTimer(o)
      <3>1. Failing!InsertByDueTime(o, m_overflowTimers) = Timers!InsertByDueTime(o, m_overflowTimers)
        BY FailingOperators DEF Failing!InsertByDueTime, Timers!InsertByDueTime
      <3>2. QED BY <3>1 DEF Failing!EnqueueNewTimer, Timers!EnqueueNewTimer
    <2>5. ASSUME NEW o \in Operations PROVE Failing!ScheduleReadyTimer(o) => Timers!ScheduleReadyTimer(o)
      BY DEF Failing!ScheduleReadyTimer, Timers!ScheduleReadyTimer
    <2>6. QED BY <2>1, <2>2, <2>3, <2>4, <2>5 DEF Failing!ThreadStep, Timers!ThreadStep
  <1>7. QED BY <1>1, <1>2, <1>3, <1>4, <1>5, <1>6 DEF Failing!Next, Timers!Next

(* However many coroutines await schedule_after(), are cancelled at any    *)
(* time and find memory for the heap or not, and whether or not system     *)
(* calls fail: a timer is on one list until run() gives it up, a coroutine *)
(* is scheduled when neither thread uses its operation and not before its  *)
(* time unless it was cancelled, nobody uses the timer thread when the     *)
(* service is destroyed and, if no call fails, the thread waits with its   *)
(* timer set for the earliest due time.                                    *)
THEOREM TimersAreSafe == MCSpec => []TimersSafe
  <1>1. MCInit => TimersInv
    BY TimersInitially DEF MCInit
  <1>2. TimersInv /\ [MCNext]_<<chosen, serviceVars, timerVars, textVars>> => TimersInv'
    <2> SUFFICES ASSUME TimersInv, [MCNext]_<<chosen, serviceVars, timerVars, textVars>> PROVE TimersInv'
      OBVIOUS
    <2>1. CASE UNCHANGED timerVars /\ UNCHANGED chosen
      <3>1. UNCHANGED <<now, m_resumeTime, cancelled, m_refCount, timerPc, registered, canceller, timerStatus, m_timerState,
                        m_newlyQueuedTimers, m_timerCancellationRequested, m_shutDownRequested, m_wakeUpEvent,
                        m_waitableTimerEvent, m_timerEntries, m_overflowTimers, newTimers, timersReadyToResume,
                        lastSetWaitEventTime, threadPc, service>>
        BY <2>1 DEF timerVars
      <3>2. TimerLists' /\ \A o : Listed(o)' <=> Listed(o)
        BY <3>1, ListsKept DEF TimersInv
      <3>3. TimerOperations'
        BY <3>1, <3>2, OperationMoved DEF TimersInv
      <3>4. TimerLoop'
        BY <2>1, <3>1, TimerLoopKept DEF TimersInv
      <3>5. Timers!TypeOK'
        BY <3>1 DEF TimersInv, Timers!TypeOK
      <3>6. QED BY <3>2, <3>3, <3>4, <3>5 DEF TimersInv
    <2>2. CASE UNCHANGED chosen /\ TimersNext
      <3>1. CASE Timers!Next
        BY <2>2, <3>1, TimersStep
      <3>2. CASE chosen = "timers_failing" /\ Failing!Next
        <4>1. chosen # "timers"
          BY <3>2
        <4>2. QED BY <2>2, <3>1, <3>2, <4>1, FailingStep, TimerWaitStep, DequeueDueStep
      <3>3. QED BY <2>2, <3>1, <3>2 DEF TimersNext
    <2>3. QED BY <2>1, <2>2 DEF MCNext
  <1>3. TimersInv => TimersSafe
    BY TimersInvIsSafe
  <1>4. QED BY <1>1, <1>2, <1>3, PTL DEF MCSpec
=============================================================================
