-------------------------- MODULE ThreadPoolProofs --------------------------
(***************************************************************************)
(* static_thread_pool, for any number of workers, submitters and           *)
(* operations: no operation is lost or handed out twice, and the global    *)
(* queue is first-in first-out.                                            *)
(***************************************************************************)
EXTENDS ThreadPool, ListProofs

(* Where a worker is when it may have an operation in its hand.            *)
BusyLabels == {"run", "clear", "clearOwn", "clearScan", "clearSignal", "wake", "wakeScan", "wakeSignal"}

PoolLabels ==
  /\ \A w \in Workers : pc[w] \in WorkerLabels
  /\ \A s \in Submitters : pc[s] \in {"idle", "wake", "wakeScan", "wakeSignal"}
  /\ pc[Main] \in {"idle", "stopScan", "stopSignal", "joining", "joined"}
  /\ DOMAIN pc = Threads

PoolControl ==
  /\ m_isSleeping \in [Workers -> BOOLEAN]
  /\ m_wakeUpEvent \in [Workers -> BOOLEAN]
  /\ m_sleepingThreadCount \in Nat
  /\ m_stopRequested \in BOOLEAN
  /\ PoolLabels
  /\ scan \in [Threads -> 0 .. ThreadCount]
  /\ from \in [Workers -> {"pop", "spin", "asleep"}]
  /\ pc[Main] = "stopSignal" => scan[Main] < ThreadCount

(* The batch that is being reversed belongs to the holder of               *)
(* m_globalQueueMutex, who found the head list empty.                      *)
PoolBatch ==
  /\ m_globalQueueTail \in Seq(Ops)
  /\ m_globalQueueHead \in Seq(Ops)
  /\ detached \in Seq(Ops)
  /\ m_globalQueueMutex \in Workers \cup {Main}
  /\ \A w \in Workers : pc[w] = "publish" <=> m_globalQueueMutex = w
  /\ m_globalQueueMutex = Main <=> detached = << >>
  /\ detached # << >> => m_globalQueueHead = << >>

PoolHands ==
  /\ op \in [Workers -> Ops \cup {NoOp}]
  /\ \A w \in Workers : pc[w] \notin BusyLabels => op[w] = NoOp

PoolOps ==
  /\ fresh \in SUBSET Ops
  /\ outstanding \in SUBSET Ops
  /\ GlobalQueue \in Seq(Ops)
  /\ localQueue \in [Workers -> Seq(Ops)]
  /\ op \in [Workers -> Ops \cup {NoOp}]
  /\ fresh \cap outstanding = {}
  /\ outstanding = Queued \cup InHand
  /\ Queued \cap InHand = {}
  /\ LocallyQueued \cap ToSet(GlobalQueue) = {}
  /\ IsInjective(GlobalQueue)
  /\ \A w \in Workers : IsInjective(localQueue[w])
  /\ \A v, w \in Workers : v # w =>
       /\ ToSet(localQueue[v]) \cap ToSet(localQueue[w]) = {}
       /\ op[v] = op[w] => op[w] = NoOp

PoolInv == PoolControl /\ PoolBatch /\ PoolHands /\ PoolOps

LEMMA PoolParties ==
  /\ ThreadCount \in Nat /\ ThreadCount > 0
  /\ \A w \in Workers : w \in 0 .. ThreadCount - 1 /\ w \notin Submitters /\ w # Main /\ w \in Threads
  /\ \A s \in Submitters : s \notin Workers /\ s # Main /\ s \in Threads
  /\ Main \notin Workers /\ Main \notin Submitters /\ Main \in Threads
  /\ NoOp \notin Ops
  BY ThreadPoolAssumption DEF Workers, Threads

-----------------------------------------------------------------------------
(* What a step does to the places an operation can be in.                  *)

(* The last of a list is removed.                                          *)
LEMMA FrontDistinct ==
  ASSUME NEW S, NEW s \in Seq(S), IsInjective(s), s # << >>
  PROVE  /\ Front(s) \in Seq(S) /\ IsInjective(Front(s))
         /\ ToSet(Front(s)) = ToSet(s) \ {Last(s)}
         /\ Last(s) \in ToSet(s) /\ Last(s) \in S
  <1>1. Len(s) \in Nat /\ Len(s) >= 1 /\ Last(s) = s[Len(s)] /\ Last(s) \in S
    BY DEF Last
  <1>2. /\ Front(s) \in Seq(S) /\ Len(Front(s)) = Len(s) - 1
        /\ \A i \in 1 .. Len(s) - 1 : Front(s)[i] = s[i]
    <2>1. Front(s) = SubSeq(s, 1, Len(s) - 1)
      BY DEF Front
    <2>2. PICK n \in Int : n = Len(s) - 1
      BY <1>1
    <2>3. \A i \in 1 .. n : s[i] \in S
      BY <1>1, <2>2
    <2>4. /\ SubSeq(s, 1, n) \in Seq(S) /\ Len(SubSeq(s, 1, n)) = IF 1 <= n THEN n - 1 + 1 ELSE 0
          /\ \A i \in 1 .. n - 1 + 1 : SubSeq(s, 1, n)[i] = s[1 + i - 1]
      BY <2>3, SubSeqProperties
    <2>5. QED BY <1>1, <2>1, <2>2, <2>4
  <1>3. \A i, j \in 1 .. Len(s) : s[i] = s[j] => i = j
    BY DEF IsInjective
  <1>4. IsInjective(Front(s))
    BY <1>1, <1>2, <1>3 DEF IsInjective
  <1>5. Last(s) \in ToSet(s)
    BY <1>1 DEF ToSet
  <1>6. ToSet(Front(s)) = ToSet(s) \ {Last(s)}
    <2>1. ASSUME NEW e \in ToSet(Front(s)) PROVE e \in ToSet(s) \ {Last(s)}
      <3>1. PICK i \in 1 .. Len(s) - 1 : e = s[i]
        BY <1>1, <1>2 DEF ToSet
      <3>2. QED BY <1>1, <1>3, <3>1 DEF ToSet
    <2>2. ASSUME NEW e \in ToSet(s) \ {Last(s)} PROVE e \in ToSet(Front(s))
      <3>1. PICK i \in 1 .. Len(s) : e = s[i]
        BY DEF ToSet
      <3>2. i \in 1 .. Len(s) - 1
        BY <1>1, <3>1
      <3>3. QED BY <1>1, <1>2, <3>1, <3>2 DEF ToSet
    <2>3. QED BY <2>1, <2>2
  <1>7. QED BY <1>1, <1>2, <1>4, <1>5, <1>6

(* A worker gets an operation that nobody has.                             *)
LEMMA HandTakes ==
  ASSUME PoolOps, NEW w \in Workers, NEW o \in Ops \ InHand, op[w] = NoOp, op' = [op EXCEPT ![w] = o]
  PROVE  /\ op' \in [Workers -> Ops \cup {NoOp}]
         /\ InHand' = InHand \cup {o}
         /\ \A v, u \in Workers : v # u => (op'[v] = op'[u] => op'[u] = NoOp)
  <1> USE PoolParties
  <1>1. op \in [Workers -> Ops \cup {NoOp}] /\ \A v, u \in Workers : v # u => (op[v] = op[u] => op[u] = NoOp)
    BY DEF PoolOps
  <1>2. op' \in [Workers -> Ops \cup {NoOp}] /\ op'[w] = o /\ \A v \in Workers : v # w => op'[v] = op[v]
    BY <1>1
  <1>3. \A v \in Workers : op[v] # o
    BY DEF InHand
  <1>4. InHand' = InHand \cup {o}
    BY <1>2 DEF InHand
  <1>5. QED BY <1>1, <1>2, <1>3, <1>4

(* A worker is done with its operation.                                    *)
LEMMA HandDrops ==
  ASSUME PoolOps, NEW w \in Workers, op[w] # NoOp, op' = [op EXCEPT ![w] = NoOp]
  PROVE  /\ op' \in [Workers -> Ops \cup {NoOp}]
         /\ op[w] \in InHand /\ InHand' = InHand \ {op[w]}
         /\ \A v, u \in Workers : v # u => (op'[v] = op'[u] => op'[u] = NoOp)
  <1> USE PoolParties
  <1>1. op \in [Workers -> Ops \cup {NoOp}] /\ \A v, u \in Workers : v # u => (op[v] = op[u] => op[u] = NoOp)
    BY DEF PoolOps
  <1>2. op' \in [Workers -> Ops \cup {NoOp}] /\ op'[w] = NoOp /\ \A v \in Workers : v # w => op'[v] = op[v]
    BY <1>1
  <1>3. \A v \in Workers : v # w => op[v] # op[w]
    BY <1>1
  <1>4. InHand' = InHand \ {op[w]}
    BY <1>2, <1>3 DEF InHand
  <1>5. QED BY <1>1, <1>2, <1>4 DEF InHand

(* One operation less, or one more, in a local queue.                      *)
LEMMA LocalTakes ==
  ASSUME PoolOps, NEW v \in Workers, NEW q \in Seq(Ops), NEW o \in ToSet(localQueue[v]),
         localQueue' = [localQueue EXCEPT ![v] = q], IsInjective(q), ToSet(q) = ToSet(localQueue[v]) \ {o}
  PROVE  /\ localQueue' \in [Workers -> Seq(Ops)]
         /\ o \in LocallyQueued /\ LocallyQueued' = LocallyQueued \ {o}
         /\ \A w \in Workers : IsInjective(localQueue'[w])
         /\ \A u, w \in Workers : u # w => ToSet(localQueue'[u]) \cap ToSet(localQueue'[w]) = {}
  <1>1. /\ localQueue \in [Workers -> Seq(Ops)] /\ \A w \in Workers : IsInjective(localQueue[w])
        /\ \A u, w \in Workers : u # w => ToSet(localQueue[u]) \cap ToSet(localQueue[w]) = {}
    BY DEF PoolOps
  <1>2. /\ localQueue' \in [Workers -> Seq(Ops)] /\ localQueue'[v] = q
        /\ \A w \in Workers : w # v => localQueue'[w] = localQueue[w]
    BY <1>1
  <1>3. \A w \in Workers : w # v => o \notin ToSet(localQueue[w])
    BY <1>1
  <1>4. \A w \in Workers : ToSet(localQueue'[w]) = ToSet(localQueue[w]) \ {o}
    BY <1>2, <1>3
  <1>5. LocallyQueued' = LocallyQueued \ {o} /\ o \in LocallyQueued
    <2>1. LocallyQueued' = UNION {ToSet(localQueue[w]) \ {o} : w \in Workers}
      BY <1>4 DEF LocallyQueued
    <2>2. QED BY <2>1 DEF LocallyQueued
  <1>6. QED BY <1>1, <1>2, <1>4, <1>5

LEMMA LocalAdds ==
  ASSUME PoolOps, NEW v \in Workers, NEW o \in Ops \ LocallyQueued,
         localQueue' = [localQueue EXCEPT ![v] = Append(@, o)]
  PROVE  /\ localQueue' \in [Workers -> Seq(Ops)]
         /\ LocallyQueued' = LocallyQueued \cup {o}
         /\ \A w \in Workers : IsInjective(localQueue'[w])
         /\ \A u, w \in Workers : u # w => ToSet(localQueue'[u]) \cap ToSet(localQueue'[w]) = {}
  <1>1. /\ localQueue \in [Workers -> Seq(Ops)] /\ \A w \in Workers : IsInjective(localQueue[w])
        /\ \A u, w \in Workers : u # w => ToSet(localQueue[u]) \cap ToSet(localQueue[w]) = {}
    BY DEF PoolOps
  <1>2. /\ localQueue' \in [Workers -> Seq(Ops)] /\ localQueue'[v] = Append(localQueue[v], o)
        /\ \A w \in Workers : w # v => localQueue'[w] = localQueue[w]
    BY <1>1
  <1>3. \A w \in Workers : o \notin ToSet(localQueue[w])
    BY DEF LocallyQueued
  <1>4. IsInjective(localQueue'[v]) /\ ToSet(localQueue'[v]) = ToSet(localQueue[v]) \cup {o}
    BY <1>1, <1>2, <1>3, AppendDistinct
  <1>5. LocallyQueued' = LocallyQueued \cup {o}
    BY <1>2, <1>4 DEF LocallyQueued
  <1>6. QED BY <1>1, <1>2, <1>3, <1>4, <1>5

(* No operation moves.                                                     *)
LEMMA OpsKept ==
  ASSUME PoolOps, GlobalQueue' = GlobalQueue, UNCHANGED <<localQueue, op, fresh, outstanding>>
  PROVE  PoolOps'
  <1>1. LocallyQueued' = LocallyQueued /\ Queued' = Queued /\ InHand' = InHand
    BY DEF LocallyQueued, Queued, InHand
  <1>2. QED BY <1>1 DEF PoolOps

(* A worker takes the oldest operation of the global queue,                *)
LEMMA OpsTaken ==
  ASSUME PoolOps, NEW w \in Workers, op[w] = NoOp, GlobalQueue # << >>, GlobalQueue' = Tail(GlobalQueue),
         op' = [op EXCEPT ![w] = Head(GlobalQueue)], UNCHANGED <<localQueue, fresh, outstanding>>
  PROVE  PoolOps'
  <1> DEFINE o == Head(GlobalQueue)
  <1>1. GlobalQueue \in Seq(Ops) /\ IsInjective(GlobalQueue)
    BY DEF PoolOps
  <1>2. /\ IsInjective(GlobalQueue') /\ GlobalQueue' \in Seq(Ops)
        /\ ToSet(GlobalQueue)' = ToSet(GlobalQueue) \ {o} /\ o \in ToSet(GlobalQueue) /\ o \in Ops
    BY <1>1, TailDistinct
  <1>3. o \notin InHand
    BY <1>2 DEF PoolOps, Queued
  <1> HIDE DEF o
  <1>4. op' = [op EXCEPT ![w] = o]
    BY DEF o
  <1>5. /\ op' \in [Workers -> Ops \cup {NoOp}] /\ InHand' = InHand \cup {o}
        /\ \A v, u \in Workers : v # u => (op'[v] = op'[u] => op'[u] = NoOp)
    BY <1>2, <1>3, <1>4, HandTakes
  <1>6. LocallyQueued' = LocallyQueued
    BY DEF LocallyQueued
  <1>7. o \notin LocallyQueued
    BY <1>2 DEF PoolOps
  <1>8. Queued' = Queued \ {o} /\ o \in Queued
    BY <1>2, <1>6, <1>7 DEF Queued
  <1>9. QED BY <1>2, <1>5, <1>6, <1>8 DEF PoolOps

(* ... or one of a local queue, the oldest or the newest.                  *)
LEMMA OpsTakenLocally ==
  ASSUME PoolOps, NEW w \in Workers, op[w] = NoOp, NEW v \in Workers, NEW q \in Seq(Ops), NEW o \in ToSet(localQueue[v]),
         localQueue' = [localQueue EXCEPT ![v] = q], IsInjective(q), ToSet(q) = ToSet(localQueue[v]) \ {o},
         op' = [op EXCEPT ![w] = o], GlobalQueue' = GlobalQueue, UNCHANGED <<fresh, outstanding>>
  PROVE  PoolOps'
  <1>1. /\ localQueue' \in [Workers -> Seq(Ops)]
        /\ o \in LocallyQueued /\ LocallyQueued' = LocallyQueued \ {o}
        /\ \A u \in Workers : IsInjective(localQueue'[u])
        /\ \A u, t \in Workers : u # t => ToSet(localQueue'[u]) \cap ToSet(localQueue'[t]) = {}
    BY LocalTakes
  <1>2. o \in Queued /\ o \notin InHand /\ o \notin ToSet(GlobalQueue)
    BY <1>1 DEF PoolOps, Queued
  <1>3. o \in Ops
    BY <1>2 DEF PoolOps
  <1>4. /\ op' \in [Workers -> Ops \cup {NoOp}] /\ InHand' = InHand \cup {o}
        /\ \A u, t \in Workers : u # t => (op'[u] = op'[t] => op'[t] = NoOp)
    BY <1>2, <1>3, HandTakes
  <1>5. Queued' = Queued \ {o}
    BY <1>1, <1>2 DEF Queued
  <1>6. QED BY <1>1, <1>2, <1>4, <1>5 DEF PoolOps

(* A coroutine completes on a worker.                                      *)
LEMMA OpsCompleted ==
  ASSUME PoolOps, NEW w \in Workers, op[w] # NoOp, op' = [op EXCEPT ![w] = NoOp],
         outstanding' = outstanding \ {op[w]}, GlobalQueue' = GlobalQueue, UNCHANGED <<localQueue, fresh>>
  PROVE  PoolOps'
  <1>1. /\ op' \in [Workers -> Ops \cup {NoOp}] /\ op[w] \in InHand /\ InHand' = InHand \ {op[w]}
        /\ \A v, u \in Workers : v # u => (op'[v] = op'[u] => op'[u] = NoOp)
    BY HandDrops
  <1>2. LocallyQueued' = LocallyQueued /\ Queued' = Queued
    BY DEF LocallyQueued, Queued
  <1>3. QED BY <1>1, <1>2 DEF PoolOps

(* An operation is scheduled, remotely or locally, and the coroutine that  *)
(* does it, if any, goes on.                                               *)
LEMMA OpsScheduled ==
  ASSUME PoolOps, NEW o \in fresh, fresh' = fresh \ {o}, outstanding' = outstanding \cup {o}, UNCHANGED op,
         \/ localQueue' = localQueue /\ GlobalQueue' = Append(GlobalQueue, o)
         \/ GlobalQueue' = GlobalQueue /\ \E w \in Workers : localQueue' = [localQueue EXCEPT ![w] = Append(@, o)]
  PROVE  PoolOps'
  <1>1. o \in Ops /\ o \notin outstanding /\ o \notin Queued /\ o \notin InHand
    BY DEF PoolOps
  <1>2. InHand' = InHand
    BY DEF InHand
  <1>3. CASE localQueue' = localQueue /\ GlobalQueue' = Append(GlobalQueue, o)
    <2>1. GlobalQueue \in Seq(Ops) /\ IsInjective(GlobalQueue) /\ o \notin ToSet(GlobalQueue) /\ o \notin LocallyQueued
      BY <1>1 DEF PoolOps, Queued
    <2>2. GlobalQueue' \in Seq(Ops) /\ IsInjective(GlobalQueue') /\ ToSet(GlobalQueue)' = ToSet(GlobalQueue) \cup {o}
      BY <1>1, <1>3, <2>1, AppendDistinct
    <2>3. LocallyQueued' = LocallyQueued
      BY <1>3 DEF LocallyQueued
    <2>4. Queued' = Queued \cup {o}
      BY <2>2, <2>3 DEF Queued
    <2>5. QED BY <1>1, <1>2, <1>3, <2>1, <2>2, <2>3, <2>4 DEF PoolOps
  <1>4. ASSUME GlobalQueue' = GlobalQueue, NEW w \in Workers, localQueue' = [localQueue EXCEPT ![w] = Append(@, o)]
        PROVE  PoolOps'
    <2>1. o \notin ToSet(GlobalQueue) /\ o \in Ops \ LocallyQueued
      BY <1>1 DEF Queued
    <2>2. /\ localQueue' \in [Workers -> Seq(Ops)] /\ LocallyQueued' = LocallyQueued \cup {o}
          /\ \A v \in Workers : IsInjective(localQueue'[v])
          /\ \A u, v \in Workers : u # v => ToSet(localQueue'[u]) \cap ToSet(localQueue'[v]) = {}
      BY <1>4, <2>1, LocalAdds
    <2>3. Queued' = Queued \cup {o}
      BY <1>4, <2>2 DEF Queued
    <2>4. \A u, v \in Workers : u # v =>
            ToSet(localQueue'[u]) \cap ToSet(localQueue'[v]) = {} /\ (op'[u] = op'[v] => op'[v] = NoOp)
      BY <1>2, <2>2 DEF PoolOps
    <2>5. /\ LocallyQueued' \cap ToSet(GlobalQueue)' = {} /\ IsInjective(GlobalQueue') /\ GlobalQueue' \in Seq(Ops)
      BY <1>4, <2>1, <2>2 DEF PoolOps
    <2>6. /\ outstanding' = Queued' \cup InHand' /\ Queued' \cap InHand' = {} /\ fresh' \cap outstanding' = {}
          /\ outstanding' \in SUBSET Ops /\ fresh' \in SUBSET Ops
      BY <1>1, <1>2, <2>3 DEF PoolOps
    <2>7. op' \in [Workers -> Ops \cup {NoOp}]
      BY <1>2 DEF PoolOps
    <2>8. QED BY <2>2, <2>4, <2>5, <2>6, <2>7 DEF PoolOps
  <1>5. QED BY <1>3, <1>4

(* The coroutine itself is scheduled again.                                *)
LEMMA OpsAwaited ==
  ASSUME PoolOps, NEW w \in Workers, op[w] # NoOp, op' = [op EXCEPT ![w] = NoOp], NEW o \in fresh, fresh' = fresh \ {o},
         outstanding' = (outstanding \ {op[w]}) \cup {o},
         \/ localQueue' = localQueue /\ GlobalQueue' = Append(GlobalQueue, o)
         \/ GlobalQueue' = GlobalQueue /\ localQueue' = [localQueue EXCEPT ![w] = Append(@, o)]
  PROVE  PoolOps'
  <1>1. o \in Ops /\ o \notin outstanding /\ o \notin Queued /\ o \notin InHand
    BY DEF PoolOps
  <1>2. /\ op' \in [Workers -> Ops \cup {NoOp}] /\ op[w] \in InHand /\ InHand' = InHand \ {op[w]}
        /\ \A v, u \in Workers : v # u => (op'[v] = op'[u] => op'[u] = NoOp)
    BY HandDrops
  <1>3. CASE localQueue' = localQueue /\ GlobalQueue' = Append(GlobalQueue, o)
    <2>1. GlobalQueue \in Seq(Ops) /\ IsInjective(GlobalQueue) /\ o \notin ToSet(GlobalQueue) /\ o \notin LocallyQueued
      BY <1>1 DEF PoolOps, Queued
    <2>2. GlobalQueue' \in Seq(Ops) /\ IsInjective(GlobalQueue') /\ ToSet(GlobalQueue)' = ToSet(GlobalQueue) \cup {o}
      BY <1>1, <1>3, <2>1, AppendDistinct
    <2>3. LocallyQueued' = LocallyQueued
      BY <1>3 DEF LocallyQueued
    <2>4. Queued' = Queued \cup {o}
      BY <2>2, <2>3 DEF Queued
    <2>5. QED BY <1>1, <1>2, <1>3, <2>1, <2>2, <2>3, <2>4 DEF PoolOps
  <1>4. CASE GlobalQueue' = GlobalQueue /\ localQueue' = [localQueue EXCEPT ![w] = Append(@, o)]
    <2>1. o \notin ToSet(GlobalQueue) /\ o \in Ops \ LocallyQueued
      BY <1>1 DEF Queued
    <2>2. /\ localQueue' \in [Workers -> Seq(Ops)] /\ LocallyQueued' = LocallyQueued \cup {o}
          /\ \A v \in Workers : IsInjective(localQueue'[v])
          /\ \A u, v \in Workers : u # v => ToSet(localQueue'[u]) \cap ToSet(localQueue'[v]) = {}
      BY <1>4, <2>1, LocalAdds
    <2>3. Queued' = Queued \cup {o}
      BY <1>4, <2>2 DEF Queued
    <2>4. \A u, v \in Workers : u # v =>
            ToSet(localQueue'[u]) \cap ToSet(localQueue'[v]) = {} /\ (op'[u] = op'[v] => op'[v] = NoOp)
      BY <1>2, <2>2 DEF PoolOps
    <2>5. /\ LocallyQueued' \cap ToSet(GlobalQueue)' = {} /\ IsInjective(GlobalQueue') /\ GlobalQueue' \in Seq(Ops)
      BY <1>4, <2>1, <2>2 DEF PoolOps
    <2>6. /\ outstanding' = Queued' \cup InHand' /\ Queued' \cap InHand' = {} /\ fresh' \cap outstanding' = {}
          /\ outstanding' \in SUBSET Ops /\ fresh' \in SUBSET Ops
      BY <1>1, <1>2, <2>3 DEF PoolOps
    <2>7. op' \in [Workers -> Ops \cup {NoOp}]
      BY <1>2 DEF PoolOps
    <2>8. QED BY <2>2, <2>4, <2>5, <2>6, <2>7 DEF PoolOps
  <1>5. QED BY <1>3, <1>4

-----------------------------------------------------------------------------
(* The global queue through its three lists.                               *)

LEMMA GlobalQueueIsList ==
  ASSUME PoolBatch
  PROVE  /\ GlobalQueue \in Seq(Ops)
         /\ detached = << >> => m_globalQueueHead \o Reverse(detached) = m_globalQueueHead
         /\ m_globalQueueHead \o Reverse(detached) \in Seq(Ops)
  <1>1. /\ m_globalQueueHead \in Seq(Ops) /\ detached \in Seq(Ops) /\ m_globalQueueTail \in Seq(Ops)
    BY DEF PoolBatch
  <1>2. m_globalQueueHead \o Reverse(detached) \in Seq(Ops)
    BY <1>1, QueueOfTwo
  <1>3. GlobalQueue \in Seq(Ops)
    BY <1>1, <1>2, QueueOfTwo DEF GlobalQueue
  <1>4. Reverse(<< >>) = << >>
    BY DEF Reverse
  <1>5. QED BY <1>1, <1>2, <1>3, <1>4

(* The first of the head list is the first of all,                         *)
LEMMA GlobalQueueTakesHead ==
  ASSUME PoolBatch, detached = << >>, m_globalQueueHead # << >>,
         m_globalQueueHead' = Tail(m_globalQueueHead), UNCHANGED <<m_globalQueueTail, detached>>
  PROVE  /\ GlobalQueue # << >> /\ GlobalQueue' = Tail(GlobalQueue)
         /\ Head(GlobalQueue) = Head(m_globalQueueHead)
         /\ m_globalQueueHead' \in Seq(Ops)
  <1>1. m_globalQueueHead \in Seq(Ops) /\ m_globalQueueTail \in Seq(Ops) /\ Tail(m_globalQueueHead) \in Seq(Ops)
    BY DEF PoolBatch
  <1>2. Reverse(<< >>) = << >>
    BY DEF Reverse
  <1>3. GlobalQueue = m_globalQueueHead \o Reverse(m_globalQueueTail)
    BY <1>1, <1>2 DEF GlobalQueue
  <1>4. GlobalQueue' = Tail(m_globalQueueHead) \o Reverse(m_globalQueueTail)
    BY <1>1, <1>2 DEF GlobalQueue
  <1>5. QED BY <1>1, <1>3, <1>4, QueueTakes

(* ... and, when there is none, the oldest of the batch.                   *)
LEMMA GlobalQueueTakesBatch ==
  ASSUME PoolBatch, detached # << >>, m_globalQueueHead' = Tail(Reverse(detached)), detached' = << >>,
         UNCHANGED m_globalQueueTail
  PROVE  /\ GlobalQueue # << >> /\ GlobalQueue' = Tail(GlobalQueue)
         /\ Head(GlobalQueue) = Last(detached)
         /\ m_globalQueueHead' \in Seq(Ops)
  <1>1. m_globalQueueHead = << >> /\ detached \in Seq(Ops) /\ m_globalQueueTail \in Seq(Ops)
    BY DEF PoolBatch
  <1>2. Reverse(<< >>) = << >>
    BY DEF Reverse
  <1>3. /\ Reverse(detached) \in Seq(Ops) /\ Reverse(detached) # << >> /\ Tail(Reverse(detached)) \in Seq(Ops)
        /\ Head(Reverse(detached)) = Last(detached)
    <2>1. Reverse(detached) \in Seq(Ops) /\ Reverse(detached) # << >> /\ Len(detached) \in Nat /\ Len(detached) > 0
      BY <1>1, ReverseType
    <2>2. Reverse(detached)[1] = detached[(Len(detached) - 1) + 1]
      BY <1>1, <2>1 DEF Reverse
    <2>3. QED BY <2>1, <2>2 DEF Last
  <1>4. GlobalQueue = Reverse(detached) \o Reverse(m_globalQueueTail)
    BY <1>1, <1>3 DEF GlobalQueue
  <1>5. GlobalQueue' = Tail(Reverse(detached)) \o Reverse(m_globalQueueTail)
    <2>1. \A l \in Seq(Ops) : l \o << >> = l
      OBVIOUS
    <2>2. QED BY <1>1, <1>2, <1>3, <2>1 DEF GlobalQueue
  <1>6. QED BY <1>1, <1>3, <1>4, <1>5, QueueTakes

(* Taking the stack for a batch changes nothing.                           *)
LEMMA GlobalQueueKept ==
  ASSUME PoolBatch, detached = << >>, m_globalQueueHead = << >>, detached' = m_globalQueueTail, m_globalQueueTail' = << >>,
         UNCHANGED m_globalQueueHead
  PROVE  GlobalQueue' = GlobalQueue
  <1>1. m_globalQueueTail \in Seq(Ops) /\ Reverse(<< >>) = << >> /\ Reverse(m_globalQueueTail) \in Seq(Ops)
    BY ReverseType DEF PoolBatch, Reverse
  <1>2. GlobalQueue = Reverse(m_globalQueueTail) /\ GlobalQueue' = Reverse(m_globalQueueTail)
    BY <1>1 DEF GlobalQueue
  <1>3. QED BY <1>2

(* remote_enqueue() adds at the end.                                       *)
LEMMA GlobalQueueGrows ==
  ASSUME PoolBatch, NEW o \in Ops, m_globalQueueTail' = Cons(o, m_globalQueueTail),
         UNCHANGED <<m_globalQueueHead, detached>>
  PROVE  GlobalQueue' = Append(GlobalQueue, o) /\ m_globalQueueTail' \in Seq(Ops)
  <1>1. m_globalQueueTail \in Seq(Ops) /\ m_globalQueueHead \o Reverse(detached) \in Seq(Ops)
    BY GlobalQueueIsList DEF PoolBatch
  <1>2. GlobalQueue' = (m_globalQueueHead \o Reverse(detached)) \o Reverse(Cons(o, m_globalQueueTail))
    BY DEF GlobalQueue
  <1>3. GlobalQueue' = Append(GlobalQueue, o)
    <2>1. PICK q \in Seq(Ops) : q = m_globalQueueHead \o Reverse(detached)
      BY <1>1
    <2>2. PICK n \in Seq(Ops) : n = m_globalQueueTail
      BY <1>1
    <2>3. \A e \in Ops : q \o Reverse(Cons(e, n)) = Append(q \o Reverse(n), e)
      BY QueueOfTwo, SMTT(40)
    <2>4. QED BY <1>2, <2>1, <2>2, <2>3 DEF GlobalQueue
  <1>4. QED BY <1>1, <1>3 DEF Cons

-----------------------------------------------------------------------------
(* Steps of one thread that leave the operations where they are.           *)

(* Thread t goes to one of the labels, by itself.                          *)
Moves(t, labels) ==
  /\ DOMAIN pc' = Threads /\ pc'[t] \in labels /\ \A u \in Threads : u # t => pc'[u] = pc[u]
  /\ scan' \in [Threads -> 0 .. ThreadCount] /\ \A u \in Threads : u # t => scan'[u] = scan[u]

TypedStep ==
  /\ m_isSleeping' \in [Workers -> BOOLEAN]
  /\ m_wakeUpEvent' \in [Workers -> BOOLEAN]
  /\ m_sleepingThreadCount' \in Nat
  /\ m_stopRequested' \in BOOLEAN
  /\ from' \in [Workers -> {"pop", "spin", "asleep"}]

QuietStep == UNCHANGED <<queues, op, application>> /\ TypedStep

(* The global queue stays, gets one more at the end or loses its first.    *)
FifoStep ==
  \/ GlobalQueue' = GlobalQueue
  \/ \E o \in Ops : GlobalQueue' = Append(GlobalQueue, o) \/ GlobalQueue = Cons(o, GlobalQueue')

LEMMA WorkerControl ==
  ASSUME PoolControl, NEW w \in Workers, TypedStep, Moves(w, WorkerLabels)
  PROVE  PoolControl'
  BY PoolParties DEF PoolControl, PoolLabels, TypedStep, Moves

LEMMA WorkerIsQuiet ==
  ASSUME PoolInv, NEW w \in Workers, QuietStep, Moves(w, WorkerLabels \ {"publish"}), pc[w] # "publish",
         op[w] = NoOp \/ pc'[w] \in BusyLabels
  PROVE  PoolInv' /\ FifoStep
  <1> USE PoolParties
  <1>1. PoolControl'
    <2>1. Moves(w, WorkerLabels)
      BY DEF Moves
    <2>2. QED BY <2>1, WorkerControl DEF PoolInv, QuietStep
  <1>2. \A u \in Workers : u # w => pc'[u] = pc[u]
    BY DEF Moves
  <1>3. pc'[w] # "publish"
    BY DEF Moves
  <1>4. UNCHANGED <<localQueue, m_globalQueueTail, m_globalQueueHead, m_globalQueueMutex, detached, op, fresh, outstanding>>
    BY DEF QuietStep, queues, application
  <1>5. PoolBatch'
    BY <1>2, <1>3, <1>4 DEF PoolInv, PoolBatch
  <1>6. PoolHands'
    BY <1>2, <1>4 DEF PoolInv, PoolHands
  <1>7. GlobalQueue' = GlobalQueue
    BY <1>4 DEF GlobalQueue
  <1>8. PoolOps'
    BY <1>4, <1>7, OpsKept DEF PoolInv
  <1>9. QED BY <1>1, <1>5, <1>6, <1>7, <1>8 DEF PoolInv, FifoStep

(* Submitters and Main have no operation in their hands.                   *)
LEMMA OutsiderIsQuiet ==
  ASSUME PoolInv, NEW t \in Submitters \cup {Main}, QuietStep,
         IF t = Main THEN Moves(t, {"idle", "stopScan", "stopSignal", "joining", "joined"})
                     ELSE Moves(t, {"idle", "wake", "wakeScan", "wakeSignal"}),
         t = Main /\ pc'[Main] = "stopSignal" => scan'[Main] < ThreadCount
  PROVE  PoolInv' /\ FifoStep
  <1> USE PoolParties
  <1>1. \A u \in Workers : pc'[u] = pc[u]
    BY DEF Moves
  <1>2. PoolControl'
    <2>1. PoolLabels'
      <3>1. CASE t = Main
        BY <3>1 DEF PoolInv, PoolControl, PoolLabels, Moves
      <3>2. CASE t \in Submitters
        BY <3>2 DEF PoolInv, PoolControl, PoolLabels, Moves
      <3>3. QED BY <3>1, <3>2
    <2>2. t # Main => pc'[Main] = pc[Main] /\ scan'[Main] = scan[Main]
      BY DEF Moves
    <2>3. scan' \in [Threads -> 0 .. ThreadCount]
      BY DEF Moves
    <2>4. QED BY <2>1, <2>2, <2>3 DEF PoolInv, PoolControl, QuietStep, TypedStep
  <1>3. UNCHANGED <<localQueue, m_globalQueueTail, m_globalQueueHead, m_globalQueueMutex, detached, op, fresh, outstanding>>
    BY DEF QuietStep, queues, application
  <1>4. PoolBatch' /\ PoolHands'
    BY <1>1, <1>3 DEF PoolInv, PoolBatch, PoolHands
  <1>5. GlobalQueue' = GlobalQueue
    BY <1>3 DEF GlobalQueue
  <1>6. PoolOps'
    BY <1>3, <1>5, OpsKept DEF PoolInv
  <1>7. QED BY <1>2, <1>4, <1>5, <1>6 DEF PoolInv, FifoStep

(* The loops over the other workers stay within the workers, or end.       *)
LEMMA OtherIndex ==
  ASSUME PoolControl, NEW w \in Workers
  PROVE  /\ FirstOther(w) \in 0 .. ThreadCount
         /\ scan[w] < ThreadCount => NextOther(w) \in 0 .. ThreadCount
  <1>1. scan[w] \in 0 .. ThreadCount
    BY PoolParties DEF PoolControl
  <1>2. QED BY <1>1, PoolParties DEF FirstOther, NextOther

(* tryGetRemote without success.                                           *)
LEMMA SearchIsQuiet ==
  ASSUME PoolInv, NEW w \in Workers,
         \/ DequeueFindsNothing(w) \/ StealFindsNothing(w) \/ StealSkips(w) \/ StealTriesAgain(w) \/ StealGivesUp(w)
  PROVE  PoolInv' /\ FifoStep
  <1> USE PoolParties DEF Goto, Leave, StartOthers, Scan
  <1>1. /\ DOMAIN pc = Threads /\ scan \in [Threads -> 0 .. ThreadCount] /\ from \in [Workers -> {"pop", "spin", "asleep"}]
        /\ FirstOther(w) \in 0 .. ThreadCount /\ (scan[w] < ThreadCount => NextOther(w) \in 0 .. ThreadCount)
        /\ pc[w] \in WorkerLabels
    BY OtherIndex DEF PoolInv, PoolControl, PoolLabels
  <1>2. QuietStep
    BY <1>1 DEF PoolInv, PoolControl, QuietStep, TypedStep, DequeueFindsNothing, StealFindsNothing, StealSkips, StealTriesAgain,
       StealGivesUp, sleepers
  <1>3. pc[w] \in {"dequeue", "steal", "stealSkipped", "stealBlocking"}
    BY DEF DequeueFindsNothing, StealFindsNothing, StealSkips, StealTriesAgain, StealGivesUp, StealLabels
  <1>4. op[w] = NoOp
    BY <1>3 DEF PoolInv, PoolHands, BusyLabels
  <1>5. Moves(w, WorkerLabels \ {"publish"})
    <2>1. CASE StealFindsNothing(w)
      BY <1>1, <1>3, <2>1 DEF StealFindsNothing, Moves
    <2>2. CASE DequeueFindsNothing(w) \/ StealSkips(w) \/ StealTriesAgain(w) \/ StealGivesUp(w)
      <3>1. \E label \in {"steal", "stealSkipped", "stealBlocking", "checkStop", "spin"}, i \in 0 .. ThreadCount :
              pc' = [pc EXCEPT ![w] = label] /\ scan' = [scan EXCEPT ![w] = i]
        BY <1>1, <2>2 DEF DequeueFindsNothing, StealSkips, StealTriesAgain, StealGivesUp
      <3>2. QED BY <1>1, <3>1 DEF Moves, WorkerLabels
    <2>3. QED BY <2>1, <2>2
  <1>6. QED BY <1>2, <1>3, <1>4, <1>5, WorkerIsQuiet

(* The rest of run_worker_thread without an operation.                     *)
LEMMA IdlingIsQuiet ==
  ASSUME PoolInv, NEW w \in Workers,
         PopsNothing(w) \/ SpinStops(w) \/ SpinSeesWork(w) \/ SpinEnds(w) \/ GoesToSleep(w) \/ RunReturns(w)
  PROVE  PoolInv' /\ FifoStep
  <1> USE PoolParties
  <1>1. /\ DOMAIN pc = Threads /\ scan \in [Threads -> 0 .. ThreadCount] /\ from \in [Workers -> {"pop", "spin", "asleep"}]
        /\ FirstOther(w) \in 0 .. ThreadCount /\ (scan[w] < ThreadCount => NextOther(w) \in 0 .. ThreadCount)
        /\ pc[w] \in WorkerLabels
    BY OtherIndex DEF PoolInv, PoolControl, PoolLabels
  <1>2. QuietStep
    <2>1. /\ m_isSleeping \in [Workers -> BOOLEAN] /\ m_wakeUpEvent \in [Workers -> BOOLEAN]
          /\ m_sleepingThreadCount \in Nat /\ m_stopRequested \in BOOLEAN
      BY DEF PoolInv, PoolControl
    <2>2. CASE PopsNothing(w) \/ SpinStops(w) \/ SpinSeesWork(w) \/ SpinEnds(w) \/ RunReturns(w)
      BY <1>1, <2>1, <2>2 DEF QuietStep, TypedStep, PopsNothing, SpinStops, SpinSeesWork, SpinEnds, RunReturns, sleepers
    <2>3. CASE NotifyMarks(w) \/ NotifyCounts(w) \/ WakesUp(w)
      <3>1. CASE NotifyMarks(w)
        BY <1>1, <2>1, <3>1 DEF QuietStep, TypedStep, NotifyMarks
      <3>2. CASE NotifyCounts(w)
        BY <1>1, <2>1, <3>2 DEF QuietStep, TypedStep, NotifyCounts
      <3>3. CASE WakesUp(w)
        BY <1>1, <2>1, <3>3 DEF QuietStep, TypedStep, WakesUp
      <3>4. QED BY <2>3, <3>1, <3>2, <3>3
    <2>4. CASE CheckTail(w) \/ CheckHead(w) \/ CheckLocal(w) \/ CheckFindsNothing(w) \/ CheckStop(w)
      BY <1>1, <2>1, <2>4 DEF QuietStep, TypedStep, CheckTail, CheckHead, CheckLocal, CheckFindsNothing, CheckStop, FoundBeforeSleep,
         sleepers
    <2>5. QED BY <2>2, <2>3, <2>4 DEF GoesToSleep
  <1>3. pc[w] \notin BusyLabels \cup {"publish"} \/ RunReturns(w)
    BY DEF PopsNothing, SpinStops, SpinSeesWork, SpinEnds, GoesToSleep, NotifyMarks, NotifyCounts, WakesUp, CheckTail,
       CheckHead, CheckLocal, CheckFindsNothing, CheckStop, BusyLabels
  <1>4. op[w] = NoOp /\ pc[w] # "publish"
    BY <1>3 DEF PoolInv, PoolHands, RunReturns
  <1>5. Moves(w, WorkerLabels \ {"publish"})
    <2>1. CASE CheckLocal(w) /\ localQueue[scan[w]] = << >>
      BY <1>1, <1>4, <2>1 DEF CheckLocal, FoundBeforeSleep, Scan, Moves
    <2>2. CASE \E label \in WorkerLabels \ {"publish"} :
                 pc' = [pc EXCEPT ![w] = label] /\ (scan' = scan \/ \E i \in 0 .. ThreadCount : scan' = [scan EXCEPT ![w] = i])
      BY <1>1, <2>2 DEF Moves
    <2>3. CASE PopsNothing(w) \/ SpinStops(w) \/ SpinSeesWork(w) \/ SpinEnds(w) \/ RunReturns(w)
      BY <2>2, <2>3 DEF PopsNothing, SpinStops, SpinSeesWork, SpinEnds, RunReturns, Goto, WorkerLabels
    <2>4. CASE NotifyMarks(w) \/ NotifyCounts(w) \/ WakesUp(w) \/ CheckStop(w)
      BY <2>2, <2>4 DEF NotifyMarks, NotifyCounts, WakesUp, CheckStop, Goto, WorkerLabels
    <2>5. CASE CheckTail(w) \/ CheckHead(w) \/ (CheckLocal(w) /\ localQueue[scan[w]] # << >>) \/ CheckFindsNothing(w)
      <3>1. \E label \in {"dequeue", "checkHead", "checkLocal", "checkStop"} :
                 pc' = [pc EXCEPT ![w] = label] /\ (scan' = scan \/ \E i \in 0 .. ThreadCount : scan' = [scan EXCEPT ![w] = i])
        BY <1>1, <2>5 DEF CheckTail, CheckHead, CheckLocal, CheckFindsNothing, FoundBeforeSleep, Goto, Scan, Leave, StartOthers
      <3>2. QED BY <2>2, <3>1 DEF WorkerLabels
    <2>6. QED BY <2>1, <2>3, <2>4, <2>5 DEF GoesToSleep
  <1>6. QED BY <1>2, <1>4, <1>5, WorkerIsQuiet

(* try_clear_intent_to_sleep.                                              *)
LEMMA ClearIsQuiet ==
  ASSUME PoolInv, NEW w \in Workers, TryClearIntentToSleep(w)
  PROVE  PoolInv' /\ FifoStep
  <1> USE PoolParties
  <1>1. /\ DOMAIN pc = Threads /\ scan \in [Threads -> 0 .. ThreadCount] /\ from \in [Workers -> {"pop", "spin", "asleep"}]
        /\ FirstOther(w) \in 0 .. ThreadCount
        /\ m_isSleeping \in [Workers -> BOOLEAN] /\ m_wakeUpEvent \in [Workers -> BOOLEAN]
        /\ m_sleepingThreadCount \in Nat /\ m_stopRequested \in BOOLEAN
    BY OtherIndex DEF PoolInv, PoolControl, PoolLabels
  <1>2. pc[w] \in {"clear", "clearOwn", "clearScan", "clearSignal"}
    BY DEF TryClearIntentToSleep, ClearFindsNobody, ClearClaims, ClearOwn, ClearOwnTooLate, ClearOther, ClearSignals
  <1>3. CASE ClearOther(w)
    <2>1. QuietStep
      BY <1>1, <1>3 DEF QuietStep, TypedStep, ClearOther, Unmark
    <2>2. scan[w] \in 0 .. ThreadCount /\ (NextOther(w) < ThreadCount => NextOther(w) \in 0 .. ThreadCount)
      BY <1>1 DEF NextOther
    <2>3. \/ pc' = pc /\ scan' = [scan EXCEPT ![w] = NextOther(w)] /\ NextOther(w) < ThreadCount
          \/ pc' = [pc EXCEPT ![w] = "run"] /\ scan' = [scan EXCEPT ![w] = 0]
          \/ pc' = [pc EXCEPT ![w] = "clearSignal"] /\ scan' = scan
      BY <1>3 DEF ClearOther, Goto, Scan, Leave
    <2>4. Moves(w, {"run", "clearSignal", "clearScan"})
      BY <1>1, <1>3, <2>2, <2>3 DEF Moves, ClearOther
    <2>5. QED BY <1>2, <2>1, <2>4, WorkerIsQuiet DEF Moves, WorkerLabels, BusyLabels
  <1>4. CASE ~ClearOther(w)
    <2>1. QuietStep
      <3>1. CASE ClearFindsNobody(w) \/ ClearOwnTooLate(w)
        BY <1>1, <3>1 DEF QuietStep, TypedStep, ClearFindsNobody, ClearOwnTooLate, sleepers
      <3>2. CASE ClearClaims(w)
        BY <1>1, <3>2 DEF QuietStep, TypedStep, ClearClaims, Claim
      <3>3. CASE ClearOwn(w)
        BY <1>1, <3>3 DEF QuietStep, TypedStep, ClearOwn, Unmark
      <3>4. CASE ClearSignals(w)
        BY <1>1, <3>4 DEF QuietStep, TypedStep, ClearSignals
      <3>5. QED BY <1>4, <3>1, <3>2, <3>3, <3>4 DEF TryClearIntentToSleep
    <2>2. \E label \in {"run", "clearOwn", "clearSignal", "clearScan"} :
            pc' = [pc EXCEPT ![w] = label] /\ (scan' = scan \/ \E i \in 0 .. ThreadCount : scan' = [scan EXCEPT ![w] = i])
      BY <1>1, <1>4 DEF TryClearIntentToSleep, ClearFindsNobody, ClearClaims, ClearOwn, ClearOwnTooLate, ClearSignals,
         Goto, Scan, Leave, StartOthers
    <2>3. Moves(w, {"run", "clearOwn", "clearSignal", "clearScan"})
      BY <1>1, <2>2 DEF Moves
    <2>4. QED BY <1>2, <2>1, <2>3, WorkerIsQuiet DEF Moves, WorkerLabels, BusyLabels
  <1>5. QED BY <1>3, <1>4

(* wake_one_thread, on a worker or on another thread.                      *)
LEMMA WakeIsQuiet ==
  ASSUME PoolInv, NEW t \in Workers \cup Submitters, WakeOneThread(t)
  PROVE  PoolInv' /\ FifoStep
  <1> USE PoolParties
  <1>1. /\ DOMAIN pc = Threads /\ scan \in [Threads -> 0 .. ThreadCount] /\ from \in [Workers -> {"pop", "spin", "asleep"}]
        /\ m_isSleeping \in [Workers -> BOOLEAN] /\ m_wakeUpEvent \in [Workers -> BOOLEAN]
        /\ m_sleepingThreadCount \in Nat /\ m_stopRequested \in BOOLEAN
    BY DEF PoolInv, PoolControl, PoolLabels
  <1>2. pc[t] \in {"wake", "wakeScan", "wakeSignal"}
    BY DEF WakeOneThread, WakeFindsNobody, WakeClaims, WakeUnmarks, WakeSkips, WakeSignals
  <1>3. QuietStep
    <2>1. CASE WakeFindsNobody(t) \/ WakeSkips(t)
      BY <1>1, <2>1 DEF QuietStep, TypedStep, WakeFindsNobody, WakeSkips, sleepers
    <2>2. CASE WakeClaims(t)
      BY <1>1, <2>2 DEF QuietStep, TypedStep, WakeClaims, Claim
    <2>3. CASE WakeUnmarks(t)
      BY <1>1, <2>3 DEF QuietStep, TypedStep, WakeUnmarks, Unmark
    <2>4. CASE WakeSignals(t)
      BY <1>1, <2>4 DEF QuietStep, TypedStep, WakeSignals
    <2>5. QED BY <2>1, <2>2, <2>3, <2>4 DEF WakeOneThread
  <1>4. Moves(t, {IF t \in Workers THEN "run" ELSE "idle", "wakeScan", "wakeSignal"})
    <2>1. CASE WakeSkips(t)
      <3>1. ((scan[t] + 1) % ThreadCount) \in 0 .. ThreadCount
        BY <1>1
      <3>2. QED BY <1>1, <2>1, <3>1 DEF WakeSkips, Scan, Moves
    <2>2. CASE ~WakeSkips(t)
      <3>1. \E label \in {IF t \in Workers THEN "run" ELSE "idle", "wakeScan", "wakeSignal"} :
              pc' = [pc EXCEPT ![t] = label] /\ (scan' = scan \/ \E i \in 0 .. ThreadCount : scan' = [scan EXCEPT ![t] = i])
        BY <1>1, <2>2 DEF WakeOneThread, WakeFindsNobody, WakeClaims, WakeUnmarks, WakeSignals, ReturnFromSchedule, Goto, Scan, Leave
      <3>2. QED BY <1>1, <3>1 DEF Moves
    <2>3. QED BY <2>1, <2>2
  <1>5. CASE t \in Workers
    BY <1>2, <1>3, <1>4, <1>5, WorkerIsQuiet DEF Moves, WorkerLabels, BusyLabels
  <1>6. CASE t \in Submitters
    BY <1>3, <1>4, <1>6, OutsiderIsQuiet DEF Moves
  <1>7. QED BY <1>5, <1>6

(* ~static_thread_pool.                                                    *)
LEMMA DestructionIsQuiet ==
  ASSUME PoolInv, Shutdown \/ Destroys
  PROVE  PoolInv' /\ FifoStep
  <1> USE PoolParties
  <1>1. /\ DOMAIN pc = Threads /\ scan \in [Threads -> 0 .. ThreadCount] /\ from \in [Workers -> {"pop", "spin", "asleep"}]
        /\ m_isSleeping \in [Workers -> BOOLEAN] /\ m_wakeUpEvent \in [Workers -> BOOLEAN]
        /\ m_sleepingThreadCount \in Nat /\ m_stopRequested \in BOOLEAN
        /\ pc[Main] = "stopSignal" => scan[Main] < ThreadCount
    BY DEF PoolInv, PoolControl, PoolLabels
  <1>2. QuietStep
    BY <1>1 DEF QuietStep, TypedStep, Shutdown, Destroys, StopUnmarks, StopSkips, StopSignals, StopScanEnds, Join, Unmark, sleepers
  <1>3. \/ pc[Main] = "stopScan" /\ pc' = pc /\ scan[Main] < ThreadCount /\ scan' = [scan EXCEPT ![Main] = scan[Main] + 1]
        \/ pc' = [pc EXCEPT ![Main] = "stopSignal"] /\ scan' = scan /\ scan[Main] < ThreadCount
        \/ \E label \in {"stopScan", "joining", "joined"} :
             /\ pc' = [pc EXCEPT ![Main] = label]
             /\ scan' = scan \/ \E i \in 0 .. ThreadCount : scan' = [scan EXCEPT ![Main] = i]
    <2>1. CASE StopSignals
      <3>1. pc' = [pc EXCEPT ![Main] = "stopScan"] /\ scan' = [scan EXCEPT ![Main] = scan[Main] + 1]
        BY <2>1 DEF StopSignals, Goto, Scan
      <3>2. scan[Main] + 1 \in 0 .. ThreadCount
        BY <1>1, <2>1 DEF StopSignals
      <3>3. QED BY <3>1, <3>2
    <2>2. CASE ~StopSignals
      BY <1>1, <2>2 DEF Shutdown, Destroys, StopUnmarks, StopSkips, StopScanEnds, Join, Goto, Scan, Leave
    <2>3. QED BY <2>1, <2>2
  <1>4. Moves(Main, {"idle", "stopScan", "stopSignal", "joining", "joined"})
    BY <1>1, <1>3 DEF Moves
  <1>5. pc'[Main] = "stopSignal" => scan'[Main] < ThreadCount
    BY <1>1, <1>3
  <1>6. QED BY <1>2, <1>4, <1>5, OutsiderIsQuiet

-----------------------------------------------------------------------------
(* Steps that move operations.                                             *)

LEMMA ConsHeadTail ==
  ASSUME NEW S, NEW s \in Seq(S), s # << >>
  PROVE  Head(s) \in S /\ Tail(s) \in Seq(S) /\ s = Cons(Head(s), Tail(s))
  BY DEF Cons

(* A worker has found an operation.                                        *)
LEMMA FoundMoves ==
  ASSUME PoolInv, NEW w \in Workers, NEW o \in Ops, Found(w, o), pc[w] \notin BusyLabels, UNCHANGED <<sleepers, m_stopRequested>>
  PROVE  /\ PoolControl' /\ PoolHands'
         /\ op[w] = NoOp /\ op' = [op EXCEPT ![w] = o]
         /\ pc'[w] \in {"run", "clear"} /\ \A u \in Workers : u # w => pc'[u] = pc[u]
  <1> USE PoolParties
  <1>1. op[w] = NoOp /\ op \in [Workers -> Ops \cup {NoOp}]
    BY DEF PoolInv, PoolHands
  <1>2. /\ DOMAIN pc = Threads /\ scan \in [Threads -> 0 .. ThreadCount] /\ from \in [Workers -> {"pop", "spin", "asleep"}]
        /\ m_isSleeping \in [Workers -> BOOLEAN] /\ m_wakeUpEvent \in [Workers -> BOOLEAN]
        /\ m_sleepingThreadCount \in Nat /\ m_stopRequested \in BOOLEAN
    BY DEF PoolInv, PoolControl, PoolLabels
  <1>3. TypedStep
    BY <1>2 DEF TypedStep, sleepers, Found
  <1>4. Moves(w, {"run", "clear"})
    BY <1>2 DEF Moves, Found, Leave, Goto, Scan
  <1>5. Moves(w, WorkerLabels)
    BY <1>4 DEF Moves, WorkerLabels
  <1>6. PoolControl'
    BY <1>3, <1>5, WorkerControl DEF PoolInv
  <1>7. op' = [op EXCEPT ![w] = o] /\ pc'[w] \in {"run", "clear"} /\ \A u \in Workers : u # w => pc'[u] = pc[u]
    BY <1>4 DEF Moves, Found
  <1>8. PoolHands'
    BY <1>1, <1>7 DEF PoolInv, PoolHands, BusyLabels
  <1>9. QED BY <1>1, <1>6, <1>7, <1>8

LEMMA DequeueIsSafe ==
  ASSUME PoolInv, NEW w \in Workers, DequeueFromHead(w) \/ DequeuePublishes(w)
  PROVE  PoolInv' /\ FifoStep
  <1> USE PoolParties
  <1>1. PoolControl /\ PoolBatch /\ PoolHands /\ PoolOps
    BY DEF PoolInv
  <1>2. /\ GlobalQueue # << >> /\ GlobalQueue' = Tail(GlobalQueue)
        /\ m_globalQueueHead' \in Seq(Ops) /\ detached' = << >> /\ m_globalQueueMutex' = Main
        /\ Found(w, Head(GlobalQueue))
        /\ UNCHANGED <<localQueue, m_globalQueueTail, sleepers, m_stopRequested, application>>
    <2>1. CASE DequeueFromHead(w)
      <3>1. detached = << >>
        BY <1>1, <2>1 DEF DequeueFromHead, PoolBatch
      <3>2. /\ GlobalQueue # << >> /\ GlobalQueue' = Tail(GlobalQueue)
            /\ Head(GlobalQueue) = Head(m_globalQueueHead) /\ m_globalQueueHead' \in Seq(Ops)
        BY <1>1, <2>1, <3>1, GlobalQueueTakesHead DEF DequeueFromHead
      <3>3. QED BY <2>1, <3>1, <3>2 DEF DequeueFromHead
    <2>2. CASE DequeuePublishes(w)
      <3>1. detached # << >>
        BY <1>1, <2>2 DEF DequeuePublishes, PoolBatch
      <3>2. /\ GlobalQueue # << >> /\ GlobalQueue' = Tail(GlobalQueue)
            /\ Head(GlobalQueue) = Last(detached) /\ m_globalQueueHead' \in Seq(Ops)
        BY <1>1, <2>2, <3>1, GlobalQueueTakesBatch DEF DequeuePublishes
      <3>3. QED BY <2>2, <3>2 DEF DequeuePublishes
    <2>3. QED BY <2>1, <2>2
  <1>3. /\ GlobalQueue \in Seq(Ops) /\ Head(GlobalQueue) \in Ops
        /\ GlobalQueue = Cons(Head(GlobalQueue), GlobalQueue')
    BY <1>1, <1>2, ConsHeadTail DEF PoolOps
  <1>4. pc[w] \notin BusyLabels
    BY DEF DequeueFromHead, DequeuePublishes, BusyLabels
  <1>5. PICK o \in Ops : o = Head(GlobalQueue)
    BY <1>3
  <1>6. /\ PoolControl' /\ PoolHands' /\ op[w] = NoOp /\ op' = [op EXCEPT ![w] = o]
        /\ pc'[w] \in {"run", "clear"} /\ \A u \in Workers : u # w => pc'[u] = pc[u]
    BY <1>2, <1>4, <1>5, FoundMoves
  <1>7. PoolOps'
    BY <1>1, <1>2, <1>5, <1>6, OpsTaken DEF application
  <1>8. PoolBatch'
    <2>1. \A u \in Workers : u # w => pc[u] # "publish"
      BY <1>1 DEF PoolBatch, DequeueFromHead, DequeuePublishes
    <2>2. \A u \in Workers : pc'[u] # "publish"
      BY <1>6, <2>1
    <2>3. QED BY <1>1, <1>2, <2>2, EmptyList DEF PoolBatch
  <1>9. QED BY <1>3, <1>6, <1>7, <1>8 DEF PoolInv, FifoStep

LEMMA TakeTailIsSafe ==
  ASSUME PoolInv, NEW w \in Workers, DequeueTakesTail(w)
  PROVE  PoolInv' /\ FifoStep
  <1> USE PoolParties
  <1>1. PoolControl /\ PoolBatch /\ PoolHands /\ PoolOps
    BY DEF PoolInv
  <1>2. /\ pc[w] = "dequeue" /\ m_globalQueueMutex = Main /\ m_globalQueueHead = << >> /\ m_globalQueueTail # << >>
        /\ detached' = m_globalQueueTail /\ m_globalQueueTail' = << >> /\ m_globalQueueMutex' = w
        /\ pc' = [pc EXCEPT ![w] = "publish"]
        /\ UNCHANGED <<localQueue, m_globalQueueHead, m_isSleeping, m_wakeUpEvent, m_sleepingThreadCount, m_stopRequested,
                       scan, from, op, fresh, outstanding>>
    BY DEF DequeueTakesTail, Goto, sleepers, application
  <1>3. detached = << >>
    BY <1>1, <1>2 DEF PoolBatch
  <1>4. GlobalQueue' = GlobalQueue
    BY <1>1, <1>2, <1>3, GlobalQueueKept
  <1>5. Moves(w, {"publish"})
    BY <1>1, <1>2 DEF Moves, PoolControl, PoolLabels
  <1>6. PoolControl'
    <2>1. Moves(w, WorkerLabels) /\ TypedStep
      BY <1>1, <1>2, <1>5 DEF Moves, WorkerLabels, TypedStep, PoolControl
    <2>2. QED BY <1>1, <2>1, WorkerControl
  <1>7. pc'[w] = "publish" /\ \A u \in Workers : u # w => pc'[u] = pc[u]
    BY <1>5 DEF Moves
  <1>8. PoolBatch'
    BY <1>1, <1>2, <1>3, <1>7, EmptyList DEF PoolBatch
  <1>9. PoolHands'
    BY <1>1, <1>2, <1>7 DEF PoolHands, BusyLabels
  <1>10. PoolOps'
    BY <1>1, <1>2, <1>4, OpsKept
  <1>11. QED BY <1>4, <1>6, <1>8, <1>9, <1>10 DEF PoolInv, FifoStep

(* A worker takes an operation from a local queue, its own or another one. *)
LEMMA LocalTakeIsSafe ==
  ASSUME PoolInv, NEW w \in Workers, Steals(w) \/ PopsLocal(w)
  PROVE  PoolInv' /\ FifoStep
  <1> USE PoolParties
  <1>1. PoolControl /\ PoolBatch /\ PoolHands /\ PoolOps
    BY DEF PoolInv
  <1>2. localQueue \in [Workers -> Seq(Ops)] /\ \A u \in Workers : IsInjective(localQueue[u])
    BY <1>1 DEF PoolOps
  <1>3. UNCHANGED <<m_globalQueueTail, m_globalQueueHead, m_globalQueueMutex, detached, sleepers, m_stopRequested,
                    fresh, outstanding>>
    BY DEF Steals, PopsLocal, application
  <1>4. GlobalQueue' = GlobalQueue
    BY <1>3 DEF GlobalQueue
  <1>5. \E v \in Workers, q \in Seq(Ops), o \in Ops :
          /\ o \in ToSet(localQueue[v]) /\ localQueue' = [localQueue EXCEPT ![v] = q]
          /\ IsInjective(q) /\ ToSet(q) = ToSet(localQueue[v]) \ {o}
          /\ PoolControl' /\ PoolHands' /\ op[w] = NoOp /\ op' = [op EXCEPT ![w] = o]
          /\ pc[w] # "publish" /\ pc'[w] # "publish" /\ \A u \in Workers : u # w => pc'[u] = pc[u]
    <2>1. CASE Steals(w)
      <3>1. PICK v \in Workers : v = scan[w]
        BY <1>1, <2>1 DEF Steals, PoolControl, Workers
      <3>2. /\ localQueue[v] # << >> /\ localQueue' = [localQueue EXCEPT ![v] = Tail(localQueue[v])]
            /\ Found(w, Head(localQueue[v])) /\ pc[w] \notin BusyLabels /\ pc[w] # "publish"
        BY <2>1, <3>1 DEF Steals, BusyLabels, StealLabels
      <3>3. /\ Head(localQueue[v]) \in Ops /\ Tail(localQueue[v]) \in Seq(Ops)
            /\ IsInjective(Tail(localQueue[v])) /\ ToSet(Tail(localQueue[v])) = ToSet(localQueue[v]) \ {Head(localQueue[v])}
            /\ Head(localQueue[v]) \in ToSet(localQueue[v])
        BY <1>2, <3>2, TailDistinct
      <3>4. PICK o \in Ops : o = Head(localQueue[v])
        BY <3>3
      <3>5. /\ PoolControl' /\ PoolHands' /\ op[w] = NoOp /\ op' = [op EXCEPT ![w] = o]
            /\ pc'[w] \in {"run", "clear"} /\ \A u \in Workers : u # w => pc'[u] = pc[u]
        BY <1>3, <3>2, <3>4, FoundMoves
      <3>6. QED BY <3>2, <3>3, <3>4, <3>5
    <2>2. CASE PopsLocal(w)
      <3>1. /\ localQueue[w] # << >> /\ localQueue' = [localQueue EXCEPT ![w] = Front(localQueue[w])]
            /\ op' = [op EXCEPT ![w] = Last(localQueue[w])] /\ pc[w] = "pop" /\ pc' = [pc EXCEPT ![w] = "run"]
            /\ UNCHANGED <<scan, from>>
        BY <2>2 DEF PopsLocal, Goto
      <3>2. /\ Last(localQueue[w]) \in Ops /\ Front(localQueue[w]) \in Seq(Ops)
            /\ IsInjective(Front(localQueue[w])) /\ ToSet(Front(localQueue[w])) = ToSet(localQueue[w]) \ {Last(localQueue[w])}
            /\ Last(localQueue[w]) \in ToSet(localQueue[w])
        BY <1>2, <3>1, FrontDistinct
      <3>3. Moves(w, {"run"})
        BY <1>1, <3>1 DEF Moves, PoolControl, PoolLabels
      <3>4. PoolControl'
        <4>1. Moves(w, WorkerLabels) /\ TypedStep
          BY <1>1, <1>3, <3>1, <3>3 DEF Moves, WorkerLabels, TypedStep, PoolControl, sleepers
        <4>2. QED BY <1>1, <4>1, WorkerControl
      <3>5. pc'[w] = "run" /\ \A u \in Workers : u # w => pc'[u] = pc[u]
        BY <3>3 DEF Moves
      <3>6. op[w] = NoOp /\ op \in [Workers -> Ops \cup {NoOp}]
        BY <1>1, <3>1 DEF PoolHands, BusyLabels
      <3>7. PoolHands'
        BY <1>1, <3>1, <3>2, <3>5, <3>6 DEF PoolHands, BusyLabels
      <3>8. QED BY <3>1, <3>2, <3>4, <3>5, <3>6, <3>7
    <2>3. QED BY <2>1, <2>2
  <1>6. PICK v \in Workers, q \in Seq(Ops), o \in Ops :
          /\ o \in ToSet(localQueue[v]) /\ localQueue' = [localQueue EXCEPT ![v] = q]
          /\ IsInjective(q) /\ ToSet(q) = ToSet(localQueue[v]) \ {o}
          /\ PoolControl' /\ PoolHands' /\ op[w] = NoOp /\ op' = [op EXCEPT ![w] = o]
          /\ pc[w] # "publish" /\ pc'[w] # "publish" /\ \A u \in Workers : u # w => pc'[u] = pc[u]
    BY <1>5
  <1>7. PoolOps'
    BY <1>1, <1>3, <1>4, <1>6, OpsTakenLocally
  <1>8. PoolBatch'
    BY <1>1, <1>3, <1>6 DEF PoolBatch
  <1>9. QED BY <1>4, <1>6, <1>7, <1>8 DEF PoolInv, FifoStep

(* schedule_impl puts the operation at the end of the local queue or of    *)
(* the global one.                                                         *)
LEMMA EnqueueGrows ==
  ASSUME PoolBatch, NEW w \in Workers, NEW o \in Ops, Enqueue(w, o), UNCHANGED <<m_globalQueueHead, detached>>
  PROVE  /\ m_globalQueueTail' \in Seq(Ops) /\ FifoStep
         /\ \/ localQueue' = localQueue /\ GlobalQueue' = Append(GlobalQueue, o)
            \/ GlobalQueue' = GlobalQueue /\ localQueue' = [localQueue EXCEPT ![w] = Append(@, o)]
  <1>1. CASE RemoteEnqueue(o)
    <2>1. GlobalQueue' = Append(GlobalQueue, o) /\ m_globalQueueTail' \in Seq(Ops)
      BY <1>1, GlobalQueueGrows DEF RemoteEnqueue
    <2>2. QED BY <1>1, <2>1 DEF RemoteEnqueue, FifoStep
  <1>2. CASE UNCHANGED m_globalQueueTail /\ localQueue' = [localQueue EXCEPT ![w] = Append(@, o)]
    <2>1. GlobalQueue' = GlobalQueue
      BY <1>2 DEF GlobalQueue
    <2>2. QED BY <1>2, <2>1 DEF PoolBatch, FifoStep
  <1>3. QED BY <1>1, <1>2 DEF Enqueue

LEMMA SubmitIsSafe ==
  ASSUME PoolInv, NEW s \in Submitters, NEW o \in Ops, Submit(s, o)
  PROVE  PoolInv' /\ FifoStep
  <1> USE PoolParties
  <1>1. PoolControl /\ PoolBatch /\ PoolHands /\ PoolOps
    BY DEF PoolInv
  <1>2. /\ o \in fresh /\ fresh' = fresh \ {o} /\ outstanding' = outstanding \cup {o}
        /\ m_globalQueueTail' = Cons(o, m_globalQueueTail) /\ pc' = [pc EXCEPT ![s] = "wake"]
        /\ UNCHANGED <<localQueue, m_globalQueueHead, m_globalQueueMutex, detached, m_isSleeping, m_wakeUpEvent,
                       m_sleepingThreadCount, m_stopRequested, scan, from, op>>
    BY DEF Submit, RemoteEnqueue, Goto, sleepers
  <1>3. GlobalQueue' = Append(GlobalQueue, o) /\ m_globalQueueTail' \in Seq(Ops)
    BY <1>1, <1>2, GlobalQueueGrows
  <1>4. PoolOps'
    BY <1>1, <1>2, <1>3, OpsScheduled
  <1>5. /\ \A w \in Workers : pc'[w] = pc[w]
        /\ \A u \in Submitters : pc'[u] \in {"idle", "wake", "wakeScan", "wakeSignal"}
        /\ pc'[Main] = pc[Main] /\ DOMAIN pc' = Threads
    BY <1>1, <1>2 DEF PoolControl, PoolLabels
  <1>6. PoolControl'
    BY <1>1, <1>2, <1>5 DEF PoolControl, PoolLabels
  <1>7. PoolBatch' /\ PoolHands'
    BY <1>1, <1>2, <1>3, <1>5 DEF PoolBatch, PoolHands
  <1>8. QED BY <1>3, <1>4, <1>6, <1>7 DEF PoolInv, FifoStep

(* A coroutine calls schedule, for another one or for itself.              *)
LEMMA RunIsSafe ==
  ASSUME PoolInv, NEW w \in Workers, NEW o \in Ops, RunStarts(w, o) \/ RunAwaits(w, o)
  PROVE  PoolInv' /\ FifoStep
  <1> USE PoolParties
  <1>1. PoolControl /\ PoolBatch /\ PoolHands /\ PoolOps
    BY DEF PoolInv
  <1>2. /\ pc[w] = "run" /\ op[w] # NoOp /\ o \in fresh /\ fresh' = fresh \ {o} /\ Enqueue(w, o)
        /\ pc' = [pc EXCEPT ![w] = "wake"]
        /\ UNCHANGED <<m_globalQueueHead, m_globalQueueMutex, detached, m_isSleeping, m_wakeUpEvent,
                       m_sleepingThreadCount, m_stopRequested, scan, from>>
    BY DEF RunStarts, RunAwaits, Goto, sleepers
  <1>3. /\ m_globalQueueTail' \in Seq(Ops) /\ FifoStep
        /\ \/ localQueue' = localQueue /\ GlobalQueue' = Append(GlobalQueue, o)
           \/ GlobalQueue' = GlobalQueue /\ localQueue' = [localQueue EXCEPT ![w] = Append(@, o)]
    BY <1>1, <1>2, EnqueueGrows
  <1>4. Moves(w, {"wake"})
    BY <1>1, <1>2 DEF Moves, PoolControl, PoolLabels
  <1>5. PoolControl'
    <2>1. Moves(w, WorkerLabels) /\ TypedStep
      BY <1>1, <1>2, <1>4 DEF Moves, WorkerLabels, TypedStep, PoolControl
    <2>2. QED BY <1>1, <2>1, WorkerControl
  <1>6. pc'[w] = "wake" /\ \A u \in Workers : u # w => pc'[u] = pc[u]
    BY <1>4 DEF Moves
  <1>7. PoolBatch'
    BY <1>1, <1>2, <1>3, <1>6 DEF PoolBatch
  <1>8. PoolOps' /\ (op' = op \/ op' = [op EXCEPT ![w] = NoOp])
    <2>1. CASE RunStarts(w, o)
      BY <1>1, <1>2, <1>3, <2>1, OpsScheduled DEF RunStarts
    <2>2. CASE RunAwaits(w, o)
      BY <1>1, <1>2, <1>3, <2>2, OpsAwaited DEF RunAwaits
    <2>3. QED BY <2>1, <2>2
  <1>9. PoolHands'
    BY <1>1, <1>6, <1>8 DEF PoolHands, BusyLabels
  <1>10. QED BY <1>3, <1>5, <1>7, <1>8, <1>9 DEF PoolInv

LEMMA CompletionIsSafe ==
  ASSUME PoolInv, NEW w \in Workers, RunCompletes(w)
  PROVE  PoolInv' /\ FifoStep
  <1>1. PoolControl /\ PoolBatch /\ PoolHands /\ PoolOps
    BY DEF PoolInv
  <1>2. /\ op[w] # NoOp /\ op' = [op EXCEPT ![w] = NoOp] /\ outstanding' = outstanding \ {op[w]}
        /\ UNCHANGED <<localQueue, m_globalQueueTail, m_globalQueueHead, m_globalQueueMutex, detached, m_isSleeping,
                       m_wakeUpEvent, m_sleepingThreadCount, m_stopRequested, pc, scan, from, fresh>>
    BY DEF RunCompletes, queues, sleepers, control
  <1>3. GlobalQueue' = GlobalQueue
    BY <1>2 DEF GlobalQueue
  <1>4. PoolOps'
    BY <1>1, <1>2, <1>3, OpsCompleted
  <1>5. PoolControl' /\ PoolBatch'
    BY <1>1, <1>2 DEF PoolControl, PoolLabels, PoolBatch
  <1>6. PoolHands'
    BY <1>1, <1>2 DEF PoolHands
  <1>7. QED BY <1>3, <1>4, <1>5, <1>6 DEF PoolInv, FifoStep

-----------------------------------------------------------------------------
LEMMA PoolInitially ==
  ASSUME Init
  PROVE  PoolInv
  <1> USE PoolParties DEF Init
  <1>1. PoolControl
    <2>1. /\ \A w \in Workers : pc[w] = "pop"
          /\ \A s \in Submitters : pc[s] = "idle"
          /\ pc[Main] = "idle" /\ DOMAIN pc = Threads
      OBVIOUS
    <2>2. PoolLabels
      BY <2>1 DEF PoolLabels, WorkerLabels
    <2>3. 0 \in 0 .. ThreadCount
      OBVIOUS
    <2>4. scan \in [Threads -> 0 .. ThreadCount]
      BY <2>3
    <2>5. /\ m_isSleeping \in [Workers -> BOOLEAN] /\ m_wakeUpEvent \in [Workers -> BOOLEAN]
          /\ m_stopRequested \in BOOLEAN /\ from \in [Workers -> {"pop", "spin", "asleep"}]
      OBVIOUS
    <2>6. m_sleepingThreadCount \in Nat
      OBVIOUS
    <2>7. QED BY <2>1, <2>2, <2>4, <2>5, <2>6 DEF PoolControl
  <1>2. PoolBatch /\ PoolHands
    BY EmptyList DEF PoolBatch, PoolHands, Threads
  <1>3. PoolOps
    <2>1. GlobalQueue = << >>
      <3>1. Reverse(<< >>) = << >>
        BY DEF Reverse
      <3>2. QED BY <3>1 DEF GlobalQueue
    <2>2. /\ LocallyQueued = {} /\ ToSet(GlobalQueue) = {} /\ InHand = {}
      BY <2>1, EmptyList DEF LocallyQueued, InHand
    <2>3. QED BY <2>1, <2>2, EmptyList DEF PoolOps, Queued
  <1>4. QED BY <1>1, <1>2, <1>3 DEF PoolInv

LEMMA PoolStep ==
  ASSUME PoolInv, [Next]_vars
  PROVE  PoolInv' /\ [FifoStep]_vars
  <1>1. ASSUME NEW w \in Workers, WorkerStep(w) PROVE PoolInv' /\ FifoStep
    <2>1. CASE TryGetRemote(w)
      BY <2>1, SearchIsQuiet, DequeueIsSafe, TakeTailIsSafe, LocalTakeIsSafe DEF TryGetRemote
    <2>2. CASE Processes(w) \/ GoesToSleep(w)
      BY <2>2, IdlingIsQuiet, LocalTakeIsSafe DEF Processes
    <2>3. CASE TryClearIntentToSleep(w) \/ WakeOneThread(w)
      BY <2>3, ClearIsQuiet, WakeIsQuiet
    <2>4. CASE Runs(w)
      BY <2>4, RunIsSafe, CompletionIsSafe, IdlingIsQuiet DEF Runs
    <2>5. QED BY <1>1, <2>1, <2>2, <2>3, <2>4 DEF WorkerStep
  <1>2. ASSUME NEW s \in Submitters, WakeOneThread(s) \/ \E o \in Ops : Submit(s, o) PROVE PoolInv' /\ FifoStep
    BY <1>2, WakeIsQuiet, SubmitIsSafe
  <1>3. CASE Shutdown \/ Destroys
    BY <1>3, DestructionIsQuiet
  <1>4. CASE UNCHANGED vars
    <2>1. UNCHANGED <<localQueue, m_globalQueueTail, m_globalQueueHead, m_globalQueueMutex, detached, m_isSleeping,
                      m_wakeUpEvent, m_sleepingThreadCount, m_stopRequested, pc, scan, from, op, fresh, outstanding>>
      BY <1>4 DEF vars, queues, sleepers, control, application
    <2>2. GlobalQueue' = GlobalQueue
      BY <2>1 DEF GlobalQueue
    <2>3. PoolOps'
      BY <2>1, <2>2, OpsKept DEF PoolInv
    <2>4. PoolControl' /\ PoolBatch' /\ PoolHands'
      BY <2>1 DEF PoolInv, PoolControl, PoolLabels, PoolBatch, PoolHands
    <2>5. QED BY <1>4, <2>3, <2>4 DEF PoolInv
  <1>5. QED BY <1>1, <1>2, <1>3, <1>4 DEF Next

LEMMA PoolAccounts ==
  ASSUME PoolInv
  PROVE  OpsAccounted
  BY DEF PoolInv, PoolControl, PoolLabels, PoolBatch, PoolOps, OpsAccounted, TypeOK

(* With any number of workers and submitters, whatever they interleave:    *)
(* schedule_impl, the dequeue from the two-list global queue with its      *)
(* reversal, stealing, popping and re-awaiting lose no operation and give  *)
(* none to two workers, and the state keeps its types.                     *)
THEOREM OperationsAreAccounted == Spec => []OpsAccounted
  <1>1. Init => PoolInv
    BY PoolInitially
  <1>2. PoolInv /\ [Next]_vars => PoolInv'
    BY PoolStep
  <1>3. PoolInv => OpsAccounted
    BY PoolAccounts
  <1>4. QED BY <1>1, <1>2, <1>3, PTL DEF Spec

(* remote_enqueue's stack, the batch try_global_dequeue reverses and the   *)
(* list it leaves in m_globalQueueHead are together one FIFO queue: every  *)
(* step adds one operation at its end, takes its first or leaves it.       *)
THEOREM GlobalQueueOrder == Spec => GlobalQueueIsFifo
  <1>1. Init => PoolInv
    BY PoolInitially
  <1>2. PoolInv /\ [Next]_vars => PoolInv'
    BY PoolStep
  <1>3. PoolInv /\ [Next]_vars =>
          [\/ GlobalQueue' = GlobalQueue
           \/ \E o \in Ops : \/ GlobalQueue' = Append(GlobalQueue, o)
                             \/ GlobalQueue = Cons(o, GlobalQueue')]_vars
    BY PoolStep DEF FifoStep
  <1>4. QED BY <1>1, <1>2, <1>3, PTL DEF Spec, GlobalQueueIsFifo
=============================================================================
