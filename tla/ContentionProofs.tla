--------------------------- MODULE ContentionProofs ---------------------------
(***************************************************************************)
(* Proofs about the components with the most contended state: the work     *)
(* queue of a thread of static_thread_pool, for every number of thieves,   *)
(* every initial size and limit of its buffer and every number of          *)
(* operations; cancellation, for every finite number of registrations and  *)
(* cancellers and every number of entries; and multi_producer_sequencer,   *)
(* for every finite number of producers, every size of its buffer and      *)
(* numbers of every width.                                                 *)
(***************************************************************************)
EXTENDS MCContention, ListProofs

(* What the cursors of a ring buffer rely on: cursors that are closer than *)
(* its size have different slots.                                          *)
LEMMA ModuloRange ==
  ASSUME NEW n \in Nat \ {0}, NEW a \in Nat
  PROVE  a % n \in 0 .. n - 1
  OBVIOUS

LEMMA ModuloDiffers ==
  ASSUME NEW n \in Nat \ {0}, NEW a \in Nat, NEW b \in Nat, a < b, b - a < n
  PROVE  a % n # b % n
  <1> SUFFICES ASSUME a % n = b % n PROVE FALSE
    OBVIOUS
  <1> DEFINE p == a \div n
             q == b \div n
             x == a % n
  <1>1. a = n * p + x /\ b = n * q + x /\ p \in Int /\ q \in Int /\ x \in Int
    OBVIOUS
  <1> HIDE DEF p, q, x
  <1>2. b - a = n * (q - p)
    BY <1>1
  <1>3. q - p >= 1 => n * (q - p) >= n
    BY <1>1
  <1>4. q - p <= 0 => n * (q - p) <= 0
    BY <1>1
  <1>5. QED BY <1>1, <1>2, <1>3, <1>4
-----------------------------------------------------------------------------
(* The work queue                                                          *)

(* Window is Low .. Top, and At(k) the operation at cursor k.              *)
Low == IF StealContests \/ StealPending THEN m_tail - 1 ELSE m_tail
Top == IF PopContests THEN m_head ELSE m_head - 1
At(k) == m_localQueue[Slot(k)]
Entering == ownerPc \in {"store", "publish", "grow", "copy"}

QueueLocks ==
  /\ \A t \in Thieves : thiefPc[t] # "idle" <=> m_remoteMutex = t
  /\ ownerPc \in {"copy", "arbitrate"} <=> m_remoteMutex = Owner

(* The window never overtakes itself nor exceeds the buffer, and a push    *)
(* has a slot outside of it.                                               *)
QueueCursors ==
  /\ Low \in Nat
  /\ Low <= Top + 1
  /\ Top - Low <= m_mask
  /\ ownerPc \in {"store", "publish"} => m_head - Low <= m_mask
  /\ ownerPc = "claim" => m_head > 0
  /\ StealPending => Low <= Top

(* The operations of the window are those that wait, each at one cursor.   *)
QueueContents ==
  /\ \A k \in Low .. Top : At(k) \in queued /\ runs[At(k)] = 0
  /\ \A k, l \in Low .. Top : At(k) = At(l) => k = l
  /\ \A o \in queued : runs[o] = 0 => \E k \in Low .. Top : At(k) = o
  /\ ownerPc = "publish" => At(m_head) = entering

(* The operations are enqueued in their order.                             *)
QueueOps ==
  /\ queued \cup remote = 1 .. Cardinality(queued \cup remote)
  /\ Cardinality(queued \cup remote) \in Nat
  /\ Entering => entering \in Ops /\ entering = Cardinality(queued \cup remote) + 1

QueueInv == TypeOK /\ QueueLocks /\ QueueCursors /\ QueueContents /\ QueueOps /\ HandedOutOnce

LEMMA SlotRange ==
  ASSUME m_mask \in Nat
  PROVE  \A k \in Nat : Slot(k) \in 0 .. m_mask
  BY ModuloRange DEF Slot

LEMMA SlotsDiffer ==
  ASSUME m_mask \in Nat
  PROVE  \A k, l \in Nat : k < l /\ l - k <= m_mask => Slot(k) # Slot(l)
  <1> SUFFICES ASSUME NEW k \in Nat, NEW l \in Nat, k < l, l - k <= m_mask
               PROVE  Slot(k) # Slot(l)
    OBVIOUS
  <1>1. m_mask + 1 \in Nat \ {0} /\ l - k < m_mask + 1
    OBVIOUS
  <1>2. QED BY <1>1, ModuloDiffers DEF Slot

(* Who holds m_remoteMutex is the only thief under way.                    *)
LEMMA OneThief ==
  ASSUME QueueLocks, WorkQueueAssumption
  PROVE  /\ m_remoteMutex \notin Thieves => ~StealContests /\ ~StealPending
         /\ \A t \in Thieves : m_remoteMutex = t =>
              /\ StealContests <=> thiefPc[t] = "compare"
              /\ StealPending <=> thiefPc[t] = "read"
  BY DEF QueueLocks, StealContests, StealPending

(* A step that neither changes the window nor what is in it.               *)
LEMMA QueueUntouched ==
  ASSUME QueueInv, TypeOK', QueueLocks', QueueOps',
         Low' = Low, Top' = Top, UNCHANGED <<m_localQueue, m_mask, queued, runs>>,
         ownerPc' = "publish" => UNCHANGED <<ownerPc, m_head, entering>>,
         ownerPc' = "store" => m_head' - Low <= m_mask,
         ownerPc' = "claim" => m_head' > 0,
         StealPending' => Low <= Top
  PROVE  QueueInv'
  <1>1. \A k : At(k)' = At(k)
    BY DEF At, Slot
  <1>2. QueueCursors'
    BY DEF QueueInv, QueueCursors
  <1>3. QueueContents'
    BY <1>1 DEF QueueInv, QueueContents
  <1>4. HandedOutOnce'
    BY DEF QueueInv, HandedOutOnce
  <1>5. QED BY <1>2, <1>3, <1>4 DEF QueueInv

LEMMA QueueInitially == Init => QueueInv
  <1> SUFFICES ASSUME Init PROVE QueueInv
    OBVIOUS
  <1> USE WorkQueueAssumption DEF Init
  <1>1. TypeOK
    BY DEF TypeOK
  <1>2. QueueLocks
    BY DEF QueueLocks
  <1>3. Low = 0 /\ Top = -1 /\ ~StealPending
    BY DEF Low, Top, StealContests, StealPending, PopContests
  <1>4. QueueCursors
    BY <1>1, <1>3 DEF QueueCursors, TypeOK
  <1>5. Low .. Top = {}
    BY <1>3
  <1>6. QueueContents
    BY <1>5 DEF QueueContents
  <1>7. QueueOps
    <2>1. queued \cup remote = {} /\ Cardinality(queued \cup remote) = 0
      BY FS_EmptySet
    <2>2. QED BY <2>1 DEF QueueOps, Entering
  <1>8. HandedOutOnce
    BY DEF HandedOutOnce
  <1>9. QED BY <1>1, <1>2, <1>4, <1>6, <1>7, <1>8 DEF QueueInv

(* The thief's steps, except the read of the operation it has won.         *)
LEMMA QueueThief ==
  ASSUME QueueInv, NEW t \in Thieves,
         \/ StealLocks(t) \/ StealFindsNothing(t) \/ StealFindsWork(t) \/ StealClaims(t)
         \/ StealWins(t) \/ StealGivesUp(t) \/ CheckLocks(t) \/ CheckAnswers(t)
  PROVE  QueueInv'
  <1> USE WorkQueueAssumption
  <1>1. TypeOK /\ QueueLocks /\ QueueCursors /\ QueueOps
    BY DEF QueueInv
  <1>2. /\ UNCHANGED <<m_localQueue, m_mask, m_head, ownerPc, entering, queued, remote, runs>>
        /\ \A u \in Thieves : u # t => thiefPc'[u] = thiefPc[u]
        /\ thiefPc' \in [Thieves -> {"idle", "look", "claim", "compare", "read", "check"}]
        /\ m_remoteMutex \in {t, Nobody} /\ m_remoteMutex' = (IF thiefPc'[t] = "idle" THEN Nobody ELSE t)
    BY <1>1 DEF TypeOK, QueueLocks, StealLocks, StealFindsNothing, StealFindsWork, StealClaims, StealWins, StealGivesUp,
       CheckLocks, CheckAnswers, buffer, history
  <1>3. /\ \A u \in Thieves : u # t => thiefPc[u] = "idle" /\ thiefPc'[u] = "idle"
        /\ ownerPc \notin {"copy", "arbitrate"}
    BY <1>1, <1>2 DEF QueueLocks
  <1>4. QueueLocks'
    BY <1>1, <1>2, <1>3 DEF QueueLocks
  <1>5. /\ Low = (IF thiefPc[t] \in {"compare", "read"} THEN m_tail - 1 ELSE m_tail)
        /\ Low' = (IF thiefPc'[t] \in {"compare", "read"} THEN m_tail' - 1 ELSE m_tail')
        /\ StealPending' <=> thiefPc'[t] = "read"
    BY <1>3 DEF Low, StealContests, StealPending
  <1>6. Low' = Low /\ m_tail' \in Nat
    <2>1. m_tail \in Nat /\ Low \in Nat
      BY <1>1 DEF TypeOK, QueueCursors
    <2>2. CASE StealClaims(t)
      BY <1>1, <1>5, <2>1, <2>2 DEF StealClaims, TypeOK
    <2>3. CASE StealGivesUp(t)
      BY <1>1, <1>5, <2>1, <2>3 DEF StealGivesUp, TypeOK
    <2>4. CASE ~StealClaims(t) /\ ~StealGivesUp(t)
      BY <1>1, <1>5, <2>1, <2>4 DEF StealLocks, StealFindsNothing, StealFindsWork, StealWins, CheckLocks, CheckAnswers, TypeOK
    <2>5. QED BY <2>2, <2>3, <2>4
  <1>7. Top' = Top
    BY <1>2 DEF Top, PopContests
  <1>8. TypeOK'
    BY <1>1, <1>2, <1>6 DEF TypeOK
  <1>9. QueueOps'
    BY <1>1, <1>2 DEF QueueOps, Entering
  <1>10. StealPending' => Low <= Top
    <2>1. CASE StealWins(t)
      <3>1. m_head >= m_tail /\ Low = m_tail - 1 /\ Top >= m_head - 1
        BY <1>1, <1>5, <2>1 DEF StealWins, TypeOK, Top
      <3>2. QED BY <1>1, <3>1 DEF TypeOK, Top
    <2>2. CASE ~StealWins(t)
      BY <1>1, <1>5, <2>2 DEF StealLocks, StealFindsNothing, StealFindsWork, StealClaims, StealGivesUp, CheckLocks, CheckAnswers,
         TypeOK
    <2>3. QED BY <2>1, <2>2
  <1>11. QED BY <1>1, <1>2, <1>4, <1>6, <1>7, <1>8, <1>9, <1>10, QueueUntouched DEF QueueCursors

(* A fresh operation is the next number.                                   *)
LEMMA NextOperation ==
  ASSUME QueueOps, NEW o \in Ops, o = Cardinality(queued \cup remote) + 1
  PROVE  /\ o \notin queued \cup remote
         /\ (queued \cup remote) \cup {o} = 1 .. o
         /\ Cardinality((queued \cup remote) \cup {o}) = o
  <1> DEFINE n == Cardinality(queued \cup remote)
  <1>1. queued \cup remote = 1 .. n /\ n \in Nat /\ o = n + 1
    BY DEF QueueOps
  <1> HIDE DEF n
  <1>2. o \notin queued \cup remote /\ (queued \cup remote) \cup {o} = 1 .. o
    <2>1. o \notin 1 .. n /\ (1 .. n) \cup {o} = 1 .. o
      BY <1>1
    <2>2. QED BY <1>1, <2>1
  <1>3. Cardinality(1 .. o) = o
    <2>1. o \in Int /\ 1 <= o /\ o - 1 + 1 = o
      BY <1>1
    <2>2. Cardinality(1 .. o) = o - 1 + 1
      BY <2>1, FS_Interval
    <2>3. QED BY <2>1, <2>2
  <1>4. QED BY <1>2, <1>3

(* The owner's steps that leave the window as it is.                       *)
LEMMA QueueOwner ==
  ASSUME QueueInv,
         \/ \E o \in Ops : EnqueueFindsSpace(o) \/ EnqueueAllocates(o)
         \/ GrowLocks \/ PopFindsWork \/ PopClaims \/ PopContends \/ PopLocks \/ PopLosesRace
  PROVE  QueueInv'
  <1> USE WorkQueueAssumption
  <1>1. TypeOK /\ QueueLocks /\ QueueCursors /\ QueueOps
    BY DEF QueueInv
  <1>2. UNCHANGED <<m_localQueue, m_mask, m_tail, thiefPc, queued, remote, runs>>
    BY DEF EnqueueFindsSpace, EnqueueAllocates, GrowLocks, PopFindsWork, PopClaims, PopContends, PopLocks, PopLosesRace,
       buffer, history
  <1>3. Low' = Low /\ (StealPending' <=> StealPending) /\ m_tail - 1 <= Low /\ Low <= m_tail
    BY <1>1, <1>2 DEF Low, StealContests, StealPending, TypeOK
  <1>4. CASE \E o \in Ops : EnqueueFindsSpace(o) \/ EnqueueAllocates(o)
    <2>1. PICK o \in Ops : EnqueueFindsSpace(o) \/ EnqueueAllocates(o)
      BY <1>4
    <2>2. /\ ownerPc = "idle" /\ ownerPc' \in {"store", "grow"} /\ entering' = o /\ o \in Fresh
          /\ UNCHANGED <<m_head, m_remoteMutex>>
          /\ ownerPc' = "store" => m_head - m_tail < m_mask
      BY <2>1 DEF EnqueueFindsSpace, EnqueueAllocates
    <2>3. Top' = Top
      BY <2>2 DEF Top, PopContests
    <2>4. TypeOK' /\ QueueLocks'
      BY <1>1, <1>2, <2>2 DEF TypeOK, QueueLocks
    <2>5. QueueOps'
      BY <1>1, <1>2, <2>2 DEF QueueOps, Entering, Fresh
    <2>6. ownerPc' = "store" => m_head' - Low <= m_mask
      <3>1. m_head \in Nat /\ m_tail \in Nat /\ m_mask \in Nat /\ Low \in Nat
        BY <1>1 DEF TypeOK, QueueCursors
      <3>2. QED BY <1>3, <2>2, <3>1
    <2>7. QED BY <1>1, <1>2, <1>3, <2>2, <2>3, <2>4, <2>5, <2>6, QueueUntouched DEF QueueCursors
  <1>5. CASE GrowLocks \/ PopFindsWork \/ PopClaims \/ PopContends \/ PopLocks \/ PopLosesRace
    <2>1. UNCHANGED entering /\ ownerPc' \notin {"store", "publish"}
      BY <1>5 DEF GrowLocks, PopFindsWork, PopClaims, PopContends, PopLocks, PopLosesRace
    <2>2. m_head \in Nat /\ m_tail \in Nat /\ m_mask \in Nat /\ Low \in Nat
      BY <1>1 DEF TypeOK, QueueCursors
    <2>3. m_head' \in Nat /\ Top' = Top
      <3>1. CASE PopClaims
        BY <1>1, <2>2, <3>1 DEF PopClaims, Top, PopContests, QueueCursors
      <3>2. CASE PopLosesRace
        BY <1>1, <2>2, <3>2 DEF PopLosesRace, Top, PopContests
      <3>3. CASE GrowLocks \/ PopFindsWork \/ PopContends \/ PopLocks
        BY <2>2, <3>3 DEF GrowLocks, PopFindsWork, PopContends, PopLocks, Top, PopContests
      <3>4. QED BY <1>5, <3>1, <3>2, <3>3
    <2>4. TypeOK'
      BY <1>1, <1>2, <1>5, <2>1, <2>3 DEF TypeOK, GrowLocks, PopFindsWork, PopClaims, PopContends, PopLocks, PopLosesRace
    <2>5. QueueLocks'
      BY <1>1, <1>2, <1>5 DEF QueueLocks, GrowLocks, PopFindsWork, PopClaims, PopContends, PopLocks, PopLosesRace
    <2>6. QueueOps'
      BY <1>1, <1>2, <1>5, <2>1 DEF QueueOps, Entering, GrowLocks, PopFindsWork, PopClaims, PopContends, PopLocks, PopLosesRace
    <2>7. ownerPc' = "claim" => m_head' > 0
      BY <1>5, <2>2 DEF GrowLocks, PopFindsWork, PopClaims, PopContends, PopLocks, PopLosesRace
    <2>8. QED BY <1>1, <1>2, <1>3, <2>1, <2>3, <2>4, <2>5, <2>6, <2>7, QueueUntouched DEF QueueCursors
  <1>6. QED BY <1>4, <1>5

(* An operation is left to the global queue.                               *)
LEMMA QueueRefuses ==
  ASSUME QueueInv, GrowLockBusy \/ \E o \in Ops : EnqueueFails(o)
  PROVE  QueueInv'
  <1> USE WorkQueueAssumption
  <1>1. TypeOK /\ QueueLocks /\ QueueCursors /\ QueueOps
    BY DEF QueueInv
  <1>2. PICK o \in Ops : /\ o = Cardinality(queued \cup remote) + 1 /\ remote' = remote \cup {o}
                         /\ ownerPc \in {"idle", "grow"} /\ ownerPc' = "idle"
    BY <1>1 DEF GrowLockBusy, EnqueueFails, Fresh, QueueOps, Entering
  <1>3. UNCHANGED <<m_localQueue, m_mask, m_head, m_tail, m_remoteMutex, entering, thiefPc, queued, runs>>
    BY DEF GrowLockBusy, EnqueueFails, buffer
  <1>4. Low' = Low /\ (StealPending' <=> StealPending) /\ Top' = Top
    BY <1>2, <1>3 DEF Low, Top, StealContests, StealPending, PopContests
  <1>5. TypeOK' /\ QueueLocks'
    BY <1>1, <1>2, <1>3 DEF TypeOK, QueueLocks
  <1>6. QueueOps'
    <2>1. queued' \cup remote' = (queued \cup remote) \cup {o}
      BY <1>2, <1>3
    <2>2. o \in Nat
      BY DEF Ops
    <2>3. QED BY <1>1, <1>2, <2>1, <2>2, NextOperation DEF QueueOps, Entering
  <1>7. QED BY <1>1, <1>2, <1>3, <1>4, <1>5, <1>6, QueueUntouched DEF QueueCursors

(* The slot that is written is none of the window.                         *)
LEMMA QueueStores ==
  ASSUME QueueInv, EnqueueStores
  PROVE  QueueInv'
  <1> USE WorkQueueAssumption
  <1>1. TypeOK /\ QueueLocks /\ QueueCursors /\ QueueOps
    BY DEF QueueInv
  <1>2. /\ UNCHANGED <<m_mask, m_head, m_tail, m_remoteMutex, entering, thiefPc, queued, remote, runs>>
        /\ ownerPc = "store" /\ ownerPc' = "publish"
        /\ m_localQueue' = [m_localQueue EXCEPT ![Slot(m_head)] = entering]
    BY DEF EnqueueStores, history
  <1>3. Low' = Low /\ (StealPending' <=> StealPending) /\ Top' = Top /\ Top = m_head - 1
    BY <1>2 DEF Low, Top, StealContests, StealPending, PopContests
  <1>4. /\ m_head \in Nat /\ m_mask \in Nat /\ Low \in Nat /\ m_head - Low <= m_mask
        /\ m_localQueue \in [0 .. m_mask -> Ops \cup {Garbage}] /\ entering \in Ops
    BY <1>1, <1>2 DEF TypeOK, QueueCursors, QueueOps, Entering
  <1>5. Slot(m_head) \in 0 .. m_mask /\ At(m_head)' = entering
    <2>1. Slot(m_head) \in 0 .. m_mask
      BY <1>4, SlotRange
    <2>2. QED BY <1>2, <1>4, <2>1 DEF At, Slot
  <1>6. \A k \in Low .. Top : At(k)' = At(k)
    <2> SUFFICES ASSUME NEW k \in Low .. Top PROVE At(k)' = At(k)
      OBVIOUS
    <2>1. k \in Nat /\ k < m_head /\ m_head - k <= m_mask
      BY <1>3, <1>4
    <2>2. Slot(k) # Slot(m_head) /\ Slot(k) \in 0 .. m_mask
      BY <1>4, <2>1, SlotsDiffer, SlotRange
    <2>3. QED BY <1>2, <1>4, <1>5, <2>2 DEF At, Slot
  <1>7. TypeOK' /\ QueueLocks' /\ QueueOps'
    BY <1>1, <1>2, <1>4, <1>5 DEF TypeOK, QueueLocks, QueueOps, Entering
  <1>8. QueueCursors'
    BY <1>1, <1>2, <1>3, <1>4 DEF QueueCursors
  <1>9. QueueContents'
    BY <1>2, <1>3, <1>5, <1>6 DEF QueueInv, QueueContents
  <1>10. HandedOutOnce'
    BY <1>2 DEF QueueInv, HandedOutOnce
  <1>11. QED BY <1>7, <1>8, <1>9, <1>10 DEF QueueInv

(* The window grows by the operation that is being enqueued.               *)
LEMMA QueueGains ==
  ASSUME QueueInv, Entering, ownerPc' = "idle", NEW h, h = m_head, Top = h - 1, Top' = h, Low' = Low,
         queued' = queued \cup {entering}, UNCHANGED <<remote, runs>>,
         \A k \in Low .. Top : At(k)' = At(k), At(h)' = entering
  PROVE  QueueContents' /\ HandedOutOnce' /\ QueueOps'
  <1>1. TypeOK /\ QueueCursors /\ QueueContents /\ QueueOps /\ HandedOutOnce
    BY DEF QueueInv
  <1>2. entering \in Ops /\ entering = Cardinality(queued \cup remote) + 1
    BY <1>1 DEF QueueOps
  <1>3. entering \notin queued /\ runs[entering] = 0
    <2>1. entering \notin queued
      BY <1>1, <1>2, NextOperation
    <2>2. runs[entering] \in Nat /\ ~(runs[entering] > 0)
      BY <1>1, <1>2, <2>1 DEF TypeOK, HandedOutOnce
    <2>3. QED BY <2>1, <2>2
  <1>4. h \in Nat /\ Low \in Nat /\ Low <= h
    BY <1>1 DEF TypeOK, QueueCursors
  <1>5. /\ \A k \in Low' .. Top' : k \in Low .. Top \/ k = h
        /\ h \in Low' .. Top'
        /\ \A k \in Low .. Top : k \in Low' .. Top' /\ k # h
    BY <1>4
  <1>6. \A k \in Low .. Top : At(k)' \in queued /\ runs[At(k)'] = 0
    BY <1>1 DEF QueueContents
  <1>7. QueueContents'
    <2>1. \A k \in Low' .. Top' : At(k)' \in queued' /\ runs'[At(k)'] = 0
      BY <1>3, <1>5, <1>6
    <2>2. \A k, l \in Low' .. Top' : At(k)' = At(l)' => k = l
      BY <1>1, <1>3, <1>5, <1>6 DEF QueueContents
    <2>3. \A o \in queued' : runs'[o] = 0 => \E k \in Low' .. Top' : At(k)' = o
      BY <1>1, <1>5 DEF QueueContents
    <2>4. QED BY <2>1, <2>2, <2>3 DEF QueueContents
  <1>8. HandedOutOnce'
    BY <1>1, <1>3 DEF HandedOutOnce
  <1>9. QueueOps'
    <2>1. queued' \cup remote' = (queued \cup remote) \cup {entering}
      OBVIOUS
    <2>2. entering \in Nat
      BY <1>2 DEF Ops
    <2>3. QED BY <1>1, <1>2, <2>1, <2>2, NextOperation DEF QueueOps, Entering
  <1>10. QED BY <1>7, <1>8, <1>9

LEMMA QueuePublishes ==
  ASSUME QueueInv, EnqueuePublishes
  PROVE  QueueInv'
  <1> USE WorkQueueAssumption
  <1>1. TypeOK /\ QueueLocks /\ QueueCursors /\ QueueOps
    BY DEF QueueInv
  <1>2. /\ UNCHANGED <<m_localQueue, m_mask, m_tail, m_remoteMutex, entering, thiefPc, remote, runs>>
        /\ ownerPc = "publish" /\ ownerPc' = "idle" /\ m_head' = m_head + 1 /\ queued' = queued \cup {entering}
    BY DEF EnqueuePublishes, buffer
  <1>3. m_head \in Nat /\ m_mask \in Nat /\ Low \in Nat /\ m_head - Low <= m_mask /\ entering \in Ops /\ Entering
    BY <1>1, <1>2 DEF TypeOK, QueueCursors, QueueOps, Entering
  <1>4. Low' = Low /\ (StealPending' <=> StealPending) /\ Top = m_head - 1 /\ Top' = m_head
    BY <1>2, <1>3 DEF Low, Top, StealContests, StealPending, PopContests
  <1>5. \A k : At(k)' = At(k)
    BY <1>2 DEF At, Slot
  <1>6. At(m_head) = entering
    BY <1>2 DEF QueueInv, QueueContents
  <1>7. PICK h : h = m_head
    OBVIOUS
  <1>8. QueueContents' /\ HandedOutOnce' /\ QueueOps'
    <2>1. Top = h - 1 /\ Top' = h /\ At(h)' = entering
      BY <1>4, <1>5, <1>6, <1>7
    <2>2. QED BY <1>2, <1>3, <1>4, <1>5, <1>7, <2>1, QueueGains
  <1>9. TypeOK' /\ QueueLocks'
    BY <1>1, <1>2, <1>3 DEF TypeOK, QueueLocks
  <1>10. QueueCursors'
    BY <1>1, <1>2, <1>3, <1>4 DEF QueueCursors
  <1>11. QED BY <1>8, <1>9, <1>10 DEF QueueInv

(* The new buffer has the operations of the window at their new slots.     *)
LEMMA QueueGrows ==
  ASSUME QueueInv, GrowCopies
  PROVE  QueueInv'
  <1> USE WorkQueueAssumption
  <1> DEFINE size == 2 * (m_mask + 1)
             CursorAt(i) == {k \in m_tail .. m_head : k % size = i}
             Moved(k) == IF k = m_head THEN entering ELSE At(k)
  <1>1. TypeOK /\ QueueLocks /\ QueueCursors /\ QueueOps
    BY DEF QueueInv
  <1>2. /\ UNCHANGED <<m_tail, entering, thiefPc, remote, runs>>
        /\ ownerPc = "copy" /\ ownerPc' = "idle" /\ m_head' = m_head + 1 /\ queued' = queued \cup {entering}
        /\ m_remoteMutex' = Nobody /\ m_mask' = size - 1
    BY DEF GrowCopies
  <1>3. /\ m_head \in Nat /\ m_tail \in Nat /\ m_mask \in Nat /\ entering \in Ops /\ Entering
        /\ size \in Nat \ {0} /\ m_mask + 2 <= size /\ m_mask' + 1 = size /\ m_mask' \in Nat
    BY <1>1, <1>2 DEF TypeOK, QueueOps, Entering
  <1>4. /\ Low = m_tail /\ Low' = m_tail /\ ~StealPending /\ ~StealPending'
        /\ Top = m_head - 1 /\ Top' = m_head
    <2>1. ~StealContests /\ ~StealPending
      BY <1>1, <1>2, OneThief DEF QueueLocks
    <2>2. QED BY <1>2, <1>3, <2>1 DEF Low, Top, StealContests, StealPending, PopContests
  <1>5. m_tail <= m_head /\ m_head - m_tail < size
    BY <1>1, <1>3, <1>4 DEF QueueCursors
  <1>6. m_localQueue' = [i \in 0 .. size - 1 |->
                           IF CursorAt(i) = {} THEN Garbage ELSE Moved(CHOOSE k \in CursorAt(i) : TRUE)]
    <2>1. size - 1 + 1 = size
      BY <1>3
    <2>2. QED BY <2>1, SMTT(40) DEF GrowCopies, At
  <1>7. ASSUME NEW k \in m_tail .. m_head
        PROVE  At(k)' = Moved(k)
    <2>1. k \in Nat /\ k % size \in 0 .. size - 1
      BY <1>3, ModuloRange
    <2>2. \A l \in m_tail .. m_head : l % size = k % size => l = k
      <3> SUFFICES ASSUME NEW l \in m_tail .. m_head, l # k PROVE l % size # k % size
        OBVIOUS
      <3> HIDE DEF size
      <3>1. l \in Nat /\ ((l < k /\ k - l < size) \/ (k < l /\ l - k < size))
        BY <1>3, <1>5
      <3>2. QED BY <1>3, <2>1, <3>1, ModuloDiffers
    <2>3. CursorAt(k % size) = {k}
      BY <2>2
    <2>4. At(k)' = m_localQueue'[k % size]
      BY <1>3 DEF At, Slot
    <2> HIDE DEF CursorAt, Moved, size
    <2>5. (CHOOSE l \in CursorAt(k % size) : TRUE) = k /\ CursorAt(k % size) # {}
      BY <2>3
    <2>6. QED BY <1>6, <2>1, <2>4, <2>5
  <1>8. \A k \in Low .. Top : At(k)' = At(k)
    BY <1>3, <1>4, <1>7
  <1>9. PICK h : h = m_head
    OBVIOUS
  <1>10. At(h)' = entering
    BY <1>3, <1>5, <1>7, <1>9
  <1>11. QueueContents' /\ HandedOutOnce' /\ QueueOps'
    <2>1. Low' = Low /\ Top = h - 1 /\ Top' = h
      BY <1>4, <1>9
    <2>2. QED BY <1>2, <1>3, <1>8, <1>9, <1>10, <2>1, QueueGains
  <1>12. m_localQueue' \in [0 .. m_mask' -> Ops \cup {Garbage}]
    <2>1. m_mask' = size - 1
      BY <1>2
    <2>2. \A k \in m_tail .. m_head : Moved(k) \in Ops \cup {Garbage}
      <3> SUFFICES ASSUME NEW k \in m_tail .. m_head, k # m_head PROVE At(k) \in Ops \cup {Garbage}
        BY <1>3
      <3>1. k \in Low .. Top
        BY <1>3, <1>4
      <3>2. QED BY <1>1, <3>1 DEF QueueInv, QueueContents, TypeOK
    <2> HIDE DEF Moved
    <2>3. \A i : CursorAt(i) # {} => (CHOOSE k \in CursorAt(i) : TRUE) \in m_tail .. m_head
      <3> SUFFICES ASSUME NEW i, CursorAt(i) # {} PROVE (CHOOSE k \in CursorAt(i) : TRUE) \in CursorAt(i)
        BY Zenon
      <3>1. \E k : k \in CursorAt(i)
        OBVIOUS
      <3> HIDE DEF CursorAt
      <3>2. QED BY <3>1
    <2> HIDE DEF CursorAt, size
    <2>4. QED BY <1>6, <2>1, <2>2, <2>3
  <1>13. TypeOK' /\ QueueLocks'
    BY <1>1, <1>2, <1>3, <1>12 DEF TypeOK, QueueLocks
  <1>14. QueueCursors'
    BY <1>1, <1>2, <1>3, <1>4, <1>5 DEF QueueCursors
  <1>15. QED BY <1>11, <1>13, <1>14 DEF QueueInv

(* The window loses the operation that is handed out.                      *)
LEMMA QueueLoses ==
  ASSUME QueueInv, NEW k \in Low .. Top, runs' = [runs EXCEPT ![At(k)] = @ + 1],
         UNCHANGED <<m_localQueue, m_mask, queued, remote, entering>>,
         ownerPc' = "publish" => UNCHANGED <<ownerPc, m_head>>,
         \A l : l \in Low' .. Top' <=> l \in Low .. Top /\ l # k
  PROVE  QueueContents' /\ HandedOutOnce' /\ runs' \in [Ops \cup {Garbage} -> Nat]
  <1>1. TypeOK /\ QueueContents /\ HandedOutOnce
    BY DEF QueueInv
  <1>2. At(k) \in queued /\ At(k) \in Ops /\ runs[At(k)] = 0
    BY <1>1 DEF QueueContents, TypeOK
  <1>3. /\ runs'[At(k)] = 1 /\ \A o \in Ops \cup {Garbage} : o # At(k) => runs'[o] = runs[o]
        /\ runs' \in [Ops \cup {Garbage} -> Nat]
    BY <1>1, <1>2 DEF TypeOK
  <1>4. \A l : At(l)' = At(l)
    BY DEF At, Slot
  <1>5. HandedOutOnce'
    BY <1>1, <1>2, <1>3 DEF HandedOutOnce
  <1>6. \A l \in Low' .. Top' : At(l) \in queued /\ At(l) \in Ops /\ runs[At(l)] = 0 /\ At(l) # At(k)
    BY <1>1 DEF QueueContents, TypeOK
  <1>7. QueueContents'
    <2>1. \A l \in Low' .. Top' : At(l)' \in queued' /\ runs'[At(l)'] = 0
      BY <1>3, <1>4, <1>6
    <2>2. \A l, m \in Low' .. Top' : At(l)' = At(m)' => l = m
      BY <1>1, <1>4 DEF QueueContents
    <2>3. \A o \in queued' : runs'[o] = 0 => \E l \in Low' .. Top' : At(l)' = o
      <3> SUFFICES ASSUME NEW o \in queued, runs'[o] = 0 PROVE \E l \in Low' .. Top' : At(l)' = o
        OBVIOUS
      <3>1. o \in Ops /\ o # At(k)
        BY <1>1, <1>3 DEF TypeOK
      <3>2. runs[o] = 0
        BY <1>3, <3>1
      <3>3. PICK l \in Low .. Top : At(l) = o
        BY <1>1, <3>2 DEF QueueContents
      <3>4. QED BY <1>4, <3>1, <3>3
    <2>4. ownerPc' = "publish" => At(m_head)' = entering'
      BY <1>1, <1>4 DEF QueueContents
    <2>5. QED BY <2>1, <2>2, <2>3, <2>4 DEF QueueContents
  <1>8. QED BY <1>3, <1>5, <1>7

(* The owner pops: no thief has claimed the same operation.                *)
LEMMA QueuePops ==
  ASSUME QueueInv, PopTakes \/ PopWinsRace
  PROVE  QueueInv'
  <1> USE WorkQueueAssumption
  <1>1. TypeOK /\ QueueLocks /\ QueueCursors /\ QueueOps
    BY DEF QueueInv
  <1>2. /\ UNCHANGED <<m_localQueue, m_mask, m_head, m_tail, entering, thiefPc, queued, remote>>
        /\ runs' = [runs EXCEPT ![At(m_head)] = @ + 1]
        /\ ownerPc \in {"compare", "arbitrate"} /\ ownerPc' = "idle" /\ m_head - m_tail >= 0
        /\ m_remoteMutex' = (IF ownerPc = "compare" THEN m_remoteMutex ELSE Nobody)
    BY DEF PopTakes, PopWinsRace, HandOut, buffer, At
  <1>3. m_head \in Nat /\ m_mask \in Nat /\ Low \in Nat /\ m_tail \in Nat
    BY <1>1 DEF TypeOK, QueueCursors
  <1>4. /\ Low' = Low /\ (StealPending' <=> StealPending) /\ Top = m_head /\ Top' = m_head - 1
        /\ Low <= m_tail /\ (StealPending => Low = m_tail - 1)
    BY <1>2, <1>3 DEF Low, Top, StealContests, StealPending, PopContests
  <1>5. /\ m_head \in Low .. Top
        /\ \A l : l \in Low' .. Top' <=> l \in Low .. Top /\ l # m_head
    BY <1>2, <1>3, <1>4
  <1>6. QueueContents' /\ HandedOutOnce' /\ runs' \in [Ops \cup {Garbage} -> Nat]
    BY <1>2, <1>5, QueueLoses
  <1>7. TypeOK' /\ QueueLocks' /\ QueueOps'
    BY <1>1, <1>2, <1>6 DEF TypeOK, QueueLocks, QueueOps, Entering
  <1>8. QueueCursors'
    BY <1>1, <1>2, <1>3, <1>4 DEF QueueCursors
  <1>9. QED BY <1>6, <1>7, <1>8 DEF QueueInv

(* The thief that has won reads the operation it claimed.                  *)
LEMMA QueueSteals ==
  ASSUME QueueInv, NEW t \in Thieves, StealReads(t)
  PROVE  QueueInv'
  <1> USE WorkQueueAssumption
  <1>1. TypeOK /\ QueueLocks /\ QueueCursors /\ QueueOps
    BY DEF QueueInv
  <1>2. /\ UNCHANGED <<m_localQueue, m_mask, m_head, m_tail, ownerPc, entering, queued, remote>>
        /\ runs' = [runs EXCEPT ![At(m_tail - 1)] = @ + 1]
        /\ thiefPc[t] = "read" /\ m_remoteMutex' = Nobody /\ thiefPc' = [thiefPc EXCEPT ![t] = "idle"]
    BY DEF StealReads, HandOut, buffer, At
  <1>3. m_head \in Nat /\ m_mask \in Nat /\ Low \in Nat /\ m_tail \in Nat
    BY <1>1 DEF TypeOK, QueueCursors
  <1>4. /\ m_remoteMutex = t /\ \A u \in Thieves : thiefPc'[u] = "idle"
        /\ thiefPc' \in [Thieves -> {"idle", "look", "claim", "compare", "read", "check"}]
    BY <1>1, <1>2 DEF QueueLocks, TypeOK
  <1>5. /\ StealPending /\ ~StealPending' /\ Low = m_tail - 1 /\ Low' = m_tail /\ Top' = Top
        /\ Low <= Top /\ Top \in Int
    BY <1>1, <1>2, <1>3, <1>4 DEF Low, Top, StealContests, StealPending, PopContests, QueueCursors
  <1>6. /\ m_tail - 1 \in Low .. Top
        /\ \A l : l \in Low' .. Top' <=> l \in Low .. Top /\ l # m_tail - 1
    BY <1>3, <1>5
  <1>7. QueueContents' /\ HandedOutOnce' /\ runs' \in [Ops \cup {Garbage} -> Nat]
    BY <1>2, <1>6, QueueLoses
  <1>8. TypeOK' /\ QueueLocks' /\ QueueOps'
    BY <1>1, <1>2, <1>4, <1>7 DEF TypeOK, QueueLocks, QueueOps, Entering
  <1>9. QueueCursors'
    BY <1>1, <1>2, <1>3, <1>5 DEF QueueCursors
  <1>10. QED BY <1>7, <1>8, <1>9 DEF QueueInv

LEMMA QueueStep == QueueInv /\ [Next]_vars => QueueInv'
  <1> SUFFICES ASSUME QueueInv, [Next]_vars PROVE QueueInv'
    OBVIOUS
  <1>1. CASE UNCHANGED vars
    <2>1. /\ (StealContests' <=> StealContests) /\ (StealPending' <=> StealPending) /\ Low' = Low /\ Top' = Top
          /\ \A k : At(k)' = At(k)
      BY <1>1 DEF vars, StealContests, StealPending, Low, Top, PopContests, At, Slot
    <2>2. TypeOK' /\ QueueLocks' /\ QueueOps' /\ HandedOutOnce'
      BY <1>1 DEF vars, QueueInv, TypeOK, QueueLocks, QueueOps, Entering, HandedOutOnce
    <2>3. QueueCursors' /\ QueueContents'
      BY <1>1, <2>1 DEF vars, QueueInv, QueueCursors, QueueContents
    <2>4. QED BY <2>2, <2>3 DEF QueueInv
  <1>2. CASE TryLocalEnqueue
    BY <1>2, QueueOwner, QueueRefuses, QueueStores, QueuePublishes, QueueGrows DEF TryLocalEnqueue
  <1>3. CASE TryLocalPop
    BY <1>3, QueueOwner, QueuePops DEF TryLocalPop
  <1>4. ASSUME NEW t \in Thieves, TrySteal(t) \/ HasAnyQueuedWork(t) PROVE QueueInv'
    BY <1>4, QueueThief, QueueSteals DEF TrySteal, HasAnyQueuedWork
  <1>5. QED BY <1>1, <1>2, <1>3, <1>4 DEF Next

(* However pops and steals race for the last operation, and whatever slot  *)
(* a push reuses, no operation of the queue is resumed twice or before it  *)
(* was enqueued.                                                           *)
THEOREM NoOperationRunsTwice == Spec => []HandedOutOnce
  <1>1. QueueInv => HandedOutOnce
    BY DEF QueueInv
  <1>2. QED BY <1>1, QueueInitially, QueueStep, PTL DEF Spec

(* Every operation that try_local_enqueue accepted and that has not run is *)
(* in the buffer between the cursors, also after the buffer has grown.     *)
THEOREM NoOperationIsLost == Spec => []NothingLost
  <1>1. QueueInv => NothingLost
    BY DEF QueueInv, NothingLost, QueueContents, Waiting, Window, Low, Top, At
  <1>2. QED BY <1>1, QueueInitially, QueueStep, PTL DEF Spec

(* has_any_queued_work() answers "no" only when there is nothing to steal. *)
THEOREM NoWorkIsOverlooked == Spec => []EmptyAnswerIsRight
  <1>1. QueueInv => EmptyAnswerIsRight
    <2> SUFFICES ASSUME QueueInv, NEW t \in Thieves, thiefPc[t] = "check", m_head - m_tail <= 0, NEW o \in Waiting
                 PROVE  PopContests /\ m_localQueue[Slot(m_head)] = o
      BY DEF EmptyAnswerIsRight
    <2>1. TypeOK /\ QueueLocks /\ QueueCursors /\ QueueContents
      BY DEF QueueInv
    <2>2. PICK k \in Low .. Top : At(k) = o
      BY <2>1 DEF QueueContents, Waiting
    <2>3. Low = m_tail
      BY <2>1, WorkQueueAssumption, OneThief DEF QueueLocks, Low
    <2>4. PopContests /\ k = m_head
      BY <2>1, <2>2, <2>3 DEF TypeOK, Top
    <2>5. QED BY <2>2, <2>4 DEF At
  <1>2. QED BY <1>1, QueueInitially, QueueStep, PTL DEF Spec
-----------------------------------------------------------------------------
(* Cancellation                                                            *)

(* The thread that requested cancellation and visits the entries, and a    *)
(* registration that has claimed an entry.                                 *)
Visits(q) == cancelPc[q] \in {"load", "scan", "acquire", "called"}
Claimed(r) == cancelPc[r] \in {"recheck", "remove", "registered", "deregister"}
InEntry(r) == m_entries[entryIndex[r]] = r

CancelTypes ==
  /\ Cancellation!TypeOK
  /\ cancelPc \in [Registrations \cup Cancellers -> Cancellation!RegistrationLabels \cup Cancellation!CancellerLabels]
  /\ \A r \in Registrations : Claimed(r) => entryIndex[r] \in 1 .. Entries
  /\ \A q \in Cancellers : cancelPc[q] \in {"acquire", "called"} => position[q] <= Entries

(* The references are held by the registrations and sources that are left. *)
CancelRefs ==
  /\ tokenRefs = Cardinality({r \in Registrations : cancelPc[r] # "destroyed"})
  /\ sourceRefs = Cardinality({q \in Cancellers : cancelPc[q] # "gone"})
  /\ deleted <=> tokenRefs = 0 /\ sourceRefs = 0

(* A registration is in its entry until it is taken back or called.        *)
CancelEntries ==
  /\ \A i \in 1 .. Entries, r \in Registrations :
       m_entries[i] = r => Claimed(r) /\ entryIndex[r] = i /\ calls[r] = 0
  /\ \A r \in Registrations :
       /\ Claimed(r) /\ calls[r] = 0 => InEntry(r)
       /\ cancelPc[r] \in {"token", "checked", "add", "callback"} => calls[r] = 0
       /\ calls[r] <= 1

(* One thread visits the entries, and has called who was in those behind   *)
(* it and has not seen the request.                                        *)
CancelVisit ==
  /\ \A q, p \in Cancellers : Visits(q) /\ Visits(p) => q = p
  /\ \A q \in Cancellers : Visits(q) => requested /\ ~notified
  /\ \A q \in Cancellers : cancelPc[q] = "source" => position[q] = 1
  /\ notified => requested
  /\ \A r \in Registrations : cancelPc[r] \in {"registered", "deregister"} /\ InEntry(r) =>
       /\ ~notified
       /\ \A q \in Cancellers : Visits(q) =>
            position[q] <= entryIndex[r] /\ (cancelPc[q] = "called" => position[q] < entryIndex[r])

CancelCalls ==
  \A q \in Cancellers : running[q] # Nothing =>
    /\ cancelPc[q] = "called"
    /\ calls[running[q]] = 1
    /\ Claimed(running[q]) \/ cancelPc[running[q]] \in {"wait", "destroyed"}

CancelInv == CancelTypes /\ CancelRefs /\ CancelEntries /\ CancelVisit /\ CancelCalls

CancelLabels == Cancellation!RegistrationLabels \cup Cancellation!CancellerLabels

(* CancellationState has its own copy of Cardinality.                      *)
LEMMA CancelCardinality == ASSUME NEW S PROVE Cancellation!Cardinality(S) = Cardinality(S)
  BY DEF Cancellation!Cardinality, Cardinality

LEMMA CancelShape ==
  ASSUME CancelTypes
  PROVE  /\ requested \in BOOLEAN /\ notified \in BOOLEAN /\ deleted \in BOOLEAN
         /\ m_entries \in [1 .. Entries -> Registrations \cup {Nothing}]
         /\ entryIndex \in [Registrations -> 0 .. Entries]
         /\ cancelPc \in [Registrations \cup Cancellers -> CancelLabels]
         /\ position \in [Cancellers -> 1 .. Entries + 1]
         /\ running \in [Cancellers -> Registrations \cup {Nothing}]
         /\ calls \in [Registrations -> Nat]
  BY DEF CancelTypes, Cancellation!TypeOK, CancelLabels

LEMMA CancelParties ==
  /\ Entries \in Nat
  /\ \A r \in Registrations : r \notin Cancellers /\ r # Nothing
  /\ \A q \in Cancellers : q \notin Registrations /\ q # Nothing
  BY CancellationUsers

(* Who is left keeps its reference.                                        *)
LEMMA CancelRefsKept ==
  ASSUME CancelRefs, UNCHANGED <<sourceRefs, tokenRefs, deleted>>,
         \A r \in Registrations : cancelPc'[r] = "destroyed" <=> cancelPc[r] = "destroyed",
         \A q \in Cancellers : cancelPc'[q] = "gone" <=> cancelPc[q] = "gone"
  PROVE  CancelRefs'
  <1>1. /\ {r \in Registrations : cancelPc'[r] # "destroyed"} = {r \in Registrations : cancelPc[r] # "destroyed"}
        /\ {q \in Cancellers : cancelPc'[q] # "gone"} = {q \in Cancellers : cancelPc[q] # "gone"}
    OBVIOUS
  <1>2. QED BY <1>1 DEF CancelRefs

LEMMA CancelInit == Cancellation!Init => CancelInv
  <1> SUFFICES ASSUME Cancellation!Init PROVE CancelInv
    OBVIOUS
  <1> USE DEF Cancellation!Init
  <1>1. /\ \A r \in Registrations : cancelPc[r] = "token" /\ calls[r] = 0 /\ ~Claimed(r)
        /\ \A q \in Cancellers : cancelPc[q] = "source" /\ running[q] = Nothing /\ ~Visits(q)
        /\ \A i \in 1 .. Entries, r \in Registrations : m_entries[i] # r
    BY CancelParties DEF Claimed, Visits
  <1>2. /\ Cardinality(Registrations) \in Nat /\ Cardinality(Cancellers) \in Nat
        /\ tokenRefs = Cardinality(Registrations) /\ sourceRefs = Cardinality(Cancellers)
    BY CancellationUsers, FS_CardinalityType, CancelCardinality
  <1>3. CancelTypes
    <2>1. Cancellation!TypeOK
      <3>1. sourceRefs \in 0 .. Cardinality(Cancellers) /\ tokenRefs \in 0 .. Cardinality(Registrations)
        BY <1>2
      <3>2. /\ m_entries \in [1 .. Entries -> Registrations \cup {Nothing}]
            /\ entryIndex \in [Registrations -> 0 .. Entries]
            /\ position \in [Cancellers -> 1 .. Entries + 1]
        BY CancelParties
      <3>3. QED BY <1>1, <3>1, <3>2, CancelCardinality
                DEF Cancellation!TypeOK, Cancellation!RegistrationLabels, Cancellation!CancellerLabels
    <2>2. QED BY <1>1, <2>1 DEF CancelTypes, Cancellation!RegistrationLabels, Cancellation!CancellerLabels
  <1>4. CancelRefs
    <2>1. /\ {r \in Registrations : cancelPc[r] # "destroyed"} = Registrations
          /\ {q \in Cancellers : cancelPc[q] # "gone"} = Cancellers
      BY <1>1
    <2>2. ~(Cardinality(Registrations) = 0 /\ Cardinality(Cancellers) = 0)
      BY CancellationUsers, FS_EmptySet
    <2>3. QED BY <1>2, <2>1, <2>2 DEF CancelRefs
  <1>5. CancelEntries /\ CancelVisit /\ CancelCalls
    BY <1>1 DEF CancelEntries, CancelVisit, CancelCalls
  <1>6. QED BY <1>3, <1>4, <1>5 DEF CancelInv

(* A registration moves on without touching its entry.                     *)
LEMMA CancelRegisters ==
  ASSUME CancelInv, NEW r \in Registrations,
         \/ Cancellation!RegisterChecks(r) \/ Cancellation!RegisterStarts(r) \/ Cancellation!RegisterRechecks(r)
         \/ Cancellation!RegisterCalls(r) \/ Cancellation!Destroy(r) \/ Cancellation!DeregisterTooLate(r)
         \/ Cancellation!DeregisterWaits(r) \/ (Cancellation!RegisterRemoves(r) /\ ~InEntry(r))
  PROVE  CancelInv'
  <1> USE CancelParties
  <1>1. CancelTypes /\ CancelRefs /\ CancelEntries /\ CancelVisit /\ CancelCalls
    BY DEF CancelInv
  <1>2. /\ UNCHANGED <<requested, notified, sourceRefs, tokenRefs, deleted, m_notificationThreadId, m_entries, entryIndex,
                       position, running>>
        /\ m_registrationState' \in BOOLEAN
        /\ \A t \in Registrations \cup Cancellers : t # r => cancelPc'[t] = cancelPc[t]
        /\ cancelPc' \in [Registrations \cup Cancellers -> CancelLabels]
        /\ \A u \in Registrations : u # r => calls'[u] = calls[u]
        /\ calls' \in [Registrations -> Nat]
    <2>1. /\ UNCHANGED <<requested, notified, sourceRefs, tokenRefs, deleted, m_notificationThreadId, m_entries, entryIndex,
                         position, running>>
          /\ m_registrationState' = m_registrationState \/ m_registrationState' = TRUE
          /\ calls' = calls \/ calls' = [calls EXCEPT ![r] = @ + 1]
          /\ \E label \in Cancellation!RegistrationLabels : cancelPc' = [cancelPc EXCEPT ![r] = label]
      BY DEF Cancellation!RegisterChecks, Cancellation!RegisterStarts, Cancellation!RegisterRechecks,
         Cancellation!RegisterCalls, Cancellation!Destroy, Cancellation!DeregisterTooLate, Cancellation!DeregisterWaits,
         Cancellation!RegisterRemoves, Cancellation!Goto, Cancellation!flags, Cancellation!refs, Cancellation!registry,
         Cancellation!canceller, InEntry, Cancellation!RegistrationLabels
    <2>2. m_registrationState \in BOOLEAN
      BY <1>1 DEF CancelTypes, Cancellation!TypeOK
    <2>3. m_registrationState' \in BOOLEAN
      BY <2>1, <2>2
    <2>4. PICK label \in Cancellation!RegistrationLabels : cancelPc' = [cancelPc EXCEPT ![r] = label]
      BY <2>1
    <2>5. cancelPc \in [Registrations \cup Cancellers -> CancelLabels] /\ calls \in [Registrations -> Nat] /\ label \in CancelLabels
      BY <1>1, CancelShape DEF CancelLabels
    <2>6. calls' \in [Registrations -> Nat] /\ \A u \in Registrations : u # r => calls'[u] = calls[u]
      BY <2>1, <2>5
    <2>7. QED BY <2>1, <2>3, <2>4, <2>5, <2>6
  <1>3. \/ cancelPc[r] = "token" /\ cancelPc'[r] \in {"checked", "release"} /\ calls'[r] = calls[r]
        \/ cancelPc[r] = "checked" /\ cancelPc'[r] \in {"add", "callback"} /\ calls'[r] = calls[r]
        \/ cancelPc[r] = "recheck" /\ cancelPc'[r] = (IF requested THEN "remove" ELSE "registered") /\ calls'[r] = calls[r]
        \/ cancelPc[r] = "callback" /\ cancelPc'[r] = "release" /\ calls'[r] = calls[r] + 1
        \/ cancelPc[r] = "registered" /\ cancelPc'[r] = "deregister" /\ calls'[r] = calls[r]
        \/ cancelPc[r] = "deregister" /\ ~InEntry(r) /\ cancelPc'[r] = "wait" /\ calls'[r] = calls[r]
        \/ cancelPc[r] = "wait" /\ notified /\ cancelPc'[r] = "release" /\ calls'[r] = calls[r]
        \/ cancelPc[r] = "remove" /\ ~InEntry(r) /\ cancelPc'[r] = "registered" /\ calls'[r] = calls[r]
    BY <1>1, CancelShape DEF Cancellation!RegisterChecks, Cancellation!RegisterStarts,
       Cancellation!RegisterRechecks, Cancellation!RegisterCalls, Cancellation!Destroy, Cancellation!DeregisterTooLate,
       Cancellation!DeregisterWaits, Cancellation!RegisterRemoves, Cancellation!Goto, InEntry
  <1>4. /\ \A q \in Cancellers : cancelPc'[q] = cancelPc[q] /\ (Visits(q)' <=> Visits(q))
        /\ \A u \in Registrations : u # r => (Claimed(u)' <=> Claimed(u))
        /\ \A u \in Registrations : InEntry(u)' <=> InEntry(u)
        /\ Claimed(r)' => Claimed(r)
    BY <1>2, <1>3 DEF Visits, Claimed, InEntry
  <1>5. CancelTypes'
    <2>1. cancelPc'[r] \in Cancellation!RegistrationLabels
      BY <1>3 DEF Cancellation!RegistrationLabels
    <2>2. Cancellation!TypeOK'
      BY <1>1, <1>2, <1>4, <2>1 DEF CancelTypes, Cancellation!TypeOK
    <2>3. QED BY <1>1, <1>2, <1>4, <2>2 DEF CancelTypes, CancelLabels
  <1>6. CancelRefs'
    BY <1>1, <1>2, <1>3, <1>4, CancelRefsKept
  <1>7. CancelEntries'
    <2>1. \A i \in 1 .. Entries : m_entries[i] = r => Claimed(r)' /\ calls'[r] = 0
      BY <1>1, <1>3, CancelShape DEF CancelEntries, Claimed, InEntry
    <2>2. Claimed(r)' /\ calls'[r] = 0 => InEntry(r)
      BY <1>1, <1>3, <1>4 DEF CancelEntries, Claimed
    <2>3. cancelPc'[r] \in {"token", "checked", "add", "callback"} => calls'[r] = 0
      BY <1>1, <1>3 DEF CancelEntries
    <2>4. calls'[r] <= 1
      BY <1>1, <1>3 DEF CancelEntries
    <2>5. QED BY <1>1, <1>2, <1>4, <2>1, <2>2, <2>3, <2>4 DEF CancelEntries
  <1>8. CancelVisit'
    <2>1. cancelPc'[r] \in {"registered", "deregister"} /\ InEntry(r) =>
            /\ ~notified
            /\ \A q \in Cancellers : Visits(q) =>
                 position[q] <= entryIndex[r] /\ (cancelPc[q] = "called" => position[q] < entryIndex[r])
      BY <1>1, <1>3 DEF CancelVisit
    <2>2. QED BY <1>1, <1>2, <1>4, <2>1 DEF CancelVisit
  <1>9. CancelCalls'
    <2>1. ASSUME NEW q \in Cancellers, running[q] = r
          PROVE  calls'[r] = 1 /\ (Claimed(r)' \/ cancelPc'[r] \in {"wait", "destroyed"})
      <3>1. cancelPc[q] = "called" /\ calls[r] = 1 /\ (Claimed(r) \/ cancelPc[r] \in {"wait", "destroyed"}) /\ ~notified
        BY <1>1, <2>1 DEF CancelCalls, CancelVisit, Visits
      <3>2. QED BY <1>3, <3>1 DEF Claimed
    <2>2. ASSUME NEW q \in Cancellers, running[q] # Nothing, running[q] # r
          PROVE  /\ cancelPc'[q] = "called" /\ calls'[running[q]] = 1
                 /\ Claimed(running[q])' \/ cancelPc'[running[q]] \in {"wait", "destroyed"}
      <3>1. running[q] \in Registrations
        BY <1>1, <2>2, CancelShape
      <3>2. QED BY <1>1, <1>2, <1>4, <2>2, <3>1 DEF CancelCalls, Claimed
    <2>3. \A q \in Cancellers : running[q] # Nothing => cancelPc'[q] = "called"
      BY <1>1, <1>4 DEF CancelCalls
    <2>4. QED BY <1>2, <2>1, <2>2, <2>3 DEF CancelCalls, Claimed
  <1>10. QED BY <1>5, <1>6, <1>7, <1>8, <1>9 DEF CancelInv

(* A registration claims a free entry.                                     *)
LEMMA CancelAdds ==
  ASSUME CancelInv, NEW r \in Registrations, Cancellation!AddRegistration(r)
  PROVE  CancelInv'
  <1> USE CancelParties
  <1>1. CancelTypes /\ CancelRefs /\ CancelEntries /\ CancelVisit /\ CancelCalls
    BY DEF CancelInv
  <1>2. /\ UNCHANGED <<requested, notified, sourceRefs, tokenRefs, deleted, m_registrationState, m_notificationThreadId,
                       position, running, calls>>
        /\ cancelPc[r] = "add" /\ cancelPc' = [cancelPc EXCEPT ![r] = "recheck"]
    BY DEF Cancellation!AddRegistration, Cancellation!Goto, Cancellation!flags, Cancellation!refs, Cancellation!canceller
  <1>3. PICK i \in 1 .. Entries : /\ m_entries[i] = Nothing /\ m_entries' = [m_entries EXCEPT ![i] = r]
                                  /\ entryIndex' = [entryIndex EXCEPT ![r] = i]
    BY DEF Cancellation!AddRegistration
  <1>4. /\ \A t \in Registrations \cup Cancellers : t # r => cancelPc'[t] = cancelPc[t]
        /\ cancelPc'[r] = "recheck" /\ cancelPc' \in [Registrations \cup Cancellers -> CancelLabels]
        /\ m_entries' \in [1 .. Entries -> Registrations \cup {Nothing}]
        /\ m_entries'[i] = r /\ \A j \in 1 .. Entries : j # i => m_entries'[j] = m_entries[j]
        /\ entryIndex' \in [Registrations -> 0 .. Entries]
        /\ entryIndex'[r] = i /\ \A u \in Registrations : u # r => entryIndex'[u] = entryIndex[u]
    BY <1>1, <1>2, <1>3, CancelShape DEF CancelLabels, Cancellation!RegistrationLabels
  <1>5. ~Claimed(r) /\ calls[r] = 0 /\ \A j \in 1 .. Entries : m_entries[j] # r
    BY <1>1, <1>2 DEF CancelEntries, Claimed
  <1>6. /\ \A q \in Cancellers : cancelPc'[q] = cancelPc[q] /\ (Visits(q)' <=> Visits(q))
        /\ \A u \in Registrations : u # r => (Claimed(u)' <=> Claimed(u))
        /\ \A u \in Registrations : u # r /\ Claimed(u) => (InEntry(u)' <=> InEntry(u))
        /\ Claimed(r)' /\ InEntry(r)'
    BY <1>1, <1>3, <1>4 DEF Visits, Claimed, InEntry, CancelTypes
  <1>7. CancelTypes'
    <2>1. Cancellation!TypeOK'
      BY <1>1, <1>2, <1>4 DEF CancelTypes, Cancellation!TypeOK, Cancellation!RegistrationLabels
    <2>2. QED BY <1>1, <1>2, <1>4, <1>6, <2>1 DEF CancelTypes, CancelLabels
  <1>8. CancelRefs'
    BY <1>1, <1>2, <1>4, CancelRefsKept
  <1>9. CancelEntries'
    BY <1>1, <1>2, <1>3, <1>4, <1>5, <1>6 DEF CancelEntries
  <1>10. CancelVisit'
    BY <1>1, <1>2, <1>4, <1>6 DEF CancelVisit, Claimed
  <1>11. CancelCalls'
    <2>1. \A q \in Cancellers : running[q] # r /\ running[q] \in Registrations \cup {Nothing}
      BY <1>1, <1>5, CancelShape DEF CancelCalls
    <2>2. QED BY <1>1, <1>2, <1>4, <1>6, <2>1 DEF CancelCalls
  <1>12. QED BY <1>7, <1>8, <1>9, <1>10, <1>11 DEF CancelInv

(* A registration is in no entry any more: it was taken back or is gone.   *)
LEMMA CancelLeaves ==
  ASSUME CancelInv, NEW r \in Registrations,
         \A i \in 1 .. Entries : m_entries'[i] = IF m_entries[i] = r THEN Nothing ELSE m_entries[i],
         \A t \in Registrations \cup Cancellers : t # r => cancelPc'[t] = cancelPc[t],
         \A u \in Registrations : u # r => entryIndex'[u] = entryIndex[u],
         UNCHANGED <<requested, notified, position, running, calls>>,
         cancelPc'[r] = "destroyed" \/ (cancelPc'[r] \in {"callback", "release"} /\ calls[r] = 0)
  PROVE  CancelEntries' /\ CancelVisit' /\ CancelCalls'
  <1> USE CancelParties
  <1>1. CancelTypes /\ CancelRefs /\ CancelEntries /\ CancelVisit /\ CancelCalls
    BY DEF CancelInv
  <1>2. /\ \A q \in Cancellers : cancelPc'[q] = cancelPc[q] /\ (Visits(q)' <=> Visits(q))
        /\ \A u \in Registrations : u # r => (Claimed(u)' <=> Claimed(u))
        /\ \A u \in Registrations : u # r /\ Claimed(u) => (InEntry(u)' <=> InEntry(u))
        /\ ~Claimed(r)'
    BY <1>1 DEF Visits, Claimed, InEntry, CancelTypes
  <1>3. CancelEntries'
    <2>1. \A i \in 1 .. Entries : m_entries'[i] # r /\ \A u \in Registrations : m_entries'[i] = u => m_entries[i] = u
      OBVIOUS
    <2>2. cancelPc'[r] \in {"token", "checked", "add", "callback"} => calls[r] = 0
      OBVIOUS
    <2>3. QED BY <1>1, <1>2, <2>1, <2>2 DEF CancelEntries
  <1>4. CancelVisit'
    BY <1>1, <1>2 DEF CancelVisit, Claimed
  <1>5. CancelCalls'
    <2>1. ASSUME NEW q \in Cancellers, running[q] # Nothing
          PROVE  /\ cancelPc'[q] = "called" /\ calls[running[q]] = 1
                 /\ Claimed(running[q])' \/ cancelPc'[running[q]] \in {"wait", "destroyed"}
      <3>1. running[q] \in Registrations /\ calls[running[q]] = 1
        BY <1>1, <2>1, CancelShape DEF CancelCalls
      <3>2. running[q] = r => cancelPc'[r] = "destroyed"
        BY <3>1
      <3>3. QED BY <1>1, <1>2, <2>1, <3>1, <3>2 DEF CancelCalls
    <2>2. QED BY <2>1 DEF CancelCalls, Claimed
  <1>6. QED BY <1>3, <1>4, <1>5

(* The registration is taken back from its entry by its own thread.        *)
LEMMA CancelTakesBack ==
  ASSUME CancelInv, NEW r \in Registrations,
         (Cancellation!RegisterRemoves(r) /\ InEntry(r)) \/ Cancellation!Deregisters(r)
  PROVE  CancelInv'
  <1> USE CancelParties
  <1>1. CancelTypes /\ CancelRefs /\ CancelEntries /\ CancelVisit /\ CancelCalls
    BY DEF CancelInv
  <1>2. /\ UNCHANGED <<requested, notified, sourceRefs, tokenRefs, deleted, m_registrationState, m_notificationThreadId,
                       entryIndex, position, running, calls>>
        /\ m_entries' = [m_entries EXCEPT ![entryIndex[r]] = Nothing] /\ InEntry(r) /\ Claimed(r)
        /\ \E label \in {"callback", "release"} : cancelPc' = [cancelPc EXCEPT ![r] = label]
    BY DEF Cancellation!RegisterRemoves, Cancellation!Deregisters, Cancellation!TakeBack, Cancellation!Goto,
       Cancellation!flags, Cancellation!refs, Cancellation!canceller, InEntry, Claimed
  <1>3. entryIndex[r] \in 1 .. Entries /\ calls[r] = 0
    BY <1>1, <1>2 DEF CancelTypes, CancelEntries, InEntry
  <1>4. /\ m_entries' \in [1 .. Entries -> Registrations \cup {Nothing}]
        /\ \A i \in 1 .. Entries : m_entries'[i] = IF m_entries[i] = r THEN Nothing ELSE m_entries[i]
    BY <1>1, <1>2, <1>3, CancelShape DEF CancelEntries, InEntry
  <1>5. /\ \A t \in Registrations \cup Cancellers : t # r => cancelPc'[t] = cancelPc[t]
        /\ cancelPc'[r] \in {"callback", "release"} /\ cancelPc' \in [Registrations \cup Cancellers -> CancelLabels]
    BY <1>1, <1>2, CancelShape DEF CancelLabels, Cancellation!RegistrationLabels
  <1>6. CancelTypes'
    <2>1. Cancellation!TypeOK'
      BY <1>1, <1>2, <1>4, <1>5 DEF CancelTypes, Cancellation!TypeOK, Cancellation!RegistrationLabels
    <2>2. QED BY <1>1, <1>2, <1>5, <2>1 DEF CancelTypes, CancelLabels, Claimed
  <1>7. CancelRefs'
    BY <1>1, <1>2, <1>5, CancelRefsKept DEF Claimed
  <1>8. CancelEntries' /\ CancelVisit' /\ CancelCalls'
    BY <1>2, <1>3, <1>4, <1>5, CancelLeaves
  <1>9. QED BY <1>6, <1>7, <1>8 DEF CancelInv

(* One less is left.                                                       *)
LEMMA CountAfterLeaving ==
  ASSUME NEW S, IsFiniteSet(S), NEW x \in S
  PROVE  Cardinality(S) \in Nat /\ Cardinality(S \ {x}) = Cardinality(S) - 1 /\ Cardinality(S) > 0
  BY FS_CardinalityType, FS_RemoveElement, FS_EmptySet

(* A registration drops its reference.                                     *)
LEMMA CancelReleases ==
  ASSUME CancelInv, NEW r \in Registrations,
         Cancellation!Release(r) \/ \E q \in Cancellers : Cancellation!CallbackDestroys(q, r)
  PROVE  CancelInv'
  <1> USE CancelParties
  <1>1. CancelTypes /\ CancelRefs /\ CancelEntries /\ CancelVisit /\ CancelCalls
    BY DEF CancelInv
  <1>2. /\ UNCHANGED <<requested, notified, sourceRefs, m_registrationState, m_notificationThreadId, position, running, calls>>
        /\ tokenRefs' = tokenRefs - 1
        /\ deleted' = (deleted \/ (tokenRefs = 1 /\ sourceRefs = 0))
        /\ entryIndex' = [entryIndex EXCEPT ![r] = 0]
        /\ cancelPc[r] \in {"release", "registered"} /\ cancelPc' = [cancelPc EXCEPT ![r] = "destroyed"]
    BY DEF Cancellation!Release, Cancellation!CallbackDestroys, Cancellation!ReleaseTokenRef, Cancellation!Goto,
       Cancellation!flags, Cancellation!canceller
  <1>3. \/ cancelPc[r] = "release" /\ m_entries' = m_entries
        \/ /\ cancelPc[r] = "registered"
           /\ \/ InEntry(r) /\ m_entries' = [m_entries EXCEPT ![entryIndex[r]] = Nothing]
              \/ ~InEntry(r) /\ m_entries' = m_entries
    BY DEF Cancellation!Release, Cancellation!CallbackDestroys, Cancellation!TakeBack, InEntry
  <1>4. /\ m_entries' \in [1 .. Entries -> Registrations \cup {Nothing}]
        /\ \A i \in 1 .. Entries : m_entries'[i] = IF m_entries[i] = r THEN Nothing ELSE m_entries[i]
    <2>1. CASE m_entries' = m_entries
      <3>1. \A i \in 1 .. Entries : m_entries[i] # r
        <4>1. ASSUME NEW i \in 1 .. Entries, m_entries[i] = r PROVE FALSE
          <5>1. Claimed(r) /\ entryIndex[r] = i
            BY <1>1, <4>1 DEF CancelEntries
          <5>2. InEntry(r)
            BY <4>1, <5>1 DEF InEntry
          <5>3. m_entries'[entryIndex[r]] = Nothing
            BY <1>1, <1>3, <4>1, <5>1, <5>2, CancelShape DEF Claimed
          <5>4. QED BY <2>1, <4>1, <5>1, <5>3
        <4>2. QED BY <4>1
      <3>2. QED BY <1>1, <2>1, <3>1, CancelShape
    <2>2. CASE cancelPc[r] = "registered" /\ InEntry(r) /\ m_entries' = [m_entries EXCEPT ![entryIndex[r]] = Nothing]
      <3>1. entryIndex[r] \in 1 .. Entries
        BY <1>1, <2>2 DEF CancelTypes, Claimed
      <3>2. QED BY <1>1, <2>2, <3>1, CancelShape DEF CancelEntries, InEntry
    <2>3. QED BY <1>3, <2>1, <2>2
  <1>5. /\ \A t \in Registrations \cup Cancellers : t # r => cancelPc'[t] = cancelPc[t]
        /\ cancelPc'[r] = "destroyed" /\ cancelPc' \in [Registrations \cup Cancellers -> CancelLabels]
        /\ entryIndex' \in [Registrations -> 0 .. Entries]
        /\ \A u \in Registrations : u # r => entryIndex'[u] = entryIndex[u]
    BY <1>1, <1>2, CancelShape DEF CancelLabels, Cancellation!RegistrationLabels
  <1> DEFINE left == {u \in Registrations : cancelPc[u] # "destroyed"}
  <1>6. /\ Cardinality(left) \in Nat /\ Cardinality(left) > 0 /\ tokenRefs = Cardinality(left)
        /\ tokenRefs' = Cardinality({u \in Registrations : cancelPc'[u] # "destroyed"})
    <2>1. IsFiniteSet(left) /\ r \in left
      BY <1>2, CancellationUsers, FS_Subset
    <2>2. {u \in Registrations : cancelPc'[u] # "destroyed"} = left \ {r}
      BY <1>5
    <2>3. tokenRefs = Cardinality(left)
      BY <1>1 DEF CancelRefs
    <2> HIDE DEF left
    <2>4. QED BY <1>2, <2>1, <2>2, <2>3, CountAfterLeaving
  <1>7. CancelTypes'
    <2>1. tokenRefs' \in 0 .. Cardinality(Registrations)
      BY <1>1, <1>2, <1>6, CancelCardinality, CancellationUsers, FS_CardinalityType DEF CancelTypes, Cancellation!TypeOK
    <2>2. deleted' \in BOOLEAN
      BY <1>2
    <2>3. Cancellation!TypeOK'
      BY <1>1, <1>2, <1>4, <1>5, <2>1, <2>2, CancelCardinality DEF CancelTypes, Cancellation!TypeOK, Cancellation!RegistrationLabels
    <2>4. QED BY <1>1, <1>2, <1>5, <2>3 DEF CancelTypes, CancelLabels, Claimed
  <1>8. CancelRefs'
    <2>1. {q \in Cancellers : cancelPc'[q] # "gone"} = {q \in Cancellers : cancelPc[q] # "gone"}
      BY <1>5
    <2>2. tokenRefs # 0 /\ (tokenRefs = 1 <=> tokenRefs' = 0)
      <3> HIDE DEF left
      <3>1. QED BY <1>2, <1>6
    <2>4. deleted' <=> tokenRefs' = 0 /\ sourceRefs' = 0
      BY <1>1, <1>2, <2>2, Zenon DEF CancelRefs
    <2>3. QED BY <1>1, <1>2, <1>6, <2>1, <2>4 DEF CancelRefs
  <1>9. CancelEntries' /\ CancelVisit' /\ CancelCalls'
    BY <1>2, <1>4, <1>5, CancelLeaves
  <1>10. QED BY <1>7, <1>8, <1>9 DEF CancelInv

(* A canceller drops its source.                                           *)
LEMMA CancelReleasesSource ==
  ASSUME CancelInv, NEW q \in Cancellers, Cancellation!ReleaseSource(q)
  PROVE  CancelInv'
  <1> USE CancelParties
  <1>1. CancelTypes /\ CancelRefs /\ CancelEntries /\ CancelVisit /\ CancelCalls
    BY DEF CancelInv
  <1>2. /\ UNCHANGED <<requested, notified, tokenRefs, m_registrationState, m_notificationThreadId, m_entries, entryIndex,
                       position, running, calls>>
        /\ sourceRefs' = sourceRefs - 1
        /\ deleted' = (deleted \/ (sourceRefs = 1 /\ tokenRefs = 0))
        /\ cancelPc[q] \in {"complete", "release"} /\ cancelPc' = [cancelPc EXCEPT ![q] = "gone"]
    BY DEF Cancellation!ReleaseSource, Cancellation!ReleaseSourceRef, Cancellation!Goto, Cancellation!flags,
       Cancellation!registry, Cancellation!canceller
  <1>3. /\ \A t \in Registrations \cup Cancellers : t # q => cancelPc'[t] = cancelPc[t]
        /\ cancelPc'[q] = "gone" /\ cancelPc' \in [Registrations \cup Cancellers -> CancelLabels]
    BY <1>1, <1>2, CancelShape DEF CancelLabels, Cancellation!CancellerLabels
  <1>4. /\ \A r \in Registrations : cancelPc'[r] = cancelPc[r] /\ (Claimed(r)' <=> Claimed(r)) /\ (InEntry(r)' <=> InEntry(r))
        /\ \A p \in Cancellers : Visits(p)' <=> Visits(p)
    BY <1>2, <1>3 DEF Claimed, InEntry, Visits
  <1> DEFINE left == {p \in Cancellers : cancelPc[p] # "gone"}
  <1>5. /\ Cardinality(left) \in Nat /\ Cardinality(left) > 0 /\ sourceRefs = Cardinality(left)
        /\ sourceRefs' = Cardinality({p \in Cancellers : cancelPc'[p] # "gone"})
    <2>1. IsFiniteSet(left) /\ q \in left
      BY <1>2, CancellationUsers, FS_Subset
    <2>2. {p \in Cancellers : cancelPc'[p] # "gone"} = left \ {q}
      BY <1>3
    <2>3. sourceRefs = Cardinality(left)
      BY <1>1 DEF CancelRefs
    <2> HIDE DEF left
    <2>4. QED BY <1>2, <2>1, <2>2, <2>3, CountAfterLeaving
  <1>6. CancelTypes'
    <2>1. sourceRefs' \in 0 .. Cardinality(Cancellers)
      BY <1>1, <1>2, <1>5, CancelCardinality, CancellationUsers, FS_CardinalityType DEF CancelTypes, Cancellation!TypeOK
    <2>2. deleted' \in BOOLEAN
      BY <1>2
    <2>3. Cancellation!TypeOK'
      BY <1>1, <1>2, <1>3, <2>1, <2>2, CancelCardinality DEF CancelTypes, Cancellation!TypeOK, Cancellation!CancellerLabels
    <2>4. QED BY <1>1, <1>2, <1>3, <1>4, <2>3 DEF CancelTypes, CancelLabels
  <1>7. CancelRefs'
    <2>1. {r \in Registrations : cancelPc'[r] # "destroyed"} = {r \in Registrations : cancelPc[r] # "destroyed"}
      BY <1>4
    <2>2. sourceRefs # 0 /\ (sourceRefs = 1 <=> sourceRefs' = 0)
      <3> HIDE DEF left
      <3>1. QED BY <1>2, <1>5
    <2>4. deleted' <=> tokenRefs' = 0 /\ sourceRefs' = 0
      BY <1>1, <1>2, <2>2, Zenon DEF CancelRefs
    <2>3. QED BY <1>1, <1>2, <1>5, <2>1, <2>4 DEF CancelRefs
  <1>8. CancelEntries'
    BY <1>1, <1>2, <1>4 DEF CancelEntries
  <1>9. CancelVisit'
    BY <1>1, <1>2, <1>3, <1>4 DEF CancelVisit, Visits
  <1>10. CancelCalls'
    <2>1. \A p \in Cancellers : running[p] # Nothing => p # q /\ running[p] \in Registrations
      BY <1>1, <1>2, CancelShape DEF CancelCalls
    <2>2. QED BY <1>1, <1>2, <1>3, <1>4, <2>1 DEF CancelCalls
  <1>11. QED BY <1>6, <1>7, <1>8, <1>9, <1>10 DEF CancelInv

(* A canceller goes on: entries and registrations are left alone.          *)
LEMMA CancelGoesOn ==
  ASSUME CancelInv, NEW q \in Cancellers,
         \/ Cancellation!RequestIsNoOp(q) \/ Cancellation!RequestCancellation(q) \/ Cancellation!DestroySource(q)
         \/ Cancellation!RequestLoads(q) \/ Cancellation!ScanSkips(q) \/ Cancellation!ScanFinds(q)
         \/ (Cancellation!ScanAcquires(q) /\ m_entries[position[q]] = Nothing)
         \/ Cancellation!CallbackReturns(q) \/ Cancellation!ScanEnds(q)
  PROVE  CancelInv'
  <1> USE CancelParties
  <1>1. CancelTypes /\ CancelRefs /\ CancelEntries /\ CancelVisit /\ CancelCalls
    BY DEF CancelInv
  <1>2. UNCHANGED <<sourceRefs, tokenRefs, deleted, m_registrationState, m_entries, entryIndex, calls>>
    BY DEF Cancellation!RequestIsNoOp, Cancellation!RequestCancellation, Cancellation!DestroySource,
       Cancellation!RequestLoads, Cancellation!ScanSkips, Cancellation!ScanFinds, Cancellation!ScanAcquires,
       Cancellation!CallbackReturns, Cancellation!ScanEnds, Cancellation!flags, Cancellation!refs, Cancellation!registry,
       Cancellation!canceller
  <1>3. m_notificationThreadId' = m_notificationThreadId \/ m_notificationThreadId' = q
    BY DEF Cancellation!RequestIsNoOp, Cancellation!RequestCancellation, Cancellation!DestroySource,
       Cancellation!RequestLoads, Cancellation!ScanSkips, Cancellation!ScanFinds, Cancellation!ScanAcquires,
       Cancellation!CallbackReturns, Cancellation!ScanEnds, Cancellation!flags, Cancellation!refs, Cancellation!registry,
       Cancellation!canceller
  <1>4. \/ /\ cancelPc[q] \in {"source", "load", "complete"}
           /\ cancelPc' = [cancelPc EXCEPT ![q] = "release"] /\ UNCHANGED <<requested, notified, position, running>>
        \/ /\ cancelPc[q] = "source" /\ ~requested /\ requested' = TRUE
           /\ cancelPc' = [cancelPc EXCEPT ![q] = "load"] /\ UNCHANGED <<notified, position, running>>
        \/ /\ cancelPc[q] = "load"
           /\ cancelPc' = [cancelPc EXCEPT ![q] = "scan"] /\ UNCHANGED <<requested, notified, position, running>>
        \/ /\ cancelPc[q] \in {"scan", "acquire"} /\ position[q] <= Entries /\ m_entries[position[q]] = Nothing
           /\ position' = [position EXCEPT ![q] = @ + 1]
           /\ cancelPc' = [cancelPc EXCEPT ![q] = "scan"] /\ UNCHANGED <<requested, notified, running>>
        \/ /\ cancelPc[q] = "scan" /\ position[q] <= Entries
           /\ cancelPc' = [cancelPc EXCEPT ![q] = "acquire"] /\ UNCHANGED <<requested, notified, position, running>>
        \/ /\ cancelPc[q] = "called" /\ position[q] <= Entries
           /\ position' = [position EXCEPT ![q] = @ + 1]
           /\ running' = [running EXCEPT ![q] = Nothing]
           /\ cancelPc' = [cancelPc EXCEPT ![q] = "scan"] /\ UNCHANGED <<requested, notified>>
        \/ /\ cancelPc[q] = "scan" /\ position[q] > Entries /\ notified' = TRUE
           /\ cancelPc' = [cancelPc EXCEPT ![q] = "complete"] /\ UNCHANGED <<requested, position, running>>
    <2>1. cancelPc[q] \in {"acquire", "called"} => position[q] <= Entries
      BY <1>1 DEF CancelTypes
    <2>2. CASE Cancellation!ScanSkips(q)
      <3>1. cancelPc' = [cancelPc EXCEPT ![q] = "scan"]
        BY <1>1, <2>2, CancelShape DEF Cancellation!ScanSkips
      <3>2. QED BY <2>2, <3>1 DEF Cancellation!ScanSkips, Cancellation!NextEntry, Cancellation!flags
    <2>3. CASE Cancellation!RequestIsNoOp(q) \/ Cancellation!RequestCancellation(q) \/ Cancellation!DestroySource(q)
               \/ Cancellation!RequestLoads(q) \/ Cancellation!ScanFinds(q) \/ Cancellation!ScanEnds(q)
      BY <2>3 DEF Cancellation!RequestIsNoOp, Cancellation!RequestCancellation, Cancellation!DestroySource,
         Cancellation!RequestLoads, Cancellation!ScanFinds, Cancellation!ScanEnds, Cancellation!Goto, Cancellation!flags,
         Cancellation!canceller
    <2>4. CASE (Cancellation!ScanAcquires(q) /\ m_entries[position[q]] = Nothing) \/ Cancellation!CallbackReturns(q)
      BY <2>1, <2>4 DEF Cancellation!ScanAcquires, Cancellation!CallbackReturns, Cancellation!Goto, Cancellation!flags,
         Cancellation!NextEntry
    <2>5. QED BY <2>2, <2>3, <2>4
  <1>5. /\ \A t \in Registrations \cup Cancellers : t # q => cancelPc'[t] = cancelPc[t]
        /\ cancelPc' \in [Registrations \cup Cancellers -> CancelLabels] /\ cancelPc'[q] \in Cancellation!CancellerLabels
        /\ cancelPc[q] # "gone" /\ cancelPc'[q] # "gone"
    <2>1. /\ cancelPc \in [Registrations \cup Cancellers -> CancelLabels]
          /\ {"release", "load", "scan", "acquire", "complete"} \subseteq Cancellation!CancellerLabels
          /\ {"release", "load", "scan", "acquire", "complete"} \subseteq CancelLabels
      BY <1>1, CancelShape DEF Cancellation!CancellerLabels, CancelLabels
    <2>2. \E label \in {"release", "load", "scan", "acquire", "complete"} : cancelPc' = [cancelPc EXCEPT ![q] = label]
      BY <1>4
    <2>3. PICK label \in {"release", "load", "scan", "acquire", "complete"} : cancelPc' = [cancelPc EXCEPT ![q] = label]
      BY <2>2
    <2>4. cancelPc[q] # "gone"
      BY <1>4
    <2>5. QED BY <2>1, <2>3, <2>4
  <1>6. /\ position' \in [Cancellers -> 1 .. Entries + 1]
        /\ \A p \in Cancellers : p # q => position'[p] = position[p]
        /\ running' \in [Cancellers -> Registrations \cup {Nothing}]
        /\ \A p \in Cancellers : p # q => running'[p] = running[p]
    <2>1. position \in [Cancellers -> 1 .. Entries + 1] /\ running \in [Cancellers -> Registrations \cup {Nothing}]
      BY <1>1, CancelShape
    <2>2. position' = position \/ (position[q] <= Entries /\ position' = [position EXCEPT ![q] = @ + 1])
      BY <1>4
    <2>3. running' = running \/ running' = [running EXCEPT ![q] = Nothing]
      BY <1>4
    <2>4. QED BY <2>1, <2>2, <2>3
  <1>7. \A r \in Registrations : cancelPc'[r] = cancelPc[r] /\ (Claimed(r)' <=> Claimed(r)) /\ (InEntry(r)' <=> InEntry(r))
    BY <1>2, <1>5 DEF Claimed, InEntry
  <1>8. \A p \in Cancellers : p # q => cancelPc'[p] = cancelPc[p] /\ (Visits(p)' <=> Visits(p))
    BY <1>5 DEF Visits
  <1>9. \/ cancelPc[q] \in {"source", "load", "complete"} /\ cancelPc'[q] = "release" /\ position'[q] = position[q]
        \/ cancelPc[q] = "source" /\ ~requested /\ cancelPc'[q] = "load" /\ position'[q] = position[q]
        \/ cancelPc[q] = "load" /\ cancelPc'[q] = "scan" /\ position'[q] = position[q]
        \/ /\ cancelPc[q] \in {"scan", "acquire"} /\ cancelPc'[q] = "scan" /\ position'[q] = position[q] + 1
           /\ m_entries[position[q]] = Nothing
        \/ cancelPc[q] = "scan" /\ position[q] <= Entries /\ cancelPc'[q] = "acquire" /\ position'[q] = position[q]
        \/ cancelPc[q] = "called" /\ cancelPc'[q] = "scan" /\ position'[q] = position[q] + 1 /\ running'[q] = Nothing
        \/ cancelPc[q] = "scan" /\ position[q] > Entries /\ cancelPc'[q] = "complete" /\ position'[q] = position[q]
    BY <1>1, <1>4, CancelShape
  <1>10. CancelTypes'
    <2>1. requested' \in BOOLEAN /\ notified' \in BOOLEAN
      <3>1. (requested' = requested \/ requested' = TRUE) /\ (notified' = notified \/ notified' = TRUE)
        BY <1>4
      <3>2. QED BY <1>1, <3>1, CancelShape
    <2>2. Cancellation!TypeOK'
      BY <1>1, <1>2, <1>3, <1>5, <1>6, <1>7, <2>1 DEF CancelTypes, Cancellation!TypeOK
    <2>3. \A p \in Cancellers : cancelPc'[p] \in {"acquire", "called"} => position'[p] <= Entries
      BY <1>1, <1>6, <1>8, <1>9 DEF CancelTypes
    <2>4. QED BY <1>1, <1>2, <1>5, <1>7, <2>2, <2>3 DEF CancelTypes, CancelLabels
  <1>11. CancelRefs'
    BY <1>1, <1>2, <1>5, <1>7, <1>8, CancelRefsKept
  <1>12. CancelEntries'
    BY <1>1, <1>2, <1>7 DEF CancelEntries
  <1>13. CancelVisit'
    <2>0. /\ requested' = requested \/ requested' = TRUE
          /\ notified' = notified \/ (notified' = TRUE /\ Visits(q) /\ ~Visits(q)' /\ position[q] > Entries)
          /\ cancelPc[q] \notin {"source", "scan"} => UNCHANGED <<requested, notified>>
          /\ cancelPc[q] = "source" => notified' = notified /\ (requested' = requested \/ (~requested /\ requested'))
          /\ cancelPc[q] = "scan" => requested' = requested
          /\ cancelPc[q] = "source" /\ Visits(q)' => ~requested /\ requested'
      <3>1. Visits(q) <=> cancelPc[q] \in {"load", "scan", "acquire", "called"}
        BY DEF Visits
      <3>2. Visits(q)' <=> cancelPc'[q] \in {"load", "scan", "acquire", "called"}
        BY DEF Visits
      <3>3. cancelPc \in [Registrations \cup Cancellers -> CancelLabels]
        BY <1>1, CancelShape
      <3>4. QED BY <1>4, <3>1, <3>2, <3>3
    <2>1. \/ Visits(q) /\ (requested' <=> requested)
          \/ ~Visits(q) /\ ~Visits(q)' /\ (requested' <=> requested) /\ (notified' <=> notified)
          \/ cancelPc[q] = "source" /\ ~requested /\ requested' /\ (notified' <=> notified)
      <3>1. Visits(q) <=> cancelPc[q] \in {"load", "scan", "acquire", "called"}
        BY DEF Visits
      <3>2. Visits(q)' => Visits(q) \/ cancelPc[q] = "source"
        BY <1>9, <3>1 DEF Visits
      <3>3. QED BY <2>0, <3>1, <3>2, Zenon
    <2>2. \A p, u \in Cancellers : Visits(p)' /\ Visits(u)' => p = u
      BY <1>1, <1>8, <2>1 DEF CancelVisit
    <2>3. notified' => notified \/ (Visits(q) /\ ~Visits(q)' /\ position[q] > Entries)
      BY <2>0, Zenon
    <2>4. \A p \in Cancellers : Visits(p)' => requested' /\ ~notified'
      BY <1>1, <1>8, <2>1, <2>3 DEF CancelVisit
    <2>5. notified' => requested'
      BY <1>1, <2>1, <2>3 DEF CancelVisit
    <2>6. \A p \in Cancellers : cancelPc'[p] = "source" => position'[p] = 1
      BY <1>1, <1>6, <1>8, <1>9 DEF CancelVisit
    <2>7. ASSUME NEW r \in Registrations, cancelPc[r] \in {"registered", "deregister"}, InEntry(r)
          PROVE  /\ ~notified'
                 /\ \A p \in Cancellers : Visits(p)' =>
                      position'[p] <= entryIndex[r] /\ (cancelPc'[p] = "called" => position'[p] < entryIndex[r])
      <3>1. /\ entryIndex[r] \in 1 .. Entries /\ m_entries[entryIndex[r]] = r
            /\ position[q] \in 1 .. Entries + 1
        BY <1>1, <2>7, CancelShape DEF CancelTypes, Claimed, InEntry
      <3>2. ~notified'
        BY <1>1, <2>3, <2>7, <3>1 DEF CancelVisit
      <3>3. Visits(q)' => position'[q] <= entryIndex[r] /\ (cancelPc'[q] = "called" => position'[q] < entryIndex[r])
        <4>1. CASE cancelPc[q] = "source"
          BY <1>1, <1>9, <3>1, <4>1 DEF CancelVisit, Visits
        <4>2. CASE Visits(q)
          <5>1. position[q] <= entryIndex[r] /\ (cancelPc[q] = "called" => position[q] < entryIndex[r])
            BY <1>1, <2>7, <4>2 DEF CancelVisit
          <5>2. QED BY <1>9, <3>1, <5>1
        <4>3. QED BY <1>9, <4>1, <4>2 DEF Visits
      <3>4. QED BY <1>1, <1>6, <1>8, <2>7, <3>2, <3>3 DEF CancelVisit
    <2>8. QED BY <1>2, <1>7, <2>2, <2>4, <2>5, <2>6, <2>7 DEF CancelVisit
  <1>14. CancelCalls'
    <2>1. running'[q] = Nothing
      <3>1. running[q] # Nothing => cancelPc[q] = "called"
        BY <1>1 DEF CancelCalls
      <3>2. running'[q] = running[q] \/ running'[q] = Nothing
        BY <1>1, <1>4, CancelShape
      <3>3. cancelPc[q] = "called" => running'[q] = Nothing
        BY <1>9
      <3>4. QED BY <3>1, <3>2, <3>3
    <2>2. \A p \in Cancellers : running'[p] # Nothing => p # q /\ running'[p] = running[p] /\ running[p] \in Registrations
      BY <1>6, <2>1
    <2>3. QED BY <1>1, <1>2, <1>7, <1>8, <2>2 DEF CancelCalls
  <1>15. QED BY <1>10, <1>11, <1>12, <1>13, <1>14 DEF CancelInv

(* A canceller takes a registration out of its entry and calls it.         *)
LEMMA CancelAcquires ==
  ASSUME CancelInv, NEW q \in Cancellers, Cancellation!ScanAcquires(q), m_entries[position[q]] # Nothing
  PROVE  CancelInv'
  <1> USE CancelParties
  <1>1. CancelTypes /\ CancelRefs /\ CancelEntries /\ CancelVisit /\ CancelCalls
    BY DEF CancelInv
  <1> DEFINE i == position[q]
             r == m_entries[i]
  <1>2. /\ UNCHANGED <<requested, notified, sourceRefs, tokenRefs, deleted, m_registrationState, m_notificationThreadId,
                       entryIndex, position>>
        /\ cancelPc[q] = "acquire" /\ cancelPc' = [cancelPc EXCEPT ![q] = "called"]
        /\ m_entries' = [m_entries EXCEPT ![i] = Nothing]
        /\ running' = [running EXCEPT ![q] = r]
        /\ calls' = [calls EXCEPT ![r] = @ + 1]
    BY DEF Cancellation!ScanAcquires, Cancellation!Goto, Cancellation!flags, Cancellation!refs
  <1>3. i \in 1 .. Entries /\ r \in Registrations
    BY <1>1, <1>2, CancelShape DEF CancelTypes
  <1>4. Claimed(r) /\ entryIndex[r] = i /\ calls[r] = 0
    BY <1>1, <1>3 DEF CancelEntries
  <1> HIDE DEF r, i
  <1>5. /\ \A t \in Registrations \cup Cancellers : t # q => cancelPc'[t] = cancelPc[t]
        /\ cancelPc'[q] = "called" /\ cancelPc' \in [Registrations \cup Cancellers -> CancelLabels]
        /\ m_entries' \in [1 .. Entries -> Registrations \cup {Nothing}]
        /\ m_entries'[i] = Nothing /\ \A j \in 1 .. Entries : j # i => m_entries'[j] = m_entries[j]
        /\ running' \in [Cancellers -> Registrations \cup {Nothing}]
        /\ running'[q] = r /\ \A p \in Cancellers : p # q => running'[p] = running[p]
        /\ calls' \in [Registrations -> Nat]
        /\ calls'[r] = 1 /\ \A u \in Registrations : u # r => calls'[u] = calls[u]
    BY <1>1, <1>2, <1>3, <1>4, CancelShape DEF CancelLabels, Cancellation!CancellerLabels
  <1>6. /\ \A u \in Registrations : cancelPc'[u] = cancelPc[u] /\ (Claimed(u)' <=> Claimed(u))
        /\ \A u \in Registrations : u # r /\ Claimed(u) /\ calls[u] = 0 => (InEntry(u)' <=> InEntry(u))
        /\ \A u \in Registrations : InEntry(u)' /\ Claimed(u) => InEntry(u) /\ u # r
        /\ \A p \in Cancellers : Visits(p)' <=> Visits(p)
        /\ Visits(q)
    <2>1. \A u \in Registrations : cancelPc'[u] = cancelPc[u] /\ (Claimed(u)' <=> Claimed(u))
      BY <1>5 DEF Claimed
    <2>2. (\A p \in Cancellers : Visits(p)' <=> Visits(p)) /\ Visits(q)
      BY <1>2, <1>5 DEF Visits
    <2>3. ASSUME NEW u \in Registrations, Claimed(u)
          PROVE  /\ InEntry(u)' => InEntry(u) /\ u # r
                 /\ u # r /\ calls[u] = 0 => (InEntry(u)' <=> InEntry(u))
      <3>1. entryIndex[u] \in 1 .. Entries /\ entryIndex'[u] = entryIndex[u]
        BY <1>1, <1>2, <2>3 DEF CancelTypes
      <3>2. m_entries[i] = r
        BY DEF r
      <3>3. QED BY <1>3, <1>4, <1>5, <3>1, <3>2 DEF InEntry
    <2>4. QED BY <2>1, <2>2, <2>3
  <1>7. CancelTypes'
    <2>1. Cancellation!TypeOK'
      BY <1>1, <1>2, <1>5, <1>6 DEF CancelTypes, Cancellation!TypeOK, Cancellation!CancellerLabels
    <2>2. position[q] <= Entries
      BY <1>3 DEF i
    <2>3. QED BY <1>1, <1>2, <1>5, <1>6, <2>1, <2>2 DEF CancelTypes, CancelLabels
  <1>8. CancelRefs'
    BY <1>1, <1>2, <1>5, <1>6, CancelRefsKept
  <1>9. CancelEntries'
    <2>1. \A j \in 1 .. Entries, u \in Registrations :
            m_entries'[j] = u => Claimed(u)' /\ entryIndex'[u] = j /\ calls'[u] = 0
      BY <1>1, <1>2, <1>3, <1>4, <1>5, <1>6 DEF CancelEntries
    <2>2. \A u \in Registrations : cancelPc'[u] \in {"token", "checked", "add", "callback"} => calls'[u] = 0
      BY <1>1, <1>4, <1>5, <1>6 DEF CancelEntries, Claimed
    <2>3. \A u \in Registrations : calls'[u] <= 1 /\ (Claimed(u)' /\ calls'[u] = 0 => InEntry(u)')
      BY <1>1, <1>5, <1>6 DEF CancelEntries
    <2>4. QED BY <2>1, <2>2, <2>3 DEF CancelEntries
  <1>10. CancelVisit'
    <2>1. ASSUME NEW u \in Registrations, cancelPc'[u] \in {"registered", "deregister"}, InEntry(u)'
          PROVE  /\ ~notified
                 /\ \A p \in Cancellers : Visits(p) =>
                      position[p] <= entryIndex[u] /\ (cancelPc'[p] = "called" => position[p] < entryIndex[u])
      <3>1. InEntry(u) /\ u # r /\ cancelPc[u] \in {"registered", "deregister"} /\ Claimed(u)
        BY <1>6, <2>1 DEF Claimed
      <3>2. entryIndex[u] # i /\ entryIndex[u] \in 1 .. Entries
        BY <1>1, <3>1 DEF InEntry, CancelTypes, r
      <3>3. ~notified /\ position[q] <= entryIndex[u] /\ \A p \in Cancellers : Visits(p) => p = q
        BY <1>1, <1>6, <3>1 DEF CancelVisit
      <3>4. position[q] < entryIndex[u]
        BY <1>3, <3>2, <3>3 DEF i
      <3>5. QED BY <3>3, <3>4
    <2>2. \A p \in Cancellers : cancelPc'[p] = "source" => cancelPc[p] = "source"
      BY <1>5
    <2>3. QED BY <1>1, <1>2, <1>6, <2>1, <2>2 DEF CancelVisit
  <1>11. CancelCalls'
    <2>1. ASSUME NEW p \in Cancellers, NEW u \in Registrations, running'[p] = u
          PROVE  cancelPc'[p] = "called" /\ calls'[u] = 1 /\ (Claimed(u)' \/ cancelPc'[u] \in {"wait", "destroyed"})
      <3>1. CASE p = q
        <4>1. u = r
          BY <1>5, <2>1, <3>1
        <4>2. QED BY <1>4, <1>5, <1>6, <3>1, <4>1
      <3>2. CASE p # q
        <4>1. running[p] # Nothing /\ running[p] \in Registrations /\ cancelPc[p] = "called"
          BY <1>1, <1>5, <2>1, <3>2, CancelShape DEF CancelCalls
        <4>2. QED BY <1>1, <1>6, <3>2, <4>1 DEF CancelVisit, Visits
      <3>3. QED BY <3>1, <3>2
    <2>2. \A p \in Cancellers : running'[p] # Nothing => running'[p] \in Registrations
      BY <1>5
    <2>3. QED BY <2>1, <2>2 DEF CancelCalls, Claimed
  <1>12. QED BY <1>7, <1>8, <1>9, <1>10, <1>11 DEF CancelInv

LEMMA CancelStep ==
  ASSUME CancelInv, Cancellation!Next
  PROVE  CancelInv'
  <1>1. \/ \E r \in Registrations :
             \/ Cancellation!Register(r) \/ Cancellation!Destroy(r) \/ Cancellation!Deregister(r) \/ Cancellation!Release(r)
        \/ \E q \in Cancellers :
             \/ Cancellation!Request(q) \/ Cancellation!DestroySource(q)
             \/ \E r \in Registrations : Cancellation!CallbackDestroys(q, r)
    BY DEF Cancellation!Next
  <1>2. ASSUME NEW r \in Registrations,
               \/ Cancellation!Register(r) \/ Cancellation!Destroy(r) \/ Cancellation!Deregister(r) \/ Cancellation!Release(r)
        PROVE  CancelInv'
    <2>1. CASE Cancellation!RegisterRemoves(r)
      BY <2>1, CancelRegisters, CancelTakesBack
    <2>2. CASE Cancellation!Register(r) /\ ~Cancellation!RegisterRemoves(r)
      BY <2>2, CancelRegisters, CancelAdds DEF Cancellation!Register
    <2>3. CASE Cancellation!Deregister(r)
      BY <2>3, CancelRegisters, CancelTakesBack DEF Cancellation!Deregister
    <2>4. QED BY <1>2, <2>1, <2>2, <2>3, CancelRegisters, CancelReleases
  <1>3. ASSUME NEW q \in Cancellers, Cancellation!Request(q) \/ Cancellation!DestroySource(q)
        PROVE  CancelInv'
    <2>1. CASE Cancellation!ScanAcquires(q)
      BY <2>1, CancelGoesOn, CancelAcquires
    <2>2. CASE Cancellation!Request(q) /\ ~Cancellation!ScanAcquires(q)
      BY <2>2, CancelGoesOn, CancelReleasesSource DEF Cancellation!Request
    <2>3. QED BY <1>3, <2>1, <2>2, CancelGoesOn
  <1>4. QED BY <1>1, <1>2, <1>3, CancelReleases

LEMMA CancelInvSuffices ==
  ASSUME CancelInv
  PROVE  /\ Cancellation!CallbackNotAfterDestruction
         /\ Cancellation!NoCallbackMissed
         /\ Cancellation!DeletedWhenUnused
  <1> USE CancelParties
  <1>1. CancelTypes /\ CancelRefs /\ CancelEntries /\ CancelVisit /\ CancelCalls
    BY DEF CancelInv
  <1>2. Cancellation!CallbackNotAfterDestruction
    <2>1. \A r \in Registrations : calls[r] <= 1
      BY <1>1 DEF CancelEntries
    <2>2. \A q \in Cancellers : running[q] # Nothing => cancelPc[running[q]] # "release"
      BY <1>1 DEF CancelCalls, Claimed
    <2>3. \A i \in 1 .. Entries : m_entries[i] # Nothing => cancelPc[m_entries[i]] \notin {"release", "destroyed"}
      <3>1. \A r \in Registrations : Claimed(r) => cancelPc[r] \notin {"release", "destroyed"}
        BY DEF Claimed
      <3>2. \A i \in 1 .. Entries : m_entries[i] # Nothing => m_entries[i] \in Registrations
        BY <1>1, CancelShape
      <3>3. QED BY <1>1, <3>1, <3>2 DEF CancelEntries
    <2>4. QED BY <2>1, <2>2, <2>3 DEF Cancellation!CallbackNotAfterDestruction
  <1>3. Cancellation!NoCallbackMissed
    <2> SUFFICES ASSUME NEW r \in Registrations, notified, cancelPc[r] = "registered" PROVE calls[r] = 1
      BY DEF Cancellation!NoCallbackMissed
    <2>1. Claimed(r) /\ ~InEntry(r)
      BY <1>1 DEF CancelVisit, Claimed
    <2>2. calls[r] \in Nat /\ calls[r] <= 1 /\ calls[r] # 0
      BY <1>1, <2>1, CancelShape DEF CancelEntries
    <2>3. QED BY <2>2
  <1>4. Cancellation!DeletedWhenUnused
    <2> DEFINE registered == {r \in Registrations : cancelPc[r] # "destroyed"}
               sources == {q \in Cancellers : cancelPc[q] # "gone"}
    <2>1. IsFiniteSet(registered) /\ IsFiniteSet(sources)
      BY CancellationUsers, FS_Subset
    <2>2. tokenRefs = Cardinality(registered) /\ sourceRefs = Cardinality(sources)
      BY <1>1 DEF CancelRefs
    <2>3. registered = {} <=> \A r \in Registrations : cancelPc[r] = "destroyed"
      OBVIOUS
    <2>4. sources = {} <=> \A q \in Cancellers : cancelPc[q] = "gone"
      OBVIOUS
    <2> HIDE DEF registered, sources
    <2>5. (tokenRefs = 0 <=> registered = {}) /\ (sourceRefs = 0 <=> sources = {})
      BY <2>1, <2>2, FS_EmptySet
    <2>6. deleted <=> tokenRefs = 0 /\ sourceRefs = 0
      BY <1>1 DEF CancelRefs
    <2>7. Cancellation!TypeOK
      BY <1>1 DEF CancelTypes
    <2>8. QED BY <2>3, <2>4, <2>5, <2>6, <2>7 DEF Cancellation!DeletedWhenUnused
  <1>5. QED BY <1>2, <1>3, <1>4

(* Cancellation, for any number of registrations, entries and cancellers:  *)
(* a callback is started at most once and never after its registration's   *)
(* destructor has returned, no registration is missed by                   *)
(* request_cancellation(), and the last reference, and no earlier one,     *)
(* deletes the shared state (lib/cancellation_state.cpp).                  *)
THEOREM CancellationIsSafe == MCSpec => []CancellationSafe
  <1> DEFINE I == chosen = "cancellation" => CancelInv
  <1>1. MCInit => I
    BY CancelInit DEF MCInit
  <1>2. I /\ [MCNext]_<<chosen, vars, poolVars, cancellationVars, sequencerVars>> => I'
    <2> SUFFICES ASSUME I, [MCNext]_<<chosen, vars, poolVars, cancellationVars, sequencerVars>>, chosen' = "cancellation"
                 PROVE  CancelInv'
      OBVIOUS
    <2>1. chosen = "cancellation" /\ CancelInv
      BY DEF MCNext
    <2>2. CASE MCNext
      <3>1. Cancellation!Next
        BY <2>1, <2>2 DEF MCNext
      <3>2. QED BY <2>1, <3>1, CancelStep
    <2>3. CASE UNCHANGED cancellationVars
      BY <2>1, <2>3 DEF cancellationVars, CancelInv, CancelTypes, CancelRefs, CancelEntries, CancelVisit, CancelCalls,
         Visits, Claimed, InEntry, Cancellation!TypeOK
    <2>4. QED BY <2>2, <2>3
  <1>3. I => CancellationSafe
    BY CancelInvSuffices DEF CancellationSafe
  <1> HIDE DEF I
  <1>4. QED BY <1>1, <1>2, <1>3, PTL DEF MCSpec
-----------------------------------------------------------------------------
(* multi_producer_sequencer                                                *)

Clients == Producers \cup Consumers
ProducerLabels ==
  {"idle", "claim", "publish", "load", "exchange", "after", "requeue", "scan", "reacquire", "resume"}
ConsumerLabels == {"idle", "enqueue", "scan", "acquire", "resume", "suspended", "read"}

ClientTypes ==
  /\ Sequencer!TypeOK
  /\ sequencerPc \in [Clients -> ProducerLabels \cup ConsumerLabels]
  /\ claimTarget \in [Producers -> Sequences]
  /\ lastConsumed \in [Producers -> Sequences \cup {NoResult}]

(* Where a thread has something on its private lists, and when an          *)
(* operation is marked ready.                                              *)
ClientLocals ==
  /\ \A t \in Clients :
       /\ awaiters[t] # << >> => sequencerPc[t] = "after"
       /\ awaitersToRequeue[t] # << >> => sequencerPc[t] = "requeue"
       /\ awaitersToResume[t] # << >> => sequencerPc[t] \in {"after", "requeue", "scan", "reacquire", "resume"}
  /\ \A c \in Consumers :
       /\ awaitersToResume[c] # << >> => sequencerPc[c] = "resume"
       /\ sequencerPc[c] = "suspended" => m_readyToResume[c]
       /\ sequencerPc[c] = "enqueue" => ~m_readyToResume[c]
  /\ \A p \in Producers : lastConsumed[p] = NoResult => sequencerPc[p] = "claim"

(* The operation has been pushed and nobody has marked it ready.           *)
ClientWaits(c) ==
  sequencerPc[c] = "suspended" \/ (sequencerPc[c] \in {"scan", "acquire", "resume"} /\ ~m_readyToResume[c])

InHand(c, t) == OnList(c, awaiters[t]) \/ OnList(c, awaitersToRequeue[t]) \/ OnList(c, awaitersToResume[t])

(* The one list of an operation that waits, without counting.              *)
WaitLists(c) ==
  /\ OnceOnList(c, m_awaiters)
  /\ \A t \in Clients :
       /\ OnceOnList(c, awaiters[t]) /\ OnceOnList(c, awaitersToRequeue[t]) /\ OnceOnList(c, awaitersToResume[t])
       /\ ~(OnList(c, awaiters[t]) /\ OnList(c, awaitersToRequeue[t]))
       /\ ~(OnList(c, awaiters[t]) /\ OnList(c, awaitersToResume[t]))
       /\ ~(OnList(c, awaitersToRequeue[t]) /\ OnList(c, awaitersToResume[t]))
       /\ InHand(c, t) => ~OnList(c, m_awaiters) /\ \A u \in Clients : InHand(c, u) => t = u
  /\ ClientWaits(c) <=> OnList(c, m_awaiters) \/ \E t \in Clients : InHand(c, t)

ListsInv == ClientTypes /\ ClientLocals /\ \A c \in Consumers : WaitLists(c)

(* The operators of the instances are those of this module.                *)
LEMMA SequencerTerms ==
  /\ Sequencer!Sequences = Sequences /\ Sequencer!initial_sequence = initial_sequence
  /\ Sequencer!Barrier!initial_sequence = initial_sequence
  /\ Sequencer!Threads = Clients
  /\ \A a, b : /\ Sequencer!Difference(a, b) = Difference(a, b)
               /\ Sequencer!Barrier!Difference(a, b) = Difference(a, b)
               /\ Sequencer!Advance(a, b) = Advance(a, b)
               /\ Sequencer!Barrier!Advance(a, b) = Advance(a, b)
               /\ Sequencer!Precedes(a, b) <=> Difference(a, b) < 0
               /\ Sequencer!Barrier!Precedes(a, b) <=> Difference(a, b) < 0
  BY DEF Sequencer!Sequences, Sequences, Sequencer!initial_sequence, Sequencer!Barrier!initial_sequence, initial_sequence,
         Sequencer!Threads, Clients,
         Sequencer!Difference, Sequencer!Barrier!Difference, Difference,
         Sequencer!Advance, Sequencer!Barrier!Advance, Advance,
         Sequencer!Precedes, Sequencer!Barrier!Precedes

LEMMA SequencerSets ==
  /\ \A S : Sequencer!Cardinality(S) = Cardinality(S)
  /\ \A list, S : Sequencer!Selected(list, S) = Selected(list, S)
  /\ \A list : Sequencer!ToSet(list) = ToSet(list)
  BY DEF Sequencer!Cardinality, Cardinality, Sequencer!Selected, Selected, Sequencer!Kept, Kept,
         Sequencer!Increasing, Increasing, Sequencer!ToSet, ToSet

Half == 2^(Width - 1)

(* The range of the numbers, and the buffer, which divides it.             *)
LEMMA RangeFacts ==
  /\ Half \in Nat \ {0} /\ 2^Width = Half + Half /\ 2^Width \in Nat \ {0}
  /\ Sequences = 0 .. 2^Width - 1 /\ initial_sequence \in Sequences /\ initial_sequence = 2^Width - 1
  /\ BufferSize \in Nat \ {0} /\ BufferSize + BufferSize <= Half
  /\ \E q \in Nat : 2^Width = q * BufferSize
  <1>1. Width \in Nat \ {0} /\ Width - 1 \in Nat /\ Width = (Width - 1) + 1
    BY WidthAssumption
  <1>2. Half \in Nat \ {0} /\ 2^Width = Half + Half
    BY <1>1, PowerOfTwo DEF Half
  <1>3. PICK i \in 0 .. (Width - 2) : BufferSize = 2^i
    BY MultiProducerAssumption
  <1>4. i \in Nat
    OBVIOUS
  <1>5. BufferSize \in Nat \ {0}
    BY <1>3, <1>4, PowerOfTwo
  <1>6. \E q \in Nat : 2^Width = q * BufferSize
    <2>1. PICK j \in Nat : Width = i + j
      <3>1. Width - i \in Nat /\ Width = i + (Width - i)
        BY <1>1
      <3>2. QED BY <3>1
    <2>2. QED BY <1>3, <1>4, <2>1, PowerDivides
  <1>7. BufferSize + BufferSize <= Half
    <2>1. PICK j \in Nat : Width - 1 = (i + 1) + j
      <3>1. Width - 1 - (i + 1) \in Nat /\ Width - 1 = (i + 1) + (Width - 1 - (i + 1))
        BY <1>1
      <3>2. QED BY <3>1
    <2>2. PICK q \in Nat : 2^((i + 1) + j) = q * 2^(i + 1)
      <3>1. i + 1 \in Nat
        BY <1>4
      <3>2. QED BY <3>1, PowerDivides
    <2>3. 2^(i + 1) = BufferSize + BufferSize
      BY <1>3, <1>4, PowerOfTwo
    <2>4. PICK k \in Nat \ {0} : k = BufferSize + BufferSize
      BY <1>5
    <2>5. Half = q * k
      BY <2>1, <2>2, <2>3, <2>4 DEF Half
    <2>6. q # 0
      BY <1>2, <2>4, <2>5
    <2>7. q * k >= k
      BY <2>6
    <2>8. QED BY <2>4, <2>5, <2>7
  <1>8. QED BY <1>2, <1>5, <1>6, <1>7 DEF Sequences, initial_sequence

LEMMA AdvanceType ==
  ASSUME NEW a \in Sequences, NEW n \in Int
  PROVE  Advance(a, n) \in Sequences
  <1>1. PICK x \in Int : x = a + n
    BY RangeFacts
  <1>2. x % 2^Width \in 0 .. 2^Width - 1
    BY RangeFacts, ModuloCases
  <1>3. QED BY <1>1, <1>2, RangeFacts DEF Advance

LEMMA DifferenceType ==
  ASSUME NEW a \in Sequences, NEW b \in Sequences
  PROVE  Difference(a, b) \in Int /\ -Half <= Difference(a, b) /\ Difference(a, b) < Half
  <1>1. a \in 0 .. 2^Width - 1 /\ b \in 0 .. 2^Width - 1
    BY RangeFacts
  <1>2. Difference(a, b) = Apart(a, b, 2^Width, Half)
    BY DEF Difference, Apart, Half
  <1>3. QED BY <1>1, <1>2, RangeFacts, ApartIs

LEMMA SequencerSlot ==
  ASSUME NEW s \in Sequences
  PROVE  Sequencer!Slot(s) = s % BufferSize /\ Sequencer!Slot(s) \in 0 .. BufferSize - 1
  <1>1. s \in Int /\ BufferSize \in Nat \ {0}
    BY RangeFacts
  <1>2. QED BY <1>1, ModuloCases DEF Sequencer!Slot

LEMMA ClientParties ==
  /\ \A p \in Producers : p \in Clients /\ p \notin Consumers
  /\ \A c \in Consumers : c \in Clients /\ c \notin Producers
  /\ \A t \in Clients : t \in Producers \/ t \in Consumers
  /\ NoResult \notin Sequences
  BY MultiProducerAssumption DEF Clients

(* The values of the variables, as the steps use them.                     *)
LEMMA ClientValues ==
  ASSUME ClientTypes
  PROVE  /\ m_published \in [0 .. (BufferSize - 1) -> Sequences]
         /\ m_nextToClaim \in Sequences /\ m_consumerBarrier \in Sequences
         /\ m_awaiters \in Seq(Consumers)
         /\ m_targetSequence \in [Consumers -> Sequences] /\ m_lastKnownPublished \in [Consumers -> Sequences]
         /\ m_readyToResume \in [Consumers -> BOOLEAN]
         /\ m_claimedRange \in [Producers -> [begin : Sequences, end : Sequences]]
         /\ consumed \in [Consumers -> Sequences]
         /\ sequencerPc \in [Clients -> ProducerLabels \cup ConsumerLabels]
         /\ \A p \in Producers : sequencerPc[p] \in ProducerLabels
         /\ \A c \in Consumers : sequencerPc[c] \in ConsumerLabels
         /\ awaiters \in [Clients -> Seq(Consumers)]
         /\ awaitersToRequeue \in [Clients -> Seq(Consumers)] /\ awaitersToResume \in [Clients -> Seq(Consumers)]
         /\ targetSequence \in [Clients -> Sequences] /\ lastKnownPublished \in [Clients -> Sequences]
         /\ claimTarget \in [Producers -> Sequences] /\ lastConsumed \in [Producers -> Sequences \cup {NoResult}]
  <1>1. /\ Sequencer!TypeOK
        /\ sequencerPc \in [Clients -> ProducerLabels \cup ConsumerLabels]
        /\ claimTarget \in [Producers -> Sequences] /\ lastConsumed \in [Producers -> Sequences \cup {NoResult}]
    BY DEF ClientTypes
  <1>2. /\ m_published \in [0 .. (BufferSize - 1) -> Sequences]
        /\ m_nextToClaim \in Sequences /\ m_consumerBarrier \in Sequences
        /\ m_awaiters \in Seq(Consumers)
        /\ m_targetSequence \in [Consumers -> Sequences] /\ m_lastKnownPublished \in [Consumers -> Sequences]
        /\ m_readyToResume \in [Consumers -> BOOLEAN]
        /\ m_claimedRange \in [Producers -> [begin : Sequences, end : Sequences]]
        /\ consumed \in [Consumers -> Sequences]
        /\ awaiters \in [Clients -> Seq(Consumers)]
        /\ awaitersToRequeue \in [Clients -> Seq(Consumers)] /\ awaitersToResume \in [Clients -> Seq(Consumers)]
        /\ targetSequence \in [Clients -> Sequences] /\ lastKnownPublished \in [Clients -> Sequences]
    BY <1>1, SequencerTerms, Zenon DEF Sequencer!TypeOK
  <1>3. /\ \A p \in Producers : sequencerPc[p] \in ProducerLabels
        /\ \A c \in Consumers : sequencerPc[c] \in ConsumerLabels
    BY <1>1 DEF Sequencer!TypeOK, ProducerLabels, ConsumerLabels
  <1>4. QED BY <1>1, <1>2, <1>3

LEMMA ClientTypesNext ==
  ASSUME m_published' \in [0 .. (BufferSize - 1) -> Sequences],
         m_nextToClaim' \in Sequences, m_consumerBarrier' \in Sequences, m_awaiters' \in Seq(Consumers),
         m_targetSequence' \in [Consumers -> Sequences], m_lastKnownPublished' \in [Consumers -> Sequences],
         m_readyToResume' \in [Consumers -> BOOLEAN],
         m_claimedRange' \in [Producers -> [begin : Sequences, end : Sequences]],
         consumed' \in [Consumers -> Sequences],
         sequencerPc' \in [Clients -> ProducerLabels \cup ConsumerLabels],
         \A p \in Producers : sequencerPc'[p] \in ProducerLabels,
         \A c \in Consumers : sequencerPc'[c] \in ConsumerLabels,
         awaiters' \in [Clients -> Seq(Consumers)],
         awaitersToRequeue' \in [Clients -> Seq(Consumers)], awaitersToResume' \in [Clients -> Seq(Consumers)],
         targetSequence' \in [Clients -> Sequences], lastKnownPublished' \in [Clients -> Sequences],
         claimTarget' \in [Producers -> Sequences], lastConsumed' \in [Producers -> Sequences \cup {NoResult}]
  PROVE  ClientTypes'
  <1>1. Sequencer!TypeOK'
    BY SequencerTerms, Zenon DEF Sequencer!TypeOK, ProducerLabels, ConsumerLabels
  <1>2. QED BY <1>1 DEF ClientTypes

(* A thread goes from one label to another.                                *)
LEMMA ClientMoves ==
  ASSUME ClientTypes, NEW t \in Clients, NEW label, label \in (IF t \in Producers THEN ProducerLabels ELSE ConsumerLabels),
         sequencerPc' = [sequencerPc EXCEPT ![t] = label]
  PROVE  /\ sequencerPc' \in [Clients -> ProducerLabels \cup ConsumerLabels] /\ sequencerPc'[t] = label
         /\ \A u \in Clients : u # t => sequencerPc'[u] = sequencerPc[u]
         /\ \A p \in Producers : sequencerPc'[p] \in ProducerLabels
         /\ \A c \in Consumers : sequencerPc'[c] \in ConsumerLabels
  <1>1. /\ sequencerPc \in [Clients -> ProducerLabels \cup ConsumerLabels]
        /\ \A p \in Producers : sequencerPc[p] \in ProducerLabels
        /\ \A c \in Consumers : sequencerPc[c] \in ConsumerLabels
    BY ClientValues
  <1>2. /\ sequencerPc' \in [Clients -> ProducerLabels \cup ConsumerLabels] /\ sequencerPc'[t] = label
        /\ \A u \in Clients : u # t => sequencerPc'[u] = sequencerPc[u]
    BY <1>1
  <1>3. (\A p \in Producers : sequencerPc'[p] \in ProducerLabels) /\ (\A c \in Consumers : sequencerPc'[c] \in ConsumerLabels)
    BY <1>1, <1>2, ClientParties
  <1>4. QED BY <1>2, <1>3

(* A step that changes no list, nor who waits.                             *)
LEMMA ListsKept ==
  ASSUME ListsInv, ClientTypes', ClientLocals',
         UNCHANGED <<m_awaiters, awaiters, awaitersToRequeue, awaitersToResume>>,
         \A c \in Consumers : ClientWaits(c)' <=> ClientWaits(c)
  PROVE  ListsInv'
  <1> SUFFICES ASSUME NEW c \in Consumers PROVE WaitLists(c)'
    BY DEF ListsInv
  <1>1. WaitLists(c) /\ (ClientWaits(c)' <=> ClientWaits(c))
    BY DEF ListsInv
  <1>2. \A t \in Clients : InHand(c, t)' <=> InHand(c, t)
    BY DEF InHand
  <1>3. QED BY <1>1, <1>2 DEF WaitLists

(* A thread that has nothing on its lists goes on, and is not, or still,   *)
(* a consumer whose operation waits.                                       *)
LEMMA QuietMove ==
  ASSUME ListsInv, ClientTypes', NEW t \in Clients,
         \A u \in Clients : u # t => sequencerPc'[u] = sequencerPc[u],
         UNCHANGED <<m_awaiters, awaiters, awaitersToRequeue, awaitersToResume, m_readyToResume>>,
         awaiters[t] = << >> /\ awaitersToRequeue[t] = << >>,
         \/ awaitersToResume[t] = << >>
         \/ t \in Producers /\ sequencerPc'[t] \in {"scan", "reacquire", "resume"}
         \/ sequencerPc'[t] = "resume",
         t \in Consumers => /\ sequencerPc'[t] \notin {"suspended", "enqueue"}
                            /\ ClientWaits(t)' <=> ClientWaits(t),
         \A p \in Producers : lastConsumed'[p] = NoResult => sequencerPc'[p] = "claim"
  PROVE  ListsInv'
  <1>1. ClientLocals
    BY DEF ListsInv
  <1>2. ClientLocals'
    BY <1>1, ClientParties DEF ClientLocals
  <1>3. \A c \in Consumers : ClientWaits(c)' <=> ClientWaits(c)
    BY ClientParties DEF ClientWaits
  <1>4. QED BY <1>2, <1>3, ListsKept
-----------------------------------------------------------------------------
(* Steps that leave the lists alone                                        *)

(* The constructor leaves in each slot the last number up to               *)
(* initialSequence that belongs there.                                     *)
LEMMA SlotsInitially ==
  ASSUME Sequencer!Init, NEW i \in 0 .. (BufferSize - 1)
  PROVE  m_published[i] \in {Advance(initial_sequence, -n) : n \in 0 .. (BufferSize - 1)} /\ Sequencer!Slot(m_published[i]) = i
  <1>1. PICK n \in 0 .. (BufferSize - 1) : n = BufferSize - 1 - i
    BY RangeFacts
  <1>2. PICK s \in Sequences : s = Advance(initial_sequence, -n)
    <2>1. initial_sequence \in Sequences
      BY RangeFacts
    <2>2. -n \in Int
      OBVIOUS
    <2>3. Advance(initial_sequence, -n) \in Sequences
      BY <2>1, <2>2, AdvanceType
    <2>4. QED BY <2>3
  <1>3. PICK x \in Int : x = 2^Width - 1 - n
    BY RangeFacts
  <1>4. x \in 0 .. 2^Width - 1
    <2>1. PICK M \in Nat : M = 2^Width /\ BufferSize <= M /\ BufferSize \in Nat
      <3>1. BufferSize \in Nat /\ Half \in Nat /\ 2^Width \in Nat /\ 2^Width = Half + Half /\ BufferSize + BufferSize <= Half
        BY RangeFacts
      <3>2. BufferSize <= Half + Half
        BY <3>1
      <3>3. QED BY <3>1, <3>2
    <2>2. x = M - 1 - n /\ n \in Nat /\ n <= BufferSize - 1
      BY <1>1, <1>3, <2>1
    <2>3. x \in 0 .. M - 1
      BY <2>1, <2>2
    <2>4. QED BY <2>1, <2>3
  <1>5. x % 2^Width = x
    BY <1>4, RangeFacts, ModuloCases
  <1>6. initial_sequence + (-n) = x
    BY <1>3, RangeFacts
  <1>7. s = x
    BY <1>2, <1>5, <1>6 DEF Advance
  <1>8. s % BufferSize = i
    <2>1. PICK q \in Nat : 2^Width = q * BufferSize
      BY RangeFacts
    <2> DEFINE M == 2^Width
    <2>2. x - i = q * BufferSize - BufferSize
      <3>1. M \in Nat /\ M = q * BufferSize /\ x = M - 1 - n /\ BufferSize \in Nat
        BY <1>3, <2>1, RangeFacts
      <3> HIDE DEF M
      <3>2. x - i = M - BufferSize
        BY <1>1, <3>1
      <3>3. QED BY <3>1, <3>2
    <2>3. q * BufferSize - BufferSize = BufferSize * (q - 1) /\ q - 1 \in Int
      BY RangeFacts
    <2>4. x % BufferSize = i % BufferSize
      <3>1. BufferSize \in Nat \ {0} /\ x \in Int /\ i \in Int
        BY RangeFacts
      <3>2. \E z \in Int : x - i = BufferSize * z
        BY <2>2, <2>3
      <3>3. QED BY <3>1, <3>2, ModuloEqual
    <2>5. i % BufferSize = i
      <3>1. BufferSize \in Nat \ {0} /\ i \in Int
        BY RangeFacts
      <3>2. QED BY <3>1, ModuloCases
    <2>6. QED BY <1>7, <2>4, <2>5
  <1>9. Sequencer!Slot(s) = i
    BY <1>8, SequencerSlot
  <1>10. m_published[i] = CHOOSE r \in {Advance(initial_sequence, -m) : m \in 0 .. (BufferSize - 1)} : Sequencer!Slot(r) = i
    <2>1. m_published = [j \in 0 .. (BufferSize - 1) |->
            CHOOSE r \in {Advance(initial_sequence, -m) : m \in 0 .. (BufferSize - 1)} : Sequencer!Slot(r) = j]
      BY SequencerTerms DEF Sequencer!Init
    <2>2. QED BY <2>1
  <1>11. QED BY <1>2, <1>9, <1>10

LEMMA ListsInitially ==
  ASSUME Sequencer!Init
  PROVE  ListsInv
  <1>1. /\ m_published = [i \in 0 .. (BufferSize - 1) |->
                            CHOOSE s \in {Advance(initial_sequence, -n) : n \in 0 .. (BufferSize - 1)} : Sequencer!Slot(s) = i]
        /\ m_nextToClaim = Advance(initial_sequence, 1) /\ m_awaiters = << >>
        /\ m_targetSequence = [c \in Consumers |-> initial_sequence]
        /\ m_lastKnownPublished = [c \in Consumers |-> initial_sequence]
        /\ m_readyToResume = [c \in Consumers |-> FALSE]
        /\ m_claimedRange = [p \in Producers |-> [begin |-> 0, end |-> 0]]
        /\ consumed = [c \in Consumers |-> initial_sequence]
        /\ sequencerPc = [t \in Clients |-> "idle"]
        /\ awaiters = [t \in Clients |-> << >>] /\ awaitersToRequeue = [t \in Clients |-> << >>]
        /\ awaitersToResume = [t \in Clients |-> << >>]
        /\ targetSequence = [t \in Clients |-> initial_sequence]
        /\ lastKnownPublished = [t \in Clients |-> initial_sequence]
        /\ m_consumerBarrier = initial_sequence
        /\ claimTarget = [p \in Producers |-> initial_sequence] /\ lastConsumed = [p \in Producers |-> initial_sequence]
    BY SequencerTerms DEF Sequencer!Init, Sequencer!NoRange, Sequencer!Barrier!CursorInit
  <1>2. \A i \in 0 .. (BufferSize - 1) : m_published[i] \in {Advance(initial_sequence, -n) : n \in 0 .. (BufferSize - 1)}
    BY SlotsInitially
  <1>3. m_published \in [0 .. (BufferSize - 1) -> Sequences]
    <2>1. ASSUME NEW n \in 0 .. (BufferSize - 1) PROVE Advance(initial_sequence, -n) \in Sequences
      <3>1. -n \in Int
        OBVIOUS
      <3>2. QED BY <3>1, AdvanceType, RangeFacts
    <2>2. \A i \in 0 .. (BufferSize - 1) : m_published[i] \in Sequences
      BY <1>2, <2>1
    <2>3. m_published = [i \in 0 .. (BufferSize - 1) |-> m_published[i]]
      BY <1>1
    <2>4. QED BY <2>2, <2>3
  <1>4. m_nextToClaim \in Sequences /\ 0 \in Sequences /\ initial_sequence \in Sequences
    BY <1>1, AdvanceType, RangeFacts
  <1>5. ClientTypes
    <2>1. m_claimedRange \in [Producers -> [begin : Sequences, end : Sequences]]
      BY <1>1, <1>4
    <2>2. /\ m_awaiters \in Seq(Consumers) /\ awaiters \in [Clients -> Seq(Consumers)]
          /\ awaitersToRequeue \in [Clients -> Seq(Consumers)] /\ awaitersToResume \in [Clients -> Seq(Consumers)]
      BY <1>1, EmptyList
    <2>3. /\ (\A p \in Producers : sequencerPc[p] = "idle") /\ (\A c \in Consumers : sequencerPc[c] = "idle")
          /\ sequencerPc \in [Clients -> ProducerLabels \cup ConsumerLabels]
      BY <1>1, ClientParties DEF ProducerLabels
    <2>4. /\ m_targetSequence \in [Consumers -> Sequences] /\ m_lastKnownPublished \in [Consumers -> Sequences]
          /\ consumed \in [Consumers -> Sequences] /\ m_consumerBarrier \in Sequences
          /\ targetSequence \in [Clients -> Sequences] /\ lastKnownPublished \in [Clients -> Sequences]
          /\ claimTarget \in [Producers -> Sequences] /\ lastConsumed \in [Producers -> Sequences \cup {NoResult}]
          /\ m_readyToResume \in [Consumers -> BOOLEAN]
      BY <1>1, <1>4
    <2>5. Sequencer!TypeOK
      BY <1>3, <1>4, <2>1, <2>2, <2>3, <2>4, SequencerTerms, Zenon DEF Sequencer!TypeOK
    <2>6. QED BY <2>3, <2>4, <2>5 DEF ClientTypes
  <1>6. ClientLocals
    BY <1>1, <1>4, ClientParties DEF ClientLocals
  <1>7. \A c \in Consumers : WaitLists(c)
    BY <1>1, ClientParties, OnEmptyList DEF WaitLists, InHand, ClientWaits
  <1>8. QED BY <1>5, <1>6, <1>7 DEF ListsInv

(* How far a number is past another, and past it after some more steps.    *)
Ahead(s, b) == Past(s, b, 2^Width)

LEMMA AheadType ==
  ASSUME NEW s \in Sequences, NEW b \in Sequences
  PROVE  Ahead(s, b) \in 0 .. 2^Width - 1 /\ Ahead(s, b) \in Nat /\ (Ahead(s, b) = 0 <=> s = b)
  <1>1. s \in 0 .. 2^Width - 1 /\ b \in 0 .. 2^Width - 1 /\ 2^Width \in Nat \ {0}
    BY RangeFacts
  <1>2. PICK x \in 0 .. 2^Width - 1 : x = Ahead(s, b) /\ (x = s - b \/ x = s - b + 2^Width)
    BY <1>1, PastIs DEF Ahead
  <1>3. QED BY <1>1, <1>2

LEMMA AheadAdvance ==
  ASSUME NEW s \in Sequences, NEW b \in Sequences, NEW n \in Int, -2^Width <= n, n <= 2^Width,
         0 <= Ahead(s, b) + n, Ahead(s, b) + n < 2^Width
  PROVE  Advance(s, n) \in Sequences /\ Ahead(Advance(s, n), b) = Ahead(s, b) + n
  <1>1. s \in 0 .. 2^Width - 1 /\ b \in 0 .. 2^Width - 1 /\ 2^Width \in Nat \ {0}
    BY RangeFacts
  <1>2. Onward(s, n, 2^Width) \in 0 .. 2^Width - 1 /\ Past(Onward(s, n, 2^Width), b, 2^Width) = Past(s, b, 2^Width) + n
    BY <1>1, PastOnward DEF Ahead
  <1>3. Advance(s, n) = Onward(s, n, 2^Width)
    BY DEF Advance, Onward
  <1>4. QED BY <1>2, <1>3, RangeFacts DEF Ahead

LEMMA AheadUnique ==
  ASSUME NEW s \in Sequences, NEW t \in Sequences, NEW b \in Sequences, Ahead(s, b) = Ahead(t, b)
  PROVE  s = t
  <1>1. s \in 0 .. 2^Width - 1 /\ t \in 0 .. 2^Width - 1 /\ b \in 0 .. 2^Width - 1 /\ 2^Width \in Nat \ {0}
    BY RangeFacts
  <1>2. QED BY <1>1, PastIsUnique DEF Ahead

LEMMA AheadDifference ==
  ASSUME NEW s \in Sequences, NEW t \in Sequences, NEW b \in Sequences
  PROVE  /\ -Half <= Ahead(s, b) - Ahead(t, b) /\ Ahead(s, b) - Ahead(t, b) < Half
              => Difference(s, t) = Ahead(s, b) - Ahead(t, b)
         /\ Ahead(s, b) - Ahead(t, b) = Half => Difference(s, t) = -Half
  <1>1. s \in 0 .. 2^Width - 1 /\ t \in 0 .. 2^Width - 1 /\ b \in 0 .. 2^Width - 1
    BY RangeFacts
  <1>2. Difference(s, t) = Apart(s, t, 2^Width, Half)
    BY DEF Difference, Apart, Half
  <1>3. /\ -Half <= Past(s, b, 2^Width) - Past(t, b, 2^Width) /\ Past(s, b, 2^Width) - Past(t, b, 2^Width) < Half
              => Apart(s, t, 2^Width, Half) = Past(s, b, 2^Width) - Past(t, b, 2^Width)
        /\ Past(s, b, 2^Width) - Past(t, b, 2^Width) = Half => Apart(s, t, 2^Width, Half) = -Half
    BY <1>1, RangeFacts, ApartPast
  <1>4. QED BY <1>2, <1>3 DEF Ahead

LEMMA AheadSlots ==
  ASSUME NEW s \in Sequences, NEW t \in Sequences, NEW b \in Sequences
  PROVE  /\ 0 < Ahead(s, b) - Ahead(t, b) /\ Ahead(s, b) - Ahead(t, b) < BufferSize => Sequencer!Slot(s) # Sequencer!Slot(t)
         /\ Ahead(s, b) - Ahead(t, b) = BufferSize => Sequencer!Slot(s) = Sequencer!Slot(t)
  <1>1. s \in 0 .. 2^Width - 1 /\ t \in 0 .. 2^Width - 1 /\ b \in 0 .. 2^Width - 1 /\ 2^Width \in Nat \ {0} /\ BufferSize \in Nat \ {0}
    BY RangeFacts
  <1>2. PICK q \in Nat : 2^Width = q * BufferSize
    BY RangeFacts
  <1>3. /\ 0 < Past(s, b, 2^Width) - Past(t, b, 2^Width) /\ Past(s, b, 2^Width) - Past(t, b, 2^Width) < BufferSize
              => s % BufferSize # t % BufferSize
        /\ Past(s, b, 2^Width) - Past(t, b, 2^Width) = BufferSize => s % BufferSize = t % BufferSize
    BY <1>1, <1>2, PastSlots
  <1>4. QED BY <1>3, SequencerSlot DEF Ahead

(* What publish() stores next: a number of the claimed range, and the      *)
(* first one only when the others have been stored.                        *)
LEMMA StoreIsInRange ==
  ASSUME ClientTypes, NEW p \in Producers, Sequencer!PublishStores(p)
  PROVE  \E n \in 0 .. Half - 1 :
           /\ n = 0 \/ n < Difference(m_claimedRange[p].end, m_claimedRange[p].begin)
           /\ Sequencer!Store(p, Advance(m_claimedRange[p].begin, n))
  <1> DEFINE begin == m_claimedRange[p].begin
             D == Difference(m_claimedRange[p].end, m_claimedRange[p].begin)
             rest == {Sequencer!Advance(begin, n) : n \in 1 .. (Sequencer!Difference(m_claimedRange[p].end, begin) - 1)}
             left == {s \in rest : ~Sequencer!IsPublished(s)}
  <1>1. begin \in Sequences /\ m_claimedRange[p].end \in Sequences
    BY ClientValues
  <1>2. D \in Int /\ D < Half /\ Half \in Nat \ {0} /\ 2^Width = Half + Half
    BY <1>1, DifferenceType, RangeFacts
  <1>3. IF left = {} THEN Sequencer!Store(p, begin)
        ELSE Sequencer!Store(p, CHOOSE s \in left : \A r \in left : ~Sequencer!Precedes(r, s))
    BY Zenon DEF Sequencer!PublishStores
  <1> HIDE DEF D, rest
  <1>4. rest = {Advance(begin, n) : n \in 1 .. (D - 1)}
    BY SequencerTerms DEF rest, D
  <1>5. CASE left = {}
    <2>1. Advance(begin, 0) = begin
      <3>1. begin \in 0 .. 2^Width - 1 /\ 2^Width \in Nat \ {0}
        BY <1>1, RangeFacts
      <3>2. PICK x \in Int : x = begin /\ begin + 0 = x /\ x \in 0 .. 2^Width - 1
        BY <3>1
      <3>3. x % 2^Width = x
        BY <3>1, <3>2, ModuloCases
      <3>4. Advance(begin, 0) = (begin + 0) % 2^Width
        BY DEF Advance
      <3> HIDE DEF begin
      <3>5. QED BY <3>2, <3>3, <3>4
    <2>2. 0 \in 0 .. Half - 1
      BY <1>2
    <2>3. QED BY <1>3, <1>5, <2>1, <2>2
  <1>6. CASE left # {}
    <2> DEFINE T == {n \in 1 .. (D - 1) : Advance(begin, n) \in left}
    <2>1. T \in SUBSET Nat /\ T # {}
      BY <1>2, <1>6, <1>4
    <2>2. PICK m \in T : \A n \in T : m <= n
      <3> HIDE DEF T
      <3> QED BY <2>1, LeastNumber
    <2>3. ASSUME NEW n \in 1 .. (D - 1) PROVE Advance(begin, n) \in Sequences /\ Ahead(Advance(begin, n), begin) = n
      <3>1. Ahead(begin, begin) = 0
        BY <1>1, AheadType
      <3>2. n \in Int /\ -2^Width <= n /\ n <= 2^Width /\ 0 <= 0 + n /\ 0 + n < 2^Width /\ 0 + n = n
        BY <1>2
      <3>3. QED BY <1>1, <3>1, <3>2, AheadAdvance
    <2>4. ASSUME NEW r \in left PROVE ~(Difference(r, Advance(begin, m)) < 0)
      <3>1. PICK n \in 1 .. (D - 1) : r = Advance(begin, n)
        BY <1>4
      <3>2. n \in T /\ m <= n
        BY <2>2, <3>1
      <3>3. Ahead(r, begin) = n /\ Ahead(Advance(begin, m), begin) = m /\ r \in Sequences /\ Advance(begin, m) \in Sequences
        BY <2>3, <3>1
      <3>4. -Half <= n - m /\ n - m < Half
        BY <1>2, <3>2
      <3>5. Difference(r, Advance(begin, m)) = n - m
        BY <1>1, <3>3, <3>4, AheadDifference
      <3>6. QED BY <3>2, <3>5
    <2>5. Advance(begin, m) \in left
      OBVIOUS
    <2>6. PICK s \in left : Sequencer!Store(p, s)
      <3> HIDE DEF left
      <3>1. \A r \in left : ~Sequencer!Precedes(r, Advance(begin, m))
        BY <2>4, SequencerTerms
      <3>2. QED BY <1>3, <1>6, <2>5, <3>1
    <2>7. PICK n \in 1 .. (D - 1) : s = Advance(begin, n)
      BY <1>4
    <2>8. n \in 0 .. Half - 1 /\ n < D
      BY <1>2
    <2>9. QED BY <2>6, <2>7, <2>8 DEF D
  <1>7. QED BY <1>5, <1>6
-----------------------------------------------------------------------------
(* What the steps do, in the variables of this module                      *)

LEMMA ClaimDoes ==
  ASSUME NEW p \in Producers, NEW count \in 1 .. MaxClaim, Sequencer!Claim(p, count)
  PROVE  \E m \in Int :
           /\ 1 <= m /\ m <= BufferSize /\ m <= MaxClaim /\ m_nextToClaim' = Advance(m_nextToClaim, m)
           /\ sequencerPc[p] = "idle" /\ sequencerPc' = [sequencerPc EXCEPT ![p] = "claim"]
           /\ m_claimedRange' = [m_claimedRange EXCEPT ![p] = [begin |-> m_nextToClaim, end |-> m_nextToClaim']]
           /\ claimTarget' = [claimTarget EXCEPT ![p] = Advance(m_nextToClaim', -1 - BufferSize)]
           /\ lastConsumed' = [lastConsumed EXCEPT ![p] =
                IF Difference(m_consumerBarrier, Advance(m_nextToClaim', -1 - BufferSize)) < 0 THEN NoResult ELSE m_consumerBarrier]
           /\ UNCHANGED <<m_consumerBarrier, m_published, m_awaiters, m_targetSequence, m_lastKnownPublished, m_readyToResume,
                          awaiters, awaitersToRequeue, awaitersToResume, targetSequence, lastKnownPublished, consumed>>
  <1> DEFINE m == IF count < BufferSize THEN count ELSE BufferSize
             end == Advance(m_nextToClaim, m)
  <1>1. m \in Int /\ 1 <= m /\ m <= BufferSize /\ m <= MaxClaim
    <2>1. BufferSize \in Nat \ {0} /\ MaxClaim \in Nat \ {0}
      BY RangeFacts, MultiProducerAssumption
    <2>2. QED BY ONLY <2>1, count \in 1 .. MaxClaim
  <1> HIDE DEF m
  <1>2. end = Advance(m_nextToClaim, m)
    OBVIOUS
  <1>3. /\ sequencerPc[p] = "idle" /\ sequencerPc' = [sequencerPc EXCEPT ![p] = "claim"]
        /\ m_nextToClaim' = end
        /\ m_claimedRange' = [m_claimedRange EXCEPT ![p] = [begin |-> m_nextToClaim, end |-> end]]
        /\ UNCHANGED <<m_published, m_awaiters, m_targetSequence, m_lastKnownPublished, m_readyToResume,
                       awaiters, awaitersToRequeue, awaitersToResume, targetSequence, lastKnownPublished, consumed>>
    BY SequencerTerms DEF Sequencer!Claim, Sequencer!Goto, Sequencer!operations, Sequencer!lists, Sequencer!scan, m
  <1>4. Sequencer!Barrier!WaitUntilPublished(p, Advance(end, -1 - BufferSize))
    BY SequencerTerms DEF Sequencer!Claim, m
  <1> HIDE DEF end
  <1>5. /\ claimTarget' = [claimTarget EXCEPT ![p] = Advance(end, -1 - BufferSize)]
        /\ lastConsumed' = [lastConsumed EXCEPT ![p] =
             IF Difference(m_consumerBarrier, Advance(end, -1 - BufferSize)) < 0 THEN NoResult ELSE m_consumerBarrier]
        /\ UNCHANGED m_consumerBarrier
    BY <1>4, SequencerTerms DEF Sequencer!Barrier!WaitUntilPublished
  <1>6. QED BY <1>1, <1>2, <1>3, <1>5

LEMMA ClaimWaitDoes ==
  ASSUME NEW p \in Producers, Sequencer!ClaimWaitResumes(p)
  PROVE  /\ lastConsumed[p] = NoResult
         /\ \E n \in 0 .. Difference(m_consumerBarrier, claimTarget[p]) :
              lastConsumed' = [lastConsumed EXCEPT ![p] = Advance(claimTarget[p], n)]
         /\ UNCHANGED <<m_consumerBarrier, claimTarget, m_published, m_awaiters, m_targetSequence, m_lastKnownPublished,
                        m_readyToResume, sequencerPc, awaiters, awaitersToRequeue, awaitersToResume,
                        targetSequence, lastKnownPublished, m_nextToClaim, m_claimedRange, consumed>>
  BY SequencerTerms DEF Sequencer!ClaimWaitResumes, Sequencer!Barrier!ResumeWaiter, Sequencer!operations, Sequencer!lists, Sequencer!scan

(* The steps that only the program counter of a producer takes.            *)
LEMMA ProducerMovesDo ==
  ASSUME NEW p \in Producers, Sequencer!ClaimResumes(p) \/ Sequencer!PublishLoads(p)
  PROVE  /\ \/ sequencerPc[p] = "claim" /\ lastConsumed[p] # NoResult /\ sequencerPc' = [sequencerPc EXCEPT ![p] = "publish"]
            \/ sequencerPc[p] = "load" /\ sequencerPc' = [sequencerPc EXCEPT ![p] = "idle"]
            \/ sequencerPc[p] = "load" /\ sequencerPc' = [sequencerPc EXCEPT ![p] = "exchange"]
         /\ UNCHANGED <<m_consumerBarrier, claimTarget, lastConsumed, m_published, m_awaiters, m_targetSequence,
                        m_lastKnownPublished, m_readyToResume, awaiters, awaitersToRequeue, awaitersToResume,
                        targetSequence, lastKnownPublished, m_nextToClaim, m_claimedRange, consumed>>
  <1>1. CASE Sequencer!ClaimResumes(p)
    BY <1>1 DEF Sequencer!ClaimResumes, Sequencer!Goto, Sequencer!operations, Sequencer!lists, Sequencer!scan,
                Sequencer!clients, Sequencer!consumerBarrier
  <1>2. CASE Sequencer!PublishLoads(p)
    BY <1>2 DEF Sequencer!PublishLoads, Sequencer!Goto, Sequencer!operations, Sequencer!lists, Sequencer!scan,
                Sequencer!clients, Sequencer!consumerBarrier
  <1>3. QED BY <1>1, <1>2

LEMMA StoreDoes ==
  ASSUME NEW p \in Producers, NEW s, Sequencer!Store(p, s)
  PROVE  /\ m_published' = [m_published EXCEPT ![Sequencer!Slot(s)] = s]
         /\ IF s = m_claimedRange[p].begin
            THEN /\ sequencerPc' = [sequencerPc EXCEPT ![p] = "load"]
                 /\ m_claimedRange' = [m_claimedRange EXCEPT ![p] = [begin |-> 0, end |-> 0]]
            ELSE UNCHANGED <<sequencerPc, m_claimedRange>>
         /\ UNCHANGED <<m_consumerBarrier, claimTarget, lastConsumed, m_awaiters, m_targetSequence,
                        m_lastKnownPublished, m_readyToResume, awaiters, awaitersToRequeue, awaitersToResume,
                        targetSequence, lastKnownPublished, m_nextToClaim, consumed>>
  BY DEF Sequencer!Store, Sequencer!Goto, Sequencer!NoRange, Sequencer!operations, Sequencer!lists, Sequencer!scan,
         Sequencer!consumerBarrier

(* A scan of the slots goes on by one, or ends.                            *)
LEMMA ScanDoes ==
  ASSUME ClientTypes, NEW t \in Clients,
         (t \in Producers /\ Sequencer!PublishScans(t)) \/ (t \in Consumers /\ Sequencer!ScanPublished(t))
  PROVE  /\ sequencerPc[t] = "scan"
         /\ \E label : /\ sequencerPc' = [sequencerPc EXCEPT ![t] = label]
                       /\ label \in (IF t \in Producers THEN {"scan", "reacquire", "resume"} ELSE {"scan", "acquire", "resume"})
         /\ \/ /\ Sequencer!IsPublished(Advance(lastKnownPublished[t], 1))
               /\ lastKnownPublished' = [lastKnownPublished EXCEPT ![t] = Advance(lastKnownPublished[t], 1)]
            \/ UNCHANGED lastKnownPublished
         /\ UNCHANGED <<m_consumerBarrier, claimTarget, lastConsumed, m_published, m_awaiters, m_targetSequence,
                        m_lastKnownPublished, m_readyToResume, awaiters, awaitersToRequeue, awaitersToResume,
                        targetSequence, m_nextToClaim, m_claimedRange, consumed>>
  <1>1. CASE t \in Producers /\ Sequencer!PublishScans(t)
    <2>1. /\ sequencerPc[t] = "scan"
          /\ IF Sequencer!IsPublished(Advance(lastKnownPublished[t], 1))
             THEN /\ lastKnownPublished' = [lastKnownPublished EXCEPT ![t] = Advance(lastKnownPublished[t], 1)]
                  /\ sequencerPc' = [sequencerPc EXCEPT ![t] =
                       IF Advance(lastKnownPublished[t], 1) = targetSequence[t] THEN "reacquire" ELSE "scan"]
             ELSE sequencerPc' = [sequencerPc EXCEPT ![t] = "resume"] /\ UNCHANGED lastKnownPublished
          /\ UNCHANGED <<m_consumerBarrier, claimTarget, lastConsumed, m_published, m_awaiters, m_targetSequence,
                         m_lastKnownPublished, m_readyToResume, awaiters, awaitersToRequeue, awaitersToResume,
                         targetSequence, m_nextToClaim, m_claimedRange, consumed>>
      BY <1>1, SequencerTerms DEF Sequencer!PublishScans, Sequencer!Goto, Sequencer!operations, Sequencer!lists,
           Sequencer!clients, Sequencer!consumerBarrier
    <2>2. QED BY <1>1, <2>1
  <1>2. CASE t \in Consumers /\ Sequencer!ScanPublished(t)
    <2>1. /\ sequencerPc[t] = "scan"
          /\ IF Sequencer!IsPublished(Advance(lastKnownPublished[t], 1))
             THEN /\ lastKnownPublished' = [lastKnownPublished EXCEPT ![t] = Advance(lastKnownPublished[t], 1)]
                  /\ UNCHANGED sequencerPc
             ELSE /\ sequencerPc' = [sequencerPc EXCEPT ![t] =
                       IF Difference(lastKnownPublished[t], targetSequence[t]) < 0 THEN "resume" ELSE "acquire"]
                  /\ UNCHANGED lastKnownPublished
          /\ UNCHANGED <<m_consumerBarrier, claimTarget, lastConsumed, m_published, m_awaiters, m_targetSequence,
                         m_lastKnownPublished, m_readyToResume, awaiters, awaitersToRequeue, awaitersToResume,
                         targetSequence, m_nextToClaim, m_claimedRange, consumed>>
      BY <1>2, SequencerTerms DEF Sequencer!ScanPublished, Sequencer!Goto, Sequencer!operations, Sequencer!lists,
           Sequencer!clients, Sequencer!consumerBarrier
    <2>2. t \notin Producers
      BY <1>2, ClientParties
    <2>3. CASE UNCHANGED sequencerPc
      <3>1. sequencerPc' = [sequencerPc EXCEPT ![t] = "scan"]
        BY <2>1, <2>3, ClientValues
      <3>2. QED BY <2>1, <2>2, <3>1
    <2>4. CASE sequencerPc' = [sequencerPc EXCEPT ![t] =
                 IF Difference(lastKnownPublished[t], targetSequence[t]) < 0 THEN "resume" ELSE "acquire"]
      BY <2>1, <2>2, <2>4
    <2>5. QED BY <2>1, <2>3, <2>4
  <1>3. QED BY <1>1, <1>2

LEMMA ReturnDoes ==
  ASSUME NEW p \in Producers, Sequencer!PublishReturns(p)
  PROVE  /\ sequencerPc[p] = "resume" /\ awaitersToResume[p] = << >> /\ sequencerPc' = [sequencerPc EXCEPT ![p] = "idle"]
         /\ targetSequence' = [targetSequence EXCEPT ![p] = initial_sequence]
         /\ lastKnownPublished' = [lastKnownPublished EXCEPT ![p] = initial_sequence]
         /\ UNCHANGED <<m_consumerBarrier, claimTarget, lastConsumed, m_published, m_awaiters, m_targetSequence,
                        m_lastKnownPublished, m_readyToResume, awaiters, awaitersToRequeue, awaitersToResume,
                        m_nextToClaim, m_claimedRange, consumed>>
  BY SequencerTerms DEF Sequencer!PublishReturns, Sequencer!Goto, Sequencer!operations, Sequencer!lists,
       Sequencer!clients, Sequencer!consumerBarrier

LEMMA ReadDoes ==
  ASSUME NEW c \in Consumers, Sequencer!ReadElements(c)
  PROVE  /\ sequencerPc[c] = "read" /\ sequencerPc' = [sequencerPc EXCEPT ![c] = "idle"]
         /\ consumed' = [consumed EXCEPT ![c] = m_lastKnownPublished[c]]
         /\ UNCHANGED <<m_consumerBarrier, claimTarget, lastConsumed, m_published, m_awaiters, m_targetSequence,
                        m_lastKnownPublished, m_readyToResume, awaiters, awaitersToRequeue, awaitersToResume,
                        targetSequence, lastKnownPublished, m_nextToClaim, m_claimedRange>>
  BY DEF Sequencer!ReadElements, Sequencer!Goto, Sequencer!operations, Sequencer!lists, Sequencer!scan, Sequencer!consumerBarrier

LEMMA PublishReadDoes ==
  ASSUME Sequencer!PublishRead
  PROVE  \E c \in Consumers :
           /\ Difference(m_consumerBarrier, consumed[c]) < 0 /\ m_consumerBarrier' = consumed[c]
           /\ UNCHANGED <<claimTarget, lastConsumed, m_published, m_awaiters, m_targetSequence,
                          m_lastKnownPublished, m_readyToResume, sequencerPc, awaiters, awaitersToRequeue, awaitersToResume,
                          targetSequence, lastKnownPublished, m_nextToClaim, m_claimedRange, consumed>>
  BY SequencerTerms DEF Sequencer!PublishRead, Sequencer!Barrier!PublishSequence, Sequencer!operations, Sequencer!lists, Sequencer!scan

LEMMA TakeDoes ==
  ASSUME NEW p \in Producers, Sequencer!PublishAcquires(p) \/ Sequencer!PublishReacquires(p)
  PROVE  /\ sequencerPc[p] \in {"exchange", "reacquire"}
         /\ awaiters' = [awaiters EXCEPT ![p] = m_awaiters] /\ m_awaiters' = << >>
         /\ \/ /\ m_awaiters = << >> /\ UNCHANGED lastKnownPublished
               /\ sequencerPc' = [sequencerPc EXCEPT ![p] = IF sequencerPc[p] = "exchange" THEN "idle" ELSE "resume"]
            \/ /\ m_awaiters # << >> /\ sequencerPc' = [sequencerPc EXCEPT ![p] = "after"]
               /\ lastKnownPublished' = [lastKnownPublished EXCEPT ![p] = m_lastKnownPublished[Head(m_awaiters)]]
         /\ UNCHANGED <<m_consumerBarrier, claimTarget, lastConsumed, m_published, m_targetSequence,
                        m_lastKnownPublished, m_readyToResume, awaitersToRequeue, awaitersToResume,
                        targetSequence, m_nextToClaim, m_claimedRange, consumed>>
  <1>1. PICK otherwise : /\ Sequencer!TakeAwaiters(p, otherwise) /\ sequencerPc[p] \in {"exchange", "reacquire"}
                         /\ otherwise = IF sequencerPc[p] = "exchange" THEN "idle" ELSE "resume"
    BY DEF Sequencer!PublishAcquires, Sequencer!PublishReacquires
  <1>2. QED BY <1>1 DEF Sequencer!TakeAwaiters, Sequencer!Goto, Sequencer!operations, Sequencer!clients, Sequencer!consumerBarrier

LEMMA SortDoes ==
  ASSUME ClientTypes, NEW p \in Producers, Sequencer!PublishSorts(p)
  PROVE  /\ sequencerPc[p] = "after"
         /\ \/ /\ Sequencer!IsPublished(Advance(lastKnownPublished[p], 1))
               /\ lastKnownPublished' = [lastKnownPublished EXCEPT ![p] = Advance(lastKnownPublished[p], 1)]
               /\ UNCHANGED <<sequencerPc, m_lastKnownPublished, awaiters, awaitersToRequeue, awaitersToResume, targetSequence>>
            \/ \E due, later \in Seq(Consumers) : \E s \in Sequences :
                 /\ \A c \in Consumers : /\ ~(OnList(c, due) /\ OnList(c, later))
                                         /\ OnList(c, due) \/ OnList(c, later) <=> OnList(c, awaiters[p])
                                         /\ OnceOnList(c, awaiters[p]) => OnceOnList(c, due) /\ OnceOnList(c, later)
                 /\ awaitersToResume' = [awaitersToResume EXCEPT ![p] = @ \o due]
                 /\ awaitersToRequeue' = [awaitersToRequeue EXCEPT ![p] = later]
                 /\ targetSequence' = [targetSequence EXCEPT ![p] = s]
                 /\ m_lastKnownPublished' =
                      [c \in Consumers |-> IF OnList(c, awaiters[p]) THEN lastKnownPublished[p] ELSE m_lastKnownPublished[c]]
                 /\ awaiters' = [awaiters EXCEPT ![p] = << >>]
                 /\ sequencerPc' = [sequencerPc EXCEPT ![p] = IF later = << >> THEN "resume" ELSE "requeue"]
                 /\ UNCHANGED lastKnownPublished
         /\ UNCHANGED <<m_consumerBarrier, claimTarget, lastConsumed, m_published, m_awaiters, m_targetSequence,
                        m_readyToResume, m_nextToClaim, m_claimedRange, consumed>>
  <1> DEFINE known == lastKnownPublished[p]
             Due == {c \in Consumers : Difference(m_targetSequence[c], known) <= 0}
             NotDue == {c \in Consumers : Difference(m_targetSequence[c], known) > 0}
             due == Selected(awaiters[p], Due)
             later == Selected(awaiters[p], NotDue)
             diffs == {Difference(m_targetSequence[c], known) : c \in ToSet(later)} \cup {2^(Width - 1) - 1}
             s == Advance(known, CHOOSE m \in diffs : \A n \in diffs : m <= n)
  <1>1. /\ awaiters[p] \in Seq(Consumers) /\ known \in Sequences /\ m_targetSequence \in [Consumers -> Sequences]
    BY ClientValues, ClientParties
  <1>2. /\ Sequencer!Satisfied(awaiters[p], known) = due
        /\ Sequencer!Unsatisfied(awaiters[p], known) = later
    BY SequencerTerms, SequencerSets DEF Sequencer!Satisfied, Sequencer!Unsatisfied
  <1>3. Sequencer!EarliestTarget(later, known) = s
    BY SequencerTerms, SequencerSets DEF Sequencer!EarliestTarget
  <1>4. /\ due \in Seq(Consumers) /\ later \in Seq(Consumers)
        /\ \A c : /\ OnList(c, due) <=> OnList(c, awaiters[p]) /\ c \in Due
                  /\ OnList(c, later) <=> OnList(c, awaiters[p]) /\ c \in NotDue
                  /\ OnceOnList(c, awaiters[p]) => OnceOnList(c, due) /\ OnceOnList(c, later)
    <2> HIDE DEF Due, NotDue
    <2> QED BY <1>1, SelectedList
  <1>5. \A c \in Consumers : ~(c \in Due /\ c \in NotDue) /\ (c \in Due \/ c \in NotDue)
    <2> SUFFICES ASSUME NEW c \in Consumers PROVE ~(c \in Due /\ c \in NotDue) /\ (c \in Due \/ c \in NotDue)
      OBVIOUS
    <2>1. Difference(m_targetSequence[c], known) \in Int
      BY <1>1, DifferenceType
    <2>2. QED BY <2>1
  <1> HIDE DEF Due, NotDue, due, later
  <1>6. s \in Sequences
    <2>1. ASSUME NEW c \in ToSet(later) PROVE Difference(m_targetSequence[c], known) \in Int /\ -Half <= Difference(m_targetSequence[c], known)
      <3>1. c \in Consumers
        BY <1>4 DEF ToSet
      <3>2. QED BY <1>1, <3>1, DifferenceType
    <2>2. \A n \in diffs : n \in Int /\ -Half <= n
      BY <2>1, RangeFacts DEF Half
    <2>3. \E m \in diffs : \A n \in diffs : m <= n
      <3> DEFINE T == {k \in Nat : k - Half \in diffs}
      <3> HIDE DEF diffs
      <3>1. \A n \in diffs : n + Half \in Nat /\ (n + Half) - Half = n
        BY <2>2, RangeFacts
      <3>2. T \in SUBSET Nat /\ T # {}
        <4>1. PICK n \in diffs : TRUE
          BY DEF diffs
        <4>2. n + Half \in T
          BY <3>1
        <4>3. QED BY <4>2
      <3>3. PICK k \in T : \A j \in T : k <= j
        <4> HIDE DEF T
        <4> QED BY <3>2, LeastNumber
      <3>4. ASSUME NEW n \in diffs PROVE k - Half <= n
        <4>1. n + Half \in T
          BY <3>1
        <4>2. k <= n + Half /\ k \in Nat
          BY <3>3, <4>1
        <4>3. n \in Int /\ Half \in Int
          BY <2>2, RangeFacts
        <4>4. QED BY <4>2, <4>3
      <3>5. QED BY <3>3, <3>4
    <2> HIDE DEF diffs
    <2>4. (CHOOSE m \in diffs : \A n \in diffs : m <= n) \in Int
      BY <2>2, <2>3
    <2>5. QED BY <1>1, <2>4, AdvanceType
  <1> HIDE DEF s, diffs
  <1>7. \A c \in Consumers : c \in Sequencer!ToSet(awaiters[p]) <=> OnList(c, awaiters[p])
    BY SequencerSets DEF ToSet, OnList
  <1>8. /\ sequencerPc[p] = "after"
        /\ IF Sequencer!IsPublished(Advance(known, 1))
           THEN /\ lastKnownPublished' = [lastKnownPublished EXCEPT ![p] = Advance(known, 1)]
                /\ UNCHANGED <<sequencerPc, m_lastKnownPublished, awaiters, awaitersToRequeue, awaitersToResume, targetSequence>>
           ELSE /\ awaitersToResume' = [awaitersToResume EXCEPT ![p] = @ \o due]
                /\ awaitersToRequeue' = [awaitersToRequeue EXCEPT ![p] = later]
                /\ targetSequence' = [targetSequence EXCEPT ![p] = s]
                /\ m_lastKnownPublished' =
                     [c \in Consumers |-> IF c \in Sequencer!ToSet(awaiters[p]) THEN known ELSE m_lastKnownPublished[c]]
                /\ awaiters' = [awaiters EXCEPT ![p] = << >>]
                /\ sequencerPc' = [sequencerPc EXCEPT ![p] = IF later = << >> THEN "resume" ELSE "requeue"]
                /\ UNCHANGED lastKnownPublished
        /\ UNCHANGED <<m_consumerBarrier, claimTarget, lastConsumed, m_published, m_awaiters, m_targetSequence,
                       m_readyToResume, m_nextToClaim, m_claimedRange, consumed>>
    BY <1>2, <1>3, SequencerTerms DEF Sequencer!PublishSorts, Sequencer!Goto, Sequencer!lists, Sequencer!clients, Sequencer!consumerBarrier
  <1>9. CASE Sequencer!IsPublished(Advance(known, 1))
    BY <1>8, <1>9
  <1>10. CASE ~Sequencer!IsPublished(Advance(known, 1))
    <2>1. m_lastKnownPublished' =
            [c \in Consumers |-> IF OnList(c, awaiters[p]) THEN lastKnownPublished[p] ELSE m_lastKnownPublished[c]]
      BY <1>7, <1>8, <1>10
    <2>2. \A c \in Consumers : /\ ~(OnList(c, due) /\ OnList(c, later))
                               /\ OnList(c, due) \/ OnList(c, later) <=> OnList(c, awaiters[p])
                               /\ OnceOnList(c, awaiters[p]) => OnceOnList(c, due) /\ OnceOnList(c, later)
      BY <1>4, <1>5
    <2>3. QED BY <1>4, <1>6, <1>8, <1>10, <2>1, <2>2
  <1>11. QED BY <1>9, <1>10

LEMMA RequeueDoes ==
  ASSUME NEW p \in Producers, Sequencer!PublishRequeues(p)
  PROVE  /\ sequencerPc[p] = "requeue" /\ sequencerPc' = [sequencerPc EXCEPT ![p] = "scan"]
         /\ m_awaiters' = awaitersToRequeue[p] \o m_awaiters
         /\ awaitersToRequeue' = [awaitersToRequeue EXCEPT ![p] = << >>]
         /\ UNCHANGED <<m_consumerBarrier, claimTarget, lastConsumed, m_published, m_targetSequence,
                        m_lastKnownPublished, m_readyToResume, awaiters, awaitersToResume,
                        targetSequence, lastKnownPublished, m_nextToClaim, m_claimedRange, consumed>>
  BY DEF Sequencer!PublishRequeues, Sequencer!Goto, Sequencer!operations, Sequencer!scan, Sequencer!clients, Sequencer!consumerBarrier

LEMMA ResumeDoes ==
  ASSUME NEW t \in Clients, Sequencer!ResumeAwaiter(t)
  PROVE  /\ sequencerPc[t] = "resume" /\ awaitersToResume[t] # << >>
         /\ m_lastKnownPublished' = [m_lastKnownPublished EXCEPT ![Head(awaitersToResume[t])] = lastKnownPublished[t]]
         /\ m_readyToResume' = [m_readyToResume EXCEPT ![Head(awaitersToResume[t])] = TRUE]
         /\ sequencerPc' = IF m_readyToResume[Head(awaitersToResume[t])]
                           THEN [sequencerPc EXCEPT ![Head(awaitersToResume[t])] = "read"] ELSE sequencerPc
         /\ awaitersToResume' = [awaitersToResume EXCEPT ![t] = Tail(@)]
         /\ UNCHANGED <<m_consumerBarrier, claimTarget, lastConsumed, m_published, m_awaiters, m_targetSequence,
                        awaiters, awaitersToRequeue, targetSequence, lastKnownPublished, m_nextToClaim, m_claimedRange, consumed>>
  BY Zenon DEF Sequencer!ResumeAwaiter, Sequencer!scan, Sequencer!clients, Sequencer!consumerBarrier

LEMMA WaitDoes ==
  ASSUME NEW c \in Consumers, NEW n, Sequencer!Wait(c, Sequencer!Advance(consumed[c], n))
  PROVE  /\ sequencerPc[c] = "idle" /\ sequencerPc' = [sequencerPc EXCEPT ![c] = "enqueue"]
         /\ m_targetSequence' = [m_targetSequence EXCEPT ![c] = Advance(consumed[c], n)]
         /\ m_lastKnownPublished' = [m_lastKnownPublished EXCEPT ![c] = consumed[c]]
         /\ m_readyToResume' = [m_readyToResume EXCEPT ![c] = FALSE]
         /\ targetSequence' = [targetSequence EXCEPT ![c] = Advance(consumed[c], n)]
         /\ lastKnownPublished' = [lastKnownPublished EXCEPT ![c] = consumed[c]]
         /\ UNCHANGED <<m_consumerBarrier, claimTarget, lastConsumed, m_published, m_awaiters,
                        awaiters, awaitersToRequeue, awaitersToResume, m_nextToClaim, m_claimedRange, consumed>>
  BY SequencerTerms DEF Sequencer!Wait, Sequencer!Goto, Sequencer!lists, Sequencer!clients, Sequencer!consumerBarrier

LEMMA EnqueueDoes ==
  ASSUME NEW c \in Consumers, Sequencer!EnqueueAwaiter(c)
  PROVE  /\ sequencerPc[c] = "enqueue" /\ sequencerPc' = [sequencerPc EXCEPT ![c] = "scan"]
         /\ m_awaiters' = <<c>> \o m_awaiters
         /\ UNCHANGED <<m_consumerBarrier, claimTarget, lastConsumed, m_published, m_targetSequence, m_lastKnownPublished,
                        m_readyToResume, awaiters, awaitersToRequeue, awaitersToResume, targetSequence, lastKnownPublished,
                        m_nextToClaim, m_claimedRange, consumed>>
  BY DEF Sequencer!EnqueueAwaiter, Sequencer!Goto, Sequencer!operations, Sequencer!lists, Sequencer!scan,
         Sequencer!clients, Sequencer!consumerBarrier

LEMMA AcquireDoes ==
  ASSUME NEW c \in Consumers, Sequencer!AcquireAwaiters(c)
  PROVE  /\ sequencerPc[c] = "acquire" /\ sequencerPc' = [sequencerPc EXCEPT ![c] = "resume"]
         /\ awaitersToResume' = [awaitersToResume EXCEPT ![c] = m_awaiters] /\ m_awaiters' = << >>
         /\ UNCHANGED <<m_consumerBarrier, claimTarget, lastConsumed, m_published, m_targetSequence, m_lastKnownPublished,
                        m_readyToResume, awaiters, awaitersToRequeue, targetSequence, lastKnownPublished,
                        m_nextToClaim, m_claimedRange, consumed>>
  BY DEF Sequencer!AcquireAwaiters, Sequencer!Goto, Sequencer!operations, Sequencer!scan, Sequencer!clients, Sequencer!consumerBarrier

LEMMA SuspendDoes ==
  ASSUME NEW c \in Consumers, Sequencer!SuspendOrContinue(c)
  PROVE  /\ sequencerPc[c] = "resume" /\ awaitersToResume[c] = << >>
         /\ m_readyToResume' = [m_readyToResume EXCEPT ![c] = TRUE]
         /\ sequencerPc' = [sequencerPc EXCEPT ![c] = IF m_readyToResume[c] THEN "read" ELSE "suspended"]
         /\ targetSequence' = [targetSequence EXCEPT ![c] = initial_sequence]
         /\ lastKnownPublished' = [lastKnownPublished EXCEPT ![c] = initial_sequence]
         /\ UNCHANGED <<m_consumerBarrier, claimTarget, lastConsumed, m_published, m_awaiters, m_targetSequence, m_lastKnownPublished,
                        awaiters, awaitersToRequeue, awaitersToResume, m_nextToClaim, m_claimedRange, consumed>>
  BY SequencerTerms DEF Sequencer!SuspendOrContinue, Sequencer!Goto, Sequencer!lists, Sequencer!clients, Sequencer!consumerBarrier
-----------------------------------------------------------------------------
(* Every wait operation is on one list                                     *)

LEMMA ClaimListsStep ==
  ASSUME ListsInv, NEW p \in Producers, NEW count \in 1 .. MaxClaim, Sequencer!Claim(p, count)
  PROVE  ListsInv'
  <1>1. ClientTypes /\ ClientLocals /\ p \in Clients /\ p \notin Consumers
    BY ClientParties DEF ListsInv
  <1>2. PICK m \in Int :
           /\ m_nextToClaim' = Advance(m_nextToClaim, m)
           /\ sequencerPc[p] = "idle" /\ sequencerPc' = [sequencerPc EXCEPT ![p] = "claim"]
           /\ m_claimedRange' = [m_claimedRange EXCEPT ![p] = [begin |-> m_nextToClaim, end |-> m_nextToClaim']]
           /\ claimTarget' = [claimTarget EXCEPT ![p] = Advance(m_nextToClaim', -1 - BufferSize)]
           /\ lastConsumed' = [lastConsumed EXCEPT ![p] =
                IF Difference(m_consumerBarrier, Advance(m_nextToClaim', -1 - BufferSize)) < 0 THEN NoResult ELSE m_consumerBarrier]
           /\ UNCHANGED <<m_consumerBarrier, m_published, m_awaiters, m_targetSequence, m_lastKnownPublished, m_readyToResume,
                          awaiters, awaitersToRequeue, awaitersToResume, targetSequence, lastKnownPublished, consumed>>
    BY ClaimDoes
  <1>3. /\ sequencerPc' \in [Clients -> ProducerLabels \cup ConsumerLabels] /\ sequencerPc'[p] = "claim"
        /\ \A u \in Clients : u # p => sequencerPc'[u] = sequencerPc[u]
        /\ \A q \in Producers : sequencerPc'[q] \in ProducerLabels
        /\ \A c \in Consumers : sequencerPc'[c] \in ConsumerLabels
    BY <1>1, <1>2, ClientMoves DEF ProducerLabels
  <1>4. m_nextToClaim' \in Sequences /\ Advance(m_nextToClaim', -1 - BufferSize) \in Sequences
    <2>1. m_nextToClaim' \in Sequences
      BY <1>1, <1>2, ClientValues, AdvanceType
    <2>2. -1 - BufferSize \in Int
      BY RangeFacts
    <2>3. QED BY <2>1, <2>2, AdvanceType
  <1>5. ClientTypes'
    <2>1. /\ m_claimedRange' \in [Producers -> [begin : Sequences, end : Sequences]]
          /\ claimTarget' \in [Producers -> Sequences]
      BY <1>1, <1>2, <1>4, ClientValues
    <2>2. lastConsumed' \in [Producers -> Sequences \cup {NoResult}]
      BY <1>1, <1>2, ClientValues
    <2>3. QED BY <1>1, <1>2, <1>3, <1>4, <2>1, <2>2, ClientValues, ClientTypesNext
  <1>6. awaiters[p] = << >> /\ awaitersToRequeue[p] = << >> /\ awaitersToResume[p] = << >>
    BY <1>1, <1>2 DEF ClientLocals
  <1>7. \A q \in Producers : lastConsumed'[q] = NoResult => sequencerPc'[q] = "claim"
    <2> SUFFICES ASSUME NEW q \in Producers, lastConsumed'[q] = NoResult, q # p PROVE sequencerPc'[q] = "claim"
      BY <1>3
    <2>1. lastConsumed[q] = NoResult
      BY <1>1, <1>2, ClientValues
    <2>2. QED BY <1>1, <1>3, <2>1, ClientParties DEF ClientLocals
  <1>8. QED BY <1>1, <1>2, <1>3, <1>5, <1>6, <1>7, QuietMove

LEMMA ClaimWaitListsStep ==
  ASSUME ListsInv, NEW p \in Producers, Sequencer!ClaimWaitResumes(p)
  PROVE  ListsInv'
  <1>1. ClientTypes /\ ClientLocals /\ p \in Clients /\ p \notin Consumers
    BY ClientParties DEF ListsInv
  <1>2. /\ lastConsumed[p] = NoResult
        /\ UNCHANGED <<m_consumerBarrier, claimTarget, m_published, m_awaiters, m_targetSequence, m_lastKnownPublished,
                       m_readyToResume, sequencerPc, awaiters, awaitersToRequeue, awaitersToResume,
                       targetSequence, lastKnownPublished, m_nextToClaim, m_claimedRange, consumed>>
    BY ClaimWaitDoes
  <1>3. PICK s \in Sequences : lastConsumed' = [lastConsumed EXCEPT ![p] = s]
    <2>1. PICK n \in 0 .. Difference(m_consumerBarrier, claimTarget[p]) :
            lastConsumed' = [lastConsumed EXCEPT ![p] = Advance(claimTarget[p], n)]
      BY ClaimWaitDoes
    <2>2. n \in Int /\ claimTarget[p] \in Sequences
      BY <1>1, ClientValues
    <2>3. QED BY <2>1, <2>2, AdvanceType
  <1>4. lastConsumed' \in [Producers -> Sequences \cup {NoResult}] /\ \A q \in Producers : lastConsumed'[q] = NoResult => lastConsumed[q] = NoResult
    BY <1>1, <1>3, ClientValues, ClientParties
  <1>5. ClientTypes'
    BY <1>1, <1>2, <1>4, ClientValues, ClientTypesNext
  <1>6. ClientLocals'
    BY <1>1, <1>2, <1>4 DEF ClientLocals
  <1>7. \A c \in Consumers : ClientWaits(c)' <=> ClientWaits(c)
    BY <1>2 DEF ClientWaits
  <1>8. QED BY <1>2, <1>5, <1>6, <1>7, ListsKept

LEMMA ProducerMovesListsStep ==
  ASSUME ListsInv, NEW p \in Producers, Sequencer!ClaimResumes(p) \/ Sequencer!PublishLoads(p)
  PROVE  ListsInv'
  <1>1. ClientTypes /\ ClientLocals /\ p \in Clients /\ p \notin Consumers
    BY ClientParties DEF ListsInv
  <1>2. PICK label \in {"publish", "idle", "exchange"} :
          /\ sequencerPc' = [sequencerPc EXCEPT ![p] = label]
          /\ sequencerPc[p] \in {"claim", "load"} /\ (sequencerPc[p] = "claim" => lastConsumed[p] # NoResult)
    BY ProducerMovesDo
  <1>3. UNCHANGED <<m_consumerBarrier, claimTarget, lastConsumed, m_published, m_awaiters, m_targetSequence,
                    m_lastKnownPublished, m_readyToResume, awaiters, awaitersToRequeue, awaitersToResume,
                    targetSequence, lastKnownPublished, m_nextToClaim, m_claimedRange, consumed>>
    BY ProducerMovesDo
  <1>4. /\ sequencerPc' \in [Clients -> ProducerLabels \cup ConsumerLabels]
        /\ \A u \in Clients : u # p => sequencerPc'[u] = sequencerPc[u]
        /\ \A q \in Producers : sequencerPc'[q] \in ProducerLabels
        /\ \A c \in Consumers : sequencerPc'[c] \in ConsumerLabels
    BY <1>1, <1>2, ClientMoves DEF ProducerLabels
  <1>5. ClientTypes'
    BY <1>1, <1>3, <1>4, ClientValues, ClientTypesNext
  <1>6. awaiters[p] = << >> /\ awaitersToRequeue[p] = << >> /\ awaitersToResume[p] = << >>
    BY <1>1, <1>2 DEF ClientLocals
  <1>7. \A q \in Producers : lastConsumed'[q] = NoResult => sequencerPc'[q] = "claim"
    BY <1>1, <1>2, <1>3, <1>4, ClientParties DEF ClientLocals
  <1>8. QED BY <1>1, <1>3, <1>4, <1>5, <1>6, <1>7, QuietMove

LEMMA StoreListsStep ==
  ASSUME ListsInv, NEW p \in Producers, Sequencer!PublishStores(p)
  PROVE  ListsInv'
  <1>1. ClientTypes /\ ClientLocals /\ p \in Clients /\ p \notin Consumers
    BY ClientParties DEF ListsInv
  <1>2. sequencerPc[p] = "publish"
    BY DEF Sequencer!PublishStores
  <1>3. PICK n \in 0 .. Half - 1 : Sequencer!Store(p, Advance(m_claimedRange[p].begin, n))
    BY <1>1, StoreIsInRange
  <1>4. PICK s : s = Advance(m_claimedRange[p].begin, n) /\ s \in Sequences
    <2>1. n \in Int /\ m_claimedRange[p].begin \in Sequences
      BY <1>1, ClientValues
    <2>2. QED BY <2>1, AdvanceType
  <1>5. /\ m_published' = [m_published EXCEPT ![Sequencer!Slot(s)] = s]
        /\ IF s = m_claimedRange[p].begin
           THEN /\ sequencerPc' = [sequencerPc EXCEPT ![p] = "load"]
                /\ m_claimedRange' = [m_claimedRange EXCEPT ![p] = [begin |-> 0, end |-> 0]]
           ELSE UNCHANGED <<sequencerPc, m_claimedRange>>
        /\ UNCHANGED <<m_consumerBarrier, claimTarget, lastConsumed, m_awaiters, m_targetSequence,
                       m_lastKnownPublished, m_readyToResume, awaiters, awaitersToRequeue, awaitersToResume,
                       targetSequence, lastKnownPublished, m_nextToClaim, consumed>>
    BY <1>3, <1>4, StoreDoes
  <1>6. m_published' \in [0 .. (BufferSize - 1) -> Sequences]
    BY <1>1, <1>4, <1>5, ClientValues, SequencerSlot
  <1>7. m_claimedRange' \in [Producers -> [begin : Sequences, end : Sequences]]
    <2>1. 0 \in Sequences
      BY RangeFacts
    <2>2. [begin |-> 0, end |-> 0] \in [begin : Sequences, end : Sequences]
      BY <2>1
    <2>3. m_claimedRange \in [Producers -> [begin : Sequences, end : Sequences]]
      BY <1>1, ClientValues
    <2>4. m_claimedRange' = [m_claimedRange EXCEPT ![p] = [begin |-> 0, end |-> 0]] \/ m_claimedRange' = m_claimedRange
      BY <1>5
    <2>5. QED BY <2>2, <2>3, <2>4, Zenon
  <1>8. \E label \in {"publish", "load"} : sequencerPc' = [sequencerPc EXCEPT ![p] = label]
    BY <1>1, <1>2, <1>5, ClientValues
  <1>9. /\ sequencerPc' \in [Clients -> ProducerLabels \cup ConsumerLabels]
        /\ \A u \in Clients : u # p => sequencerPc'[u] = sequencerPc[u]
        /\ \A q \in Producers : sequencerPc'[q] \in ProducerLabels
        /\ \A c \in Consumers : sequencerPc'[c] \in ConsumerLabels
    BY <1>1, <1>8, ClientMoves DEF ProducerLabels
  <1>10. ClientTypes'
    BY <1>1, <1>5, <1>6, <1>7, <1>9, ClientValues, ClientTypesNext
  <1>11. awaiters[p] = << >> /\ awaitersToRequeue[p] = << >> /\ awaitersToResume[p] = << >>
    BY <1>1, <1>2 DEF ClientLocals
  <1>12. \A q \in Producers : lastConsumed'[q] = NoResult => sequencerPc'[q] = "claim"
    BY <1>1, <1>2, <1>5, <1>9, ClientParties DEF ClientLocals
  <1>13. QED BY <1>1, <1>5, <1>9, <1>10, <1>11, <1>12, QuietMove

LEMMA ScanListsStep ==
  ASSUME ListsInv, NEW t \in Clients,
         (t \in Producers /\ Sequencer!PublishScans(t)) \/ (t \in Consumers /\ Sequencer!ScanPublished(t))
  PROVE  ListsInv'
  <1>1. ClientTypes /\ ClientLocals
    BY DEF ListsInv
  <1>2. PICK label : /\ sequencerPc' = [sequencerPc EXCEPT ![t] = label]
                     /\ label \in (IF t \in Producers THEN {"scan", "reacquire", "resume"} ELSE {"scan", "acquire", "resume"})
    BY <1>1, ScanDoes
  <1>3. /\ sequencerPc[t] = "scan"
        /\ UNCHANGED <<m_consumerBarrier, claimTarget, lastConsumed, m_published, m_awaiters, m_targetSequence,
                       m_lastKnownPublished, m_readyToResume, awaiters, awaitersToRequeue, awaitersToResume,
                       targetSequence, m_nextToClaim, m_claimedRange, consumed>>
    BY <1>1, ScanDoes
  <1>4. lastKnownPublished' \in [Clients -> Sequences]
    <2>1. lastKnownPublished' = [lastKnownPublished EXCEPT ![t] = Advance(lastKnownPublished[t], 1)] \/ UNCHANGED lastKnownPublished
      BY <1>1, ScanDoes
    <2>2. Advance(lastKnownPublished[t], 1) \in Sequences
      BY <1>1, ClientValues, AdvanceType
    <2>3. QED BY <1>1, <2>1, <2>2, ClientValues
  <1>5. /\ sequencerPc' \in [Clients -> ProducerLabels \cup ConsumerLabels] /\ sequencerPc'[t] = label
        /\ \A u \in Clients : u # t => sequencerPc'[u] = sequencerPc[u]
        /\ \A q \in Producers : sequencerPc'[q] \in ProducerLabels
        /\ \A c \in Consumers : sequencerPc'[c] \in ConsumerLabels
    BY <1>1, <1>2, ClientMoves DEF ProducerLabels, ConsumerLabels
  <1>6. ClientTypes'
    BY <1>1, <1>3, <1>4, <1>5, ClientValues, ClientTypesNext
  <1>7. awaiters[t] = << >> /\ awaitersToRequeue[t] = << >> /\ (t \in Consumers => awaitersToResume[t] = << >>)
    BY <1>1, <1>3 DEF ClientLocals
  <1>8. \A q \in Producers : lastConsumed'[q] = NoResult => sequencerPc'[q] = "claim"
    BY <1>1, <1>3, <1>5, ClientParties DEF ClientLocals
  <1>9. t \in Consumers => sequencerPc'[t] \notin {"suspended", "enqueue"} /\ (ClientWaits(t)' <=> ClientWaits(t))
    BY <1>2, <1>3, <1>5, ClientParties DEF ClientWaits
  <1>10. t \in Producers => sequencerPc'[t] \in {"scan", "reacquire", "resume"}
    BY <1>2, <1>5
  <1>11. QED BY <1>3, <1>5, <1>6, <1>7, <1>8, <1>9, <1>10, ClientParties, QuietMove

LEMMA ReturnListsStep ==
  ASSUME ListsInv, NEW p \in Producers, Sequencer!PublishReturns(p)
  PROVE  ListsInv'
  <1>1. ClientTypes /\ ClientLocals /\ p \in Clients /\ p \notin Consumers
    BY ClientParties DEF ListsInv
  <1>2. /\ sequencerPc[p] = "resume" /\ awaitersToResume[p] = << >> /\ sequencerPc' = [sequencerPc EXCEPT ![p] = "idle"]
        /\ targetSequence' = [targetSequence EXCEPT ![p] = initial_sequence]
        /\ lastKnownPublished' = [lastKnownPublished EXCEPT ![p] = initial_sequence]
        /\ UNCHANGED <<m_consumerBarrier, claimTarget, lastConsumed, m_published, m_awaiters, m_targetSequence,
                       m_lastKnownPublished, m_readyToResume, awaiters, awaitersToRequeue, awaitersToResume,
                       m_nextToClaim, m_claimedRange, consumed>>
    BY ReturnDoes
  <1>3. /\ sequencerPc' \in [Clients -> ProducerLabels \cup ConsumerLabels]
        /\ \A u \in Clients : u # p => sequencerPc'[u] = sequencerPc[u]
        /\ \A q \in Producers : sequencerPc'[q] \in ProducerLabels
        /\ \A c \in Consumers : sequencerPc'[c] \in ConsumerLabels
    BY <1>1, <1>2, ClientMoves DEF ProducerLabels
  <1>4. targetSequence' \in [Clients -> Sequences] /\ lastKnownPublished' \in [Clients -> Sequences]
    BY <1>1, <1>2, ClientValues, RangeFacts
  <1>5. ClientTypes'
    BY <1>1, <1>2, <1>3, <1>4, ClientValues, ClientTypesNext
  <1>6. awaiters[p] = << >> /\ awaitersToRequeue[p] = << >>
    BY <1>1, <1>2 DEF ClientLocals
  <1>7. \A q \in Producers : lastConsumed'[q] = NoResult => sequencerPc'[q] = "claim"
    BY <1>1, <1>2, <1>3, ClientParties DEF ClientLocals
  <1>8. QED BY <1>1, <1>2, <1>3, <1>5, <1>6, <1>7, QuietMove

LEMMA ReadListsStep ==
  ASSUME ListsInv, NEW c \in Consumers, Sequencer!ReadElements(c)
  PROVE  ListsInv'
  <1>1. ClientTypes /\ ClientLocals /\ c \in Clients /\ c \notin Producers
    BY ClientParties DEF ListsInv
  <1>2. /\ sequencerPc[c] = "read" /\ sequencerPc' = [sequencerPc EXCEPT ![c] = "idle"]
        /\ consumed' = [consumed EXCEPT ![c] = m_lastKnownPublished[c]]
        /\ UNCHANGED <<m_consumerBarrier, claimTarget, lastConsumed, m_published, m_awaiters, m_targetSequence,
                       m_lastKnownPublished, m_readyToResume, awaiters, awaitersToRequeue, awaitersToResume,
                       targetSequence, lastKnownPublished, m_nextToClaim, m_claimedRange>>
    BY ReadDoes
  <1>3. /\ sequencerPc' \in [Clients -> ProducerLabels \cup ConsumerLabels] /\ sequencerPc'[c] = "idle"
        /\ \A u \in Clients : u # c => sequencerPc'[u] = sequencerPc[u]
        /\ \A q \in Producers : sequencerPc'[q] \in ProducerLabels
        /\ \A d \in Consumers : sequencerPc'[d] \in ConsumerLabels
    BY <1>1, <1>2, ClientMoves DEF ConsumerLabels
  <1>4. consumed' \in [Consumers -> Sequences]
    BY <1>1, <1>2, ClientValues
  <1>5. ClientTypes'
    BY <1>1, <1>2, <1>3, <1>4, ClientValues, ClientTypesNext
  <1>6. awaiters[c] = << >> /\ awaitersToRequeue[c] = << >> /\ awaitersToResume[c] = << >>
    BY <1>1, <1>2 DEF ClientLocals
  <1>7. \A q \in Producers : lastConsumed'[q] = NoResult => sequencerPc'[q] = "claim"
    BY <1>1, <1>2, <1>3, ClientParties DEF ClientLocals
  <1>8. sequencerPc'[c] \notin {"suspended", "enqueue"} /\ (ClientWaits(c)' <=> ClientWaits(c))
    BY <1>2, <1>3 DEF ClientWaits
  <1>9. QED BY <1>1, <1>2, <1>3, <1>5, <1>6, <1>7, <1>8, QuietMove

LEMMA PublishReadListsStep ==
  ASSUME ListsInv, Sequencer!PublishRead
  PROVE  ListsInv'
  <1>1. ClientTypes /\ ClientLocals
    BY DEF ListsInv
  <1>2. PICK c \in Consumers :
          /\ m_consumerBarrier' = consumed[c]
          /\ UNCHANGED <<claimTarget, lastConsumed, m_published, m_awaiters, m_targetSequence,
                         m_lastKnownPublished, m_readyToResume, sequencerPc, awaiters, awaitersToRequeue, awaitersToResume,
                         targetSequence, lastKnownPublished, m_nextToClaim, m_claimedRange, consumed>>
    BY PublishReadDoes
  <1>3. m_consumerBarrier' \in Sequences
    BY <1>1, <1>2, ClientValues
  <1>4. ClientTypes'
    BY <1>1, <1>2, <1>3, ClientValues, ClientTypesNext
  <1>5. ClientLocals'
    BY <1>1, <1>2 DEF ClientLocals
  <1>6. \A d \in Consumers : ClientWaits(d)' <=> ClientWaits(d)
    BY <1>2 DEF ClientWaits
  <1>7. QED BY <1>2, <1>4, <1>5, <1>6, ListsKept

(* A step that changes the stack and the lists of one thread: what is on   *)
(* them afterwards was on them before, or did not wait.                    *)
LEMMA ListsMove ==
  ASSUME NEW c \in Consumers, WaitLists(c), NEW t \in Clients,
         \A u \in Clients : u # t => /\ awaiters'[u] = awaiters[u] /\ awaitersToRequeue'[u] = awaitersToRequeue[u]
                                     /\ awaitersToResume'[u] = awaitersToResume[u],
         OnceOnList(c, m_awaiters'), OnceOnList(c, awaiters'[t]),
         OnceOnList(c, awaitersToRequeue'[t]), OnceOnList(c, awaitersToResume'[t]),
         OnList(c, m_awaiters') => ~InHand(c, t)',
         OnList(c, awaiters'[t]) => ~OnList(c, awaitersToRequeue'[t]) /\ ~OnList(c, awaitersToResume'[t]),
         ~(OnList(c, awaitersToRequeue'[t]) /\ OnList(c, awaitersToResume'[t])),
         OnList(c, m_awaiters') \/ InHand(c, t)' => OnList(c, m_awaiters) \/ InHand(c, t) \/ ~ClientWaits(c),
         ClientWaits(c)' <=> \/ OnList(c, m_awaiters') \/ InHand(c, t)'
                             \/ \E u \in Clients : u # t /\ InHand(c, u)
  PROVE  WaitLists(c)'
  <1>1. \A u \in Clients : u # t => (InHand(c, u)' <=> InHand(c, u))
    BY DEF InHand
  <1>2. \A u \in Clients : InHand(c, u) => ~OnList(c, m_awaiters) /\ ClientWaits(c) /\ \A v \in Clients : InHand(c, v) => u = v
    BY DEF WaitLists
  <1>3. ASSUME NEW u \in Clients, InHand(c, u)'
        PROVE  ~OnList(c, m_awaiters') /\ \A v \in Clients : InHand(c, v)' => u = v
    BY <1>1, <1>2, <1>3
  <1>4. ASSUME NEW u \in Clients
        PROVE  /\ OnceOnList(c, awaiters'[u]) /\ OnceOnList(c, awaitersToRequeue'[u]) /\ OnceOnList(c, awaitersToResume'[u])
               /\ ~(OnList(c, awaiters'[u]) /\ OnList(c, awaitersToRequeue'[u]))
               /\ ~(OnList(c, awaiters'[u]) /\ OnList(c, awaitersToResume'[u]))
               /\ ~(OnList(c, awaitersToRequeue'[u]) /\ OnList(c, awaitersToResume'[u]))
    <2>1. CASE u = t
      BY <2>1
    <2>2. CASE u # t
      BY <2>2 DEF WaitLists
    <2>3. QED BY <2>1, <2>2
  <1>5. ClientWaits(c)' <=> OnList(c, m_awaiters') \/ \E u \in Clients : InHand(c, u)'
    BY <1>1
  <1>6. QED BY <1>3, <1>4, <1>5 DEF WaitLists

LEMMA TakeListsStep ==
  ASSUME ListsInv, NEW p \in Producers, Sequencer!PublishAcquires(p) \/ Sequencer!PublishReacquires(p)
  PROVE  ListsInv'
  <1>1. ClientTypes /\ ClientLocals /\ p \in Clients /\ p \notin Consumers /\ \A c \in Consumers : WaitLists(c)
    BY ClientParties DEF ListsInv
  <1>2. /\ sequencerPc[p] \in {"exchange", "reacquire"}
        /\ awaiters' = [awaiters EXCEPT ![p] = m_awaiters] /\ m_awaiters' = << >>
        /\ \/ /\ m_awaiters = << >> /\ UNCHANGED lastKnownPublished
              /\ sequencerPc' = [sequencerPc EXCEPT ![p] = IF sequencerPc[p] = "exchange" THEN "idle" ELSE "resume"]
           \/ /\ m_awaiters # << >> /\ sequencerPc' = [sequencerPc EXCEPT ![p] = "after"]
              /\ lastKnownPublished' = [lastKnownPublished EXCEPT ![p] = m_lastKnownPublished[Head(m_awaiters)]]
        /\ UNCHANGED <<m_consumerBarrier, claimTarget, lastConsumed, m_published, m_targetSequence,
                       m_lastKnownPublished, m_readyToResume, awaitersToRequeue, awaitersToResume,
                       targetSequence, m_nextToClaim, m_claimedRange, consumed>>
    BY TakeDoes
  <1>3. m_awaiters \in Seq(Consumers) /\ awaiters \in [Clients -> Seq(Consumers)] /\ lastKnownPublished \in [Clients -> Sequences]
        /\ m_lastKnownPublished \in [Consumers -> Sequences]
    BY <1>1, ClientValues
  <1>4. PICK label \in {"idle", "resume", "after"} :
          /\ sequencerPc' = [sequencerPc EXCEPT ![p] = label]
          /\ (m_awaiters # << >> => label = "after") /\ (label = "idle" => sequencerPc[p] = "exchange")
    BY <1>2
  <1>5. /\ sequencerPc' \in [Clients -> ProducerLabels \cup ConsumerLabels] /\ sequencerPc'[p] = label
        /\ \A u \in Clients : u # p => sequencerPc'[u] = sequencerPc[u]
        /\ \A q \in Producers : sequencerPc'[q] \in ProducerLabels
        /\ \A c \in Consumers : sequencerPc'[c] \in ConsumerLabels
    BY <1>1, <1>4, ClientMoves DEF ProducerLabels
  <1>6. /\ awaiters' \in [Clients -> Seq(Consumers)] /\ awaiters'[p] = m_awaiters /\ m_awaiters' \in Seq(Consumers)
        /\ \A u \in Clients : u # p => awaiters'[u] = awaiters[u]
    BY <1>1, <1>2, <1>3, EmptyList
  <1>7. lastKnownPublished' \in [Clients -> Sequences]
    <2>1. m_awaiters # << >> => m_lastKnownPublished[Head(m_awaiters)] \in Sequences
      BY <1>3
    <2>2. QED BY <1>1, <1>2, <1>3, <2>1
  <1>8. ClientTypes'
    BY <1>1, <1>2, <1>5, <1>6, <1>7, ClientValues, ClientTypesNext
  <1>9. awaiters[p] = << >> /\ awaitersToRequeue[p] = << >> /\ (sequencerPc[p] = "exchange" => awaitersToResume[p] = << >>)
    BY <1>1, <1>2 DEF ClientLocals
  <1>10. ClientLocals'
    <2>1. ASSUME NEW u \in Clients
          PROVE  /\ awaiters'[u] # << >> => sequencerPc'[u] = "after"
                 /\ awaitersToRequeue'[u] # << >> => sequencerPc'[u] = "requeue"
                 /\ awaitersToResume'[u] # << >> => sequencerPc'[u] \in {"after", "requeue", "scan", "reacquire", "resume"}
      BY <1>1, <1>2, <1>4, <1>5, <1>6, <1>9 DEF ClientLocals
    <2>2. QED BY <1>1, <1>2, <1>5, <2>1, ClientParties DEF ClientLocals
  <1>11. ASSUME NEW c \in Consumers PROVE WaitLists(c)'
    <2>1. WaitLists(c) /\ (ClientWaits(c)' <=> ClientWaits(c))
      BY <1>1, <1>2, <1>5, ClientParties DEF ClientWaits
    <2>2. ~OnList(c, m_awaiters') /\ OnceOnList(c, m_awaiters') /\ ~OnList(c, awaitersToRequeue'[p])
      BY <1>2, <1>9, OnEmptyList
    <2>3. /\ InHand(c, p)' <=> OnList(c, m_awaiters) \/ OnList(c, awaitersToResume[p])
          /\ InHand(c, p) <=> OnList(c, awaitersToResume[p])
      BY <1>2, <1>6, <1>9, OnEmptyList DEF InHand
    <2>4. OnList(c, m_awaiters) => ~InHand(c, p)
      BY <1>1, <2>1 DEF WaitLists
    <2>5. OnceOnList(c, m_awaiters) /\ OnceOnList(c, awaitersToRequeue[p]) /\ OnceOnList(c, awaitersToResume[p])
      BY <1>1, <2>1 DEF WaitLists
    <2>6. ClientWaits(c) <=> OnList(c, m_awaiters) \/ InHand(c, p) \/ \E u \in Clients : u # p /\ InHand(c, u)
      BY <1>1, <2>1 DEF WaitLists
    <2>7. QED BY <1>1, <1>2, <1>6, <2>1, <2>2, <2>3, <2>4, <2>5, <2>6, ListsMove
  <1>12. QED BY <1>8, <1>10, <1>11 DEF ListsInv

LEMMA RequeueListsStep ==
  ASSUME ListsInv, NEW p \in Producers, Sequencer!PublishRequeues(p)
  PROVE  ListsInv'
  <1>1. ClientTypes /\ ClientLocals /\ p \in Clients /\ p \notin Consumers /\ \A c \in Consumers : WaitLists(c)
    BY ClientParties DEF ListsInv
  <1>2. /\ sequencerPc[p] = "requeue" /\ sequencerPc' = [sequencerPc EXCEPT ![p] = "scan"]
        /\ m_awaiters' = awaitersToRequeue[p] \o m_awaiters
        /\ awaitersToRequeue' = [awaitersToRequeue EXCEPT ![p] = << >>]
        /\ UNCHANGED <<m_consumerBarrier, claimTarget, lastConsumed, m_published, m_targetSequence,
                       m_lastKnownPublished, m_readyToResume, awaiters, awaitersToResume,
                       targetSequence, lastKnownPublished, m_nextToClaim, m_claimedRange, consumed>>
    BY RequeueDoes
  <1>3. m_awaiters \in Seq(Consumers) /\ awaitersToRequeue \in [Clients -> Seq(Consumers)] /\ awaitersToRequeue[p] \in Seq(Consumers)
    BY <1>1, ClientValues
  <1>4. /\ sequencerPc' \in [Clients -> ProducerLabels \cup ConsumerLabels] /\ sequencerPc'[p] = "scan"
        /\ \A u \in Clients : u # p => sequencerPc'[u] = sequencerPc[u]
        /\ \A q \in Producers : sequencerPc'[q] \in ProducerLabels
        /\ \A c \in Consumers : sequencerPc'[c] \in ConsumerLabels
    BY <1>1, <1>2, ClientMoves DEF ProducerLabels
  <1>5. /\ awaitersToRequeue' \in [Clients -> Seq(Consumers)] /\ awaitersToRequeue'[p] = << >> /\ m_awaiters' \in Seq(Consumers)
        /\ \A u \in Clients : u # p => awaitersToRequeue'[u] = awaitersToRequeue[u]
    BY <1>1, <1>2, <1>3, EmptyList, OnConcatenated
  <1>6. ClientTypes'
    BY <1>1, <1>2, <1>4, <1>5, ClientValues, ClientTypesNext
  <1>7. awaiters[p] = << >>
    BY <1>1, <1>2 DEF ClientLocals
  <1>8. ClientLocals'
    <2>1. ASSUME NEW u \in Clients
          PROVE  /\ awaiters'[u] # << >> => sequencerPc'[u] = "after"
                 /\ awaitersToRequeue'[u] # << >> => sequencerPc'[u] = "requeue"
                 /\ awaitersToResume'[u] # << >> => sequencerPc'[u] \in {"after", "requeue", "scan", "reacquire", "resume"}
      BY <1>1, <1>2, <1>4, <1>5, <1>7 DEF ClientLocals
    <2>2. QED BY <1>1, <1>2, <1>4, <2>1, ClientParties DEF ClientLocals
  <1>9. ASSUME NEW c \in Consumers PROVE WaitLists(c)'
    <2>1. WaitLists(c) /\ (ClientWaits(c)' <=> ClientWaits(c))
      BY <1>1, <1>2, <1>4, ClientParties DEF ClientWaits
    <2>2. ~OnList(c, awaiters[p]) /\ ~OnList(c, awaitersToRequeue'[p]) /\ OnceOnList(c, awaitersToRequeue'[p])
      BY <1>5, <1>7, OnEmptyList
    <2>3. OnceOnList(c, m_awaiters) /\ OnceOnList(c, awaiters[p]) /\ OnceOnList(c, awaitersToRequeue[p]) /\ OnceOnList(c, awaitersToResume[p])
      BY <1>1, <2>1 DEF WaitLists
    <2>4. (InHand(c, p)' <=> OnList(c, awaitersToResume[p])) /\ (InHand(c, p) <=> OnList(c, awaitersToRequeue[p]) \/ OnList(c, awaitersToResume[p]))
      BY <1>2, <2>2 DEF InHand
    <2>5. (OnList(c, m_awaiters) => ~InHand(c, p)) /\ ~(OnList(c, awaitersToRequeue[p]) /\ OnList(c, awaitersToResume[p]))
      BY <1>1, <2>1 DEF WaitLists
    <2>6. (OnList(c, m_awaiters') <=> OnList(c, awaitersToRequeue[p]) \/ OnList(c, m_awaiters)) /\ OnceOnList(c, m_awaiters')
      BY <1>2, <1>3, <2>3, <2>4, <2>5, OnConcatenated
    <2>7. ClientWaits(c) <=> OnList(c, m_awaiters) \/ InHand(c, p) \/ \E u \in Clients : u # p /\ InHand(c, u)
      BY <1>1, <2>1 DEF WaitLists
    <2>8. QED BY <1>1, <1>2, <1>5, <2>1, <2>2, <2>3, <2>4, <2>5, <2>6, <2>7, ListsMove
  <1>10. QED BY <1>6, <1>8, <1>9 DEF ListsInv

LEMMA EnqueueListsStep ==
  ASSUME ListsInv, NEW c \in Consumers, Sequencer!EnqueueAwaiter(c)
  PROVE  ListsInv'
  <1>1. ClientTypes /\ ClientLocals /\ c \in Clients /\ c \notin Producers /\ \A d \in Consumers : WaitLists(d)
    BY ClientParties DEF ListsInv
  <1>2. /\ sequencerPc[c] = "enqueue" /\ sequencerPc' = [sequencerPc EXCEPT ![c] = "scan"]
        /\ m_awaiters' = <<c>> \o m_awaiters
        /\ UNCHANGED <<m_consumerBarrier, claimTarget, lastConsumed, m_published, m_targetSequence, m_lastKnownPublished,
                       m_readyToResume, awaiters, awaitersToRequeue, awaitersToResume, targetSequence, lastKnownPublished,
                       m_nextToClaim, m_claimedRange, consumed>>
    BY EnqueueDoes
  <1>3. m_awaiters \in Seq(Consumers) /\ <<c>> \in Seq(Consumers)
    BY <1>1, ClientValues
  <1>4. /\ sequencerPc' \in [Clients -> ProducerLabels \cup ConsumerLabels] /\ sequencerPc'[c] = "scan"
        /\ \A u \in Clients : u # c => sequencerPc'[u] = sequencerPc[u]
        /\ \A q \in Producers : sequencerPc'[q] \in ProducerLabels
        /\ \A d \in Consumers : sequencerPc'[d] \in ConsumerLabels
    BY <1>1, <1>2, ClientMoves DEF ConsumerLabels
  <1>5. m_awaiters' \in Seq(Consumers)
    BY <1>2, <1>3, OnConcatenated
  <1>6. ClientTypes'
    BY <1>1, <1>2, <1>4, <1>5, ClientValues, ClientTypesNext
  <1>7. awaiters[c] = << >> /\ awaitersToRequeue[c] = << >> /\ awaitersToResume[c] = << >> /\ ~m_readyToResume[c]
    BY <1>1, <1>2 DEF ClientLocals
  <1>8. ClientLocals'
    BY <1>1, <1>2, <1>4, <1>7, ClientParties DEF ClientLocals
  <1>9. ASSUME NEW d \in Consumers PROVE WaitLists(d)'
    <2>1. WaitLists(d)
      BY <1>1
    <2>2. (ClientWaits(d)' <=> ClientWaits(d) \/ d = c) /\ ~ClientWaits(c)
      BY <1>2, <1>4, <1>7, ClientParties DEF ClientWaits
    <2>3. ~InHand(d, c) /\ ~InHand(d, c)'
      BY <1>2, <1>7, OnEmptyList DEF InHand
    <2>4. OnceOnList(d, m_awaiters) /\ OnceOnList(d, awaiters[c]) /\ OnceOnList(d, awaitersToRequeue[c]) /\ OnceOnList(d, awaitersToResume[c])
      BY <1>1, <2>1 DEF WaitLists
    <2>5. OnList(d, m_awaiters) => ClientWaits(d)
      BY <2>1 DEF WaitLists
    <2>6. (OnList(d, m_awaiters') <=> d = c \/ OnList(d, m_awaiters)) /\ OnceOnList(d, m_awaiters')
      <3>1. (OnList(d, <<c>>) <=> d = c) /\ OnceOnList(d, <<c>>)
        BY OnSingleton
      <3>2. PICK one \in Seq(Consumers) : one = <<c>>
        BY <1>3
      <3>3. d = c => ~OnList(d, m_awaiters)
        BY <2>2, <2>5
      <3>4. QED BY <1>2, <1>3, <2>4, <3>1, <3>2, <3>3, OnConcatenated
    <2>7. ClientWaits(d) <=> OnList(d, m_awaiters) \/ \E u \in Clients : u # c /\ InHand(d, u)
      BY <1>1, <2>1, <2>3 DEF WaitLists
    <2>8. QED BY <1>1, <1>2, <2>1, <2>2, <2>3, <2>4, <2>6, <2>7, ListsMove DEF InHand
  <1>10. QED BY <1>6, <1>8, <1>9 DEF ListsInv

LEMMA SortListsStep ==
  ASSUME ListsInv, NEW p \in Producers, Sequencer!PublishSorts(p)
  PROVE  ListsInv'
  <1>1. ClientTypes /\ ClientLocals /\ p \in Clients /\ p \notin Consumers /\ \A c \in Consumers : WaitLists(c)
    BY ClientParties DEF ListsInv
  <1>2. /\ sequencerPc[p] = "after"
        /\ UNCHANGED <<m_consumerBarrier, claimTarget, lastConsumed, m_published, m_awaiters, m_targetSequence,
                       m_readyToResume, m_nextToClaim, m_claimedRange, consumed>>
    BY <1>1, SortDoes
  <1>3. CASE /\ lastKnownPublished' = [lastKnownPublished EXCEPT ![p] = Advance(lastKnownPublished[p], 1)]
             /\ UNCHANGED <<sequencerPc, m_lastKnownPublished, awaiters, awaitersToRequeue, awaitersToResume, targetSequence>>
    <2>1. Advance(lastKnownPublished[p], 1) \in Sequences
      BY <1>1, ClientValues, AdvanceType
    <2>2. lastKnownPublished' \in [Clients -> Sequences]
      BY <1>1, <1>3, <2>1, ClientValues
    <2>3. ClientTypes'
      BY <1>1, <1>2, <1>3, <2>2, ClientValues, ClientTypesNext
    <2>4. ClientLocals'
      BY <1>1, <1>2, <1>3 DEF ClientLocals
    <2>5. \A c \in Consumers : ClientWaits(c)' <=> ClientWaits(c)
      BY <1>2, <1>3 DEF ClientWaits
    <2>6. QED BY <1>2, <1>3, <2>3, <2>4, <2>5, ListsKept
  <1>4. CASE \E due, later \in Seq(Consumers) : \E s \in Sequences :
               /\ \A c \in Consumers : /\ ~(OnList(c, due) /\ OnList(c, later))
                                       /\ OnList(c, due) \/ OnList(c, later) <=> OnList(c, awaiters[p])
                                       /\ OnceOnList(c, awaiters[p]) => OnceOnList(c, due) /\ OnceOnList(c, later)
               /\ awaitersToResume' = [awaitersToResume EXCEPT ![p] = @ \o due]
               /\ awaitersToRequeue' = [awaitersToRequeue EXCEPT ![p] = later]
               /\ targetSequence' = [targetSequence EXCEPT ![p] = s]
               /\ m_lastKnownPublished' =
                    [c \in Consumers |-> IF OnList(c, awaiters[p]) THEN lastKnownPublished[p] ELSE m_lastKnownPublished[c]]
               /\ awaiters' = [awaiters EXCEPT ![p] = << >>]
               /\ sequencerPc' = [sequencerPc EXCEPT ![p] = IF later = << >> THEN "resume" ELSE "requeue"]
               /\ UNCHANGED lastKnownPublished
    <2>1. PICK due \in Seq(Consumers), later \in Seq(Consumers), s \in Sequences :
               /\ \A c \in Consumers : /\ ~(OnList(c, due) /\ OnList(c, later))
                                       /\ OnList(c, due) \/ OnList(c, later) <=> OnList(c, awaiters[p])
                                       /\ OnceOnList(c, awaiters[p]) => OnceOnList(c, due) /\ OnceOnList(c, later)
               /\ awaitersToResume' = [awaitersToResume EXCEPT ![p] = @ \o due]
               /\ awaitersToRequeue' = [awaitersToRequeue EXCEPT ![p] = later]
               /\ targetSequence' = [targetSequence EXCEPT ![p] = s]
               /\ m_lastKnownPublished' =
                    [c \in Consumers |-> IF OnList(c, awaiters[p]) THEN lastKnownPublished[p] ELSE m_lastKnownPublished[c]]
               /\ awaiters' = [awaiters EXCEPT ![p] = << >>]
               /\ sequencerPc' = [sequencerPc EXCEPT ![p] = IF later = << >> THEN "resume" ELSE "requeue"]
               /\ UNCHANGED lastKnownPublished
      BY <1>4
    <2>2. PICK label \in {"resume", "requeue"} : /\ sequencerPc' = [sequencerPc EXCEPT ![p] = label]
                                                 /\ later # << >> => label = "requeue"
      BY <2>1
    <2>3. /\ sequencerPc' \in [Clients -> ProducerLabels \cup ConsumerLabels] /\ sequencerPc'[p] = label
          /\ \A u \in Clients : u # p => sequencerPc'[u] = sequencerPc[u]
          /\ \A q \in Producers : sequencerPc'[q] \in ProducerLabels
          /\ \A c \in Consumers : sequencerPc'[c] \in ConsumerLabels
      BY <1>1, <2>2, ClientMoves DEF ProducerLabels
    <2>4. /\ awaiters \in [Clients -> Seq(Consumers)] /\ awaitersToRequeue \in [Clients -> Seq(Consumers)]
          /\ awaitersToResume \in [Clients -> Seq(Consumers)] /\ awaitersToResume[p] \in Seq(Consumers)
          /\ lastKnownPublished \in [Clients -> Sequences] /\ m_lastKnownPublished \in [Consumers -> Sequences]
          /\ targetSequence \in [Clients -> Sequences]
      BY <1>1, ClientValues
    <2>5. awaitersToResume[p] \o due \in Seq(Consumers)
      BY <2>4, OnConcatenated
    <2>6. /\ awaiters' \in [Clients -> Seq(Consumers)] /\ awaitersToRequeue' \in [Clients -> Seq(Consumers)]
          /\ awaiters'[p] = << >> /\ awaitersToRequeue'[p] = later
          /\ \A u \in Clients : u # p => awaiters'[u] = awaiters[u] /\ awaitersToRequeue'[u] = awaitersToRequeue[u]
      BY <1>1, <2>1, <2>4, EmptyList
    <2>7. /\ awaitersToResume' \in [Clients -> Seq(Consumers)] /\ awaitersToResume'[p] = awaitersToResume[p] \o due
          /\ \A u \in Clients : u # p => awaitersToResume'[u] = awaitersToResume[u]
      BY <1>1, <2>1, <2>4, <2>5
    <2>8. targetSequence' \in [Clients -> Sequences] /\ m_lastKnownPublished' \in [Consumers -> Sequences]
      BY <1>1, <2>1, <2>4
    <2>9. ClientTypes'
      BY <1>1, <1>2, <2>1, <2>3, <2>6, <2>7, <2>8, ClientValues, ClientTypesNext
    <2>10. awaitersToRequeue[p] = << >>
      BY <1>1, <1>2 DEF ClientLocals
    <2>11. ClientLocals'
      <3>1. ASSUME NEW u \in Clients
            PROVE  /\ awaiters'[u] # << >> => sequencerPc'[u] = "after"
                   /\ awaitersToRequeue'[u] # << >> => sequencerPc'[u] = "requeue"
                   /\ awaitersToResume'[u] # << >> => sequencerPc'[u] \in {"after", "requeue", "scan", "reacquire", "resume"}
        <4>1. CASE u = p
          BY <2>2, <2>3, <2>6, <4>1
        <4>2. CASE u # p
          BY <1>1, <2>3, <2>6, <2>7, <4>2 DEF ClientLocals
        <4>3. QED BY <4>1, <4>2
      <3>2. \A c \in Consumers : /\ sequencerPc'[c] = sequencerPc[c] /\ awaitersToResume'[c] = awaitersToResume[c]
                                 /\ m_readyToResume'[c] = m_readyToResume[c]
        BY <1>1, <1>2, <2>3, <2>7, ClientParties
      <3>3. \A c \in Consumers : /\ awaitersToResume'[c] # << >> => sequencerPc'[c] = "resume"
                                 /\ sequencerPc'[c] = "suspended" => m_readyToResume'[c]
                                 /\ sequencerPc'[c] = "enqueue" => ~m_readyToResume'[c]
        BY <1>1, <3>2 DEF ClientLocals
      <3>4. ASSUME NEW q \in Producers, lastConsumed'[q] = NoResult PROVE sequencerPc'[q] = "claim"
        <4>1. sequencerPc[q] = "claim" /\ q \in Clients
          BY <1>1, <1>2, <3>4, ClientParties DEF ClientLocals
        <4>2. q # p
          BY <1>2, <4>1
        <4>3. QED BY <2>3, <4>1, <4>2
      <3>5. QED BY <3>1, <3>3, <3>4 DEF ClientLocals
    <2>12. ASSUME NEW c \in Consumers PROVE WaitLists(c)'
      <3>1. WaitLists(c) /\ (ClientWaits(c)' <=> ClientWaits(c))
        BY <1>1, <1>2, <2>3, ClientParties DEF ClientWaits
      <3>2. ~OnList(c, awaiters'[p]) /\ OnceOnList(c, awaiters'[p]) /\ ~OnList(c, awaitersToRequeue[p])
        BY <2>6, <2>10, OnEmptyList
      <3>3. /\ OnceOnList(c, m_awaiters) /\ OnceOnList(c, awaiters[p]) /\ OnceOnList(c, awaitersToResume[p])
            /\ ~(OnList(c, awaiters[p]) /\ OnList(c, awaitersToResume[p]))
            /\ InHand(c, p) => ~OnList(c, m_awaiters)
        BY <1>1, <3>1 DEF WaitLists
      <3>4. /\ ~(OnList(c, due) /\ OnList(c, later)) /\ (OnList(c, due) \/ OnList(c, later) <=> OnList(c, awaiters[p]))
            /\ OnceOnList(c, due) /\ OnceOnList(c, later)
        BY <2>1, <3>3
      <3>5. (OnList(c, awaitersToResume'[p]) <=> OnList(c, awaitersToResume[p]) \/ OnList(c, due)) /\ OnceOnList(c, awaitersToResume'[p])
        BY <2>4, <2>7, <3>3, <3>4, OnConcatenated
      <3>6. InHand(c, p)' <=> InHand(c, p)
        BY <2>6, <3>2, <3>4, <3>5 DEF InHand
      <3>7. ClientWaits(c) <=> OnList(c, m_awaiters) \/ InHand(c, p) \/ \E u \in Clients : u # p /\ InHand(c, u)
        BY <1>1, <3>1 DEF WaitLists
      <3>8. QED BY <1>1, <1>2, <2>6, <2>7, <3>1, <3>2, <3>3, <3>4, <3>5, <3>6, <3>7, ListsMove
    <2>13. QED BY <2>9, <2>11, <2>12 DEF ListsInv
  <1>5. QED BY <1>1, <1>3, <1>4, SortDoes

LEMMA AcquireListsStep ==
  ASSUME ListsInv, NEW c \in Consumers, Sequencer!AcquireAwaiters(c)
  PROVE  ListsInv'
  <1>1. ClientTypes /\ ClientLocals /\ c \in Clients /\ c \notin Producers /\ \A d \in Consumers : WaitLists(d)
    BY ClientParties DEF ListsInv
  <1>2. /\ sequencerPc[c] = "acquire" /\ sequencerPc' = [sequencerPc EXCEPT ![c] = "resume"]
        /\ awaitersToResume' = [awaitersToResume EXCEPT ![c] = m_awaiters] /\ m_awaiters' = << >>
        /\ UNCHANGED <<m_consumerBarrier, claimTarget, lastConsumed, m_published, m_targetSequence, m_lastKnownPublished,
                       m_readyToResume, awaiters, awaitersToRequeue, targetSequence, lastKnownPublished,
                       m_nextToClaim, m_claimedRange, consumed>>
    BY AcquireDoes
  <1>3. m_awaiters \in Seq(Consumers) /\ awaitersToResume \in [Clients -> Seq(Consumers)]
    BY <1>1, ClientValues
  <1>4. /\ sequencerPc' \in [Clients -> ProducerLabels \cup ConsumerLabels] /\ sequencerPc'[c] = "resume"
        /\ \A u \in Clients : u # c => sequencerPc'[u] = sequencerPc[u]
        /\ \A q \in Producers : sequencerPc'[q] \in ProducerLabels
        /\ \A d \in Consumers : sequencerPc'[d] \in ConsumerLabels
    BY <1>1, <1>2, ClientMoves DEF ConsumerLabels
  <1>5. /\ awaitersToResume' \in [Clients -> Seq(Consumers)] /\ awaitersToResume'[c] = m_awaiters /\ m_awaiters' \in Seq(Consumers)
        /\ \A u \in Clients : u # c => awaitersToResume'[u] = awaitersToResume[u]
    BY <1>1, <1>2, <1>3, EmptyList
  <1>6. ClientTypes'
    BY <1>1, <1>2, <1>4, <1>5, ClientValues, ClientTypesNext
  <1>7. awaiters[c] = << >> /\ awaitersToRequeue[c] = << >> /\ awaitersToResume[c] = << >>
    BY <1>1, <1>2 DEF ClientLocals
  <1>8. ClientLocals'
    BY <1>1, <1>2, <1>4, <1>5, <1>7, ClientParties DEF ClientLocals
  <1>9. ASSUME NEW d \in Consumers PROVE WaitLists(d)'
    <2>1. WaitLists(d) /\ (ClientWaits(d)' <=> ClientWaits(d))
      BY <1>1, <1>2, <1>4, ClientParties DEF ClientWaits
    <2>2. ~OnList(d, m_awaiters') /\ OnceOnList(d, m_awaiters') /\ ~OnList(d, awaiters[c]) /\ ~OnList(d, awaitersToRequeue[c])
      BY <1>2, <1>7, OnEmptyList
    <2>3. (InHand(d, c)' <=> OnList(d, m_awaiters)) /\ ~InHand(d, c)
      BY <1>2, <1>5, <1>7, <2>2, OnEmptyList DEF InHand
    <2>4. OnceOnList(d, m_awaiters) /\ OnceOnList(d, awaiters[c]) /\ OnceOnList(d, awaitersToRequeue[c])
      BY <1>1, <2>1 DEF WaitLists
    <2>5. ClientWaits(d) <=> OnList(d, m_awaiters) \/ \E u \in Clients : u # c /\ InHand(d, u)
      BY <1>1, <2>1, <2>3 DEF WaitLists
    <2>6. QED BY <1>1, <1>2, <1>5, <2>1, <2>2, <2>3, <2>4, <2>5, ListsMove
  <1>10. QED BY <1>6, <1>8, <1>9 DEF ListsInv

LEMMA ResumeListsStep ==
  ASSUME ListsInv, NEW t \in Clients, Sequencer!ResumeAwaiter(t)
  PROVE  /\ ListsInv'
         /\ Head(awaitersToResume[t]) \in Consumers /\ OnList(Head(awaitersToResume[t]), awaitersToResume[t])
         /\ ClientWaits(Head(awaitersToResume[t]))
  <1>1. ClientTypes /\ ClientLocals /\ \A d \in Consumers : WaitLists(d)
    BY DEF ListsInv
  <1>2. awaitersToResume \in [Clients -> Seq(Consumers)] /\ awaitersToResume[t] \in Seq(Consumers) /\ awaitersToResume[t] # << >>
    BY <1>1, ClientValues, ResumeDoes
  <1>3. PICK h \in Consumers : h = Head(awaitersToResume[t])
    BY <1>2
  <1>4. /\ sequencerPc[t] = "resume"
        /\ m_lastKnownPublished' = [m_lastKnownPublished EXCEPT ![h] = lastKnownPublished[t]]
        /\ m_readyToResume' = [m_readyToResume EXCEPT ![h] = TRUE]
        /\ sequencerPc' = IF m_readyToResume[h] THEN [sequencerPc EXCEPT ![h] = "read"] ELSE sequencerPc
        /\ awaitersToResume' = [awaitersToResume EXCEPT ![t] = Tail(@)]
        /\ UNCHANGED <<m_consumerBarrier, claimTarget, lastConsumed, m_published, m_awaiters, m_targetSequence,
                       awaiters, awaitersToRequeue, targetSequence, lastKnownPublished, m_nextToClaim, m_claimedRange, consumed>>
    BY <1>3, ResumeDoes
  <1>5. OnList(h, awaitersToResume[t])
    BY <1>2, <1>3, OnTail
  <1>6. ClientWaits(h) /\ WaitLists(h)
    BY <1>1, <1>5 DEF WaitLists, InHand
  <1>7. h \in Clients /\ h \notin Producers
    BY ClientParties
  <1>8. \/ m_readyToResume[h] /\ sequencerPc[h] = "suspended" /\ h # t /\ sequencerPc' = [sequencerPc EXCEPT ![h] = "read"]
        \/ ~m_readyToResume[h] /\ sequencerPc[h] \in {"scan", "acquire", "resume"} /\ UNCHANGED sequencerPc
    BY <1>1, <1>4, <1>6 DEF ClientWaits, ClientLocals
  <1>9. /\ sequencerPc' \in [Clients -> ProducerLabels \cup ConsumerLabels]
        /\ \A u \in Clients : u # h => sequencerPc'[u] = sequencerPc[u]
        /\ \A q \in Producers : sequencerPc'[q] \in ProducerLabels
        /\ \A d \in Consumers : sequencerPc'[d] \in ConsumerLabels
        /\ (sequencerPc[h] = "suspended" /\ sequencerPc'[h] = "read") \/ (sequencerPc[h] # "suspended" /\ sequencerPc'[h] = sequencerPc[h])
    <2>1. CASE UNCHANGED sequencerPc
      <3>1. sequencerPc[h] # "suspended"
        BY <1>1, <1>7, <1>8, <2>1, ClientValues
      <3>2. QED BY <1>1, <2>1, <3>1, ClientValues
    <2>2. CASE sequencerPc[h] = "suspended" /\ sequencerPc' = [sequencerPc EXCEPT ![h] = "read"]
      BY <1>1, <1>7, <2>2, ClientMoves DEF ConsumerLabels
    <2>3. QED BY <1>8, <2>1, <2>2
  <1>10. /\ m_readyToResume' \in [Consumers -> BOOLEAN] /\ m_readyToResume'[h] = TRUE
         /\ \A d \in Consumers : d # h => m_readyToResume'[d] = m_readyToResume[d]
    BY <1>1, <1>4, ClientValues
  <1>11. m_lastKnownPublished' \in [Consumers -> Sequences]
    BY <1>1, <1>4, ClientValues
  <1>12. /\ awaitersToResume' \in [Clients -> Seq(Consumers)] /\ awaitersToResume'[t] = Tail(awaitersToResume[t])
         /\ \A u \in Clients : u # t => awaitersToResume'[u] = awaitersToResume[u]
    BY <1>2, <1>4
  <1>13. ClientTypes'
    BY <1>1, <1>4, <1>9, <1>10, <1>11, <1>12, ClientValues, ClientTypesNext
  <1>14. ClientLocals'
    <2>1. ASSUME NEW u \in Clients
          PROVE  /\ awaiters'[u] # << >> => sequencerPc'[u] = "after"
                 /\ awaitersToRequeue'[u] # << >> => sequencerPc'[u] = "requeue"
                 /\ awaitersToResume'[u] # << >> =>
                      awaitersToResume[u] # << >> /\ sequencerPc'[u] \in {"after", "requeue", "scan", "reacquire", "resume"}
      <3>1. awaitersToResume'[u] # << >> => awaitersToResume[u] # << >>
        BY <1>2, <1>12
      <3>2. QED BY <1>1, <1>4, <1>9, <3>1 DEF ClientLocals
    <2>2. ASSUME NEW d \in Consumers
          PROVE  /\ awaitersToResume'[d] # << >> => sequencerPc'[d] = "resume"
                 /\ sequencerPc'[d] = "suspended" => m_readyToResume'[d]
                 /\ sequencerPc'[d] = "enqueue" => ~m_readyToResume'[d]
      <3>1. CASE d = h
        BY <1>1, <1>6, <1>7, <1>9, <1>10, <2>1, <3>1 DEF ClientLocals, ClientWaits
      <3>2. CASE d # h
        BY <1>1, <1>9, <1>10, <2>1, <3>2, ClientParties DEF ClientLocals
      <3>3. QED BY <3>1, <3>2
    <2>3. \A q \in Producers : lastConsumed'[q] = NoResult => sequencerPc'[q] = "claim"
      BY <1>1, <1>4, <1>7, <1>9, ClientParties DEF ClientLocals
    <2>4. QED BY <2>1, <2>2, <2>3 DEF ClientLocals
  <1>15. ASSUME NEW d \in Consumers PROVE WaitLists(d)'
    <2>1. WaitLists(d)
      BY <1>1
    <2>2. ClientWaits(d)' <=> ClientWaits(d) /\ d # h
      BY <1>6, <1>9, <1>10, ClientParties DEF ClientWaits
    <2>3. /\ OnceOnList(d, m_awaiters) /\ OnceOnList(d, awaiters[t]) /\ OnceOnList(d, awaitersToRequeue[t])
          /\ OnceOnList(d, awaitersToResume[t])
          /\ ~(OnList(d, awaiters[t]) /\ OnList(d, awaitersToRequeue[t]))
          /\ ~(OnList(d, awaiters[t]) /\ OnList(d, awaitersToResume[t]))
          /\ ~(OnList(d, awaitersToRequeue[t]) /\ OnList(d, awaitersToResume[t]))
          /\ InHand(d, t) => ~OnList(d, m_awaiters) /\ \A u \in Clients : InHand(d, u) => t = u
      BY <2>1 DEF WaitLists
    <2>4. /\ OnList(d, awaitersToResume[t]) <=> d = h \/ OnList(d, awaitersToResume'[t])
          /\ OnceOnList(d, awaitersToResume'[t]) /\ (d = h => ~OnList(d, awaitersToResume'[t]))
      BY <1>2, <1>3, <1>12, <2>3, OnTail
    <2>5. (InHand(d, t)' => InHand(d, t)) /\ (d # h => (InHand(d, t)' <=> InHand(d, t)))
          /\ (d = h => ~InHand(d, t)' /\ InHand(d, t))
      BY <1>4, <2>3, <2>4 DEF InHand
    <2>6. ClientWaits(d) <=> OnList(d, m_awaiters) \/ InHand(d, t) \/ \E u \in Clients : u # t /\ InHand(d, u)
      BY <2>1 DEF WaitLists
    <2>7. ClientWaits(d)' <=> \/ OnList(d, m_awaiters') \/ InHand(d, t)'
                              \/ \E u \in Clients : u # t /\ InHand(d, u)
      BY <1>4, <2>2, <2>3, <2>5, <2>6
    <2>8. QED BY <1>4, <1>12, <2>1, <2>3, <2>4, <2>5, <2>7, ListsMove
  <1>16. QED BY <1>3, <1>5, <1>6, <1>13, <1>14, <1>15 DEF ListsInv

LEMMA WaitListsStep ==
  ASSUME ListsInv, NEW c \in Consumers, NEW n \in Int, Sequencer!Wait(c, Sequencer!Advance(consumed[c], n))
  PROVE  ListsInv'
  <1>1. ClientTypes /\ ClientLocals /\ c \in Clients /\ c \notin Producers
    BY ClientParties DEF ListsInv
  <1>2. PICK s \in Sequences : s = Advance(consumed[c], n)
    BY <1>1, ClientValues, AdvanceType
  <1>3. /\ sequencerPc[c] = "idle" /\ sequencerPc' = [sequencerPc EXCEPT ![c] = "enqueue"]
        /\ m_targetSequence' = [m_targetSequence EXCEPT ![c] = s]
        /\ m_lastKnownPublished' = [m_lastKnownPublished EXCEPT ![c] = consumed[c]]
        /\ m_readyToResume' = [m_readyToResume EXCEPT ![c] = FALSE]
        /\ targetSequence' = [targetSequence EXCEPT ![c] = s]
        /\ lastKnownPublished' = [lastKnownPublished EXCEPT ![c] = consumed[c]]
        /\ UNCHANGED <<m_consumerBarrier, claimTarget, lastConsumed, m_published, m_awaiters,
                       awaiters, awaitersToRequeue, awaitersToResume, m_nextToClaim, m_claimedRange, consumed>>
    BY <1>2, WaitDoes
  <1>4. /\ sequencerPc' \in [Clients -> ProducerLabels \cup ConsumerLabels] /\ sequencerPc'[c] = "enqueue"
        /\ \A u \in Clients : u # c => sequencerPc'[u] = sequencerPc[u]
        /\ \A q \in Producers : sequencerPc'[q] \in ProducerLabels
        /\ \A d \in Consumers : sequencerPc'[d] \in ConsumerLabels
    BY <1>1, <1>3, ClientMoves DEF ConsumerLabels
  <1>5. /\ m_targetSequence' \in [Consumers -> Sequences] /\ m_lastKnownPublished' \in [Consumers -> Sequences]
        /\ targetSequence' \in [Clients -> Sequences] /\ lastKnownPublished' \in [Clients -> Sequences]
        /\ m_readyToResume' \in [Consumers -> BOOLEAN] /\ ~m_readyToResume'[c]
        /\ \A d \in Consumers : d # c => m_readyToResume'[d] = m_readyToResume[d]
    BY <1>1, <1>3, ClientValues
  <1>6. ClientTypes'
    BY <1>1, <1>3, <1>4, <1>5, ClientValues, ClientTypesNext
  <1>7. awaiters[c] = << >> /\ awaitersToRequeue[c] = << >> /\ awaitersToResume[c] = << >>
    BY <1>1, <1>3 DEF ClientLocals
  <1>8. ClientLocals'
    BY <1>1, <1>3, <1>4, <1>5, <1>7, ClientParties DEF ClientLocals
  <1>9. \A d \in Consumers : ClientWaits(d)' <=> ClientWaits(d)
    BY <1>3, <1>4, <1>5, ClientParties DEF ClientWaits
  <1>10. QED BY <1>3, <1>6, <1>8, <1>9, ListsKept

LEMMA SuspendListsStep ==
  ASSUME ListsInv, NEW c \in Consumers, Sequencer!SuspendOrContinue(c)
  PROVE  ListsInv'
  <1>1. ClientTypes /\ ClientLocals /\ c \in Clients /\ c \notin Producers
    BY ClientParties DEF ListsInv
  <1>2. /\ sequencerPc[c] = "resume" /\ awaitersToResume[c] = << >>
        /\ m_readyToResume' = [m_readyToResume EXCEPT ![c] = TRUE]
        /\ sequencerPc' = [sequencerPc EXCEPT ![c] = IF m_readyToResume[c] THEN "read" ELSE "suspended"]
        /\ targetSequence' = [targetSequence EXCEPT ![c] = initial_sequence]
        /\ lastKnownPublished' = [lastKnownPublished EXCEPT ![c] = initial_sequence]
        /\ UNCHANGED <<m_consumerBarrier, claimTarget, lastConsumed, m_published, m_awaiters, m_targetSequence, m_lastKnownPublished,
                       awaiters, awaitersToRequeue, awaitersToResume, m_nextToClaim, m_claimedRange, consumed>>
    BY SuspendDoes
  <1>3. PICK label \in {"read", "suspended"} : /\ label = "read" <=> m_readyToResume[c]
                                               /\ sequencerPc' = [sequencerPc EXCEPT ![c] = label]
    BY <1>2
  <1>4. /\ sequencerPc' \in [Clients -> ProducerLabels \cup ConsumerLabels] /\ sequencerPc'[c] = label
        /\ \A u \in Clients : u # c => sequencerPc'[u] = sequencerPc[u]
        /\ \A q \in Producers : sequencerPc'[q] \in ProducerLabels
        /\ \A d \in Consumers : sequencerPc'[d] \in ConsumerLabels
    BY <1>1, <1>3, ClientMoves DEF ConsumerLabels
  <1>5. /\ targetSequence' \in [Clients -> Sequences] /\ lastKnownPublished' \in [Clients -> Sequences]
        /\ m_readyToResume' \in [Consumers -> BOOLEAN] /\ m_readyToResume'[c]
        /\ \A d \in Consumers : d # c => m_readyToResume'[d] = m_readyToResume[d]
    BY <1>1, <1>2, ClientValues, RangeFacts
  <1>6. ClientTypes'
    BY <1>1, <1>2, <1>4, <1>5, ClientValues, ClientTypesNext
  <1>7. awaiters[c] = << >> /\ awaitersToRequeue[c] = << >>
    BY <1>1, <1>2 DEF ClientLocals
  <1>8. ClientLocals'
    BY <1>1, <1>2, <1>4, <1>5, <1>7, ClientParties DEF ClientLocals
  <1>9. \A d \in Consumers : ClientWaits(d)' <=> ClientWaits(d)
    BY <1>2, <1>3, <1>4, <1>5, ClientParties DEF ClientWaits
  <1>10. QED BY <1>2, <1>6, <1>8, <1>9, ListsKept

LEMMA ListsStep ==
  ASSUME ListsInv, Sequencer!Next
  PROVE  ListsInv'
  <1>1. ASSUME NEW p \in Producers, Sequencer!ProducerStep(p)
        PROVE  ListsInv'
    <2>1. p \in Clients
      BY ClientParties
    <2>2. QED
      BY <1>1, <2>1, ClaimWaitListsStep, ProducerMovesListsStep, StoreListsStep, TakeListsStep, SortListsStep, RequeueListsStep,
         ScanListsStep, ResumeListsStep, ReturnListsStep DEF Sequencer!ProducerStep
  <1>2. ASSUME NEW p \in Producers, NEW count \in 1 .. MaxClaim, Sequencer!ClaimBounded(p, count)
        PROVE  ListsInv'
    BY <1>2, ClaimListsStep DEF Sequencer!ClaimBounded
  <1>3. ASSUME NEW c \in Consumers, Sequencer!ConsumerStep(c)
        PROVE  ListsInv'
    <2>1. c \in Clients
      BY ClientParties
    <2>2. QED
      BY <1>3, <2>1, EnqueueListsStep, ScanListsStep, AcquireListsStep, ResumeListsStep, SuspendListsStep, ReadListsStep
         DEF Sequencer!ConsumerStep
  <1>4. ASSUME NEW c \in Consumers, NEW n \in 1 .. MaxReach, Sequencer!Wait(c, Sequencer!Advance(consumed[c], n))
        PROVE  ListsInv'
    BY <1>4, WaitListsStep
  <1>5. QED BY <1>1, <1>2, <1>3, <1>4, PublishReadListsStep DEF Sequencer!Next

LEMMA ListsUnchanged ==
  ASSUME ListsInv, UNCHANGED sequencerVars
  PROVE  ListsInv'
  <1>1. /\ UNCHANGED <<m_published, m_nextToClaim, m_awaiters, m_targetSequence, m_lastKnownPublished, m_readyToResume>>
        /\ UNCHANGED <<m_claimedRange, consumed, sequencerPc, awaiters, awaitersToRequeue, awaitersToResume, targetSequence>>
        /\ UNCHANGED <<lastKnownPublished, m_consumerBarrier, claimTarget, lastConsumed>>
    BY DEF sequencerVars
  <1>2. ClientTypes /\ ClientLocals
    BY DEF ListsInv
  <1>3. ClientTypes'
    BY <1>1, <1>2, ClientValues, ClientTypesNext
  <1>4. ClientLocals'
    BY <1>1, <1>2 DEF ClientLocals
  <1>5. \A d \in Consumers : ClientWaits(d)' <=> ClientWaits(d)
    BY <1>1 DEF ClientWaits
  <1>6. QED BY <1>1, <1>3, <1>4, <1>5, ListsKept

(* The places of an operation, counted.                                    *)
LEMMA WaitCounts ==
  ASSUME NEW c \in Consumers, WaitLists(c)
  PROVE  Cardinality(Sequencer!Places(c)) = IF ClientWaits(c) THEN 1 ELSE 0
  <1> DEFINE Spot(k, list) == {k} \X Sequencer!Positions(c, list)
  <1>1. \A k, list : OnceOnList(c, list) => \A x, y \in Spot(k, list) : x = y
    BY DEF Sequencer!Positions, OnceOnList
  <1>2. \A k, list : Spot(k, list) = {} <=> ~OnList(c, list)
    <2> SUFFICES ASSUME NEW k, NEW list PROVE Spot(k, list) = {} <=> ~OnList(c, list)
      OBVIOUS
    <2>1. ASSUME NEW i \in DOMAIN list, list[i] = c PROVE <<k, i>> \in Spot(k, list)
      BY <2>1 DEF Sequencer!Positions
    <2>2. ASSUME NEW x \in Spot(k, list) PROVE x[2] \in DOMAIN list /\ list[x[2]] = c
      BY <2>2 DEF Sequencer!Positions
    <2> HIDE DEF Spot
    <2>3. QED BY <2>1, <2>2 DEF OnList
  <1>3. Sequencer!Places(c) = Spot("stack", m_awaiters)
          \cup UNION {Spot(<<"taken", t>>, awaiters[t]) \cup Spot(<<"requeue", t>>, awaitersToRequeue[t])
                      \cup Spot(<<"resume", t>>, awaitersToResume[t]) : t \in Clients}
    BY SequencerTerms DEF Sequencer!Places
  <1> HIDE DEF Spot
  <1>4. \A x : x \in Sequencer!Places(c) <=>
                 \/ x \in Spot("stack", m_awaiters)
                 \/ \E t \in Clients : \/ x \in Spot(<<"taken", t>>, awaiters[t])
                                       \/ x \in Spot(<<"requeue", t>>, awaitersToRequeue[t])
                                       \/ x \in Spot(<<"resume", t>>, awaitersToResume[t])
    BY <1>3
  <1>5. \A x, y \in Sequencer!Places(c) : x = y
    <2> SUFFICES ASSUME NEW x \in Sequencer!Places(c), NEW y \in Sequencer!Places(c) PROVE x = y
      OBVIOUS
    <2>1. CASE OnList(c, m_awaiters)
      <3>1. \A t \in Clients : ~InHand(c, t)
        BY <2>1 DEF WaitLists
      <3>2. x \in Spot("stack", m_awaiters) /\ y \in Spot("stack", m_awaiters)
        BY <1>2, <1>4, <3>1 DEF InHand
      <3>3. QED BY <1>1, <3>2 DEF WaitLists
    <2>2. CASE ~OnList(c, m_awaiters)
      <3>1. PICK t \in Clients : \/ x \in Spot(<<"taken", t>>, awaiters[t]) \/ x \in Spot(<<"requeue", t>>, awaitersToRequeue[t])
                                 \/ x \in Spot(<<"resume", t>>, awaitersToResume[t])
        BY <1>2, <1>4, <2>2
      <3>2. PICK u \in Clients : \/ y \in Spot(<<"taken", u>>, awaiters[u]) \/ y \in Spot(<<"requeue", u>>, awaitersToRequeue[u])
                                 \/ y \in Spot(<<"resume", u>>, awaitersToResume[u])
        BY <1>2, <1>4, <2>2
      <3>3. t = u
        BY <1>2, <3>1, <3>2 DEF WaitLists, InHand
      <3>4. QED BY <1>1, <1>2, <3>1, <3>2, <3>3 DEF WaitLists
    <2>3. QED BY <2>1, <2>2
  <1>6. Sequencer!Places(c) # {} <=> ClientWaits(c)
    <2>1. Sequencer!Places(c) # {} <=> OnList(c, m_awaiters) \/ \E t \in Clients : InHand(c, t)
      BY <1>2, <1>4 DEF InHand
    <2>2. QED BY <2>1 DEF WaitLists
  <1>7. CASE ClientWaits(c)
    <2>1. PICK x : x \in Sequencer!Places(c)
      BY <1>6, <1>7
    <2>2. Sequencer!Places(c) = {x}
      BY <1>5, <2>1
    <2>3. QED BY <1>7, <2>2, FS_Singleton
  <1>8. CASE ~ClientWaits(c)
    BY <1>6, <1>8, FS_EmptySet
  <1>9. QED BY <1>7, <1>8

LEMMA ListsInvSuffices ==
  ASSUME ListsInv
  PROVE  Sequencer!OnOneList
  <1>1. Sequencer!TypeOK /\ \A c \in Consumers : WaitLists(c)
    BY DEF ListsInv, ClientTypes
  <1>2. ASSUME NEW c \in Consumers
        PROVE  Sequencer!Cardinality(Sequencer!Places(c)) =
                 IF \/ sequencerPc[c] = "suspended"
                    \/ sequencerPc[c] \in {"scan", "acquire", "resume"} /\ ~m_readyToResume[c] THEN 1 ELSE 0
    BY <1>1, SequencerSets, WaitCounts DEF ClientWaits
  <1>3. QED BY <1>1, <1>2 DEF Sequencer!OnOneList

(* Spec => []OnOneList, for any number of producers and consumers: a wait  *)
(* operation of multi_producer_sequencer is on exactly one of the stack    *)
(* and the private lists of the threads, once, from add_awaiter() until    *)
(* somebody marks it ready, and on none otherwise.                         *)
THEOREM WaitsAreOnOneList == MCSpec => [](chosen = "multi_producer_sequencer" => Sequencer!OnOneList)
  <1> DEFINE I == chosen = "multi_producer_sequencer" => ListsInv
  <1>1. MCInit => I
    BY ListsInitially DEF MCInit
  <1>2. I /\ [MCNext]_<<chosen, vars, poolVars, cancellationVars, sequencerVars>> => I'
    <2> SUFFICES ASSUME I, [MCNext]_<<chosen, vars, poolVars, cancellationVars, sequencerVars>>,
                        chosen' = "multi_producer_sequencer"
                 PROVE  ListsInv'
      OBVIOUS
    <2>1. chosen = "multi_producer_sequencer" /\ (Sequencer!Next \/ UNCHANGED sequencerVars)
      BY DEF MCNext
    <2>2. QED BY <2>1, ListsStep, ListsUnchanged
  <1>3. I => (chosen = "multi_producer_sequencer" => Sequencer!OnOneList)
    BY ListsInvSuffices
  <1> HIDE DEF I
  <1>4. QED BY <1>1, <1>2, <1>3, PTL DEF MCSpec
-----------------------------------------------------------------------------
(* Numbers counted from the consumer barrier                               *)

LEMMA AheadFacts ==
  /\ 2^Width \in Nat \ {0} /\ Half \in Nat \ {0} /\ 2^Width = Half + Half
  /\ BufferSize \in Nat \ {0} /\ BufferSize + BufferSize <= Half
  /\ Sequences = 0 .. 2^Width - 1
  BY RangeFacts

(* The numbers after b, and the BufferSize numbers up to it.               *)
LEMMA AheadOf ==
  ASSUME NEW b \in Sequences, NEW n \in Int, -BufferSize <= n, n < 2^Width
  PROVE  Advance(b, n) \in Sequences /\ Ahead(Advance(b, n), b) = IF n < 0 THEN n + 2^Width ELSE n
  <1>1. PICK M \in Nat \ {0} : M = 2^Width
    BY AheadFacts
  <1>2. b \in 0 .. M - 1 /\ -M <= n /\ n <= M /\ n < M
    BY <1>1, AheadFacts
  <1>3. Advance(b, n) = Onward(b, n, M)
    BY <1>1 DEF Advance, Onward
  <1>4. PICK o \in 0 .. M - 1 : o = Onward(b, n, M) /\ (o = b + n \/ o = b + n - M \/ o = b + n + M)
    <2>1. Onward(b, n, M) \in 0 .. M - 1 /\ (Onward(b, n, M) = b + n \/ Onward(b, n, M) = b + n - M \/ Onward(b, n, M) = b + n + M)
      BY <1>2, OnwardIs
    <2>2. QED BY <2>1
  <1>5. PICK y \in 0 .. M - 1 : y = Past(o, b, M) /\ (y = o - b \/ y = o - b + M)
    BY <1>2, PastIs
  <1>6. y = IF n < 0 THEN n + M ELSE n
    BY <1>2, <1>4, <1>5
  <1>7. QED BY <1>1, <1>3, <1>4, <1>5, <1>6, AheadFacts DEF Ahead

(* A number is where its distance says.                                    *)
LEMMA AheadNames ==
  ASSUME NEW s \in Sequences, NEW b \in Sequences
  PROVE  s = Advance(b, Ahead(s, b))
  <1>1. PICK n \in Nat : n = Ahead(s, b) /\ n < 2^Width
    <2>1. Ahead(s, b) \in 0 .. 2^Width - 1
      BY AheadType
    <2>2. QED BY <2>1, AheadFacts
  <1>2. n \in Int /\ -BufferSize <= n /\ ~(n < 0)
    BY AheadFacts
  <1>3. Advance(b, n) \in Sequences /\ Ahead(Advance(b, n), b) = n
    BY <1>1, <1>2, AheadOf
  <1>4. QED BY <1>1, <1>3, AheadUnique

LEMMA AdvanceNames ==
  ASSUME NEW s \in Sequences, NEW b \in Sequences, NEW n \in Int, -BufferSize <= n, n <= BufferSize + 1,
         0 <= Ahead(s, b) + n, Ahead(s, b) + n < 2^Width
  PROVE  Advance(s, n) = Advance(b, Ahead(s, b) + n) /\ Advance(s, n) \in Sequences /\ Ahead(Advance(s, n), b) = Ahead(s, b) + n
  <1>1. -2^Width <= n /\ n <= 2^Width
    BY AheadFacts
  <1>2. Advance(s, n) \in Sequences /\ Ahead(Advance(s, n), b) = Ahead(s, b) + n
    BY <1>1, AheadAdvance
  <1>3. QED BY <1>2, AheadNames

LEMMA DifferenceAhead ==
  ASSUME NEW s \in Sequences, NEW t \in Sequences
  PROVE  Difference(s, t) = IF Ahead(s, t) < Half THEN Ahead(s, t) ELSE Ahead(s, t) - 2^Width
  BY DEF Difference, Ahead, Past, Half

LEMMA AheadBack ==
  ASSUME NEW s \in Sequences, NEW t \in Sequences, s # t
  PROVE  Ahead(s, t) + Ahead(t, s) = 2^Width
  <1>1. PICK M \in Nat \ {0} : M = 2^Width
    BY AheadFacts
  <1>2. s \in 0 .. M - 1 /\ t \in 0 .. M - 1
    BY <1>1, AheadFacts
  <1>3. PICK x \in 0 .. M - 1 : x = Past(s, t, M) /\ (x = s - t \/ x = s - t + M)
    BY <1>2, PastIs
  <1>4. PICK y \in 0 .. M - 1 : y = Past(t, s, M) /\ (y = t - s \/ y = t - s + M)
    BY <1>2, PastIs
  <1>5. x + y = M
    BY <1>2, <1>3, <1>4
  <1>6. QED BY <1>1, <1>3, <1>4, <1>5 DEF Ahead

(* The wait of a claim ends when the whole range is within a buffer of     *)
(* what has been consumed.                                                 *)
LEMMA ClaimTargetIs ==
  ASSUME NEW b \in Sequences, NEW end \in Sequences, 2 <= Ahead(end, b), Ahead(end, b) <= BufferSize + Half
  PROVE  /\ Difference(b, Advance(end, -1 - BufferSize)) \in Int
         /\ 0 <= Difference(b, Advance(end, -1 - BufferSize)) <=> Ahead(end, b) - 1 <= BufferSize
  <1> DEFINE t == Advance(end, -1 - BufferSize)
  <1>1. PICK e \in Nat : e = Ahead(end, b)
    BY AheadType
  <1>2. PICK H \in Nat \ {0} : H = Half
    BY AheadFacts
  <1>3. 2^Width = H + H /\ BufferSize \in Nat \ {0} /\ BufferSize + BufferSize <= H
    BY <1>2, AheadFacts
  <1>4. PICK n \in Int : n = e - 1 - BufferSize
    BY <1>3
  <1>5. -BufferSize <= n /\ n < 2^Width /\ n < H
    BY <1>1, <1>2, <1>3, <1>4
  <1>6. t \in Sequences /\ Ahead(t, b) = IF n < 0 THEN n + 2^Width ELSE n
    <2>1. Advance(b, n) \in Sequences /\ Ahead(Advance(b, n), b) = IF n < 0 THEN n + 2^Width ELSE n
      BY <1>5, AheadOf
    <2>2. t = Advance(b, n)
      <3>1. PICK M \in Nat \ {0} : M = 2^Width
        BY AheadFacts
      <3>2. PICK x \in Int : x = end + (-1 - BufferSize)
        BY AheadFacts
      <3>3. PICK y \in Int : y = b + n
        BY AheadFacts
      <3>4. end \in 0 .. M - 1 /\ b \in 0 .. M - 1
        BY <3>1, AheadFacts
      <3>5. PICK a \in 0 .. M - 1 : a = Past(end, b, M) /\ (a = end - b \/ a = end - b + M)
        BY <3>4, PastIs
      <3>6. e = a
        BY <1>1, <3>1, <3>5 DEF Ahead
      <3>7. x - y = 0 \/ x - y = M \/ x - y = -M
        BY <1>3, <1>4, <3>2, <3>3, <3>4, <3>5, <3>6
      <3>8. \E z \in Int : x - y = M * z
        <4>1. M * 0 = 0 /\ M * 1 = M /\ M * (-1) = -M
          OBVIOUS
        <4>2. 0 \in Int /\ 1 \in Int /\ -1 \in Int
          OBVIOUS
        <4>3. QED BY <3>7, <4>1, <4>2
      <3>9. x % M = y % M
        BY <3>8, ModuloEqual
      <3>10. QED BY <3>1, <3>2, <3>3, <3>9 DEF Advance
    <2>3. QED BY <2>1, <2>2
  <1> HIDE DEF t
  <1>7. Difference(b, t) = -n
    <2>1. CASE n = 0
      <3>1. t = b
        BY <1>6, <2>1, AheadType
      <3>2. Ahead(b, t) = 0
        BY <1>6, <3>1, AheadType
      <3>3. QED BY <1>2, <1>6, <2>1, <3>2, DifferenceAhead
    <2>2. CASE n # 0
      <3>1. t # b
        <4>1. Ahead(t, b) # 0
          BY <1>2, <1>3, <1>5, <1>6, <2>2
        <4>2. QED BY <1>6, <4>1, AheadType
      <3>2. PICK y \in Int : y = Ahead(b, t) /\ Ahead(t, b) + y = 2^Width
        <4>1. Ahead(b, t) \in Nat
          BY <1>6, AheadType
        <4>2. QED BY <1>6, <3>1, <4>1, AheadBack
      <3>3. y = IF n < 0 THEN -n ELSE H + H - n
        BY <1>3, <1>6, <3>2
      <3>4. Difference(b, t) = IF y < H THEN y ELSE y - (H + H)
        BY <1>2, <1>3, <1>6, <3>2, DifferenceAhead
      <3>5. QED BY <1>3, <1>5, <2>2, <3>3, <3>4
    <2>3. QED BY <2>1, <2>2
  <1>8. QED BY <1>1, <1>3, <1>4, <1>7 DEF t

(* The numbers that are claimed and not published fit in half the range.   *)
LEMMA ClaimsFit ==
  ASSUME NEW b \in [Producers -> Int], NEW e \in [Producers -> Int], NEW hi \in Int,
         \A p \in Producers : e[p] - b[p] <= MaxClaim,
         \A n \in BufferSize + 1 .. hi : \E p \in Producers : b[p] <= n /\ n < e[p]
  PROVE  hi < BufferSize + Half
  <1>1. IsFiniteSet(Producers) /\ MaxClaim \in Nat /\ Cardinality(Producers) * MaxClaim < Half
    BY MultiProducerAssumption DEF Half
  <1>2. BufferSize + 1 \in Int
    BY AheadFacts
  <1>3. hi - (BufferSize + 1) + 1 <= Cardinality(Producers) * MaxClaim
    BY <1>1, <1>2, RangesFit
  <1>4. PICK k \in Nat : k = Cardinality(Producers) * MaxClaim
    <2>1. Cardinality(Producers) \in Nat
      BY <1>1, FS_CardinalityType
    <2>2. QED BY <1>1, <2>1
  <1>5. QED BY <1>1, <1>3, <1>4, AheadFacts

LEMMA AdvanceTwice ==
  ASSUME NEW b \in Sequences, NEW k \in Int, NEW n \in Int
  PROVE  Advance(Advance(b, k), n) = Advance(b, k + n)
  <1>1. PICK M \in Nat \ {0} : M = 2^Width
    BY AheadFacts
  <1>2. PICK x \in Int : x = b + k
    BY AheadFacts
  <1>3. PICK y \in Int : y = x % M /\ y \in 0 .. M - 1
    <2>1. x % M \in 0 .. M - 1
      BY ModuloCases
    <2>2. QED BY <2>1
  <1>4. y % M = x % M
    <2>1. y % M = y
      BY <1>3, ModuloCases
    <2>2. QED BY <1>3, <2>1
  <1>5. PICK z \in Int : y - x = M * z
    BY <1>4, ModuloEqual
  <1>6. (y + n) - (x + n) = M * z /\ y + n \in Int /\ x + n \in Int
    BY <1>5
  <1>7. (y + n) % M = (x + n) % M
    BY <1>6, ModuloEqual
  <1>8. b + (k + n) = x + n
    BY <1>2, AheadFacts
  <1>9. Advance(b, k) = y
    BY <1>1, <1>2, <1>3 DEF Advance
  <1>10. QED BY <1>1, <1>7, <1>8, <1>9 DEF Advance

(* A number and the one a buffer before it share a slot.                   *)
LEMMA EarlierSlot ==
  ASSUME NEW b \in Sequences, NEW n \in Int
  PROVE  Sequencer!Slot(Advance(b, n)) = Sequencer!Slot(Advance(b, n - BufferSize))
  <1>1. BufferSize \in Nat \ {0} /\ n - BufferSize \in Int /\ -BufferSize <= BufferSize /\ BufferSize < 2^Width /\ (n - BufferSize) + BufferSize = n
    BY AheadFacts
  <1>2. PICK a \in Sequences : a = Advance(b, n - BufferSize)
    BY <1>1, AdvanceType
  <1>3. Advance(b, n) = Advance(a, BufferSize)
    BY <1>1, <1>2, AdvanceTwice
  <1>4. Advance(a, BufferSize) \in Sequences /\ Ahead(Advance(a, BufferSize), a) = BufferSize
    BY <1>1, AheadOf
  <1>5. Ahead(a, a) = 0
    BY AheadType
  <1>6. BufferSize - 0 = BufferSize
    BY <1>1
  <1>7. QED BY <1>2, <1>3, <1>4, <1>5, <1>6, AheadSlots

LEMMA EarlierDiffers ==
  ASSUME NEW b \in Sequences, NEW n \in 1 .. (BufferSize + BufferSize)
  PROVE  Advance(b, n) # Advance(b, n - BufferSize)
  <1>1. PICK H \in Nat \ {0} : H = Half
    BY AheadFacts
  <1>2. BufferSize \in Nat \ {0} /\ BufferSize + BufferSize <= H /\ 2^Width = H + H
    BY <1>1, AheadFacts
  <1>3. PICK m \in Int : m = n - BufferSize
    BY <1>2
  <1>4. n \in Int /\ -BufferSize <= n /\ n < 2^Width /\ ~(n < 0) /\ -BufferSize <= m /\ m < 2^Width
    BY <1>2, <1>3
  <1>5. Ahead(Advance(b, n), b) = n
    BY <1>4, AheadOf
  <1>6. Ahead(Advance(b, m), b) = IF m < 0 THEN m + 2^Width ELSE m
    BY <1>4, AheadOf
  <1>7. n # IF m < 0 THEN m + 2^Width ELSE m
    BY <1>2, <1>3
  <1>8. QED BY <1>3, <1>5, <1>6, <1>7

Offset(s) == Ahead(s, m_consumerBarrier)

(* The nth number after what has been consumed is in its slot.             *)
Filled(n) == Sequencer!IsPublished(Advance(m_consumerBarrier, n))

(* A slot holds one of two numbers: the one that belongs there next, or    *)
(* the one a buffer before it.                                             *)
SlotsHold ==
  \A n \in 1 .. BufferSize :
    m_published[Sequencer!Slot(Advance(m_consumerBarrier, n))] \in
      {Advance(m_consumerBarrier, n), Advance(m_consumerBarrier, n - BufferSize)}

(* Everything up to s is published.                                        *)
Reached(s) == Offset(s) <= BufferSize /\ \A n \in 1 .. Offset(s) : Filled(n)
Readable(c, s) == Reached(s) /\ Offset(consumed[c]) <= Offset(s)

(* Every number that c, or somebody who is about to resume it, takes for   *)
(* published has been.                                                     *)
ReaderPlace(c) ==
  /\ Reached(consumed[c])
  /\ sequencerPc[c] # "idle" => Readable(c, m_lastKnownPublished[c])
  /\ sequencerPc[c] \in {"enqueue", "scan", "acquire", "resume"} => Readable(c, lastKnownPublished[c])
  /\ \A p \in Producers :
       OnList(c, awaiters[p]) \/ OnList(c, awaitersToResume[p]) => Readable(c, lastKnownPublished[p])

HasClaim(p) == sequencerPc[p] \in {"claim", "publish"}
ClaimFrom(p) == Offset(m_claimedRange[p].begin)
ClaimTo(p) == Offset(m_claimedRange[p].end)

(* The numbers of a producer that has claimed some and not published them. *)
ClaimPlace(p) ==
  HasClaim(p) =>
    /\ 1 <= ClaimFrom(p) /\ ClaimFrom(p) < ClaimTo(p) /\ ClaimTo(p) <= Offset(m_nextToClaim)
    /\ ClaimTo(p) - ClaimFrom(p) <= MaxClaim
    /\ sequencerPc[p] = "publish" \/ lastConsumed[p] # NoResult => ClaimTo(p) - 1 <= BufferSize
    /\ sequencerPc[p] = "claim" => claimTarget[p] = Advance(m_claimedRange[p].end, -1 - BufferSize)
    /\ \A q \in Producers : q # p /\ HasClaim(q) => ClaimTo(p) <= ClaimFrom(q) \/ ClaimTo(q) <= ClaimFrom(p)

(* No number beyond the buffer is without a producer that has claimed it.  *)
ClaimsCover ==
  \A n \in BufferSize + 1 .. Offset(m_nextToClaim) - 1 :
    \E p \in Producers : HasClaim(p) /\ ClaimFrom(p) <= n /\ n < ClaimTo(p)

(* What is published had been claimed; not by a producer that still waits, *)
(* and the first number of a range comes last.                             *)
FilledPlace ==
  \A n \in 1 .. BufferSize :
    Filled(n) => /\ n < Offset(m_nextToClaim)
                 /\ \A p \in Producers : /\ sequencerPc[p] = "claim" => ~(ClaimFrom(p) <= n /\ n < ClaimTo(p))
                                         /\ sequencerPc[p] = "publish" => n # ClaimFrom(p)

NumbersInv ==
  /\ SlotsHold /\ (\A c \in Consumers : ReaderPlace(c))
  /\ 1 <= Offset(m_nextToClaim) /\ (\A p \in Producers : ClaimPlace(p)) /\ ClaimsCover /\ FilledPlace

LEMMA OffsetType ==
  ASSUME ClientTypes, NEW s \in Sequences
  PROVE  Offset(s) \in Nat /\ Offset(s) \in Int /\ Offset(s) < 2^Width /\ s = Advance(m_consumerBarrier, Offset(s))
  <1>1. m_consumerBarrier \in Sequences
    BY ClientValues
  <1>2. Offset(s) \in 0 .. 2^Width - 1
    BY <1>1, AheadType DEF Offset
  <1>3. QED BY <1>1, <1>2, AheadFacts, AheadNames DEF Offset

LEMMA FilledIs ==
  ASSUME NEW n
  PROVE  Filled(n) <=> m_published[Sequencer!Slot(Advance(m_consumerBarrier, n))] = Advance(m_consumerBarrier, n)
  BY DEF Filled, Sequencer!IsPublished

LEMMA NextNotFilled ==
  ASSUME ClientTypes, SlotsHold
  PROVE  ~Filled(BufferSize + 1)
  <1> DEFINE B == m_consumerBarrier
  <1>1. B \in Sequences /\ BufferSize \in Nat \ {0} /\ BufferSize + 1 \in Int /\ (BufferSize + 1) - BufferSize = 1
        /\ BufferSize + 1 \in 1 .. (BufferSize + BufferSize) /\ 1 \in 1 .. (BufferSize + BufferSize) /\ 1 \in 1 .. BufferSize
    BY ClientValues, AheadFacts
  <1>2. Sequencer!Slot(Advance(B, BufferSize + 1)) = Sequencer!Slot(Advance(B, 1))
    BY <1>1, EarlierSlot
  <1>3. m_published[Sequencer!Slot(Advance(B, 1))] \in {Advance(B, 1), Advance(B, 1 - BufferSize)}
    BY <1>1 DEF SlotsHold
  <1>4. Advance(B, BufferSize + 1) # Advance(B, 1)
    BY <1>1, EarlierDiffers
  <1>5. Advance(B, BufferSize + 1) # Advance(B, 1 - BufferSize)
    <2>1. PICK H \in Nat \ {0} : H = Half
      BY AheadFacts
    <2>2. BufferSize + BufferSize <= H /\ 2^Width = H + H
      BY <2>1, AheadFacts
    <2>3. PICK m \in Int : m = 1 - BufferSize
      BY <1>1
    <2>4. PICK n \in Int : n = BufferSize + 1
      BY <1>1
    <2>5. -BufferSize <= n /\ n < 2^Width /\ ~(n < 0) /\ -BufferSize <= m /\ m < 2^Width
      BY <1>1, <2>2, <2>3, <2>4
    <2>6. Ahead(Advance(B, n), B) = n /\ Ahead(Advance(B, m), B) = IF m < 0 THEN m + 2^Width ELSE m
      BY <1>1, <2>5, AheadOf
    <2>7. n # IF m < 0 THEN m + 2^Width ELSE m
      BY <1>1, <2>2, <2>3, <2>4
    <2>8. QED BY <2>3, <2>4, <2>6, <2>7
  <1>6. QED BY <1>2, <1>3, <1>4, <1>5, FilledIs

(* A scan stays within what is published.                                  *)
LEMMA ReachedNext ==
  ASSUME ClientTypes, SlotsHold, NEW s \in Sequences, Reached(s), Sequencer!IsPublished(Advance(s, 1))
  PROVE  Reached(Advance(s, 1)) /\ Offset(Advance(s, 1)) = Offset(s) + 1
  <1>1. PICK k \in Nat : k = Offset(s) /\ k <= BufferSize
    BY OffsetType DEF Reached
  <1>2. m_consumerBarrier \in Sequences /\ BufferSize \in Nat \ {0} /\ BufferSize + BufferSize <= Half /\ k + 1 < 2^Width /\ 0 <= k + 1
    BY <1>1, ClientValues, AheadFacts
  <1>3. 1 \in Int /\ -BufferSize <= 1 /\ 1 <= BufferSize + 1
    BY <1>2
  <1>4. Advance(s, 1) = Advance(m_consumerBarrier, k + 1) /\ Advance(s, 1) \in Sequences /\ Offset(Advance(s, 1)) = k + 1
    BY <1>1, <1>2, <1>3, AdvanceNames DEF Offset
  <1>5. Filled(k + 1)
    BY <1>4 DEF Filled
  <1>6. k # BufferSize
    BY <1>5, NextNotFilled
  <1>7. k + 1 <= BufferSize
    BY <1>1, <1>2, <1>6
  <1>8. \A n \in 1 .. k + 1 : n \in 1 .. k \/ n = k + 1
    OBVIOUS
  <1>9. \A n \in 1 .. k : Filled(n)
    BY <1>1 DEF Reached
  <1>10. QED BY <1>1, <1>4, <1>5, <1>7, <1>8, <1>9 DEF Reached

LEMMA NumbersInitially ==
  ASSUME Sequencer!Init
  PROVE  NumbersInv
  <1> DEFINE B == m_consumerBarrier
  <1>1. ClientTypes
    BY ListsInitially DEF ListsInv
  <1>2. /\ m_nextToClaim = Advance(B, 1) /\ B = initial_sequence /\ B \in Sequences
        /\ \A c \in Consumers : consumed[c] = B /\ sequencerPc[c] = "idle"
        /\ \A p \in Producers : sequencerPc[p] = "idle" /\ awaiters[p] = << >> /\ awaitersToResume[p] = << >>
    BY SequencerTerms, ClientParties, RangeFacts DEF Sequencer!Init, Sequencer!Barrier!CursorInit
  <1>3. ASSUME NEW n \in 1 .. BufferSize
        PROVE  m_published[Sequencer!Slot(Advance(B, n))] = Advance(B, n - BufferSize)
    <2>1. PICK i \in 0 .. (BufferSize - 1) : i = Sequencer!Slot(Advance(B, n))
      <3>1. n \in Int
        OBVIOUS
      <3>2. QED BY <1>2, <3>1, AdvanceType, SequencerSlot
    <2>2. m_published[i] \in {Advance(B, -k) : k \in 0 .. (BufferSize - 1)} /\ Sequencer!Slot(m_published[i]) = i
      BY <1>2, SlotsInitially
    <2>3. PICK k \in 0 .. (BufferSize - 1) : m_published[i] = Advance(B, -k)
      BY <2>2
    <2>4. BufferSize \in Nat \ {0} /\ BufferSize < 2^Width
      BY AheadFacts
    <2>5. PICK a \in Sequences : a = Advance(B, -BufferSize)
      <3>1. -BufferSize \in Int
        BY <2>4
      <3>2. QED BY <1>2, <3>1, AdvanceType
    <2>6. PICK m \in Int : m = BufferSize - k
      BY <2>4
    <2>7. m \in 1 .. BufferSize /\ -BufferSize + m = -k /\ -BufferSize + n = n - BufferSize /\ -BufferSize \in Int /\ n \in Int
      BY <2>4, <2>6
    <2>8. Advance(B, -k) = Advance(a, m) /\ Advance(B, n - BufferSize) = Advance(a, n)
      BY <1>2, <2>5, <2>7, AdvanceTwice
    <2>9. ASSUME NEW j \in 1 .. BufferSize PROVE Advance(a, j) \in Sequences /\ Ahead(Advance(a, j), a) = j
      <3>1. PICK M \in Nat : M = 2^Width /\ BufferSize < M
        BY <2>4, AheadFacts
      <3>2. j \in Int /\ -BufferSize <= j /\ j < M /\ ~(j < 0)
        BY <2>4, <3>1
      <3>3. QED BY <3>1, <3>2, AheadOf
    <2>10. Sequencer!Slot(Advance(a, m)) = Sequencer!Slot(Advance(a, n))
      <3>1. n \in Int
        OBVIOUS
      <3>2. Sequencer!Slot(Advance(B, n)) = Sequencer!Slot(Advance(B, n - BufferSize))
        BY <1>2, <3>1, EarlierSlot
      <3>3. QED BY <2>1, <2>2, <2>3, <2>8, <3>2
    <2>11. ~(0 < m - n /\ m - n < BufferSize) /\ ~(0 < n - m /\ n - m < BufferSize)
      BY <2>7, <2>9, <2>10, AheadSlots
    <2>12. m = n
      BY <2>4, <2>7, <2>11
    <2>13. QED BY <2>1, <2>3, <2>8, <2>12
  <1>4. SlotsHold
    BY <1>3 DEF SlotsHold
  <1>5. FilledPlace
    <2>1. ASSUME NEW n \in 1 .. BufferSize PROVE ~Filled(n)
      <3>1. n \in 1 .. (BufferSize + BufferSize)
        BY AheadFacts
      <3>2. Advance(B, n) # Advance(B, n - BufferSize)
        BY <1>2, <3>1, EarlierDiffers
      <3>3. QED BY <1>3, <3>2, FilledIs
    <2>2. QED BY <2>1 DEF FilledPlace
  <1>6. Offset(B) = 0
    BY <1>2, AheadType DEF Offset
  <1>7. Offset(m_nextToClaim) = 1
    <2>1. 1 \in Int /\ -BufferSize <= 1 /\ 1 < 2^Width /\ ~(1 < 0)
      BY AheadFacts
    <2>2. QED BY <1>2, <2>1, AheadOf DEF Offset
  <1>8. ClaimsCover
    <2>1. BufferSize + 1 .. Offset(m_nextToClaim) - 1 = {}
      BY <1>7, AheadFacts
    <2>2. QED BY <2>1 DEF ClaimsCover
  <1>9. ASSUME NEW c \in Consumers PROVE ReaderPlace(c)
    <2>1. Reached(consumed[c])
      BY <1>2, <1>6, AheadFacts DEF Reached
    <2>2. \A p \in Producers : ~OnList(c, awaiters[p]) /\ ~OnList(c, awaitersToResume[p])
      BY <1>2, OnEmptyList
    <2>3. QED BY <1>2, <2>1, <2>2 DEF ReaderPlace
  <1>10. \A p \in Producers : ClaimPlace(p)
    BY <1>2 DEF ClaimPlace, HasClaim
  <1>11. QED BY <1>4, <1>5, <1>7, <1>8, <1>9, <1>10 DEF NumbersInv

(* Steps that neither claim nor publish.                                   *)
LEMMA ClaimsKept ==
  ASSUME NumbersInv,
         UNCHANGED <<m_consumerBarrier, m_published, m_nextToClaim, m_claimedRange, claimTarget, lastConsumed>>,
         \A p \in Producers : /\ sequencerPc'[p] = "claim" <=> sequencerPc[p] = "claim"
                              /\ sequencerPc'[p] = "publish" <=> sequencerPc[p] = "publish"
  PROVE  /\ SlotsHold' /\ (1 <= Offset(m_nextToClaim))' /\ (\A p \in Producers : ClaimPlace(p))' /\ ClaimsCover' /\ FilledPlace'
         /\ \A s : (Offset(s)' = Offset(s)) /\ (Reached(s)' <=> Reached(s))
  <1>1. /\ SlotsHold /\ 1 <= Offset(m_nextToClaim) /\ (\A p \in Producers : ClaimPlace(p)) /\ ClaimsCover /\ FilledPlace
    BY DEF NumbersInv
  <1>2. \A s : Offset(s)' = Offset(s)
    BY DEF Offset
  <1>3. \A n : Filled(n)' <=> Filled(n)
    BY DEF Filled, Sequencer!IsPublished
  <1>4. \A p \in Producers : HasClaim(p)' <=> HasClaim(p)
    BY DEF HasClaim
  <1>5. \A p : ClaimFrom(p)' = ClaimFrom(p) /\ ClaimTo(p)' = ClaimTo(p)
    BY <1>2 DEF ClaimFrom, ClaimTo
  <1>6. Offset(m_nextToClaim)' = Offset(m_nextToClaim)
    BY DEF Offset
  <1>7. SlotsHold'
    BY <1>1 DEF SlotsHold
  <1>8. \A p \in Producers : ClaimPlace(p)'
    BY <1>1, <1>4, <1>5, <1>6 DEF ClaimPlace
  <1>9. ClaimsCover'
    BY <1>1, <1>4, <1>5, <1>6 DEF ClaimsCover
  <1>10. FilledPlace'
    BY <1>1, <1>3, <1>5, <1>6 DEF FilledPlace
  <1>11. \A s : Reached(s)' <=> Reached(s)
    BY <1>2, <1>3 DEF Reached
  <1>12. QED BY <1>1, <1>2, <1>6, <1>7, <1>8, <1>9, <1>10, <1>11

(* Steps that leave what the consumers know alone.                         *)
LEMMA ReadersKept ==
  ASSUME ClientTypes, NumbersInv,
         UNCHANGED <<m_consumerBarrier, consumed, m_lastKnownPublished, lastKnownPublished, awaiters, awaitersToResume>>,
         \A n \in 1 .. BufferSize : Filled(n) => Filled(n)',
         \A c \in Consumers : sequencerPc'[c] = sequencerPc[c]
  PROVE  (\A c \in Consumers : ReaderPlace(c))'
  <1> SUFFICES ASSUME NEW c \in Consumers PROVE ReaderPlace(c)'
    OBVIOUS
  <1>1. \A s : Offset(s)' = Offset(s)
    BY DEF Offset
  <1>2. ASSUME NEW s \in Sequences, Reached(s) PROVE Reached(s)'
    <2>1. Offset(s) \in Nat /\ Offset(s) <= BufferSize
      BY <1>2, OffsetType DEF Reached
    <2>2. \A n \in 1 .. Offset(s) : n \in 1 .. BufferSize
      BY <2>1, AheadFacts
    <2>3. QED BY <1>1, <1>2, <2>2 DEF Reached
  <1>3. \A s \in Sequences : Readable(c, s) => Readable(c, s)'
    BY <1>1, <1>2 DEF Readable
  <1>4. ReaderPlace(c)
    BY DEF NumbersInv
  <1>5. /\ consumed[c] \in Sequences /\ m_lastKnownPublished[c] \in Sequences
        /\ lastKnownPublished[c] \in Sequences /\ \A p \in Producers : lastKnownPublished[p] \in Sequences
    BY ClientValues, ClientParties
  <1>6. Reached(consumed[c])'
    BY <1>2, <1>4, <1>5 DEF ReaderPlace
  <1>7. sequencerPc'[c] # "idle" => Readable(c, m_lastKnownPublished[c])'
    BY <1>3, <1>4, <1>5 DEF ReaderPlace
  <1>8. sequencerPc'[c] \in {"enqueue", "scan", "acquire", "resume"} => Readable(c, lastKnownPublished[c])'
    BY <1>3, <1>4, <1>5 DEF ReaderPlace
  <1>9. ASSUME NEW p \in Producers, OnList(c, awaiters'[p]) \/ OnList(c, awaitersToResume'[p])
        PROVE  Readable(c, lastKnownPublished[p])'
    BY <1>3, <1>4, <1>5, <1>9 DEF ReaderPlace
  <1>10. QED BY <1>6, <1>7, <1>8, <1>9 DEF ReaderPlace
-----------------------------------------------------------------------------
(* Producers                                                               *)

LEMMA ClaimOffsets ==
  ASSUME ClientTypes, NEW p \in Producers
  PROVE  /\ ClaimFrom(p) \in Nat /\ ClaimTo(p) \in Nat /\ Offset(m_nextToClaim) \in Nat
         /\ ClaimFrom(p) < 2^Width /\ ClaimTo(p) < 2^Width /\ Offset(m_nextToClaim) < 2^Width
         /\ m_claimedRange[p].begin \in Sequences /\ m_claimedRange[p].end \in Sequences
  <1>1. m_claimedRange[p].begin \in Sequences /\ m_claimedRange[p].end \in Sequences /\ m_nextToClaim \in Sequences
    BY ClientValues
  <1>2. QED BY <1>1, OffsetType DEF ClaimFrom, ClaimTo

(* How far the claims reach, with another one.                             *)
LEMMA ClaimIsNear ==
  ASSUME ClientTypes, NumbersInv, NEW p \in Producers, NEW m \in Nat, m <= MaxClaim, m = 0 \/ ~HasClaim(p)
  PROVE  Offset(m_nextToClaim) + m <= BufferSize + Half
  <1>1. PICK N \in Nat : N = Offset(m_nextToClaim)
    BY ClaimOffsets
  <1>2. (\A q \in Producers : ClaimPlace(q)) /\ ClaimsCover /\ MaxClaim \in Nat /\ BufferSize \in Nat /\ Half \in Nat
    BY AheadFacts, MultiProducerAssumption DEF NumbersInv
  <1> DEFINE b == [q \in Producers |-> IF q = p /\ ~HasClaim(p) THEN N ELSE IF HasClaim(q) THEN ClaimFrom(q) ELSE 0]
             e == [q \in Producers |-> IF q = p /\ ~HasClaim(p) THEN N + m ELSE IF HasClaim(q) THEN ClaimTo(q) ELSE 0]
  <1>3. b \in [Producers -> Int] /\ e \in [Producers -> Int]
    BY ClaimOffsets
  <1>4. ASSUME NEW q \in Producers PROVE e[q] - b[q] <= MaxClaim
    <2>1. CASE q = p /\ ~HasClaim(p)
      BY <1>2, <2>1
    <2>2. CASE ~(q = p /\ ~HasClaim(p)) /\ HasClaim(q)
      <3>1. ClaimTo(q) - ClaimFrom(q) <= MaxClaim
        BY <1>2, <2>2 DEF ClaimPlace
      <3>2. QED BY <2>2, <3>1
    <2>3. CASE ~(q = p /\ ~HasClaim(p)) /\ ~HasClaim(q)
      BY <1>2, <2>3
    <2>4. QED BY <2>1, <2>2, <2>3
  <1>5. ASSUME NEW n \in BufferSize + 1 .. N + m - 1 PROVE \E q \in Producers : b[q] <= n /\ n < e[q]
    <2>1. CASE n < N
      <3>1. n \in BufferSize + 1 .. N - 1
        BY <1>2, <2>1
      <3>2. PICK q \in Producers : HasClaim(q) /\ ClaimFrom(q) <= n /\ n < ClaimTo(q)
        BY <1>1, <1>2, <3>1 DEF ClaimsCover
      <3>3. b[q] = ClaimFrom(q) /\ e[q] = ClaimTo(q)
        BY <3>2
      <3>4. QED BY <3>2, <3>3
    <2>2. CASE ~(n < N)
      <3>1. m # 0 /\ N <= n /\ n < N + m
        BY <1>2, <2>2
      <3>2. b[p] = N /\ e[p] = N + m
        BY <3>1
      <3>3. QED BY <3>1, <3>2
    <2>3. QED BY <2>1, <2>2
  <1>6. N + m - 1 \in Int
    OBVIOUS
  <1>7. N + m - 1 < BufferSize + Half
    <2> HIDE DEF b, e
    <2> QED BY <1>3, <1>4, <1>5, <1>6, ClaimsFit
  <1>8. QED BY <1>1, <1>2, <1>7

LEMMA ClaimNumbersStep ==
  ASSUME ListsInv, NumbersInv, NEW p \in Producers, NEW count \in 1 .. MaxClaim, Sequencer!Claim(p, count)
  PROVE  NumbersInv'
  <1>1. ClientTypes /\ p \in Clients /\ p \notin Consumers
    BY ClientParties DEF ListsInv
  <1>2. PICK m \in Int :
           /\ 1 <= m /\ m <= BufferSize /\ m <= MaxClaim /\ m_nextToClaim' = Advance(m_nextToClaim, m)
           /\ sequencerPc[p] = "idle" /\ sequencerPc' = [sequencerPc EXCEPT ![p] = "claim"]
           /\ m_claimedRange' = [m_claimedRange EXCEPT ![p] = [begin |-> m_nextToClaim, end |-> m_nextToClaim']]
           /\ claimTarget' = [claimTarget EXCEPT ![p] = Advance(m_nextToClaim', -1 - BufferSize)]
           /\ lastConsumed' = [lastConsumed EXCEPT ![p] =
                IF Difference(m_consumerBarrier, Advance(m_nextToClaim', -1 - BufferSize)) < 0 THEN NoResult ELSE m_consumerBarrier]
           /\ UNCHANGED <<m_consumerBarrier, m_published, m_awaiters, m_targetSequence, m_lastKnownPublished, m_readyToResume,
                          awaiters, awaitersToRequeue, awaitersToResume, targetSequence, lastKnownPublished, consumed>>
    BY ClaimDoes
  <1>3. PICK N \in Nat : N = Offset(m_nextToClaim) /\ 1 <= N
    BY <1>1, ClaimOffsets DEF NumbersInv
  <1>4. ~HasClaim(p)
    BY <1>2 DEF HasClaim
  <1>5. N + m <= BufferSize + Half /\ N + m < 2^Width
    <2>1. m \in Nat
      BY <1>2
    <2>2. N + m <= BufferSize + Half
      BY <1>1, <1>2, <1>3, <1>4, <2>1, ClaimIsNear
    <2>3. QED BY <2>2, AheadFacts
  <1>6. m_nextToClaim' \in Sequences /\ Offset(m_nextToClaim') = N + m
    <2>1. m_nextToClaim \in Sequences /\ m_consumerBarrier \in Sequences
      BY <1>1, ClientValues
    <2>2. -BufferSize <= m /\ m <= BufferSize + 1 /\ 0 <= N + m
      BY <1>2, AheadFacts
    <2>3. QED BY <1>2, <1>3, <1>5, <2>1, <2>2, AdvanceNames DEF Offset
  <1>7. /\ (\A s : Offset(s)' = Offset(s)) /\ (\A n : Filled(n)' <=> Filled(n))
        /\ Offset(m_nextToClaim)' = N + m
    BY <1>2, <1>6 DEF Offset, Filled, Sequencer!IsPublished
  <1>8. /\ sequencerPc'[p] = "claim" /\ HasClaim(p)' /\ ClaimFrom(p)' = N /\ ClaimTo(p)' = N + m
        /\ m_claimedRange'[p].end = m_nextToClaim'
    <2>1. sequencerPc'[p] = "claim" /\ m_claimedRange'[p] = [begin |-> m_nextToClaim, end |-> m_nextToClaim']
      BY <1>1, <1>2, ClientValues
    <2>2. QED BY <1>2, <1>3, <1>6, <2>1 DEF HasClaim, ClaimFrom, ClaimTo, Offset
  <1>9. \A q \in Producers : q # p => /\ sequencerPc'[q] = sequencerPc[q] /\ (HasClaim(q)' <=> HasClaim(q))
                                      /\ ClaimFrom(q)' = ClaimFrom(q) /\ ClaimTo(q)' = ClaimTo(q)
                                      /\ lastConsumed'[q] = lastConsumed[q] /\ claimTarget'[q] = claimTarget[q]
                                      /\ m_claimedRange'[q] = m_claimedRange[q]
    <2> SUFFICES ASSUME NEW q \in Producers, q # p
                 PROVE  /\ sequencerPc'[q] = sequencerPc[q] /\ (HasClaim(q)' <=> HasClaim(q))
                        /\ ClaimFrom(q)' = ClaimFrom(q) /\ ClaimTo(q)' = ClaimTo(q)
                        /\ lastConsumed'[q] = lastConsumed[q] /\ claimTarget'[q] = claimTarget[q]
                        /\ m_claimedRange'[q] = m_claimedRange[q]
      OBVIOUS
    <2>1. /\ sequencerPc'[q] = sequencerPc[q] /\ m_claimedRange'[q] = m_claimedRange[q]
          /\ lastConsumed'[q] = lastConsumed[q] /\ claimTarget'[q] = claimTarget[q]
      BY <1>1, <1>2, ClientValues, ClientParties
    <2>2. QED BY <1>2, <2>1 DEF HasClaim, ClaimFrom, ClaimTo, Offset
  <1>10. \A q \in Producers : ClaimFrom(q) \in Nat /\ ClaimTo(q) \in Nat
    BY <1>1, ClaimOffsets
  <1>11. SlotsHold'
    BY <1>2 DEF NumbersInv, SlotsHold
  <1>12. ASSUME NEW q \in Producers PROVE ClaimPlace(q)'
    <2>1. \A r \in Producers : r # p /\ HasClaim(r) => ClaimTo(r) <= N
      BY <1>3 DEF NumbersInv, ClaimPlace
    <2>2. CASE q = p
      <3>1. 1 <= N /\ N < N + m /\ N + m <= N + m /\ (N + m) - N <= MaxClaim
        BY <1>2, <1>3, MultiProducerAssumption
      <3>2. lastConsumed'[p] # NoResult => N + m - 1 <= BufferSize
        <4>1. lastConsumed'[p] = IF Difference(m_consumerBarrier, Advance(m_nextToClaim', -1 - BufferSize)) < 0 THEN NoResult ELSE m_consumerBarrier
          BY <1>1, <1>2, ClientValues
        <4>2. m_consumerBarrier \in Sequences
          BY <1>1, ClientValues
        <4>3. 2 <= N + m
          BY <1>2, <1>3
        <4>4. /\ Difference(m_consumerBarrier, Advance(m_nextToClaim', -1 - BufferSize)) \in Int
              /\ 0 <= Difference(m_consumerBarrier, Advance(m_nextToClaim', -1 - BufferSize)) <=> N + m - 1 <= BufferSize
          BY <1>5, <1>6, <4>2, <4>3, ClaimTargetIs DEF Offset
        <4>5. QED BY <4>1, <4>4
      <3>3. claimTarget'[p] = Advance(m_claimedRange'[p].end, -1 - BufferSize)
        BY <1>1, <1>2, <1>8, ClientValues
      <3>4. \A r \in Producers : r # p /\ HasClaim(r)' => ClaimTo(r)' <= N
        BY <1>9, <2>1
      <3>5. QED BY <1>7, <1>8, <2>2, <3>1, <3>2, <3>3, <3>4 DEF ClaimPlace
    <2>3. CASE q # p
      <3> SUFFICES ASSUME HasClaim(q)' PROVE ClaimPlace(q)'
        BY DEF ClaimPlace
      <3>1. HasClaim(q) /\ ClaimPlace(q)
        BY <1>9, <2>3 DEF NumbersInv
      <3>2. /\ 1 <= ClaimFrom(q) /\ ClaimFrom(q) < ClaimTo(q) /\ ClaimTo(q) <= N
            /\ ClaimTo(q) - ClaimFrom(q) <= MaxClaim
            /\ sequencerPc[q] = "publish" \/ lastConsumed[q] # NoResult => ClaimTo(q) - 1 <= BufferSize
            /\ sequencerPc[q] = "claim" => claimTarget[q] = Advance(m_claimedRange[q].end, -1 - BufferSize)
            /\ \A r \in Producers : r # q /\ HasClaim(r) => ClaimTo(q) <= ClaimFrom(r) \/ ClaimTo(r) <= ClaimFrom(q)
        BY <1>3, <3>1 DEF ClaimPlace
      <3>3. ClaimTo(q)' <= Offset(m_nextToClaim)'
        BY <1>2, <1>3, <1>7, <1>9, <1>10, <2>3, <3>2
      <3>4. ASSUME NEW r \in Producers, r # q, HasClaim(r)'
            PROVE  ClaimTo(q)' <= ClaimFrom(r)' \/ ClaimTo(r)' <= ClaimFrom(q)'
        <4>1. CASE r = p
          BY <1>8, <1>9, <2>3, <3>2, <4>1
        <4>2. CASE r # p
          BY <1>9, <2>3, <3>2, <3>4, <4>2
        <4>3. QED BY <4>1, <4>2
      <3>5. QED BY <1>9, <2>3, <3>2, <3>3, <3>4 DEF ClaimPlace
    <2>4. QED BY <2>2, <2>3
  <1>13. ClaimsCover'
    <2> SUFFICES ASSUME NEW n \in BufferSize + 1 .. N + m - 1
                 PROVE  \E q \in Producers : HasClaim(q)' /\ ClaimFrom(q)' <= n /\ n < ClaimTo(q)'
      BY <1>2, <1>7 DEF ClaimsCover
    <2>1. CASE n < N
      <3>1. n \in BufferSize + 1 .. N - 1
        BY <2>1, AheadFacts
      <3>2. PICK q \in Producers : HasClaim(q) /\ ClaimFrom(q) <= n /\ n < ClaimTo(q)
        BY <1>3, <3>1 DEF NumbersInv, ClaimsCover
      <3>3. q # p
        BY <1>4, <3>2
      <3>4. QED BY <1>9, <3>2, <3>3
    <2>2. CASE ~(n < N)
      <3>1. N <= n /\ n < N + m
        BY <1>2, <2>2, AheadFacts
      <3>2. QED BY <1>8, <3>1
    <2>3. QED BY <2>1, <2>2
  <1>14. FilledPlace'
    <2> SUFFICES ASSUME NEW n \in 1 .. BufferSize, Filled(n)
                 PROVE  /\ n < N + m
                        /\ \A q \in Producers : /\ sequencerPc'[q] = "claim" => ~(ClaimFrom(q)' <= n /\ n < ClaimTo(q)')
                                                /\ sequencerPc'[q] = "publish" => n # ClaimFrom(q)'
      BY <1>7 DEF FilledPlace
    <2>1. n < N /\ \A q \in Producers : /\ sequencerPc[q] = "claim" => ~(ClaimFrom(q) <= n /\ n < ClaimTo(q))
                                        /\ sequencerPc[q] = "publish" => n # ClaimFrom(q)
      BY <1>3 DEF NumbersInv, FilledPlace
    <2>2. n < N + m
      BY <1>2, <2>1
    <2>3. ~(N <= n)
      BY <2>1
    <2>4. QED BY <1>8, <1>9, <2>1, <2>2, <2>3
  <1>15. (\A c \in Consumers : ReaderPlace(c))'
    <2>1. \A c \in Consumers : sequencerPc'[c] = sequencerPc[c]
      BY <1>1, <1>2, ClientValues, ClientParties
    <2>2. QED BY <1>1, <1>2, <1>7, <2>1, ReadersKept
  <1>16. QED BY <1>3, <1>7, <1>11, <1>12, <1>13, <1>14, <1>15, <1>2 DEF NumbersInv

LEMMA ClaimWaitNumbersStep ==
  ASSUME ListsInv, NumbersInv, NEW p \in Producers, Sequencer!ClaimWaitResumes(p)
  PROVE  NumbersInv'
  <1>1. ClientTypes /\ ClientLocals
    BY DEF ListsInv
  <1>2. /\ lastConsumed[p] = NoResult
        /\ UNCHANGED <<m_consumerBarrier, claimTarget, m_published, m_awaiters, m_targetSequence, m_lastKnownPublished,
                       m_readyToResume, sequencerPc, awaiters, awaitersToRequeue, awaitersToResume,
                       targetSequence, lastKnownPublished, m_nextToClaim, m_claimedRange, consumed>>
    BY ClaimWaitDoes
  <1>3. PICK n \in 0 .. Difference(m_consumerBarrier, claimTarget[p]) :
          lastConsumed' = [lastConsumed EXCEPT ![p] = Advance(claimTarget[p], n)]
    BY ClaimWaitDoes
  <1>4. \A q \in Producers : q # p => lastConsumed'[q] = lastConsumed[q]
    BY <1>1, <1>3, ClientValues
  <1>5. sequencerPc[p] = "claim" /\ HasClaim(p) /\ ClaimPlace(p)
    BY <1>1, <1>2 DEF ClientLocals, HasClaim, NumbersInv
  <1>6. ClaimTo(p) - 1 <= BufferSize
    <2>1. claimTarget[p] = Advance(m_claimedRange[p].end, -1 - BufferSize)
      BY <1>5 DEF ClaimPlace
    <2>2. m_consumerBarrier \in Sequences /\ m_claimedRange[p].end \in Sequences
      BY <1>1, ClientValues
    <2>3. Offset(m_nextToClaim) <= BufferSize + Half
      <3>1. 0 \in Nat /\ 0 <= MaxClaim
        BY MultiProducerAssumption
      <3>2. Offset(m_nextToClaim) + 0 <= BufferSize + Half
        BY <1>1, <3>1, ClaimIsNear
      <3>3. Offset(m_nextToClaim) \in Nat
        BY <1>1, ClaimOffsets
      <3>4. QED BY <3>2, <3>3
    <2>4. 2 <= ClaimTo(p) /\ ClaimTo(p) <= BufferSize + Half
      <3>1. 1 <= ClaimFrom(p) /\ ClaimFrom(p) < ClaimTo(p) /\ ClaimTo(p) <= Offset(m_nextToClaim)
        BY <1>5 DEF ClaimPlace
      <3>2. ClaimFrom(p) \in Nat /\ ClaimTo(p) \in Nat /\ Offset(m_nextToClaim) \in Nat
        BY <1>1, ClaimOffsets
      <3>3. QED BY <2>3, <3>1, <3>2, AheadFacts
    <2>5. /\ Difference(m_consumerBarrier, Advance(m_claimedRange[p].end, -1 - BufferSize)) \in Int
          /\ 0 <= Difference(m_consumerBarrier, Advance(m_claimedRange[p].end, -1 - BufferSize)) <=> ClaimTo(p) - 1 <= BufferSize
      BY <2>2, <2>4, ClaimTargetIs DEF ClaimTo, Offset
    <2>6. 0 <= Difference(m_consumerBarrier, claimTarget[p])
      BY <1>3, <2>1, <2>5
    <2>7. QED BY <2>1, <2>5, <2>6
  <1>7. /\ (\A s : Offset(s)' = Offset(s)) /\ (\A n1 : Filled(n1)' <=> Filled(n1)) /\ Offset(m_nextToClaim)' = Offset(m_nextToClaim)
        /\ \A q \in Producers : ClaimFrom(q)' = ClaimFrom(q) /\ ClaimTo(q)' = ClaimTo(q) /\ (HasClaim(q)' <=> HasClaim(q))
    BY <1>2 DEF Offset, Filled, Sequencer!IsPublished, ClaimFrom, ClaimTo, HasClaim
  <1>8. SlotsHold' /\ FilledPlace' /\ ClaimsCover'
    BY <1>2, <1>7 DEF NumbersInv, SlotsHold, FilledPlace, ClaimsCover
  <1>9. ASSUME NEW q \in Producers PROVE ClaimPlace(q)'
    <2>1. ClaimPlace(q)
      BY DEF NumbersInv
    <2>2. lastConsumed'[q] # NoResult /\ HasClaim(q) => ClaimTo(q) - 1 <= BufferSize
      BY <1>4, <1>6, <2>1 DEF ClaimPlace
    <2>3. QED BY <1>2, <1>7, <2>1, <2>2 DEF ClaimPlace
  <1>10. (\A c \in Consumers : ReaderPlace(c))'
    BY <1>1, <1>2, <1>7, ReadersKept
  <1>11. QED BY <1>7, <1>8, <1>9, <1>10 DEF NumbersInv

LEMMA ProducerMovesNumbersStep ==
  ASSUME ListsInv, NumbersInv, NEW p \in Producers, Sequencer!ClaimResumes(p) \/ Sequencer!PublishLoads(p)
  PROVE  NumbersInv'
  <1>1. ClientTypes /\ ClientLocals /\ p \in Clients /\ p \notin Consumers
    BY ClientParties DEF ListsInv
  <1>2. PICK label \in {"publish", "idle", "exchange"} :
          /\ sequencerPc' = [sequencerPc EXCEPT ![p] = label]
          /\ \/ sequencerPc[p] = "claim" /\ lastConsumed[p] # NoResult /\ label = "publish"
             \/ sequencerPc[p] = "load" /\ label # "publish"
    BY ProducerMovesDo
  <1>3. UNCHANGED <<m_consumerBarrier, claimTarget, lastConsumed, m_published, m_awaiters, m_targetSequence,
                    m_lastKnownPublished, m_readyToResume, awaiters, awaitersToRequeue, awaitersToResume,
                    targetSequence, lastKnownPublished, m_nextToClaim, m_claimedRange, consumed>>
    BY ProducerMovesDo
  <1>4. sequencerPc'[p] = label /\ \A u \in Clients : u # p => sequencerPc'[u] = sequencerPc[u]
    BY <1>1, <1>2, ClientValues
  <1>5. \A q \in Producers : q \in Clients
    BY ClientParties
  <1>6. /\ (\A s : Offset(s)' = Offset(s)) /\ (\A n : Filled(n)' <=> Filled(n)) /\ Offset(m_nextToClaim)' = Offset(m_nextToClaim)
        /\ \A q \in Producers : ClaimFrom(q)' = ClaimFrom(q) /\ ClaimTo(q)' = ClaimTo(q)
    BY <1>3 DEF Offset, Filled, Sequencer!IsPublished, ClaimFrom, ClaimTo
  <1>7. \A q \in Producers : HasClaim(q)' <=> HasClaim(q)
    BY <1>2, <1>4, <1>5 DEF HasClaim
  <1>8. SlotsHold' /\ ClaimsCover'
    BY <1>3, <1>6, <1>7 DEF NumbersInv, SlotsHold, ClaimsCover
  <1>9. FilledPlace'
    <2> SUFFICES ASSUME NEW n \in 1 .. BufferSize, Filled(n), NEW q \in Producers
                 PROVE  /\ n < Offset(m_nextToClaim)
                        /\ sequencerPc'[q] = "claim" => ~(ClaimFrom(q) <= n /\ n < ClaimTo(q))
                        /\ sequencerPc'[q] = "publish" => n # ClaimFrom(q)
      BY <1>6 DEF FilledPlace
    <2>1. /\ n < Offset(m_nextToClaim)
          /\ sequencerPc[q] = "claim" => ~(ClaimFrom(q) <= n /\ n < ClaimTo(q))
          /\ sequencerPc[q] = "publish" => n # ClaimFrom(q)
      BY DEF NumbersInv, FilledPlace
    <2>2. CASE q # p
      BY <1>4, <1>5, <2>1, <2>2
    <2>3. CASE q = p /\ sequencerPc[p] = "claim"
      <3>1. ClaimFrom(p) < ClaimTo(p) /\ ClaimFrom(p) \in Nat /\ ClaimTo(p) \in Nat
        BY <1>1, <2>3, ClaimOffsets DEF NumbersInv, ClaimPlace, HasClaim
      <3>2. n # ClaimFrom(p)
        BY <2>1, <2>3, <3>1
      <3>3. QED BY <1>2, <1>4, <2>1, <2>3, <3>2
    <2>4. CASE q = p /\ sequencerPc[p] # "claim"
      BY <1>2, <1>4, <2>1, <2>4
    <2>5. QED BY <2>2, <2>3, <2>4
  <1>10. ASSUME NEW q \in Producers PROVE ClaimPlace(q)'
    <2>1. ClaimPlace(q)
      BY DEF NumbersInv
    <2>2. CASE q # p
      <3>1. sequencerPc'[q] = sequencerPc[q]
        BY <1>4, <1>5, <2>2
      <3>2. QED BY <1>3, <1>6, <1>7, <2>1, <3>1 DEF ClaimPlace
    <2>3. CASE q = p
      <3>1. HasClaim(p) => lastConsumed[p] # NoResult /\ sequencerPc'[p] = "publish"
        BY <1>2, <1>4 DEF HasClaim
      <3>2. QED BY <1>3, <1>6, <1>7, <2>1, <2>3, <3>1 DEF ClaimPlace
    <2>4. QED BY <2>2, <2>3
  <1>11. (\A c \in Consumers : ReaderPlace(c))'
    <2>1. \A c \in Consumers : sequencerPc'[c] = sequencerPc[c]
      BY <1>1, <1>4, ClientParties
    <2>2. QED BY <1>1, <1>3, <1>6, <2>1, ReadersKept
  <1>12. QED BY <1>6, <1>8, <1>9, <1>10, <1>11 DEF NumbersInv

LEMMA OffsetsOf ==
  ASSUME ClientTypes, NEW n \in 0 .. (BufferSize + 1)
  PROVE  Advance(m_consumerBarrier, n) \in Sequences /\ Offset(Advance(m_consumerBarrier, n)) = n
  <1>1. PICK M \in Nat : M = 2^Width /\ BufferSize \in Nat /\ BufferSize + 1 < M
    BY AheadFacts
  <1>2. n \in Int /\ -BufferSize <= n /\ n < M /\ ~(n < 0)
    BY <1>1
  <1>3. QED BY <1>1, <1>2, ClientValues, AheadOf DEF Offset

LEMMA BufferSlotsDiffer ==
  ASSUME ClientTypes, NEW n \in 1 .. BufferSize, NEW o \in 1 .. BufferSize, n # o
  PROVE  Sequencer!Slot(Advance(m_consumerBarrier, n)) # Sequencer!Slot(Advance(m_consumerBarrier, o))
  <1>1. BufferSize \in Nat /\ n \in 0 .. (BufferSize + 1) /\ o \in 0 .. (BufferSize + 1)
    BY AheadFacts
  <1>2. /\ Advance(m_consumerBarrier, n) \in Sequences /\ Ahead(Advance(m_consumerBarrier, n), m_consumerBarrier) = n
        /\ Advance(m_consumerBarrier, o) \in Sequences /\ Ahead(Advance(m_consumerBarrier, o), m_consumerBarrier) = o
        /\ m_consumerBarrier \in Sequences
    BY <1>1, OffsetsOf, ClientValues DEF Offset
  <1>3. (0 < n - o /\ n - o < BufferSize) \/ (0 < o - n /\ o - n < BufferSize)
    BY <1>1
  <1>4. QED BY <1>2, <1>3, AheadSlots

(* The number a producer that publishes stores: one of its range, which is *)
(* within the buffer.                                                      *)
LEMMA StoreOffset ==
  ASSUME ListsInv, NumbersInv, NEW p \in Producers, Sequencer!PublishStores(p)
  PROVE  \E o \in 1 .. BufferSize :
           /\ Sequencer!Store(p, Advance(m_consumerBarrier, o))
           /\ ClaimFrom(p) <= o /\ o < ClaimTo(p) /\ ClaimTo(p) - 1 <= BufferSize
           /\ o = ClaimFrom(p) <=> Advance(m_consumerBarrier, o) = m_claimedRange[p].begin
  <1>1. ClientTypes /\ sequencerPc[p] = "publish" /\ HasClaim(p) /\ ClaimPlace(p)
    BY DEF ListsInv, NumbersInv, HasClaim, Sequencer!PublishStores
  <1>2. PICK begin \in Sequences : begin = m_claimedRange[p].begin
    BY <1>1, ClaimOffsets
  <1>3. PICK end \in Sequences : end = m_claimedRange[p].end
    BY <1>1, ClaimOffsets
  <1>4. PICK low \in Nat : low = ClaimFrom(p) /\ low = Ahead(begin, m_consumerBarrier)
    BY <1>1, <1>2, ClaimOffsets DEF ClaimFrom, Offset
  <1>5. PICK high \in Nat : high = ClaimTo(p) /\ high = Ahead(end, m_consumerBarrier)
    BY <1>1, <1>3, ClaimOffsets DEF ClaimTo, Offset
  <1>6. 1 <= low /\ low < high /\ high - 1 <= BufferSize
    BY <1>1, <1>4, <1>5 DEF ClaimPlace
  <1>7. m_consumerBarrier \in Sequences /\ BufferSize \in Nat /\ Half \in Nat /\ BufferSize + BufferSize <= Half /\ BufferSize # 0
    BY <1>1, ClientValues, AheadFacts
  <1>8. Difference(end, begin) = high - low
    <2>1. -Half <= high - low /\ high - low < Half
      BY <1>6, <1>7
    <2>2. QED BY <1>4, <1>5, <1>7, <2>1, AheadDifference
  <1>9. PICK k \in 0 .. Half - 1 : (k = 0 \/ k < high - low) /\ Sequencer!Store(p, Advance(begin, k))
    BY <1>1, <1>2, <1>3, <1>8, StoreIsInRange
  <1>10. PICK o \in Nat : o = low + k
    OBVIOUS
  <1>11. low <= o /\ o < high /\ o \in 1 .. BufferSize
    BY <1>6, <1>7, <1>9, <1>10
  <1>12. Advance(begin, k) = Advance(m_consumerBarrier, o) /\ Ahead(Advance(begin, k), m_consumerBarrier) = o /\ Advance(begin, k) \in Sequences
    <2>1. k \in Int /\ -BufferSize <= k /\ k <= BufferSize + 1 /\ 0 <= o
      BY <1>6, <1>7, <1>10, <1>11
    <2>2. PICK M \in Nat : M = 2^Width /\ BufferSize < M
      BY AheadFacts
    <2>3. o < M
      BY <1>7, <1>11, <2>2
    <2>4. QED BY <1>4, <1>7, <1>10, <2>1, <2>2, <2>3, AdvanceNames
  <1>13. o = low <=> Advance(begin, k) = begin
    BY <1>4, <1>7, <1>12, AheadUnique
  <1>14. QED BY <1>2, <1>4, <1>5, <1>6, <1>9, <1>11, <1>12, <1>13

LEMMA StoreNumbersStep ==
  ASSUME ListsInv, NumbersInv, NEW p \in Producers, Sequencer!PublishStores(p)
  PROVE  NumbersInv'
  <1>1. ClientTypes /\ p \in Clients /\ p \notin Consumers /\ sequencerPc[p] = "publish" /\ HasClaim(p)
    BY ClientParties DEF ListsInv, Sequencer!PublishStores, HasClaim
  <1>2. PICK o \in 1 .. BufferSize :
          /\ Sequencer!Store(p, Advance(m_consumerBarrier, o))
          /\ ClaimFrom(p) <= o /\ o < ClaimTo(p) /\ ClaimTo(p) - 1 <= BufferSize
          /\ o = ClaimFrom(p) <=> Advance(m_consumerBarrier, o) = m_claimedRange[p].begin
    BY StoreOffset
  <1>3. PICK s : s = Advance(m_consumerBarrier, o)
    OBVIOUS
  <1>4. /\ m_published' = [m_published EXCEPT ![Sequencer!Slot(s)] = s]
        /\ IF o = ClaimFrom(p)
           THEN /\ sequencerPc' = [sequencerPc EXCEPT ![p] = "load"]
                /\ m_claimedRange' = [m_claimedRange EXCEPT ![p] = [begin |-> 0, end |-> 0]]
           ELSE UNCHANGED <<sequencerPc, m_claimedRange>>
        /\ UNCHANGED <<m_consumerBarrier, claimTarget, lastConsumed, m_awaiters, m_targetSequence,
                       m_lastKnownPublished, m_readyToResume, awaiters, awaitersToRequeue, awaitersToResume,
                       targetSequence, lastKnownPublished, m_nextToClaim, consumed>>
    BY <1>2, <1>3, StoreDoes
  <1>5. ASSUME NEW n \in 1 .. BufferSize
        PROVE  m_published'[Sequencer!Slot(Advance(m_consumerBarrier, n))] =
                 IF n = o THEN s ELSE m_published[Sequencer!Slot(Advance(m_consumerBarrier, n))]
    <2>1. Sequencer!Slot(Advance(m_consumerBarrier, n)) \in 0 .. BufferSize - 1
      <3>1. n \in 0 .. (BufferSize + 1)
        BY AheadFacts
      <3>2. QED BY <1>1, <3>1, OffsetsOf, SequencerSlot
    <2>2. m_published \in [0 .. (BufferSize - 1) -> Sequences]
      BY <1>1, ClientValues
    <2>3. n # o => Sequencer!Slot(Advance(m_consumerBarrier, n)) # Sequencer!Slot(s)
      BY <1>1, <1>3, BufferSlotsDiffer
    <2>4. QED BY <1>3, <1>4, <2>1, <2>2, <2>3
  <1>6. \A n \in 1 .. BufferSize : Filled(n)' <=> Filled(n) \/ n = o
    BY <1>3, <1>4, <1>5 DEF Filled, Sequencer!IsPublished
  <1>7. SlotsHold'
    <2>1. \A n \in 1 .. BufferSize : m_published'[Sequencer!Slot(Advance(m_consumerBarrier, n))] \in
            {Advance(m_consumerBarrier, n), Advance(m_consumerBarrier, n - BufferSize)}
      BY <1>3, <1>5 DEF NumbersInv, SlotsHold
    <2>2. QED BY <1>4, <2>1 DEF SlotsHold
  <1>8. \A c \in Clients : c # p => sequencerPc'[c] = sequencerPc[c]
    BY <1>1, <1>4, ClientValues
  <1>9. (\A x : Offset(x)' = Offset(x)) /\ Offset(m_nextToClaim)' = Offset(m_nextToClaim)
    BY <1>4 DEF Offset
  <1>10. \A q \in Producers : q # p => /\ sequencerPc'[q] = sequencerPc[q] /\ m_claimedRange'[q] = m_claimedRange[q]
                                       /\ ClaimFrom(q)' = ClaimFrom(q) /\ ClaimTo(q)' = ClaimTo(q) /\ (HasClaim(q)' <=> HasClaim(q))
    <2> SUFFICES ASSUME NEW q \in Producers, q # p
                 PROVE  /\ sequencerPc'[q] = sequencerPc[q] /\ m_claimedRange'[q] = m_claimedRange[q]
                        /\ ClaimFrom(q)' = ClaimFrom(q) /\ ClaimTo(q)' = ClaimTo(q) /\ (HasClaim(q)' <=> HasClaim(q))
      OBVIOUS
    <2>1. sequencerPc'[q] = sequencerPc[q] /\ m_claimedRange'[q] = m_claimedRange[q]
      BY <1>1, <1>4, <1>8, ClientParties, ClientValues
    <2>2. QED BY <1>4, <2>1 DEF ClaimFrom, ClaimTo, Offset, HasClaim
  <1>11. HasClaim(p)' => /\ o # ClaimFrom(p) /\ sequencerPc'[p] = "publish" /\ m_claimedRange'[p] = m_claimedRange[p]
                         /\ ClaimFrom(p)' = ClaimFrom(p) /\ ClaimTo(p)' = ClaimTo(p)
    <2>1. CASE o = ClaimFrom(p)
      <3>1. sequencerPc'[p] = "load"
        BY <1>1, <1>4, <2>1, ClientValues
      <3>2. QED BY <3>1 DEF HasClaim
    <2>2. CASE o # ClaimFrom(p)
      BY <1>1, <1>4, <2>2 DEF ClaimFrom, ClaimTo, Offset
    <2>3. QED BY <2>1, <2>2
  <1>12. \A q \in Producers : ClaimFrom(q) \in Nat /\ ClaimTo(q) \in Nat /\ Offset(m_nextToClaim) \in Nat
    BY <1>1, ClaimOffsets
  <1>13. \A q \in Producers : HasClaim(q)' => HasClaim(q) /\ ClaimFrom(q)' = ClaimFrom(q) /\ ClaimTo(q)' = ClaimTo(q)
                                              /\ sequencerPc'[q] = sequencerPc[q] /\ m_claimedRange'[q] = m_claimedRange[q]
    BY <1>1, <1>10, <1>11
  <1>14. ASSUME NEW q \in Producers PROVE ClaimPlace(q)'
    <2>1. ClaimPlace(q)
      BY DEF NumbersInv
    <2>2. QED BY <1>4, <1>9, <1>13, <2>1 DEF ClaimPlace
  <1>15. ClaimsCover'
    <2> SUFFICES ASSUME NEW n \in BufferSize + 1 .. Offset(m_nextToClaim) - 1
                 PROVE  \E q \in Producers : HasClaim(q)' /\ ClaimFrom(q)' <= n /\ n < ClaimTo(q)'
      BY <1>9 DEF ClaimsCover
    <2>1. PICK q \in Producers : HasClaim(q) /\ ClaimFrom(q) <= n /\ n < ClaimTo(q)
      BY DEF NumbersInv, ClaimsCover
    <2>2. q # p
      BY <1>2, <1>12, <2>1, AheadFacts
    <2>3. QED BY <1>10, <2>1, <2>2
  <1>16. FilledPlace'
    <2> SUFFICES ASSUME NEW n \in 1 .. BufferSize, Filled(n) \/ n = o, NEW q \in Producers
                 PROVE  /\ n < Offset(m_nextToClaim)
                        /\ sequencerPc'[q] = "claim" => ~(ClaimFrom(q)' <= n /\ n < ClaimTo(q)')
                        /\ sequencerPc'[q] = "publish" => n # ClaimFrom(q)'
      BY <1>6, <1>9 DEF FilledPlace
    <2>1. HasClaim(q)' <=> sequencerPc'[q] \in {"claim", "publish"}
      BY DEF HasClaim
    <2>2. CASE Filled(n)
      <3>1. /\ n < Offset(m_nextToClaim)
            /\ sequencerPc[q] = "claim" => ~(ClaimFrom(q) <= n /\ n < ClaimTo(q))
            /\ sequencerPc[q] = "publish" => n # ClaimFrom(q)
        BY <2>2 DEF NumbersInv, FilledPlace
      <3>2. QED BY <1>13, <2>1, <3>1
    <2>3. CASE n = o
      <3>1. ClaimTo(p) <= Offset(m_nextToClaim)
            /\ \A r \in Producers : r # p /\ HasClaim(r) => ClaimTo(p) <= ClaimFrom(r) \/ ClaimTo(r) <= ClaimFrom(p)
        BY <1>1 DEF NumbersInv, ClaimPlace
      <3>2. n < Offset(m_nextToClaim)
        BY <1>2, <1>12, <2>3, <3>1
      <3>3. CASE q = p
        BY <1>11, <2>1, <2>3, <3>2, <3>3
      <3>4. CASE q # p
        <4>1. HasClaim(q) => ~(ClaimFrom(q) <= n /\ n < ClaimTo(q)) /\ ClaimFrom(q) < ClaimTo(q)
          <5>1. HasClaim(q) => (ClaimTo(p) <= ClaimFrom(q) \/ ClaimTo(q) <= ClaimFrom(p)) /\ ClaimFrom(q) < ClaimTo(q)
            BY <3>1, <3>4 DEF NumbersInv, ClaimPlace
          <5>2. QED BY <1>2, <1>12, <2>3, <5>1
        <4>2. HasClaim(q) => n # ClaimFrom(q)
          BY <1>12, <4>1
        <4>3. QED BY <1>13, <2>1, <3>2, <4>1, <4>2
      <3>5. QED BY <3>3, <3>4
    <2>4. QED BY <2>2, <2>3
  <1>17. (\A c \in Consumers : ReaderPlace(c))'
    <2>1. \A c \in Consumers : sequencerPc'[c] = sequencerPc[c]
      BY <1>1, <1>8, ClientParties
    <2>2. QED BY <1>1, <1>4, <1>6, <2>1, ReadersKept
  <1>18. QED BY <1>7, <1>9, <1>14, <1>15, <1>16, <1>17 DEF NumbersInv
-----------------------------------------------------------------------------
(* The consumer                                                            *)

(* There is one.                                                           *)
OneConsumer == \A c, d \in Consumers : c = d

LEMMA AheadFromOnward ==
  ASSUME NEW s \in Sequences, NEW b \in Sequences, NEW t \in Sequences, Ahead(t, b) <= Ahead(s, b)
  PROVE  Ahead(s, t) = Ahead(s, b) - Ahead(t, b)
  <1>1. s \in 0 .. 2^Width - 1 /\ t \in 0 .. 2^Width - 1 /\ b \in 0 .. 2^Width - 1 /\ 2^Width \in Nat \ {0}
    BY AheadFacts
  <1>2. QED BY <1>1, PastFromOnward DEF Ahead

LEMMA PublishReadNumbersStep ==
  ASSUME OneConsumer, ListsInv, NumbersInv, Sequencer!PublishRead
  PROVE  NumbersInv'
  <1>1. ClientTypes
    BY DEF ListsInv
  <1>2. PICK c \in Consumers :
          /\ Difference(m_consumerBarrier, consumed[c]) < 0 /\ m_consumerBarrier' = consumed[c]
          /\ UNCHANGED <<claimTarget, lastConsumed, m_published, m_awaiters, m_targetSequence,
                         m_lastKnownPublished, m_readyToResume, sequencerPc, awaiters, awaitersToRequeue, awaitersToResume,
                         targetSequence, lastKnownPublished, m_nextToClaim, m_claimedRange, consumed>>
    BY PublishReadDoes
  <1>3. m_consumerBarrier \in Sequences /\ consumed[c] \in Sequences /\ BufferSize \in Nat \ {0} /\ ReaderPlace(c)
    BY <1>1, ClientValues, AheadFacts DEF NumbersInv
  <1>4. PICK B : B = m_consumerBarrier
    OBVIOUS
  <1>5. PICK k \in Nat : k = Offset(consumed[c]) /\ k <= BufferSize /\ (\A n \in 1 .. k : Filled(n)) /\ consumed[c] = Advance(B, k)
    BY <1>1, <1>3, <1>4, OffsetType DEF ReaderPlace, Reached
  <1>6. k # 0
    <2> SUFFICES ASSUME k = 0 PROVE FALSE
      OBVIOUS
    <2>1. consumed[c] = m_consumerBarrier
      BY <1>3, <1>5, AheadType DEF Offset
    <2>2. Ahead(m_consumerBarrier, m_consumerBarrier) = 0
      BY <1>3, AheadType
    <2>3. Difference(m_consumerBarrier, m_consumerBarrier) = 0
      BY <1>3, <2>2, AheadFacts, DifferenceAhead
    <2>4. QED BY <1>2, <2>1, <2>3
  <1>7. ASSUME NEW n \in Int PROVE Advance(m_consumerBarrier', n) = Advance(B, k + n)
    BY <1>2, <1>3, <1>4, <1>5, AdvanceTwice
  <1>8. ASSUME NEW n \in Int PROVE Filled(n)' <=> Filled(k + n)
    BY <1>2, <1>4, <1>7 DEF Filled, Sequencer!IsPublished
  <1>9. ASSUME NEW s \in Sequences, k <= Offset(s) PROVE Ahead(s, m_consumerBarrier') = Offset(s) - k
    BY <1>2, <1>3, <1>5, <1>9, AheadFromOnward DEF Offset
  <1>10. ASSUME NEW n \in 1 .. BufferSize, k + n > BufferSize
         PROVE  /\ m_published[Sequencer!Slot(Advance(B, k + n))] = Advance(B, k + n - BufferSize)
                /\ ~Filled(k + n)
    <2>1. k + n - BufferSize \in 1 .. k /\ k + n \in Int /\ k + n \in 1 .. (BufferSize + BufferSize)
      BY <1>3, <1>5, <1>10
    <2>2. Filled(k + n - BufferSize)
      BY <1>5, <2>1
    <2>3. m_published[Sequencer!Slot(Advance(B, k + n - BufferSize))] = Advance(B, k + n - BufferSize)
      BY <1>4, <2>2, FilledIs
    <2>4. Sequencer!Slot(Advance(B, k + n)) = Sequencer!Slot(Advance(B, k + n - BufferSize))
      BY <1>3, <1>4, <2>1, EarlierSlot
    <2>5. Advance(B, k + n) # Advance(B, k + n - BufferSize)
      BY <1>3, <1>4, <2>1, EarlierDiffers
    <2>6. QED BY <1>4, <2>3, <2>4, <2>5, FilledIs
  <1>11. SlotsHold'
    <2> SUFFICES ASSUME NEW n \in 1 .. BufferSize
                 PROVE  m_published[Sequencer!Slot(Advance(m_consumerBarrier', n))] \in
                          {Advance(m_consumerBarrier', n), Advance(m_consumerBarrier', n - BufferSize)}
      BY <1>2 DEF SlotsHold
    <2>1. n \in Int /\ n - BufferSize \in Int /\ k + (n - BufferSize) = k + n - BufferSize
      BY <1>3
    <2>2. Advance(m_consumerBarrier', n) = Advance(B, k + n) /\ Advance(m_consumerBarrier', n - BufferSize) = Advance(B, k + n - BufferSize)
      BY <1>7, <2>1
    <2>3. CASE k + n > BufferSize
      BY <1>10, <2>2, <2>3
    <2>4. CASE ~(k + n > BufferSize)
      <3>1. k + n \in 1 .. BufferSize
        BY <1>3, <2>4
      <3>2. PICK j \in 1 .. BufferSize : j = k + n
        BY <3>1
      <3>3. m_published[Sequencer!Slot(Advance(B, j))] \in {Advance(B, j), Advance(B, j - BufferSize)}
        BY <1>4 DEF NumbersInv, SlotsHold
      <3>4. Advance(m_consumerBarrier', n) = Advance(B, j) /\ Advance(m_consumerBarrier', n - BufferSize) = Advance(B, j - BufferSize)
        BY <1>3, <2>2, <3>2
      <3>5. QED BY <3>3, <3>4, Zenon
    <2>5. QED BY <2>3, <2>4
  <1>12. Filled(k)
    BY <1>5, <1>6
  <1>13. PICK N \in Nat : N = Offset(m_nextToClaim) /\ k < N
    <2>1. m_nextToClaim \in Sequences /\ k \in 1 .. BufferSize
      BY <1>1, <1>3, <1>5, <1>6, ClientValues
    <2>2. Offset(m_nextToClaim) \in Nat
      BY <1>1, <2>1, OffsetType
    <2>3. QED BY <1>12, <2>1, <2>2 DEF NumbersInv, FilledPlace
  <1>14. Offset(m_nextToClaim)' = N - k
    <2>1. m_nextToClaim \in Sequences
      BY <1>1, ClientValues
    <2>2. QED BY <1>2, <1>9, <1>13, <2>1 DEF Offset
  <1>15. ASSUME NEW p \in Producers, HasClaim(p)
         PROVE  /\ k < ClaimFrom(p) /\ ClaimFrom(p) < ClaimTo(p)
                /\ ClaimFrom(p)' = ClaimFrom(p) - k /\ ClaimTo(p)' = ClaimTo(p) - k
    <2>1. ClaimFrom(p) \in Nat /\ ClaimTo(p) \in Nat /\ m_claimedRange[p].begin \in Sequences /\ m_claimedRange[p].end \in Sequences
      BY <1>1, ClaimOffsets
    <2>2. 1 <= ClaimFrom(p) /\ ClaimFrom(p) < ClaimTo(p)
      BY <1>15 DEF NumbersInv, ClaimPlace
    <2>3. k < ClaimFrom(p)
      <3> SUFFICES ASSUME ClaimFrom(p) <= k PROVE FALSE
        BY <2>1
      <3>1. ClaimFrom(p) \in 1 .. k /\ ClaimFrom(p) \in 1 .. BufferSize
        BY <1>3, <1>5, <2>1, <2>2
      <3>2. Filled(ClaimFrom(p))
        BY <1>5, <3>1
      <3>3. /\ sequencerPc[p] = "claim" => ~(ClaimFrom(p) <= ClaimFrom(p) /\ ClaimFrom(p) < ClaimTo(p))
            /\ sequencerPc[p] = "publish" => ClaimFrom(p) # ClaimFrom(p)
        BY <3>1, <3>2 DEF NumbersInv, FilledPlace
      <3>4. QED BY <1>15, <2>1, <2>2, <3>3 DEF HasClaim
    <2>4. ClaimFrom(p)' = ClaimFrom(p) - k
      BY <1>2, <1>9, <2>1, <2>3 DEF ClaimFrom, Offset
    <2>5. k <= ClaimTo(p)
      BY <2>1, <2>2, <2>3
    <2>6. ClaimTo(p)' = ClaimTo(p) - k
      BY <1>2, <1>9, <2>1, <2>5 DEF ClaimTo, Offset
    <2>7. QED BY <2>2, <2>3, <2>4, <2>6
  <1>16. \A p \in Producers : HasClaim(p)' <=> HasClaim(p)
    BY <1>2 DEF HasClaim
  <1>17. \A p \in Producers : ClaimFrom(p) \in Nat /\ ClaimTo(p) \in Nat
    BY <1>1, ClaimOffsets
  <1>18. ASSUME NEW p \in Producers PROVE ClaimPlace(p)'
    <2> SUFFICES ASSUME HasClaim(p) PROVE ClaimPlace(p)'
      BY <1>16 DEF ClaimPlace
    <2>1. ClaimPlace(p)
      BY DEF NumbersInv
    <2>2. /\ ClaimFrom(p)' = ClaimFrom(p) - k /\ ClaimTo(p)' = ClaimTo(p) - k /\ k < ClaimFrom(p)
      BY <1>15
    <2>3. /\ 1 <= ClaimFrom(p)' /\ ClaimFrom(p)' < ClaimTo(p)' /\ ClaimTo(p)' <= Offset(m_nextToClaim)'
          /\ ClaimTo(p)' - ClaimFrom(p)' <= MaxClaim
      <3>1. ClaimFrom(p) < ClaimTo(p) /\ ClaimTo(p) <= N /\ ClaimTo(p) - ClaimFrom(p) <= MaxClaim
        BY <1>13, <2>1 DEF ClaimPlace
      <3>2. ClaimFrom(p) \in Nat /\ ClaimTo(p) \in Nat /\ MaxClaim \in Nat
        BY <1>17, MultiProducerAssumption
      <3>3. QED BY <1>14, <2>2, <3>1, <3>2
    <2>4. sequencerPc[p] = "publish" \/ lastConsumed[p] # NoResult => ClaimTo(p)' - 1 <= BufferSize
      <3>1. sequencerPc[p] = "publish" \/ lastConsumed[p] # NoResult => ClaimTo(p) - 1 <= BufferSize
        BY <2>1 DEF ClaimPlace
      <3>2. QED BY <1>3, <1>17, <2>2, <3>1
    <2>5. ASSUME NEW q \in Producers, q # p, HasClaim(q)
          PROVE  ClaimTo(p)' <= ClaimFrom(q)' \/ ClaimTo(q)' <= ClaimFrom(p)'
      <3>1. ClaimTo(p) <= ClaimFrom(q) \/ ClaimTo(q) <= ClaimFrom(p)
        BY <2>1, <2>5 DEF ClaimPlace
      <3>2. ClaimFrom(q)' = ClaimFrom(q) - k /\ ClaimTo(q)' = ClaimTo(q) - k
        BY <1>15, <2>5
      <3>3. ClaimFrom(p) \in Nat /\ ClaimTo(p) \in Nat /\ ClaimFrom(q) \in Nat /\ ClaimTo(q) \in Nat
        BY <1>17
      <3>4. QED BY <2>2, <3>1, <3>2, <3>3
    <2>6. sequencerPc[p] = "claim" => claimTarget[p] = Advance(m_claimedRange[p].end, -1 - BufferSize)
      BY <2>1 DEF ClaimPlace
    <2>7. QED BY <1>2, <1>16, <2>3, <2>4, <2>5, <2>6 DEF ClaimPlace
  <1>19. ClaimsCover'
    <2> SUFFICES ASSUME NEW n \in BufferSize + 1 .. N - k - 1
                 PROVE  \E p \in Producers : HasClaim(p)' /\ ClaimFrom(p)' <= n /\ n < ClaimTo(p)'
      BY <1>14 DEF ClaimsCover
    <2>1. k + n \in BufferSize + 1 .. N - 1 /\ n \in Int
      BY <1>3, <1>13
    <2>2. PICK p \in Producers : HasClaim(p) /\ ClaimFrom(p) <= k + n /\ k + n < ClaimTo(p)
      BY <1>13, <2>1 DEF NumbersInv, ClaimsCover
    <2>3. ClaimFrom(p)' = ClaimFrom(p) - k /\ ClaimTo(p)' = ClaimTo(p) - k /\ ClaimFrom(p) \in Nat /\ ClaimTo(p) \in Nat
      BY <1>15, <1>17, <2>2
    <2>4. ClaimFrom(p)' <= n /\ n < ClaimTo(p)'
      BY <2>1, <2>2, <2>3
    <2>5. QED BY <1>16, <2>2, <2>4
  <1>20. FilledPlace'
    <2>1. ASSUME NEW n \in 1 .. BufferSize, Filled(n)'
          PROVE  /\ n < N - k
                 /\ \A p \in Producers : /\ sequencerPc[p] = "claim" => ~(ClaimFrom(p)' <= n /\ n < ClaimTo(p)')
                                         /\ sequencerPc[p] = "publish" => n # ClaimFrom(p)'
      <3>1. n \in Int
        OBVIOUS
      <3>2. Filled(k + n)
        BY <1>8, <2>1, <3>1
      <3>3. ~(k + n > BufferSize)
        BY <1>10, <3>2
      <3>4. k + n \in 1 .. BufferSize
        BY <1>3, <3>3
      <3>5. /\ k + n < N
            /\ \A p \in Producers : /\ sequencerPc[p] = "claim" => ~(ClaimFrom(p) <= k + n /\ k + n < ClaimTo(p))
                                    /\ sequencerPc[p] = "publish" => k + n # ClaimFrom(p)
        BY <1>13, <3>2, <3>4 DEF NumbersInv, FilledPlace
      <3>6. n < N - k
        BY <3>5
      <3>7. ASSUME NEW p \in Producers
            PROVE  /\ sequencerPc[p] = "claim" => ~(ClaimFrom(p)' <= n /\ n < ClaimTo(p)')
                   /\ sequencerPc[p] = "publish" => n # ClaimFrom(p)'
        <4>1. sequencerPc[p] \in {"claim", "publish"} => ClaimFrom(p)' = ClaimFrom(p) - k /\ ClaimTo(p)' = ClaimTo(p) - k
          BY <1>15 DEF HasClaim
        <4>2. ClaimFrom(p) \in Nat /\ ClaimTo(p) \in Nat
          BY <1>17
        <4>3. QED BY <3>5, <4>1, <4>2
      <3>8. QED BY <3>6, <3>7
    <2>2. QED BY <1>2, <1>14, <2>1 DEF FilledPlace
  <1>21. ASSUME NEW s \in Sequences, Readable(c, s)
         PROVE  Ahead(s, m_consumerBarrier') <= BufferSize /\ (\A n \in 1 .. Ahead(s, m_consumerBarrier') : Filled(n)')
                /\ 0 <= Ahead(s, m_consumerBarrier')
    <2>1. PICK j \in Nat : j = Offset(s) /\ k <= j /\ j <= BufferSize /\ \A n \in 1 .. j : Filled(n)
      BY <1>1, <1>5, <1>21, OffsetType DEF Readable, Reached
    <2>2. Ahead(s, m_consumerBarrier') = j - k
      BY <1>9, <2>1
    <2>3. ASSUME NEW n \in 1 .. j - k PROVE Filled(n)'
      <3>1. k + n \in 1 .. j /\ n \in Int
        BY <2>1
      <3>2. QED BY <1>8, <2>1, <3>1
    <2>4. j - k <= BufferSize /\ 0 <= j - k
      BY <1>3, <2>1
    <2>5. QED BY <2>2, <2>3, <2>4
  <1>22. Offset(consumed[c])' = 0
    BY <1>2, <1>3, AheadType DEF Offset
  <1>23. ASSUME NEW s \in Sequences, Readable(c, s)
         PROVE  Ahead(s, m_consumerBarrier') <= BufferSize /\ (\A n \in 1 .. Ahead(s, m_consumerBarrier') : Filled(n)')
                /\ Offset(consumed[c])' <= Ahead(s, m_consumerBarrier')
    BY <1>21, <1>22, <1>23
  <1>24. /\ Readable(c, consumed[c]) /\ ReaderPlace(c)
         /\ m_lastKnownPublished[c] \in Sequences /\ lastKnownPublished[c] \in Sequences
         /\ \A p \in Producers : lastKnownPublished[p] \in Sequences
    BY <1>1, <1>3, <1>5, ClientValues, ClientParties DEF ReaderPlace, Readable
  <1>25. ReaderPlace(c)'
    <2>1. Reached(consumed[c])'
      BY <1>2, <1>3, <1>23, <1>24 DEF Reached, Offset
    <2>2. sequencerPc[c] # "idle" => Readable(c, m_lastKnownPublished[c])'
      BY <1>2, <1>23, <1>24 DEF ReaderPlace, Readable, Reached, Offset
    <2>3. sequencerPc[c] \in {"enqueue", "scan", "acquire", "resume"} => Readable(c, lastKnownPublished[c])'
      BY <1>2, <1>23, <1>24 DEF ReaderPlace, Readable, Reached, Offset
    <2>4. ASSUME NEW p \in Producers, OnList(c, awaiters[p]) \/ OnList(c, awaitersToResume[p])
          PROVE  Readable(c, lastKnownPublished[p])'
      BY <1>2, <1>23, <1>24, <2>4 DEF ReaderPlace, Readable, Reached, Offset
    <2>5. QED BY <1>2, <2>1, <2>2, <2>3, <2>4 DEF ReaderPlace
  <1>26. \A d \in Consumers : ReaderPlace(d)'
    BY <1>25 DEF OneConsumer
  <1>27. 1 <= Offset(m_nextToClaim)'
    BY <1>13, <1>14
  <1>28. QED BY <1>11, <1>18, <1>19, <1>20, <1>26, <1>27 DEF NumbersInv

(* Steps that change what is known of what is published.                   *)
LEMMA ReadersMove ==
  ASSUME NumbersInv,
         UNCHANGED <<m_consumerBarrier, m_published, m_nextToClaim, m_claimedRange, claimTarget, lastConsumed, consumed>>,
         \A p \in Producers : /\ sequencerPc'[p] = "claim" <=> sequencerPc[p] = "claim"
                              /\ sequencerPc'[p] = "publish" <=> sequencerPc[p] = "publish",
         \A c \in Consumers :
           /\ sequencerPc'[c] # "idle" => Readable(c, m_lastKnownPublished'[c])
           /\ sequencerPc'[c] \in {"enqueue", "scan", "acquire", "resume"} => Readable(c, lastKnownPublished'[c])
           /\ \A p \in Producers :
                OnList(c, awaiters'[p]) \/ OnList(c, awaitersToResume'[p]) => Readable(c, lastKnownPublished'[p])
  PROVE  NumbersInv'
  <1>1. /\ SlotsHold' /\ (1 <= Offset(m_nextToClaim))' /\ (\A p \in Producers : ClaimPlace(p))' /\ ClaimsCover' /\ FilledPlace'
        /\ \A s : (Offset(s)' = Offset(s)) /\ (Reached(s)' <=> Reached(s))
    BY ClaimsKept
  <1>2. ASSUME NEW c \in Consumers PROVE ReaderPlace(c)'
    <2>1. \A s : Readable(c, s)' <=> Readable(c, s)
      <3>1. Offset(consumed[c])' = Offset(consumed[c])
        BY DEF Offset
      <3>2. QED BY <1>1, <3>1 DEF Readable
    <2>2. Reached(consumed[c])'
      <3>1. Reached(consumed[c])
        BY DEF NumbersInv, ReaderPlace
      <3>2. \A n : Filled(n)' <=> Filled(n)
        BY DEF Filled, Sequencer!IsPublished
      <3>3. QED BY <3>1, <3>2 DEF Reached, Offset
    <2>3. ASSUME NEW s, NEW r, s = r, Readable(c, r)' PROVE Readable(c, s)'
      BY <2>3
    <2>4. (Readable(c, m_lastKnownPublished[c])' <=> Readable(c, m_lastKnownPublished'[c]))
          /\ (Readable(c, lastKnownPublished[c])' <=> Readable(c, lastKnownPublished'[c]))
          /\ \A p : Readable(c, lastKnownPublished[p])' <=> Readable(c, lastKnownPublished'[p])
      <3>1. \A n : Filled(n)' <=> Filled(n)
        BY DEF Filled, Sequencer!IsPublished
      <3>2. QED BY <3>1 DEF Readable, Reached, Offset
    <2>5. QED BY <2>2, <2>4 DEF ReaderPlace
  <1>3. QED BY <1>1, <1>2 DEF NumbersInv

LEMMA ReadableNext ==
  ASSUME ClientTypes, NumbersInv, NEW c \in Consumers, NEW s \in Sequences, Readable(c, s), Sequencer!IsPublished(Advance(s, 1))
  PROVE  Readable(c, Advance(s, 1))
  <1>1. Reached(Advance(s, 1)) /\ Offset(Advance(s, 1)) = Offset(s) + 1
    BY ReachedNext DEF NumbersInv, Readable
  <1>2. Offset(s) \in Nat /\ Offset(consumed[c]) \in Nat
    BY ClientValues, OffsetType
  <1>3. QED BY <1>1, <1>2 DEF Readable

LEMMA ScanNumbersStep ==
  ASSUME ListsInv, NumbersInv, NEW t \in Clients,
         (t \in Producers /\ Sequencer!PublishScans(t)) \/ (t \in Consumers /\ Sequencer!ScanPublished(t))
  PROVE  NumbersInv'
  <1>1. ClientTypes
    BY DEF ListsInv
  <1>2. PICK label : /\ sequencerPc' = [sequencerPc EXCEPT ![t] = label]
                     /\ label \in (IF t \in Producers THEN {"scan", "reacquire", "resume"} ELSE {"scan", "acquire", "resume"})
    BY <1>1, ScanDoes
  <1>3. /\ sequencerPc[t] = "scan"
        /\ UNCHANGED <<m_consumerBarrier, claimTarget, lastConsumed, m_published, m_awaiters, m_targetSequence,
                       m_lastKnownPublished, m_readyToResume, awaiters, awaitersToRequeue, awaitersToResume,
                       targetSequence, m_nextToClaim, m_claimedRange, consumed>>
    BY <1>1, ScanDoes
  <1>4. \/ /\ Sequencer!IsPublished(Advance(lastKnownPublished[t], 1))
           /\ lastKnownPublished' = [lastKnownPublished EXCEPT ![t] = Advance(lastKnownPublished[t], 1)]
        \/ UNCHANGED lastKnownPublished
    BY <1>1, ScanDoes
  <1>5. sequencerPc'[t] = label /\ \A u \in Clients : u # t => sequencerPc'[u] = sequencerPc[u]
    BY <1>1, <1>2, ClientValues
  <1>6. label \in {"scan", "reacquire", "resume", "acquire"}
    BY <1>2
  <1>7. \A u \in Clients : u # t => lastKnownPublished'[u] = lastKnownPublished[u]
    BY <1>1, <1>4, ClientValues
  <1>8. \A c \in Consumers : Readable(c, lastKnownPublished[t]) => Readable(c, lastKnownPublished'[t])
    BY <1>1, <1>4, ClientValues, ReadableNext
  <1>9. \A p \in Producers : /\ sequencerPc'[p] = "claim" <=> sequencerPc[p] = "claim"
                             /\ sequencerPc'[p] = "publish" <=> sequencerPc[p] = "publish"
    BY <1>3, <1>5, <1>6, ClientParties
  <1>10. ASSUME NEW c \in Consumers
         PROVE  /\ sequencerPc'[c] # "idle" => Readable(c, m_lastKnownPublished'[c])
                /\ sequencerPc'[c] \in {"enqueue", "scan", "acquire", "resume"} => Readable(c, lastKnownPublished'[c])
                /\ \A p \in Producers :
                     OnList(c, awaiters'[p]) \/ OnList(c, awaitersToResume'[p]) => Readable(c, lastKnownPublished'[p])
    <2>1. ReaderPlace(c) /\ c \in Clients
      BY ClientParties DEF NumbersInv
    <2>2. sequencerPc'[c] # "idle" => Readable(c, m_lastKnownPublished'[c])
      BY <1>3, <1>5, <2>1 DEF ReaderPlace
    <2>3. sequencerPc'[c] \in {"enqueue", "scan", "acquire", "resume"} => Readable(c, lastKnownPublished'[c])
      BY <1>3, <1>5, <1>7, <1>8, <2>1 DEF ReaderPlace
    <2>4. ASSUME NEW p \in Producers, OnList(c, awaiters'[p]) \/ OnList(c, awaitersToResume'[p])
          PROVE  Readable(c, lastKnownPublished'[p])
      BY <1>3, <1>7, <1>8, <2>1, <2>4, ClientParties DEF ReaderPlace
    <2>5. QED BY <2>2, <2>3, <2>4
  <1>11. QED BY <1>3, <1>9, <1>10, ReadersMove

LEMMA ReturnNumbersStep ==
  ASSUME ListsInv, NumbersInv, NEW p \in Producers, Sequencer!PublishReturns(p)
  PROVE  NumbersInv'
  <1>1. ClientTypes /\ ClientLocals /\ p \in Clients
    BY ClientParties DEF ListsInv
  <1>2. /\ sequencerPc[p] = "resume" /\ awaitersToResume[p] = << >> /\ sequencerPc' = [sequencerPc EXCEPT ![p] = "idle"]
        /\ lastKnownPublished' = [lastKnownPublished EXCEPT ![p] = initial_sequence]
        /\ UNCHANGED <<m_consumerBarrier, claimTarget, lastConsumed, m_published, m_awaiters, m_targetSequence,
                       m_lastKnownPublished, m_readyToResume, awaiters, awaitersToRequeue, awaitersToResume,
                       m_nextToClaim, m_claimedRange, consumed>>
    BY ReturnDoes
  <1>3. /\ sequencerPc'[p] = "idle"
        /\ \A u \in Clients : u # p => sequencerPc'[u] = sequencerPc[u] /\ lastKnownPublished'[u] = lastKnownPublished[u]
    BY <1>1, <1>2, ClientValues
  <1>4. awaiters[p] = << >>
    BY <1>1, <1>2 DEF ClientLocals
  <1>5. \A q \in Producers : /\ sequencerPc'[q] = "claim" <=> sequencerPc[q] = "claim"
                             /\ sequencerPc'[q] = "publish" <=> sequencerPc[q] = "publish"
    BY <1>2, <1>3, ClientParties
  <1>6. ASSUME NEW c \in Consumers
        PROVE  /\ sequencerPc'[c] # "idle" => Readable(c, m_lastKnownPublished'[c])
               /\ sequencerPc'[c] \in {"enqueue", "scan", "acquire", "resume"} => Readable(c, lastKnownPublished'[c])
               /\ \A q \in Producers :
                    OnList(c, awaiters'[q]) \/ OnList(c, awaitersToResume'[q]) => Readable(c, lastKnownPublished'[q])
    <2>1. ReaderPlace(c) /\ c \in Clients /\ c # p
      BY ClientParties DEF NumbersInv
    <2>2. ~OnList(c, awaiters[p]) /\ ~OnList(c, awaitersToResume[p])
      BY <1>2, <1>4, OnEmptyList
    <2>3. QED BY <1>2, <1>3, <2>1, <2>2, ClientParties DEF ReaderPlace
  <1>7. QED BY <1>2, <1>5, <1>6, ReadersMove

LEMMA ReadNumbersStep ==
  ASSUME ListsInv, NumbersInv, NEW c \in Consumers, Sequencer!ReadElements(c)
  PROVE  NumbersInv'
  <1>1. ClientTypes /\ ClientLocals /\ c \in Clients /\ WaitLists(c)
    BY ClientParties DEF ListsInv
  <1>2. /\ sequencerPc[c] = "read" /\ sequencerPc' = [sequencerPc EXCEPT ![c] = "idle"]
        /\ consumed' = [consumed EXCEPT ![c] = m_lastKnownPublished[c]]
        /\ UNCHANGED <<m_consumerBarrier, claimTarget, lastConsumed, m_published, m_awaiters, m_targetSequence,
                       m_lastKnownPublished, m_readyToResume, awaiters, awaitersToRequeue, awaitersToResume,
                       targetSequence, lastKnownPublished, m_nextToClaim, m_claimedRange>>
    BY ReadDoes
  <1>3. /\ sequencerPc'[c] = "idle" /\ \A u \in Clients : u # c => sequencerPc'[u] = sequencerPc[u]
        /\ consumed'[c] = m_lastKnownPublished[c] /\ \A d \in Consumers : d # c => consumed'[d] = consumed[d]
    BY <1>1, <1>2, ClientValues
  <1>4. \A p \in Producers : sequencerPc'[p] = sequencerPc[p]
    BY <1>3, ClientParties
  <1>5. /\ SlotsHold' /\ (1 <= Offset(m_nextToClaim))' /\ (\A p \in Producers : ClaimPlace(p))' /\ ClaimsCover' /\ FilledPlace'
    BY <1>2, <1>4, ClaimsKept
  <1>6. \A n : Filled(n)' <=> Filled(n)
    BY <1>2 DEF Filled, Sequencer!IsPublished
  <1>7. ReaderPlace(c)'
    <2>1. \A p \in Producers : ~OnList(c, awaiters[p]) /\ ~OnList(c, awaitersToResume[p])
      BY <1>1, <1>2, ClientParties DEF WaitLists, ClientWaits, InHand
    <2>2. Reached(m_lastKnownPublished[c])
      BY <1>2 DEF NumbersInv, ReaderPlace, Readable
    <2>3. Reached(consumed[c])'
      BY <1>2, <1>3, <1>6, <2>2 DEF Reached, Offset
    <2>4. QED BY <1>2, <1>3, <2>1, <2>3 DEF ReaderPlace
  <1>8. ASSUME NEW d \in Consumers, d # c PROVE ReaderPlace(d)'
    <2>1. ReaderPlace(d) /\ d \in Clients /\ consumed'[d] = consumed[d] /\ sequencerPc'[d] = sequencerPc[d]
      BY <1>3, <1>8, ClientParties DEF NumbersInv
    <2>2. QED BY <1>2, <1>6, <2>1 DEF ReaderPlace, Readable, Reached, Offset
  <1>9. QED BY <1>5, <1>7, <1>8 DEF NumbersInv

(* With one consumer, whoever takes the list takes what it knows along.    *)
LEMMA TakeNumbersStep ==
  ASSUME OneConsumer, ListsInv, NumbersInv, NEW p \in Producers, Sequencer!PublishAcquires(p) \/ Sequencer!PublishReacquires(p)
  PROVE  NumbersInv'
  <1>1. ClientTypes /\ ClientLocals /\ p \in Clients /\ p \notin Consumers /\ \A c \in Consumers : WaitLists(c)
    BY ClientParties DEF ListsInv
  <1>2. /\ sequencerPc[p] \in {"exchange", "reacquire"}
        /\ awaiters' = [awaiters EXCEPT ![p] = m_awaiters] /\ m_awaiters' = << >>
        /\ \/ /\ m_awaiters = << >> /\ UNCHANGED lastKnownPublished
              /\ sequencerPc' = [sequencerPc EXCEPT ![p] = IF sequencerPc[p] = "exchange" THEN "idle" ELSE "resume"]
           \/ /\ m_awaiters # << >> /\ sequencerPc' = [sequencerPc EXCEPT ![p] = "after"]
              /\ lastKnownPublished' = [lastKnownPublished EXCEPT ![p] = m_lastKnownPublished[Head(m_awaiters)]]
        /\ UNCHANGED <<m_consumerBarrier, claimTarget, lastConsumed, m_published, m_targetSequence,
                       m_lastKnownPublished, m_readyToResume, awaitersToRequeue, awaitersToResume,
                       targetSequence, m_nextToClaim, m_claimedRange, consumed>>
    BY TakeDoes
  <1>3. PICK label \in {"idle", "resume", "after"} : sequencerPc' = [sequencerPc EXCEPT ![p] = label]
    BY <1>2
  <1>4. /\ sequencerPc'[p] = label /\ \A u \in Clients : u # p => sequencerPc'[u] = sequencerPc[u]
        /\ awaiters'[p] = m_awaiters /\ \A u \in Clients : u # p => awaiters'[u] = awaiters[u]
        /\ \A u \in Clients : u # p => lastKnownPublished'[u] = lastKnownPublished[u]
    BY <1>1, <1>2, <1>3, ClientValues
  <1>5. \A q \in Producers : /\ sequencerPc'[q] = "claim" <=> sequencerPc[q] = "claim"
                             /\ sequencerPc'[q] = "publish" <=> sequencerPc[q] = "publish"
    BY <1>2, <1>4, ClientParties
  <1>6. ASSUME NEW c \in Consumers
        PROVE  /\ sequencerPc'[c] # "idle" => Readable(c, m_lastKnownPublished'[c])
               /\ sequencerPc'[c] \in {"enqueue", "scan", "acquire", "resume"} => Readable(c, lastKnownPublished'[c])
               /\ \A q \in Producers :
                    OnList(c, awaiters'[q]) \/ OnList(c, awaitersToResume'[q]) => Readable(c, lastKnownPublished'[q])
    <2>1. ReaderPlace(c) /\ c \in Clients /\ c # p /\ WaitLists(c)
      BY <1>1, ClientParties DEF NumbersInv
    <2>2. /\ sequencerPc'[c] # "idle" => Readable(c, m_lastKnownPublished'[c])
          /\ sequencerPc'[c] \in {"enqueue", "scan", "acquire", "resume"} => Readable(c, lastKnownPublished'[c])
      BY <1>2, <1>4, <2>1 DEF ReaderPlace
    <2>3. OnList(c, m_awaiters) \/ OnList(c, awaitersToResume[p]) => Readable(c, lastKnownPublished'[p])
      <3>1. CASE m_awaiters = << >> /\ UNCHANGED lastKnownPublished
        BY <2>1, <3>1, OnEmptyList DEF ReaderPlace
      <3>2. CASE m_awaiters # << >> /\ lastKnownPublished' = [lastKnownPublished EXCEPT ![p] = m_lastKnownPublished[Head(m_awaiters)]]
        <4>1. m_awaiters \in Seq(Consumers) /\ lastKnownPublished \in [Clients -> Sequences]
          BY <1>1, ClientValues
        <4>2. Head(m_awaiters) \in Consumers /\ OnList(Head(m_awaiters), m_awaiters)
          BY <3>2, <4>1, OnTail
        <4>3. Head(m_awaiters) = c
          BY <4>2 DEF OneConsumer
        <4>4. lastKnownPublished'[p] = m_lastKnownPublished[c]
          BY <1>1, <3>2, <4>1, <4>3
        <4>5. ClientWaits(c)
          BY <2>1, <4>2, <4>3 DEF WaitLists
        <4>6. sequencerPc[c] # "idle"
          BY <4>5 DEF ClientWaits
        <4>7. QED BY <2>1, <4>4, <4>6 DEF ReaderPlace
      <3>3. QED BY <1>2, <3>1, <3>2
    <2>4. ASSUME NEW q \in Producers, OnList(c, awaiters'[q]) \/ OnList(c, awaitersToResume'[q])
          PROVE  Readable(c, lastKnownPublished'[q])
      <3>1. CASE q = p
        BY <1>2, <1>4, <2>3, <2>4, <3>1
      <3>2. CASE q # p
        BY <1>2, <1>4, <2>1, <2>4, <3>2, ClientParties DEF ReaderPlace
      <3>3. QED BY <3>1, <3>2
    <2>5. QED BY <2>2, <2>4
  <1>7. QED BY <1>2, <1>5, <1>6, ReadersMove

LEMMA SortNumbersStep ==
  ASSUME ListsInv, NumbersInv, NEW p \in Producers, Sequencer!PublishSorts(p)
  PROVE  NumbersInv'
  <1>1. ClientTypes /\ ClientLocals /\ p \in Clients /\ p \notin Consumers
    BY ClientParties DEF ListsInv
  <1>2. /\ sequencerPc[p] = "after"
        /\ UNCHANGED <<m_consumerBarrier, claimTarget, lastConsumed, m_published, m_awaiters, m_targetSequence,
                       m_readyToResume, m_nextToClaim, m_claimedRange, consumed>>
    BY <1>1, SortDoes
  <1>3. CASE /\ Sequencer!IsPublished(Advance(lastKnownPublished[p], 1))
             /\ lastKnownPublished' = [lastKnownPublished EXCEPT ![p] = Advance(lastKnownPublished[p], 1)]
             /\ UNCHANGED <<sequencerPc, m_lastKnownPublished, awaiters, awaitersToRequeue, awaitersToResume, targetSequence>>
    <2>1. /\ \A u \in Clients : u # p => lastKnownPublished'[u] = lastKnownPublished[u]
          /\ lastKnownPublished[p] \in Sequences /\ lastKnownPublished'[p] = Advance(lastKnownPublished[p], 1)
      BY <1>1, <1>3, ClientValues
    <2>2. ASSUME NEW c \in Consumers
          PROVE  /\ sequencerPc'[c] # "idle" => Readable(c, m_lastKnownPublished'[c])
                 /\ sequencerPc'[c] \in {"enqueue", "scan", "acquire", "resume"} => Readable(c, lastKnownPublished'[c])
                 /\ \A q \in Producers :
                      OnList(c, awaiters'[q]) \/ OnList(c, awaitersToResume'[q]) => Readable(c, lastKnownPublished'[q])
      <3>1. ReaderPlace(c) /\ c \in Clients /\ c # p
        BY <1>1, ClientParties DEF NumbersInv
      <3>2. Readable(c, lastKnownPublished[p]) => Readable(c, lastKnownPublished'[p])
        BY <1>1, <1>3, <2>1, ReadableNext
      <3>3. QED BY <1>3, <2>1, <3>1, <3>2, ClientParties DEF ReaderPlace
    <2>3. QED BY <1>2, <1>3, <2>2, ReadersMove
  <1>4. CASE \E due, later \in Seq(Consumers) : \E s \in Sequences :
                 /\ \A c \in Consumers : /\ ~(OnList(c, due) /\ OnList(c, later))
                                         /\ OnList(c, due) \/ OnList(c, later) <=> OnList(c, awaiters[p])
                                         /\ OnceOnList(c, awaiters[p]) => OnceOnList(c, due) /\ OnceOnList(c, later)
                 /\ awaitersToResume' = [awaitersToResume EXCEPT ![p] = @ \o due]
                 /\ awaitersToRequeue' = [awaitersToRequeue EXCEPT ![p] = later]
                 /\ targetSequence' = [targetSequence EXCEPT ![p] = s]
                 /\ m_lastKnownPublished' =
                      [c \in Consumers |-> IF OnList(c, awaiters[p]) THEN lastKnownPublished[p] ELSE m_lastKnownPublished[c]]
                 /\ awaiters' = [awaiters EXCEPT ![p] = << >>]
                 /\ sequencerPc' = [sequencerPc EXCEPT ![p] = IF later = << >> THEN "resume" ELSE "requeue"]
                 /\ UNCHANGED lastKnownPublished
    <2>1. PICK due \in Seq(Consumers), later \in Seq(Consumers) :
                 /\ \A c \in Consumers : OnList(c, due) => OnList(c, awaiters[p])
                 /\ awaitersToResume' = [awaitersToResume EXCEPT ![p] = @ \o due]
                 /\ m_lastKnownPublished' =
                      [c \in Consumers |-> IF OnList(c, awaiters[p]) THEN lastKnownPublished[p] ELSE m_lastKnownPublished[c]]
                 /\ awaiters' = [awaiters EXCEPT ![p] = << >>]
                 /\ sequencerPc' = [sequencerPc EXCEPT ![p] = IF later = << >> THEN "resume" ELSE "requeue"]
                 /\ UNCHANGED lastKnownPublished
      BY <1>4
    <2>2. PICK label \in {"resume", "requeue"} : sequencerPc' = [sequencerPc EXCEPT ![p] = label]
      BY <2>1
    <2>3. /\ sequencerPc'[p] = label /\ \A u \in Clients : u # p => sequencerPc'[u] = sequencerPc[u]
          /\ awaiters'[p] = << >> /\ \A u \in Clients : u # p => awaiters'[u] = awaiters[u]
          /\ awaitersToResume'[p] = awaitersToResume[p] \o due /\ awaitersToResume[p] \in Seq(Consumers)
          /\ \A u \in Clients : u # p => awaitersToResume'[u] = awaitersToResume[u]
      BY <1>1, <2>1, <2>2, ClientValues
    <2>4. \A q \in Producers : /\ sequencerPc'[q] = "claim" <=> sequencerPc[q] = "claim"
                               /\ sequencerPc'[q] = "publish" <=> sequencerPc[q] = "publish"
      BY <1>2, <2>3, ClientParties
    <2>5. ASSUME NEW c \in Consumers
          PROVE  /\ sequencerPc'[c] # "idle" => Readable(c, m_lastKnownPublished'[c])
                 /\ sequencerPc'[c] \in {"enqueue", "scan", "acquire", "resume"} => Readable(c, lastKnownPublished'[c])
                 /\ \A q \in Producers :
                      OnList(c, awaiters'[q]) \/ OnList(c, awaitersToResume'[q]) => Readable(c, lastKnownPublished'[q])
      <3>1. ReaderPlace(c) /\ c \in Clients /\ c # p
        BY <1>1, ClientParties DEF NumbersInv
      <3>2. sequencerPc'[c] # "idle" => Readable(c, m_lastKnownPublished'[c])
        BY <2>1, <2>3, <3>1 DEF ReaderPlace
      <3>3. sequencerPc'[c] \in {"enqueue", "scan", "acquire", "resume"} => Readable(c, lastKnownPublished'[c])
        BY <2>1, <2>3, <3>1 DEF ReaderPlace
      <3>4. OnList(c, awaiters'[p]) \/ OnList(c, awaitersToResume'[p]) => OnList(c, awaiters[p]) \/ OnList(c, awaitersToResume[p])
        BY <2>1, <2>3, OnEmptyList, OnConcatenated
      <3>5. QED BY <2>1, <2>3, <3>1, <3>2, <3>3, <3>4, ClientParties DEF ReaderPlace
    <2>6. QED BY <1>2, <2>4, <2>5, ReadersMove
  <1>5. QED BY <1>1, <1>3, <1>4, SortDoes

LEMMA RequeueNumbersStep ==
  ASSUME ListsInv, NumbersInv, NEW p \in Producers, Sequencer!PublishRequeues(p)
  PROVE  NumbersInv'
  <1>1. ClientTypes /\ p \in Clients /\ p \notin Consumers
    BY ClientParties DEF ListsInv
  <1>2. /\ sequencerPc[p] = "requeue" /\ sequencerPc' = [sequencerPc EXCEPT ![p] = "scan"]
        /\ UNCHANGED <<m_consumerBarrier, claimTarget, lastConsumed, m_published, m_targetSequence,
                       m_lastKnownPublished, m_readyToResume, awaiters, awaitersToResume,
                       targetSequence, lastKnownPublished, m_nextToClaim, m_claimedRange, consumed>>
    BY RequeueDoes
  <1>3. sequencerPc'[p] = "scan" /\ \A u \in Clients : u # p => sequencerPc'[u] = sequencerPc[u]
    BY <1>1, <1>2, ClientValues
  <1>4. \A q \in Producers : /\ sequencerPc'[q] = "claim" <=> sequencerPc[q] = "claim"
                             /\ sequencerPc'[q] = "publish" <=> sequencerPc[q] = "publish"
    BY <1>2, <1>3, ClientParties
  <1>5. ASSUME NEW c \in Consumers
        PROVE  /\ sequencerPc'[c] # "idle" => Readable(c, m_lastKnownPublished'[c])
               /\ sequencerPc'[c] \in {"enqueue", "scan", "acquire", "resume"} => Readable(c, lastKnownPublished'[c])
               /\ \A q \in Producers :
                    OnList(c, awaiters'[q]) \/ OnList(c, awaitersToResume'[q]) => Readable(c, lastKnownPublished'[q])
    <2>1. ReaderPlace(c) /\ c \in Clients /\ c # p
      BY <1>1, ClientParties DEF NumbersInv
    <2>2. QED BY <1>2, <1>3, <2>1 DEF ReaderPlace
  <1>6. QED BY <1>2, <1>4, <1>5, ReadersMove

LEMMA EnqueueNumbersStep ==
  ASSUME ListsInv, NumbersInv, NEW c \in Consumers, Sequencer!EnqueueAwaiter(c)
  PROVE  NumbersInv'
  <1>1. ClientTypes /\ c \in Clients /\ c \notin Producers
    BY ClientParties DEF ListsInv
  <1>2. /\ sequencerPc[c] = "enqueue" /\ sequencerPc' = [sequencerPc EXCEPT ![c] = "scan"]
        /\ UNCHANGED <<m_consumerBarrier, claimTarget, lastConsumed, m_published, m_lastKnownPublished,
                       awaiters, awaitersToResume, lastKnownPublished, m_nextToClaim, m_claimedRange, consumed>>
    BY EnqueueDoes
  <1>3. sequencerPc'[c] = "scan" /\ \A u \in Clients : u # c => sequencerPc'[u] = sequencerPc[u]
    BY <1>1, <1>2, ClientValues
  <1>4. \A q \in Producers : sequencerPc'[q] = sequencerPc[q]
    BY <1>1, <1>3, ClientParties
  <1>5. ASSUME NEW d \in Consumers
        PROVE  /\ sequencerPc'[d] # "idle" => Readable(d, m_lastKnownPublished'[d])
               /\ sequencerPc'[d] \in {"enqueue", "scan", "acquire", "resume"} => Readable(d, lastKnownPublished'[d])
               /\ \A q \in Producers :
                    OnList(d, awaiters'[q]) \/ OnList(d, awaitersToResume'[q]) => Readable(d, lastKnownPublished'[q])
    <2>1. ReaderPlace(d) /\ d \in Clients
      BY ClientParties DEF NumbersInv
    <2>2. QED BY <1>2, <1>3, <2>1 DEF ReaderPlace
  <1>6. QED BY <1>2, <1>4, <1>5, ReadersMove

LEMMA AcquireNumbersStep ==
  ASSUME ListsInv, NumbersInv, NEW c \in Consumers, Sequencer!AcquireAwaiters(c)
  PROVE  NumbersInv'
  <1>1. ClientTypes /\ c \in Clients /\ c \notin Producers
    BY ClientParties DEF ListsInv
  <1>2. /\ sequencerPc[c] = "acquire" /\ sequencerPc' = [sequencerPc EXCEPT ![c] = "resume"]
        /\ awaitersToResume' = [awaitersToResume EXCEPT ![c] = m_awaiters]
        /\ UNCHANGED <<m_consumerBarrier, claimTarget, lastConsumed, m_published, m_lastKnownPublished,
                       awaiters, lastKnownPublished, m_nextToClaim, m_claimedRange, consumed>>
    BY AcquireDoes
  <1>3. sequencerPc'[c] = "resume" /\ \A u \in Clients : u # c => sequencerPc'[u] = sequencerPc[u]
    BY <1>1, <1>2, ClientValues
  <1>4. \A q \in Producers : sequencerPc'[q] = sequencerPc[q] /\ awaitersToResume'[q] = awaitersToResume[q]
    BY <1>1, <1>2, <1>3, ClientParties, ClientValues
  <1>5. ASSUME NEW d \in Consumers
        PROVE  /\ sequencerPc'[d] # "idle" => Readable(d, m_lastKnownPublished'[d])
               /\ sequencerPc'[d] \in {"enqueue", "scan", "acquire", "resume"} => Readable(d, lastKnownPublished'[d])
               /\ \A q \in Producers :
                    OnList(d, awaiters'[q]) \/ OnList(d, awaitersToResume'[q]) => Readable(d, lastKnownPublished'[q])
    <2>1. ReaderPlace(d) /\ d \in Clients
      BY ClientParties DEF NumbersInv
    <2>2. QED BY <1>2, <1>3, <1>4, <2>1 DEF ReaderPlace
  <1>6. QED BY <1>2, <1>4, <1>5, ReadersMove

LEMMA SuspendNumbersStep ==
  ASSUME ListsInv, NumbersInv, NEW c \in Consumers, Sequencer!SuspendOrContinue(c)
  PROVE  NumbersInv'
  <1>1. ClientTypes /\ c \in Clients /\ c \notin Producers
    BY ClientParties DEF ListsInv
  <1>2. /\ sequencerPc[c] = "resume"
        /\ sequencerPc' = [sequencerPc EXCEPT ![c] = IF m_readyToResume[c] THEN "read" ELSE "suspended"]
        /\ lastKnownPublished' = [lastKnownPublished EXCEPT ![c] = initial_sequence]
        /\ UNCHANGED <<m_consumerBarrier, claimTarget, lastConsumed, m_published, m_lastKnownPublished,
                       awaiters, awaitersToResume, m_nextToClaim, m_claimedRange, consumed>>
    BY SuspendDoes
  <1>3. /\ sequencerPc'[c] \in {"read", "suspended"} /\ \A u \in Clients : u # c => sequencerPc'[u] = sequencerPc[u]
        /\ \A u \in Clients : u # c => lastKnownPublished'[u] = lastKnownPublished[u]
    BY <1>1, <1>2, ClientValues
  <1>4. \A q \in Producers : sequencerPc'[q] = sequencerPc[q] /\ lastKnownPublished'[q] = lastKnownPublished[q]
    BY <1>1, <1>3, ClientParties
  <1>5. ASSUME NEW d \in Consumers
        PROVE  /\ sequencerPc'[d] # "idle" => Readable(d, m_lastKnownPublished'[d])
               /\ sequencerPc'[d] \in {"enqueue", "scan", "acquire", "resume"} => Readable(d, lastKnownPublished'[d])
               /\ \A q \in Producers :
                    OnList(d, awaiters'[q]) \/ OnList(d, awaitersToResume'[q]) => Readable(d, lastKnownPublished'[q])
    <2>1. ReaderPlace(d) /\ d \in Clients
      BY ClientParties DEF NumbersInv
    <2>2. QED BY <1>2, <1>3, <1>4, <2>1 DEF ReaderPlace
  <1>6. QED BY <1>2, <1>4, <1>5, ReadersMove

LEMMA WaitNumbersStep ==
  ASSUME ListsInv, NumbersInv, NEW c \in Consumers, NEW n \in Int, Sequencer!Wait(c, Sequencer!Advance(consumed[c], n))
  PROVE  NumbersInv'
  <1>1. ClientTypes /\ c \in Clients /\ c \notin Producers
    BY ClientParties DEF ListsInv
  <1>2. /\ sequencerPc' = [sequencerPc EXCEPT ![c] = "enqueue"]
        /\ m_lastKnownPublished' = [m_lastKnownPublished EXCEPT ![c] = consumed[c]]
        /\ lastKnownPublished' = [lastKnownPublished EXCEPT ![c] = consumed[c]]
        /\ UNCHANGED <<m_consumerBarrier, claimTarget, lastConsumed, m_published,
                       awaiters, awaitersToResume, m_nextToClaim, m_claimedRange, consumed>>
    BY WaitDoes
  <1>3. /\ sequencerPc'[c] = "enqueue" /\ m_lastKnownPublished'[c] = consumed[c] /\ lastKnownPublished'[c] = consumed[c]
        /\ \A u \in Clients : u # c => sequencerPc'[u] = sequencerPc[u] /\ lastKnownPublished'[u] = lastKnownPublished[u]
        /\ \A d \in Consumers : d # c => m_lastKnownPublished'[d] = m_lastKnownPublished[d]
    BY <1>1, <1>2, ClientValues
  <1>4. \A q \in Producers : sequencerPc'[q] = sequencerPc[q] /\ lastKnownPublished'[q] = lastKnownPublished[q]
    BY <1>1, <1>3, ClientParties
  <1>5. Readable(c, consumed[c])
    <2>1. Reached(consumed[c])
      BY DEF NumbersInv, ReaderPlace
    <2>2. Offset(consumed[c]) \in Nat
      BY <1>1, ClientValues, OffsetType
    <2>3. QED BY <2>1, <2>2 DEF Readable
  <1>6. ASSUME NEW d \in Consumers
        PROVE  /\ sequencerPc'[d] # "idle" => Readable(d, m_lastKnownPublished'[d])
               /\ sequencerPc'[d] \in {"enqueue", "scan", "acquire", "resume"} => Readable(d, lastKnownPublished'[d])
               /\ \A q \in Producers :
                    OnList(d, awaiters'[q]) \/ OnList(d, awaitersToResume'[q]) => Readable(d, lastKnownPublished'[q])
    <2>1. ReaderPlace(d) /\ d \in Clients
      BY ClientParties DEF NumbersInv
    <2>2. QED BY <1>2, <1>3, <1>4, <1>5, <2>1 DEF ReaderPlace
  <1>7. QED BY <1>2, <1>4, <1>6, ReadersMove

(* With one consumer, what a thread that resumes it knows is readable for  *)
(* it.                                                                     *)
LEMMA ResumeNumbersStep ==
  ASSUME OneConsumer, ListsInv, NumbersInv, NEW t \in Clients, Sequencer!ResumeAwaiter(t)
  PROVE  NumbersInv'
  <1>1. ClientTypes
    BY DEF ListsInv
  <1>2. PICK h \in Consumers : h = Head(awaitersToResume[t]) /\ OnList(h, awaitersToResume[t]) /\ ClientWaits(h)
    BY ResumeListsStep
  <1>3. /\ sequencerPc[t] = "resume" /\ awaitersToResume[t] # << >>
        /\ m_lastKnownPublished' = [m_lastKnownPublished EXCEPT ![h] = lastKnownPublished[t]]
        /\ sequencerPc' = IF m_readyToResume[h] THEN [sequencerPc EXCEPT ![h] = "read"] ELSE sequencerPc
        /\ awaitersToResume' = [awaitersToResume EXCEPT ![t] = Tail(@)]
        /\ UNCHANGED <<m_consumerBarrier, claimTarget, lastConsumed, m_published,
                       awaiters, lastKnownPublished, m_nextToClaim, m_claimedRange, consumed>>
    BY <1>2, ResumeDoes
  <1>4. h \in Clients /\ h \notin Producers /\ awaitersToResume[t] \in Seq(Consumers)
    BY <1>1, ClientParties, ClientValues
  <1>5. /\ sequencerPc'[h] \in {"read", sequencerPc[h]} /\ \A u \in Clients : u # h => sequencerPc'[u] = sequencerPc[u]
        /\ m_lastKnownPublished'[h] = lastKnownPublished[t]
        /\ awaitersToResume'[t] = Tail(awaitersToResume[t])
        /\ \A u \in Clients : u # t => awaitersToResume'[u] = awaitersToResume[u]
    BY <1>1, <1>3, <1>4, ClientValues
  <1>6. \A q \in Producers : sequencerPc'[q] = sequencerPc[q]
    BY <1>4, <1>5, ClientParties
  <1>7. ReaderPlace(h) /\ sequencerPc[h] # "idle"
    BY <1>2 DEF NumbersInv, ClientWaits
  <1>8. Readable(h, lastKnownPublished[t])
    <2>1. CASE t \in Producers
      BY <1>2, <1>7, <2>1 DEF ReaderPlace
    <2>2. CASE t \in Consumers
      <3>1. t = h
        BY <2>2 DEF OneConsumer
      <3>2. QED BY <1>3, <1>7, <3>1 DEF ReaderPlace
    <2>3. QED BY <2>1, <2>2, ClientParties
  <1>9. \A u \in Clients : OnList(h, awaitersToResume'[u]) => OnList(h, awaitersToResume[u])
    BY <1>3, <1>4, <1>5, OnTail
  <1>10. ASSUME NEW d \in Consumers
         PROVE  /\ sequencerPc'[d] # "idle" => Readable(d, m_lastKnownPublished'[d])
                /\ sequencerPc'[d] \in {"enqueue", "scan", "acquire", "resume"} => Readable(d, lastKnownPublished'[d])
                /\ \A q \in Producers :
                     OnList(d, awaiters'[q]) \/ OnList(d, awaitersToResume'[q]) => Readable(d, lastKnownPublished'[q])
    <2>1. d = h
      BY DEF OneConsumer
    <2>2. sequencerPc'[h] \in {"enqueue", "scan", "acquire", "resume"} => Readable(h, lastKnownPublished'[h])
      BY <1>3, <1>5, <1>7 DEF ReaderPlace
    <2>3. \A q \in Producers :
            OnList(h, awaiters'[q]) \/ OnList(h, awaitersToResume'[q]) => Readable(h, lastKnownPublished'[q])
      BY <1>3, <1>7, <1>9, ClientParties DEF ReaderPlace
    <2>4. QED BY <1>5, <1>8, <2>1, <2>2, <2>3
  <1>11. QED BY <1>3, <1>6, <1>10, ReadersMove

LEMMA NumbersStep ==
  ASSUME OneConsumer, ListsInv, NumbersInv, Sequencer!Next
  PROVE  NumbersInv'
  <1>1. ASSUME NEW p \in Producers, Sequencer!ProducerStep(p)
        PROVE  NumbersInv'
    <2>1. p \in Clients
      BY ClientParties
    <2>2. QED
      BY <1>1, <2>1, ClaimWaitNumbersStep, ProducerMovesNumbersStep, StoreNumbersStep, TakeNumbersStep, SortNumbersStep,
         RequeueNumbersStep, ScanNumbersStep, ResumeNumbersStep, ReturnNumbersStep DEF Sequencer!ProducerStep
  <1>2. ASSUME NEW p \in Producers, NEW count \in 1 .. MaxClaim, Sequencer!ClaimBounded(p, count)
        PROVE  NumbersInv'
    BY <1>2, ClaimNumbersStep DEF Sequencer!ClaimBounded
  <1>3. ASSUME NEW c \in Consumers, Sequencer!ConsumerStep(c)
        PROVE  NumbersInv'
    <2>1. c \in Clients
      BY ClientParties
    <2>2. QED
      BY <1>3, <2>1, EnqueueNumbersStep, ScanNumbersStep, AcquireNumbersStep, ResumeNumbersStep, SuspendNumbersStep,
         ReadNumbersStep DEF Sequencer!ConsumerStep
  <1>4. ASSUME NEW c \in Consumers, NEW n \in 1 .. MaxReach, Sequencer!Wait(c, Sequencer!Advance(consumed[c], n))
        PROVE  NumbersInv'
    BY <1>4, WaitNumbersStep
  <1>5. QED BY <1>1, <1>2, <1>3, <1>4, PublishReadNumbersStep DEF Sequencer!Next

LEMMA NumbersUnchanged ==
  ASSUME NumbersInv, UNCHANGED sequencerVars
  PROVE  NumbersInv'
  <1>1. UNCHANGED <<m_consumerBarrier, m_published, m_nextToClaim, m_claimedRange, claimTarget, lastConsumed, consumed,
                    sequencerPc, m_lastKnownPublished, lastKnownPublished, awaiters, awaitersToResume>>
    BY DEF sequencerVars
  <1>2. ASSUME NEW c \in Consumers
        PROVE  /\ sequencerPc'[c] # "idle" => Readable(c, m_lastKnownPublished'[c])
               /\ sequencerPc'[c] \in {"enqueue", "scan", "acquire", "resume"} => Readable(c, lastKnownPublished'[c])
               /\ \A q \in Producers :
                    OnList(c, awaiters'[q]) \/ OnList(c, awaitersToResume'[q]) => Readable(c, lastKnownPublished'[q])
    <2>1. ReaderPlace(c)
      BY DEF NumbersInv
    <2>2. QED BY <1>1, <2>1 DEF ReaderPlace
  <1>3. QED BY <1>1, <1>2, ReadersMove

(* What a consumer is told is available is published.                      *)
LEMMA NumbersAreAvailable ==
  ASSUME ListsInv, NumbersInv
  PROVE  Sequencer!AvailableIsPublished
  <1>1. ClientTypes
    BY DEF ListsInv
  <1>2. ASSUME NEW c \in Consumers, sequencerPc[c] = "read",
               NEW n \in 1 .. Difference(m_lastKnownPublished[c], consumed[c])
        PROVE  Sequencer!IsPublished(Advance(consumed[c], n))
    <2>1. ReaderPlace(c) /\ Readable(c, m_lastKnownPublished[c])
      BY <1>2 DEF NumbersInv, ReaderPlace
    <2>2. /\ m_lastKnownPublished[c] \in Sequences /\ consumed[c] \in Sequences /\ m_consumerBarrier \in Sequences
          /\ BufferSize \in Nat /\ Half \in Nat /\ BufferSize + BufferSize <= Half /\ BufferSize # 0
      BY <1>1, ClientValues, AheadFacts
    <2>3. PICK k \in Nat : k = Offset(consumed[c])
      BY <1>1, <2>2, OffsetType
    <2>4. PICK m \in Nat : m = Offset(m_lastKnownPublished[c]) /\ k <= m /\ m <= BufferSize /\ \A i \in 1 .. m : Filled(i)
      BY <1>1, <2>1, <2>2, <2>3, OffsetType DEF Readable, Reached
    <2>5. Difference(m_lastKnownPublished[c], consumed[c]) = m - k
      <3>1. -Half <= m - k /\ m - k < Half
        BY <2>2, <2>4
      <3>2. QED BY <2>2, <2>3, <2>4, <3>1, AheadDifference DEF Offset
    <2>6. PICK i \in Nat : i = k + n
      OBVIOUS
    <2>7. i \in 1 .. m /\ n \in Int /\ -BufferSize <= n /\ n <= BufferSize + 1 /\ 0 <= i
      BY <1>2, <2>2, <2>4, <2>5, <2>6
    <2>8. PICK M \in Nat : M = 2^Width /\ BufferSize < M
      BY AheadFacts
    <2>9. i < M
      BY <2>2, <2>4, <2>7, <2>8
    <2>10. Advance(consumed[c], n) = Advance(m_consumerBarrier, i)
      BY <2>2, <2>3, <2>6, <2>7, <2>8, <2>9, AdvanceNames DEF Offset
    <2>11. QED BY <2>4, <2>7, <2>10 DEF Filled
  <1>3. QED BY <1>2, SequencerTerms DEF Sequencer!AvailableIsPublished

(* The slots that a producer which publishes writes.                       *)
LEMMA ClaimedSlotsAre ==
  ASSUME ListsInv, NumbersInv, NEW p \in Producers, sequencerPc[p] = "publish", NEW x \in Sequencer!ClaimedSlots(p)
  PROVE  \E i \in 1 .. BufferSize :
           ClaimFrom(p) <= i /\ i < ClaimTo(p) /\ x = Sequencer!Slot(Advance(m_consumerBarrier, i))
  <1>1. ClientTypes /\ HasClaim(p) /\ ClaimPlace(p)
    BY DEF ListsInv, NumbersInv, HasClaim
  <1>2. PICK begin \in Sequences : begin = m_claimedRange[p].begin
    BY <1>1, ClaimOffsets
  <1>3. PICK end \in Sequences : end = m_claimedRange[p].end
    BY <1>1, ClaimOffsets
  <1>4. PICK low \in Nat : low = ClaimFrom(p) /\ low = Ahead(begin, m_consumerBarrier)
    BY <1>1, <1>2, ClaimOffsets DEF ClaimFrom, Offset
  <1>5. PICK high \in Nat : high = ClaimTo(p) /\ high = Ahead(end, m_consumerBarrier)
    BY <1>1, <1>3, ClaimOffsets DEF ClaimTo, Offset
  <1>6. 1 <= low /\ low < high /\ high - 1 <= BufferSize
    BY <1>1, <1>4, <1>5 DEF ClaimPlace
  <1>7. m_consumerBarrier \in Sequences /\ BufferSize \in Nat /\ Half \in Nat /\ BufferSize + BufferSize <= Half /\ BufferSize # 0
    BY <1>1, ClientValues, AheadFacts
  <1>8. Difference(end, begin) = high - low
    <2>1. -Half <= high - low /\ high - low < Half
      BY <1>6, <1>7
    <2>2. QED BY <1>4, <1>5, <1>7, <2>1, AheadDifference
  <1>9. PICK n \in 0 .. (Difference(end, begin) - 1) : x = Sequencer!Slot(Advance(begin, n))
    BY <1>2, <1>3, SequencerTerms DEF Sequencer!ClaimedSlots
  <1>10. PICK i \in Nat : i = low + n
    OBVIOUS
  <1>11. low <= i /\ i < high /\ i \in 1 .. BufferSize
    BY <1>6, <1>7, <1>8, <1>9, <1>10
  <1>12. Advance(begin, n) = Advance(m_consumerBarrier, i)
    <2>1. n \in Int /\ -BufferSize <= n /\ n <= BufferSize + 1 /\ 0 <= i
      BY <1>6, <1>7, <1>10, <1>11
    <2>2. PICK M \in Nat : M = 2^Width /\ BufferSize < M
      BY AheadFacts
    <2>3. i < M
      BY <1>7, <1>11, <2>2
    <2>4. QED BY <1>4, <1>7, <1>10, <2>1, <2>2, <2>3, AdvanceNames
  <1>13. QED BY <1>4, <1>5, <1>9, <1>11, <1>12

(* Nobody else writes or has to read them.                                 *)
LEMMA NumbersAreFree ==
  ASSUME ListsInv, NumbersInv
  PROVE  Sequencer!ClaimedSlotsAreFree
  <1>1. ClientTypes
    BY DEF ListsInv
  <1>2. ASSUME NEW p \in Producers, sequencerPc[p] = "publish", NEW c \in Consumers
        PROVE  Difference(m_claimedRange[p].end, consumed[c]) - 1 <= BufferSize
    <2>1. /\ m_claimedRange[p].end \in Sequences /\ consumed[c] \in Sequences /\ m_consumerBarrier \in Sequences
          /\ BufferSize \in Nat /\ Half \in Nat /\ BufferSize + BufferSize <= Half /\ BufferSize # 0
      BY <1>1, ClaimOffsets, ClientValues, AheadFacts
    <2>2. PICK k \in Nat : k = Offset(consumed[c]) /\ k <= BufferSize
      BY <1>1, <2>1, OffsetType DEF NumbersInv, ReaderPlace, Reached
    <2>3. PICK high \in Nat : high = Offset(m_claimedRange[p].end) /\ high - 1 <= BufferSize /\ 2 <= high
      <3>1. ClaimPlace(p) /\ HasClaim(p) /\ ClaimTo(p) \in Nat /\ ClaimFrom(p) \in Nat
        BY <1>1, <1>2, ClaimOffsets DEF NumbersInv, HasClaim
      <3>2. ClaimTo(p) - 1 <= BufferSize /\ 2 <= ClaimTo(p)
        BY <1>2, <3>1 DEF ClaimPlace
      <3>3. QED BY <3>1, <3>2 DEF ClaimTo
    <2>4. PICK D \in Int : D = Difference(m_claimedRange[p].end, consumed[c]) /\ D < Half
      BY <2>1, DifferenceType
    <2>5. CASE high - k < Half
      <3>1. -Half <= high - k
        BY <2>1, <2>2, <2>3
      <3>2. D = high - k
        BY <2>1, <2>2, <2>3, <2>4, <2>5, <3>1, AheadDifference DEF Offset
      <3>3. QED BY <2>1, <2>2, <2>3, <2>4, <3>2
    <2>6. CASE ~(high - k < Half)
      BY <2>1, <2>2, <2>3, <2>4, <2>6
    <2>7. QED BY <2>5, <2>6
  <1>3. ASSUME NEW p \in Producers, sequencerPc[p] = "publish", NEW q \in Producers \ {p}, sequencerPc[q] = "publish",
               NEW x \in Sequencer!ClaimedSlots(p), x \in Sequencer!ClaimedSlots(q)
        PROVE  FALSE
    <2>1. PICK i \in 1 .. BufferSize : ClaimFrom(p) <= i /\ i < ClaimTo(p) /\ x = Sequencer!Slot(Advance(m_consumerBarrier, i))
      BY <1>3, ClaimedSlotsAre
    <2>2. PICK j \in 1 .. BufferSize : ClaimFrom(q) <= j /\ j < ClaimTo(q) /\ x = Sequencer!Slot(Advance(m_consumerBarrier, j))
      BY <1>3, ClaimedSlotsAre
    <2>3. i = j
      BY <1>1, <2>1, <2>2, BufferSlotsDiffer
    <2>4. ClaimTo(p) <= ClaimFrom(q) \/ ClaimTo(q) <= ClaimFrom(p)
      BY <1>3 DEF NumbersInv, ClaimPlace, HasClaim
    <2>5. ClaimFrom(p) \in Nat /\ ClaimTo(p) \in Nat /\ ClaimFrom(q) \in Nat /\ ClaimTo(q) \in Nat
      BY <1>1, ClaimOffsets
    <2>6. QED BY <2>1, <2>2, <2>3, <2>4, <2>5
  <1>4. \A p \in Producers, q \in Producers : 
          sequencerPc[p] = "publish" /\ q \in Producers \ {p} /\ sequencerPc[q] = "publish" =>
            Sequencer!ClaimedSlots(p) \cap Sequencer!ClaimedSlots(q) = {}
    BY <1>3
  <1>5. QED BY <1>2, <1>4, SequencerTerms DEF Sequencer!ClaimedSlotsAreFree

(* Spec => []MultiSafe, for any number of producers and one consumer: what *)
(* wait_until_published() of multi_producer_sequencer tells the consumer   *)
(* is published, whichever thread found it out; the slots that claim_one() *)
(* and claim_up_to() hand out are no other producer's and hold nothing it  *)
(* has still to read; and its operation is on one list.  With two          *)
(* consumers this is false: see multi_producer_sequencer_targets.          *)
THEOREM MultiProducerIsSafe ==
  ASSUME OneConsumer
  PROVE  MCSpec => []MultiSafe
  <1> DEFINE I == chosen = "multi_producer_sequencer" => ListsInv /\ NumbersInv
  <1>1. MCInit => I
    BY ListsInitially, NumbersInitially DEF MCInit
  <1>2. I /\ [MCNext]_<<chosen, vars, poolVars, cancellationVars, sequencerVars>> => I'
    <2> SUFFICES ASSUME I, [MCNext]_<<chosen, vars, poolVars, cancellationVars, sequencerVars>>,
                        chosen' = "multi_producer_sequencer"
                 PROVE  ListsInv' /\ NumbersInv'
      OBVIOUS
    <2>1. chosen = "multi_producer_sequencer" /\ (Sequencer!Next \/ UNCHANGED sequencerVars)
      BY DEF MCNext
    <2>2. QED BY <2>1, ListsStep, ListsUnchanged, NumbersStep, NumbersUnchanged
  <1>3. I => MultiSafe
    BY ListsInvSuffices, NumbersAreAvailable, NumbersAreFree DEF MultiSafe
  <1> HIDE DEF I
  <1>4. QED BY <1>1, <1>2, <1>3, PTL DEF MCSpec
-----------------------------------------------------------------------------
(* With one consumer, a wait reaches its target                            *)

Due(c, s) == ~(Difference(s, m_targetSequence[c]) < 0)

(* Whoever is about to resume c has found out that its target is there.    *)
TargetPlace(c) ==
  /\ sequencerPc[c] # "idle" => \E n \in 1 .. MaxReach : m_targetSequence[c] = Advance(consumed[c], n)
  /\ sequencerPc[c] \in {"enqueue", "scan", "acquire", "resume"} => targetSequence[c] = m_targetSequence[c]
  /\ sequencerPc[c] = "acquire" => Due(c, lastKnownPublished[c])
  /\ \A t \in Clients : OnList(c, awaitersToResume[t]) => sequencerPc[t] = "resume" /\ Due(c, lastKnownPublished[t])
  /\ sequencerPc[c] = "read" \/ (sequencerPc[c] \in {"scan", "acquire", "resume"} /\ m_readyToResume[c])
       => Due(c, m_lastKnownPublished[c])

TargetsInv == \A c \in Consumers : TargetPlace(c)

LEMMA TargetsInitially ==
  ASSUME Sequencer!Init
  PROVE  TargetsInv
  <1>1. /\ sequencerPc = [t \in Clients |-> "idle"] /\ awaitersToResume = [t \in Clients |-> << >>]
    BY SequencerTerms DEF Sequencer!Init
  <1>2. ASSUME NEW c \in Consumers PROVE TargetPlace(c)
    <2>1. sequencerPc[c] = "idle" /\ \A t \in Clients : ~OnList(c, awaitersToResume[t])
      BY <1>1, ClientParties, OnEmptyList
    <2>2. QED BY <2>1 DEF TargetPlace
  <1>3. QED BY <1>2 DEF TargetsInv

(* The steps that neither a consumer nor a thread with somebody to resume  *)
(* takes.                                                                  *)
LEMMA TargetsKept ==
  ASSUME TargetsInv,
         UNCHANGED <<consumed, m_targetSequence, m_lastKnownPublished, m_readyToResume, awaitersToResume>>,
         \A c \in Consumers : /\ sequencerPc'[c] = sequencerPc[c] /\ targetSequence'[c] = targetSequence[c]
                              /\ lastKnownPublished'[c] = lastKnownPublished[c],
         \A t \in Clients : sequencerPc[t] = "resume" /\ awaitersToResume[t] # << >> =>
                              sequencerPc'[t] = "resume" /\ lastKnownPublished'[t] = lastKnownPublished[t]
  PROVE  TargetsInv'
  <1>1. ASSUME NEW c \in Consumers PROVE TargetPlace(c)'
    <2>1. TargetPlace(c)
      BY DEF TargetsInv
    <2>2. \A s : Due(c, s)' <=> Due(c, s)
      BY DEF Due
    <2>3. ASSUME NEW t \in Clients, OnList(c, awaitersToResume'[t])
          PROVE  sequencerPc'[t] = "resume" /\ Due(c, lastKnownPublished[t])'
      <3>1. awaitersToResume[t] # << >>
        BY <2>3, OnEmptyList
      <3>2. QED BY <2>1, <2>2, <2>3, <3>1 DEF TargetPlace, Due
    <2>4. /\ sequencerPc'[c] = "acquire" => Due(c, lastKnownPublished[c])'
          /\ sequencerPc'[c] = "read" \/ (sequencerPc'[c] \in {"scan", "acquire", "resume"} /\ m_readyToResume'[c])
               => Due(c, m_lastKnownPublished[c])'
      BY <2>1 DEF TargetPlace, Due
    <2>5. /\ sequencerPc'[c] # "idle" => \E n \in 1 .. MaxReach : m_targetSequence'[c] = Advance(consumed'[c], n)
          /\ sequencerPc'[c] \in {"enqueue", "scan", "acquire", "resume"} => targetSequence'[c] = m_targetSequence'[c]
      BY <2>1 DEF TargetPlace
    <2>6. QED BY <2>3, <2>4, <2>5 DEF TargetPlace
  <1>2. QED BY <1>1 DEF TargetsInv

(* A target is near enough for the difference to have its sign.            *)
LEMMA DueIs ==
  ASSUME ClientTypes, NEW c \in Consumers, NEW s \in Sequences, Readable(c, s), NEW n \in 1 .. MaxReach,
         m_targetSequence[c] = Advance(consumed[c], n), Difference(m_targetSequence[c], s) <= 0
  PROVE  Due(c, s)
  <1>1. /\ consumed[c] \in Sequences /\ m_consumerBarrier \in Sequences /\ m_targetSequence[c] \in Sequences
        /\ BufferSize \in Nat /\ Half \in Nat /\ BufferSize + BufferSize <= Half /\ BufferSize # 0
    BY ClientValues, AheadFacts
  <1>2. PICK k \in Nat : k = Offset(consumed[c])
    BY <1>1, OffsetType
  <1>3. PICK m \in Nat : m = Offset(s) /\ k <= m /\ m <= BufferSize
    BY <1>2, OffsetType DEF Readable, Reached
  <1>4. n \in Int /\ 1 <= n /\ n <= BufferSize
    BY MultiProducerAssumption, <1>1
  <1>5. Offset(m_targetSequence[c]) = k + n
    <2>1. PICK M \in Nat : M = 2^Width /\ M = Half + Half
      BY AheadFacts
    <2>2. -BufferSize <= n /\ n <= BufferSize + 1 /\ 0 <= k + n /\ k + n < M
      BY <1>1, <1>3, <1>4, <2>1
    <2>3. QED BY <1>1, <1>2, <1>4, <2>1, <2>2, AdvanceNames DEF Offset
  <1>6. PICK j \in Nat : j = k + n
    BY <1>4
  <1>7. -Half <= j - m /\ j - m < Half /\ -Half <= m - j /\ m - j < Half
    BY <1>1, <1>3, <1>4, <1>6
  <1>8. Difference(m_targetSequence[c], s) = j - m /\ Difference(s, m_targetSequence[c]) = m - j
    BY <1>1, <1>3, <1>5, <1>6, <1>7, AheadDifference DEF Offset
  <1>9. QED BY <1>6, <1>3, <1>8 DEF Due

(* With one consumer, a producer that has somebody to resume has nobody    *)
(* to put back.                                                            *)
LEMMA SortedAreDue ==
  ASSUME OneConsumer, ClientTypes, NEW p \in Producers, Sequencer!PublishSorts(p), NEW c \in Consumers,
         OnList(c, awaitersToResume'[p]), ~OnList(c, awaitersToResume[p])
  PROVE  /\ OnList(c, awaiters[p]) /\ Difference(m_targetSequence[c], lastKnownPublished[p]) <= 0
         /\ UNCHANGED lastKnownPublished /\ sequencerPc'[p] = "resume"
  <1> DEFINE known == lastKnownPublished[p]
             IsDue == {d \in Consumers : Difference(m_targetSequence[d], known) <= 0}
             NotDue == {d \in Consumers : Difference(m_targetSequence[d], known) > 0}
             due == Selected(awaiters[p], IsDue)
             later == Selected(awaiters[p], NotDue)
  <1>1. /\ p \in Clients /\ awaiters[p] \in Seq(Consumers) /\ awaitersToResume \in [Clients -> Seq(Consumers)] 
        /\ awaitersToResume[p] \in Seq(Consumers) /\ sequencerPc \in [Clients -> ProducerLabels \cup ConsumerLabels]
        /\ Difference(m_targetSequence[c], known) \in Int
    BY ClientValues, ClientParties, DifferenceType
  <1>2. /\ Sequencer!Satisfied(awaiters[p], known) = due
        /\ Sequencer!Unsatisfied(awaiters[p], known) = later
    BY SequencerTerms, SequencerSets DEF Sequencer!Satisfied, Sequencer!Unsatisfied
  <1>3. /\ due \in Seq(Consumers) /\ later \in Seq(Consumers)
        /\ \A d : /\ OnList(d, due) <=> OnList(d, awaiters[p]) /\ d \in IsDue
                  /\ OnList(d, later) <=> OnList(d, awaiters[p]) /\ d \in NotDue
    <2> HIDE DEF IsDue, NotDue
    <2> QED BY <1>1, SelectedList
  <1>4. ~(c \in IsDue /\ c \in NotDue)
    BY <1>1
  <1> HIDE DEF IsDue, NotDue, due, later
  <1>5. \/ UNCHANGED awaitersToResume
        \/ /\ awaitersToResume' = [awaitersToResume EXCEPT ![p] = @ \o due]
           /\ sequencerPc' = [sequencerPc EXCEPT ![p] = IF later = << >> THEN "resume" ELSE "requeue"]
           /\ UNCHANGED lastKnownPublished
    BY <1>2, SequencerTerms DEF Sequencer!PublishSorts, Sequencer!Goto, Sequencer!lists
  <1>6. /\ awaitersToResume'[p] = awaitersToResume[p] \o due
        /\ sequencerPc' = [sequencerPc EXCEPT ![p] = IF later = << >> THEN "resume" ELSE "requeue"]
        /\ UNCHANGED lastKnownPublished
    BY <1>1, <1>5
  <1>7. OnList(c, due)
    BY <1>1, <1>3, <1>6, OnConcatenated
  <1>8. later = << >>
    <2>1. SUFFICES ASSUME later # << >> PROVE FALSE
      OBVIOUS
    <2>2. Head(later) \in Consumers /\ OnList(Head(later), later)
      BY <1>3, <2>1, OnTail
    <2>3. Head(later) = c
      BY <2>2 DEF OneConsumer
    <2>4. QED BY <1>3, <1>4, <1>7, <2>2, <2>3
  <1>9. QED BY <1>1, <1>3, <1>6, <1>7, <1>8 DEF IsDue

LEMMA ScannedIsDue ==
  ASSUME ClientTypes, NEW c \in Consumers, Sequencer!ScanPublished(c), sequencerPc'[c] = "acquire"
  PROVE  UNCHANGED lastKnownPublished /\ ~(Difference(lastKnownPublished[c], targetSequence[c]) < 0)
  <1>1. sequencerPc \in [Clients -> ProducerLabels \cup ConsumerLabels] /\ c \in Clients
    BY ClientValues, ClientParties
  <1>2. /\ sequencerPc[c] = "scan"
        /\ \/ UNCHANGED sequencerPc
           \/ /\ sequencerPc' = [sequencerPc EXCEPT ![c] =
                   IF Difference(lastKnownPublished[c], targetSequence[c]) < 0 THEN "resume" ELSE "acquire"]
              /\ UNCHANGED lastKnownPublished
    BY SequencerTerms DEF Sequencer!ScanPublished, Sequencer!Goto
  <1>3. QED BY <1>1, <1>2

LEMMA ClaimTargetsStep ==
  ASSUME ListsInv, TargetsInv, NEW p \in Producers, NEW count \in 1 .. MaxClaim, Sequencer!Claim(p, count)
  PROVE  TargetsInv'
  <1>1. ClientTypes /\ p \in Clients /\ p \notin Consumers
    BY ClientParties DEF ListsInv
  <1>2. /\ sequencerPc[p] = "idle" /\ sequencerPc' = [sequencerPc EXCEPT ![p] = "claim"]
        /\ UNCHANGED <<m_targetSequence, m_lastKnownPublished, m_readyToResume, awaitersToResume, targetSequence,
                       lastKnownPublished, consumed>>
    BY ClaimDoes
  <1>3. \A u \in Clients : u # p => sequencerPc'[u] = sequencerPc[u]
    BY <1>1, <1>2, ClientValues
  <1>4. QED BY <1>1, <1>2, <1>3, ClientParties, TargetsKept

LEMMA ClaimWaitTargetsStep ==
  ASSUME TargetsInv, NEW p \in Producers, Sequencer!ClaimWaitResumes(p)
  PROVE  TargetsInv'
  BY ClaimWaitDoes, TargetsKept

LEMMA ProducerMovesTargetsStep ==
  ASSUME ListsInv, TargetsInv, NEW p \in Producers, Sequencer!ClaimResumes(p) \/ Sequencer!PublishLoads(p)
  PROVE  TargetsInv'
  <1>1. ClientTypes /\ p \in Clients /\ p \notin Consumers
    BY ClientParties DEF ListsInv
  <1>2. PICK label : /\ sequencerPc[p] \in {"claim", "load"} /\ sequencerPc' = [sequencerPc EXCEPT ![p] = label]
                     /\ UNCHANGED <<m_targetSequence, m_lastKnownPublished, m_readyToResume, awaitersToResume, targetSequence,
                                    lastKnownPublished, consumed>>
    BY ProducerMovesDo
  <1>3. \A u \in Clients : u # p => sequencerPc'[u] = sequencerPc[u]
    BY <1>1, <1>2, ClientValues
  <1>4. QED BY <1>1, <1>2, <1>3, ClientParties, TargetsKept

LEMMA StoreTargetsStep ==
  ASSUME ListsInv, TargetsInv, NEW p \in Producers, Sequencer!PublishStores(p)
  PROVE  TargetsInv'
  <1>1. ClientTypes /\ p \in Clients /\ p \notin Consumers
    BY ClientParties DEF ListsInv
  <1>2. PICK s : sequencerPc[p] = "publish" /\ Sequencer!Store(p, s)
    BY DEF Sequencer!PublishStores
  <1>3. /\ UNCHANGED sequencerPc \/ sequencerPc' = [sequencerPc EXCEPT ![p] = "load"]
        /\ UNCHANGED <<m_targetSequence, m_lastKnownPublished, m_readyToResume, awaitersToResume, targetSequence,
                       lastKnownPublished, consumed>>
    BY <1>2, StoreDoes
  <1>4. \A u \in Clients : u # p => sequencerPc'[u] = sequencerPc[u]
    BY <1>1, <1>3, ClientValues
  <1>5. QED BY <1>1, <1>2, <1>3, <1>4, ClientParties, TargetsKept

LEMMA PublishReadTargetsStep ==
  ASSUME TargetsInv, Sequencer!PublishRead
  PROVE  TargetsInv'
  BY PublishReadDoes, TargetsKept

LEMMA RequeueTargetsStep ==
  ASSUME ListsInv, TargetsInv, NEW p \in Producers, Sequencer!PublishRequeues(p)
  PROVE  TargetsInv'
  <1>1. ClientTypes /\ p \in Clients /\ p \notin Consumers
    BY ClientParties DEF ListsInv
  <1>2. /\ sequencerPc[p] = "requeue" /\ sequencerPc' = [sequencerPc EXCEPT ![p] = "scan"]
        /\ UNCHANGED <<m_targetSequence, m_lastKnownPublished, m_readyToResume, awaitersToResume, targetSequence,
                       lastKnownPublished, consumed>>
    BY RequeueDoes
  <1>3. \A u \in Clients : u # p => sequencerPc'[u] = sequencerPc[u]
    BY <1>1, <1>2, ClientValues
  <1>4. QED BY <1>1, <1>2, <1>3, ClientParties, TargetsKept

LEMMA ReturnTargetsStep ==
  ASSUME ListsInv, TargetsInv, NEW p \in Producers, Sequencer!PublishReturns(p)
  PROVE  TargetsInv'
  <1>1. ClientTypes /\ p \in Clients /\ p \notin Consumers
    BY ClientParties DEF ListsInv
  <1>2. /\ awaitersToResume[p] = << >> /\ sequencerPc' = [sequencerPc EXCEPT ![p] = "idle"]
        /\ targetSequence' = [targetSequence EXCEPT ![p] = initial_sequence]
        /\ lastKnownPublished' = [lastKnownPublished EXCEPT ![p] = initial_sequence]
        /\ UNCHANGED <<m_targetSequence, m_lastKnownPublished, m_readyToResume, awaitersToResume, consumed>>
    BY ReturnDoes
  <1>3. \A u \in Clients : u # p => /\ sequencerPc'[u] = sequencerPc[u] /\ targetSequence'[u] = targetSequence[u]
                                    /\ lastKnownPublished'[u] = lastKnownPublished[u]
    BY <1>1, <1>2, ClientValues
  <1>4. QED BY <1>1, <1>2, <1>3, ClientParties, TargetsKept

LEMMA TakeTargetsStep ==
  ASSUME ListsInv, TargetsInv, NEW p \in Producers, Sequencer!PublishAcquires(p) \/ Sequencer!PublishReacquires(p)
  PROVE  TargetsInv'
  <1>1. ClientTypes /\ p \in Clients /\ p \notin Consumers
    BY ClientParties DEF ListsInv
  <1>2. PICK label, s : /\ sequencerPc[p] \in {"exchange", "reacquire"} /\ sequencerPc' = [sequencerPc EXCEPT ![p] = label]
                        /\ \/ UNCHANGED lastKnownPublished
                           \/ lastKnownPublished' = [lastKnownPublished EXCEPT ![p] = s]
                        /\ UNCHANGED <<m_targetSequence, m_lastKnownPublished, m_readyToResume, awaitersToResume,
                                       targetSequence, consumed>>
    BY TakeDoes
  <1>3. \A u \in Clients : u # p => sequencerPc'[u] = sequencerPc[u] /\ lastKnownPublished'[u] = lastKnownPublished[u]
    BY <1>1, <1>2, ClientValues
  <1>4. sequencerPc[p] # "resume"
    BY <1>2
  <1>5. QED BY <1>1, <1>2, <1>3, <1>4, ClientParties, TargetsKept

LEMMA PublishScansTargetsStep ==
  ASSUME ListsInv, TargetsInv, NEW p \in Producers, Sequencer!PublishScans(p)
  PROVE  TargetsInv'
  <1>1. ClientTypes /\ p \in Clients /\ p \notin Consumers
    BY ClientParties DEF ListsInv
  <1>2. PICK label, s : /\ sequencerPc[p] = "scan" /\ sequencerPc' = [sequencerPc EXCEPT ![p] = label]
                        /\ \/ UNCHANGED lastKnownPublished
                           \/ lastKnownPublished' = [lastKnownPublished EXCEPT ![p] = s]
                        /\ UNCHANGED <<m_targetSequence, m_lastKnownPublished, m_readyToResume, awaitersToResume,
                                       targetSequence, consumed>>
    BY <1>1, ScanDoes
  <1>3. \A u \in Clients : u # p => sequencerPc'[u] = sequencerPc[u] /\ lastKnownPublished'[u] = lastKnownPublished[u]
    BY <1>1, <1>2, ClientValues
  <1>4. QED BY <1>1, <1>2, <1>3, ClientParties, TargetsKept

LEMMA SortTargetsStep ==
  ASSUME OneConsumer, ListsInv, NumbersInv, TargetsInv, NEW p \in Producers, Sequencer!PublishSorts(p)
  PROVE  TargetsInv'
  <1>1. ClientTypes /\ p \in Clients /\ p \notin Consumers
    BY ClientParties DEF ListsInv
  <1>2. /\ sequencerPc[p] = "after"
        /\ UNCHANGED <<consumed, m_targetSequence, m_readyToResume>>
    BY <1>1, SortDoes
  <1>3. PICK label, s, known, due :
          /\ sequencerPc' = [sequencerPc EXCEPT ![p] = label] \/ UNCHANGED sequencerPc
          /\ targetSequence' = [targetSequence EXCEPT ![p] = s] \/ UNCHANGED targetSequence
          /\ lastKnownPublished' = [lastKnownPublished EXCEPT ![p] = known] \/ UNCHANGED lastKnownPublished
          /\ awaitersToResume' = [awaitersToResume EXCEPT ![p] = due] \/ UNCHANGED awaitersToResume
    BY <1>1, SortDoes
  <1>4. \A u \in Clients : u # p => /\ sequencerPc'[u] = sequencerPc[u] /\ targetSequence'[u] = targetSequence[u]
                                    /\ lastKnownPublished'[u] = lastKnownPublished[u]
                                    /\ awaitersToResume'[u] = awaitersToResume[u]
    BY <1>1, <1>3, ClientValues
  <1>5. ASSUME NEW c \in Consumers PROVE TargetPlace(c)'
    <2>1. TargetPlace(c) /\ ReaderPlace(c) /\ WaitLists(c) /\ c \in Clients /\ c # p
      BY <1>1, ClientParties DEF TargetsInv, NumbersInv, ListsInv
    <2>2. \A x : Due(c, x)' <=> Due(c, x)
      BY <1>2 DEF Due
    <2>3. ~OnList(c, awaitersToResume[p])
      BY <1>1, <1>2, <2>1 DEF TargetPlace
    <2>4. ASSUME NEW t \in Clients, OnList(c, awaitersToResume'[t])
          PROVE  sequencerPc'[t] = "resume" /\ Due(c, lastKnownPublished[t])'
      <3>1. CASE t # p
        BY <1>2, <1>4, <2>1, <2>4, <3>1 DEF TargetPlace, Due
      <3>2. CASE t = p
        <4>1. /\ OnList(c, awaiters[p]) /\ Difference(m_targetSequence[c], lastKnownPublished[p]) <= 0
              /\ UNCHANGED lastKnownPublished /\ sequencerPc'[p] = "resume"
          BY <1>1, <2>3, <2>4, <3>2, SortedAreDue
        <4>2. Readable(c, lastKnownPublished[p]) /\ lastKnownPublished[p] \in Sequences
          BY <1>1, <2>1, <4>1, ClientValues DEF ReaderPlace
        <4>3. ClientWaits(c)
          BY <1>1, <2>1, <4>1 DEF WaitLists, InHand
        <4>4. sequencerPc[c] # "idle"
          BY <4>3 DEF ClientWaits
        <4>5. PICK n \in 1 .. MaxReach : m_targetSequence[c] = Advance(consumed[c], n)
          BY <2>1, <4>4 DEF TargetPlace
        <4>6. Due(c, lastKnownPublished[p])
          BY <1>1, <4>1, <4>2, <4>5, DueIs
        <4>7. QED BY <1>2, <3>2, <4>1, <4>6 DEF Due
      <3>3. QED BY <3>1, <3>2
    <2>5. sequencerPc'[c] = "acquire" => Due(c, lastKnownPublished[c])'
      BY <1>2, <1>4, <2>1 DEF TargetPlace, Due
    <2>6. \/ m_lastKnownPublished'[c] = m_lastKnownPublished[c]
          \/ OnList(c, awaiters[p])
      BY <1>1, SortDoes
    <2>7. ASSUME sequencerPc'[c] = "read" \/ (sequencerPc'[c] \in {"scan", "acquire", "resume"} /\ m_readyToResume'[c])
          PROVE  Due(c, m_lastKnownPublished[c])'
      <3>1. sequencerPc[c] = "read" \/ (sequencerPc[c] \in {"scan", "acquire", "resume"} /\ m_readyToResume[c])
        BY <1>2, <1>4, <2>1, <2>7
      <3>2. ~ClientWaits(c)
        BY <3>1 DEF ClientWaits
      <3>3. ~OnList(c, awaiters[p])
        BY <1>1, <2>1, <3>2 DEF WaitLists, InHand
      <3>4. QED BY <1>2, <2>1, <2>6, <3>1, <3>3 DEF TargetPlace, Due
    <2>8. /\ sequencerPc'[c] # "idle" => \E n \in 1 .. MaxReach : m_targetSequence'[c] = Advance(consumed'[c], n)
          /\ sequencerPc'[c] \in {"enqueue", "scan", "acquire", "resume"} => targetSequence'[c] = m_targetSequence'[c]
      BY <1>2, <1>4, <2>1 DEF TargetPlace
    <2>9. QED BY <2>4, <2>5, <2>7, <2>8 DEF TargetPlace
  <1>6. QED BY <1>5 DEF TargetsInv

LEMMA WaitTargetsStep ==
  ASSUME OneConsumer, ListsInv, TargetsInv, NEW c \in Consumers, NEW n \in 1 .. MaxReach,
         Sequencer!Wait(c, Sequencer!Advance(consumed[c], n))
  PROVE  TargetsInv'
  <1>1. ClientTypes /\ c \in Clients /\ WaitLists(c)
    BY ClientParties DEF ListsInv
  <1>2. /\ sequencerPc[c] = "idle" /\ sequencerPc' = [sequencerPc EXCEPT ![c] = "enqueue"]
        /\ m_targetSequence' = [m_targetSequence EXCEPT ![c] = Advance(consumed[c], n)]
        /\ targetSequence' = [targetSequence EXCEPT ![c] = Advance(consumed[c], n)]
        /\ UNCHANGED <<awaitersToResume, consumed>>
    BY WaitDoes
  <1>3. sequencerPc'[c] = "enqueue" /\ m_targetSequence'[c] = Advance(consumed[c], n) /\ targetSequence'[c] = m_targetSequence'[c]
    BY <1>1, <1>2, ClientValues
  <1>4. ~ClientWaits(c)
    BY <1>2 DEF ClientWaits
  <1>5. \A t \in Clients : ~OnList(c, awaitersToResume[t])
    BY <1>1, <1>4 DEF WaitLists, InHand
  <1>6. TargetPlace(c)'
    BY <1>2, <1>3, <1>5 DEF TargetPlace
  <1>7. QED BY <1>6 DEF TargetsInv, OneConsumer

LEMMA EnqueueTargetsStep ==
  ASSUME OneConsumer, ListsInv, TargetsInv, NEW c \in Consumers, Sequencer!EnqueueAwaiter(c)
  PROVE  TargetsInv'
  <1>1. ClientTypes /\ ClientLocals /\ c \in Clients /\ TargetPlace(c)
    BY ClientParties DEF ListsInv, TargetsInv
  <1>2. /\ sequencerPc[c] = "enqueue" /\ sequencerPc' = [sequencerPc EXCEPT ![c] = "scan"]
        /\ UNCHANGED <<m_targetSequence, m_lastKnownPublished, m_readyToResume, awaitersToResume, targetSequence,
                       lastKnownPublished, consumed>>
    BY EnqueueDoes
  <1>3. sequencerPc'[c] = "scan" /\ \A u \in Clients : u # c => sequencerPc'[u] = sequencerPc[u]
    BY <1>1, <1>2, ClientValues
  <1>4. ~m_readyToResume[c] /\ ~OnList(c, awaitersToResume[c])
    BY <1>1, <1>2 DEF ClientLocals, TargetPlace
  <1>5. ASSUME NEW t \in Clients, OnList(c, awaitersToResume'[t])
        PROVE  sequencerPc'[t] = "resume" /\ Due(c, lastKnownPublished[t])'
    BY <1>1, <1>2, <1>3, <1>4, <1>5 DEF TargetPlace, Due
  <1>6. TargetPlace(c)'
    BY <1>1, <1>2, <1>3, <1>4, <1>5 DEF TargetPlace
  <1>7. QED BY <1>6 DEF TargetsInv, OneConsumer

LEMMA ScanTargetsStep ==
  ASSUME OneConsumer, ListsInv, TargetsInv, NEW c \in Consumers, Sequencer!ScanPublished(c)
  PROVE  TargetsInv'
  <1>1. ClientTypes /\ c \in Clients /\ TargetPlace(c)
    BY ClientParties DEF ListsInv, TargetsInv
  <1>2. PICK label, s :
          /\ sequencerPc[c] = "scan" /\ sequencerPc' = [sequencerPc EXCEPT ![c] = label] /\ label \in {"scan", "acquire", "resume"}
          /\ UNCHANGED lastKnownPublished \/ lastKnownPublished' = [lastKnownPublished EXCEPT ![c] = s]
          /\ UNCHANGED <<m_targetSequence, m_lastKnownPublished, m_readyToResume, awaitersToResume, targetSequence, consumed>>
    BY <1>1, ScanDoes, ClientParties
  <1>3. /\ sequencerPc'[c] \in {"scan", "acquire", "resume"}
        /\ \A u \in Clients : u # c => sequencerPc'[u] = sequencerPc[u] /\ lastKnownPublished'[u] = lastKnownPublished[u]
    BY <1>1, <1>2, ClientValues
  <1>4. ~OnList(c, awaitersToResume[c]) /\ targetSequence[c] = m_targetSequence[c]
    BY <1>1, <1>2 DEF TargetPlace
  <1>5. ASSUME NEW t \in Clients, OnList(c, awaitersToResume'[t])
        PROVE  sequencerPc'[t] = "resume" /\ Due(c, lastKnownPublished[t])'
    BY <1>1, <1>2, <1>3, <1>4, <1>5 DEF TargetPlace, Due
  <1>6. sequencerPc'[c] = "acquire" => Due(c, lastKnownPublished[c])'
    BY <1>1, <1>2, <1>4, ScannedIsDue DEF Due
  <1>7. m_readyToResume'[c] => Due(c, m_lastKnownPublished[c])'
    BY <1>1, <1>2 DEF TargetPlace, Due
  <1>8. TargetPlace(c)'
    BY <1>1, <1>2, <1>3, <1>4, <1>5, <1>6, <1>7 DEF TargetPlace
  <1>9. QED BY <1>8 DEF TargetsInv, OneConsumer

LEMMA AcquireTargetsStep ==
  ASSUME OneConsumer, ListsInv, TargetsInv, NEW c \in Consumers, Sequencer!AcquireAwaiters(c)
  PROVE  TargetsInv'
  <1>1. ClientTypes /\ c \in Clients /\ TargetPlace(c)
    BY ClientParties DEF ListsInv, TargetsInv
  <1>2. /\ sequencerPc[c] = "acquire" /\ sequencerPc' = [sequencerPc EXCEPT ![c] = "resume"]
        /\ awaitersToResume' = [awaitersToResume EXCEPT ![c] = m_awaiters]
        /\ UNCHANGED <<m_targetSequence, m_lastKnownPublished, m_readyToResume, targetSequence, lastKnownPublished, consumed>>
    BY AcquireDoes
  <1>3. /\ sequencerPc'[c] = "resume" /\ \A u \in Clients : u # c => sequencerPc'[u] = sequencerPc[u]
        /\ \A u \in Clients : u # c => awaitersToResume'[u] = awaitersToResume[u]
    BY <1>1, <1>2, ClientValues
  <1>4. ASSUME NEW t \in Clients, OnList(c, awaitersToResume'[t])
        PROVE  sequencerPc'[t] = "resume" /\ Due(c, lastKnownPublished[t])'
    <2>1. CASE t = c
      BY <1>1, <1>2, <1>3, <2>1 DEF TargetPlace, Due
    <2>2. CASE t # c
      BY <1>1, <1>2, <1>3, <1>4, <2>2 DEF TargetPlace, Due
    <2>3. QED BY <2>1, <2>2
  <1>5. m_readyToResume'[c] => Due(c, m_lastKnownPublished[c])'
    BY <1>1, <1>2 DEF TargetPlace, Due
  <1>6. TargetPlace(c)'
    BY <1>1, <1>2, <1>3, <1>4, <1>5 DEF TargetPlace
  <1>7. QED BY <1>6 DEF TargetsInv, OneConsumer

LEMMA SuspendTargetsStep ==
  ASSUME OneConsumer, ListsInv, TargetsInv, NEW c \in Consumers, Sequencer!SuspendOrContinue(c)
  PROVE  TargetsInv'
  <1>1. ClientTypes /\ c \in Clients /\ TargetPlace(c)
    BY ClientParties DEF ListsInv, TargetsInv
  <1>2. /\ sequencerPc[c] = "resume" /\ awaitersToResume[c] = << >>
        /\ sequencerPc' = [sequencerPc EXCEPT ![c] = IF m_readyToResume[c] THEN "read" ELSE "suspended"]
        /\ lastKnownPublished' = [lastKnownPublished EXCEPT ![c] = initial_sequence]
        /\ UNCHANGED <<m_targetSequence, m_lastKnownPublished, awaitersToResume, consumed>>
    BY SuspendDoes
  <1>3. /\ sequencerPc'[c] \in {"read", "suspended"} /\ (sequencerPc'[c] = "read" => m_readyToResume[c])
        /\ \A u \in Clients : u # c => sequencerPc'[u] = sequencerPc[u] /\ lastKnownPublished'[u] = lastKnownPublished[u]
    BY <1>1, <1>2, ClientValues
  <1>4. ~OnList(c, awaitersToResume[c])
    BY <1>2, OnEmptyList
  <1>5. ASSUME NEW t \in Clients, OnList(c, awaitersToResume'[t])
        PROVE  sequencerPc'[t] = "resume" /\ Due(c, lastKnownPublished[t])'
    BY <1>1, <1>2, <1>3, <1>4, <1>5 DEF TargetPlace, Due
  <1>6. sequencerPc'[c] = "read" => Due(c, m_lastKnownPublished[c])'
    BY <1>1, <1>2, <1>3 DEF TargetPlace, Due
  <1>7. TargetPlace(c)'
    BY <1>1, <1>2, <1>3, <1>5, <1>6 DEF TargetPlace
  <1>8. QED BY <1>7 DEF TargetsInv, OneConsumer

LEMMA ReadTargetsStep ==
  ASSUME OneConsumer, ListsInv, TargetsInv, NEW c \in Consumers, Sequencer!ReadElements(c)
  PROVE  TargetsInv'
  <1>1. ClientTypes /\ c \in Clients /\ WaitLists(c)
    BY ClientParties DEF ListsInv
  <1>2. /\ sequencerPc[c] = "read" /\ sequencerPc' = [sequencerPc EXCEPT ![c] = "idle"] /\ UNCHANGED awaitersToResume
    BY ReadDoes
  <1>3. sequencerPc'[c] = "idle"
    BY <1>1, <1>2, ClientValues
  <1>4. ~ClientWaits(c)
    BY <1>2 DEF ClientWaits
  <1>5. \A t \in Clients : ~OnList(c, awaitersToResume'[t])
    BY <1>1, <1>2, <1>4 DEF WaitLists, InHand
  <1>6. TargetPlace(c)'
    BY <1>3, <1>5 DEF TargetPlace
  <1>7. QED BY <1>6 DEF TargetsInv, OneConsumer

LEMMA ResumeTargetsStep ==
  ASSUME OneConsumer, ListsInv, TargetsInv, NEW t \in Clients, Sequencer!ResumeAwaiter(t)
  PROVE  TargetsInv'
  <1>1. ClientTypes
    BY DEF ListsInv
  <1>2. PICK h \in Consumers : h = Head(awaitersToResume[t]) /\ OnList(h, awaitersToResume[t]) /\ ClientWaits(h)
    BY ResumeListsStep
  <1>3. /\ sequencerPc[t] = "resume" /\ awaitersToResume[t] # << >>
        /\ m_lastKnownPublished' = [m_lastKnownPublished EXCEPT ![h] = lastKnownPublished[t]]
        /\ m_readyToResume' = [m_readyToResume EXCEPT ![h] = TRUE]
        /\ sequencerPc' = IF m_readyToResume[h] THEN [sequencerPc EXCEPT ![h] = "read"] ELSE sequencerPc
        /\ awaitersToResume' = [awaitersToResume EXCEPT ![t] = Tail(@)]
        /\ UNCHANGED <<m_targetSequence, targetSequence, lastKnownPublished, consumed>>
    BY <1>2, ResumeDoes
  <1>4. h \in Clients /\ awaitersToResume[t] \in Seq(Consumers) /\ TargetPlace(h) /\ WaitLists(h)
    BY <1>1, ClientParties, ClientValues DEF TargetsInv, ListsInv
  <1>5. /\ sequencerPc'[h] \in {"read", sequencerPc[h]} /\ m_lastKnownPublished'[h] = lastKnownPublished[t]
        /\ awaitersToResume'[t] = Tail(awaitersToResume[t])
        /\ \A u \in Clients : u # t => awaitersToResume'[u] = awaitersToResume[u]
    BY <1>1, <1>3, <1>4, ClientValues
  <1>6. \A u \in Clients : ~OnList(h, awaitersToResume'[u])
    <2>1. ~OnList(h, awaitersToResume'[t])
      BY <1>2, <1>3, <1>4, <1>5, OnTail DEF WaitLists
    <2>2. \A u \in Clients : u # t => ~OnList(h, awaitersToResume[u])
      BY <1>2, <1>4 DEF WaitLists, InHand
    <2>3. QED BY <1>5, <2>1, <2>2
  <1>7. Due(h, m_lastKnownPublished[h])'
    BY <1>2, <1>3, <1>4, <1>5 DEF TargetPlace, Due
  <1>8. sequencerPc[h] # "idle" /\ (sequencerPc'[h] = "acquire" => sequencerPc[h] = "acquire")
    BY <1>2, <1>5 DEF ClientWaits
  <1>9. sequencerPc'[h] = "acquire" => Due(h, lastKnownPublished[h])'
    BY <1>3, <1>4, <1>8 DEF TargetPlace, Due
  <1>10. /\ \E n \in 1 .. MaxReach : m_targetSequence'[h] = Advance(consumed'[h], n)
         /\ sequencerPc'[h] \in {"enqueue", "scan", "acquire", "resume"} => targetSequence'[h] = m_targetSequence'[h]
    BY <1>3, <1>4, <1>5, <1>8 DEF TargetPlace
  <1>11. TargetPlace(h)'
    BY <1>6, <1>7, <1>9, <1>10 DEF TargetPlace
  <1>12. QED BY <1>11 DEF TargetsInv, OneConsumer

LEMMA TargetsStep ==
  ASSUME OneConsumer, ListsInv, NumbersInv, TargetsInv, Sequencer!Next
  PROVE  TargetsInv'
  <1>1. ASSUME NEW p \in Producers, Sequencer!ProducerStep(p)
        PROVE  TargetsInv'
    <2>1. p \in Clients
      BY ClientParties
    <2>2. QED
      BY <1>1, <2>1, ClaimWaitTargetsStep, ProducerMovesTargetsStep, StoreTargetsStep, TakeTargetsStep, SortTargetsStep,
         RequeueTargetsStep, PublishScansTargetsStep, ResumeTargetsStep, ReturnTargetsStep DEF Sequencer!ProducerStep
  <1>2. ASSUME NEW p \in Producers, NEW count \in 1 .. MaxClaim, Sequencer!ClaimBounded(p, count)
        PROVE  TargetsInv'
    BY <1>2, ClaimTargetsStep DEF Sequencer!ClaimBounded
  <1>3. ASSUME NEW c \in Consumers, Sequencer!ConsumerStep(c)
        PROVE  TargetsInv'
    <2>1. c \in Clients
      BY ClientParties
    <2>2. QED
      BY <1>3, <2>1, EnqueueTargetsStep, ScanTargetsStep, AcquireTargetsStep, ResumeTargetsStep, SuspendTargetsStep,
         ReadTargetsStep DEF Sequencer!ConsumerStep
  <1>4. ASSUME NEW c \in Consumers, NEW n \in 1 .. MaxReach, Sequencer!Wait(c, Sequencer!Advance(consumed[c], n))
        PROVE  TargetsInv'
    BY <1>4, WaitTargetsStep
  <1>5. QED BY <1>1, <1>2, <1>3, <1>4, PublishReadTargetsStep DEF Sequencer!Next

LEMMA TargetsUnchanged ==
  ASSUME TargetsInv, UNCHANGED sequencerVars
  PROVE  TargetsInv'
  <1>1. UNCHANGED <<consumed, m_targetSequence, m_lastKnownPublished, m_readyToResume, awaitersToResume,
                    sequencerPc, targetSequence, lastKnownPublished>>
    BY DEF sequencerVars
  <1>2. QED BY <1>1, TargetsKept

(* Spec => []WaitsForTarget, for any number of producers and one consumer: *)
(* wait_until_published() of multi_producer_sequencer ends with a result   *)
(* that reaches the number it was called with.  The comparison with the    *)
(* wrong target in add_awaiter(), which the run                            *)
(* multi_producer_sequencer_targets shows to break this for two consumers, *)
(* does no harm to one that is alone.                                      *)
THEOREM LoneWaitReachesTarget ==
  ASSUME OneConsumer
  PROVE  MCSpec => [](chosen = "multi_producer_sequencer" => Sequencer!WaitsForTarget)
  <1> DEFINE I == chosen = "multi_producer_sequencer" => ListsInv /\ NumbersInv /\ TargetsInv
  <1>1. MCInit => I
    BY ListsInitially, NumbersInitially, TargetsInitially DEF MCInit
  <1>2. I /\ [MCNext]_<<chosen, vars, poolVars, cancellationVars, sequencerVars>> => I'
    <2> SUFFICES ASSUME I, [MCNext]_<<chosen, vars, poolVars, cancellationVars, sequencerVars>>,
                        chosen' = "multi_producer_sequencer"
                 PROVE  ListsInv' /\ NumbersInv' /\ TargetsInv'
      OBVIOUS
    <2>1. chosen = "multi_producer_sequencer" /\ (Sequencer!Next \/ UNCHANGED sequencerVars)
      BY DEF MCNext
    <2>2. QED BY <2>1, ListsStep, ListsUnchanged, NumbersStep, NumbersUnchanged, TargetsStep, TargetsUnchanged
  <1>3. I => (chosen = "multi_producer_sequencer" => Sequencer!WaitsForTarget)
    <2> SUFFICES ASSUME TargetsInv, NEW c \in Consumers, sequencerPc[c] = "read"
                 PROVE  ~(Difference(m_lastKnownPublished[c], m_targetSequence[c]) < 0)
      BY SequencerTerms DEF Sequencer!WaitsForTarget
    <2>1. QED BY DEF TargetsInv, TargetPlace, Due
  <1> HIDE DEF I
  <1>4. QED BY <1>1, <1>2, <1>3, PTL DEF MCSpec
=============================================================================
