---------------------------- MODULE SequenceProofs ----------------------------
(***************************************************************************)
(* sequence_barrier and single_producer_sequencer, for every width of the  *)
(* sequence numbers, every number of waiters and consumers and every size  *)
(* of the ring buffer.                                                     *)
(***************************************************************************)
EXTENDS MCSequences, ListProofs
-----------------------------------------------------------------------------
(* sequence_barrier                                                        *)

WaiterLabels == {"idle", "enqueue", "check", "acquire", "resume", "suspended"}
PublisherLabels == {"idle", "load", "exchange", "requeue", "resume"}

BarrierTypes == BarrierTypeOK /\ pc \in [Threads -> WaiterLabels \cup PublisherLabels]

(* Where a thread has something on its private lists, and what it knows.   *)
BarrierLocals ==
  /\ \A t \in Threads :
       /\ awaitersToRequeue[t] # << >> => pc[t] \in {"enqueue", "requeue"}
       /\ awaitersToResume[t] # << >> => pc[t] \in {"enqueue", "check", "acquire", "requeue", "resume"}
  /\ \A c \in Waiters : pc[c] = "suspended" => m_readyToResume[c]
  /\ pc[Publisher] # "idle" => lastKnown[Publisher] = m_lastPublished

(* The coroutine waits to be resumed.                                      *)
Waiting(c) == pc[c] = "suspended" \/ (pc[c] # "idle" /\ ~m_readyToResume[c])

InHand(c, t) == OnList(c, awaitersToRequeue[t]) \/ OnList(c, awaitersToResume[t])

(* The one list of an operation that waits, without counting.              *)
ListsOf(c) ==
  /\ OnceOnList(c, m_awaiters)
  /\ \A t \in Threads :
       /\ OnceOnList(c, awaitersToRequeue[t]) /\ OnceOnList(c, awaitersToResume[t])
       /\ ~(OnList(c, awaitersToRequeue[t]) /\ OnList(c, awaitersToResume[t]))
       /\ InHand(c, t) => ~OnList(c, m_awaiters) /\ \A u \in Threads : InHand(c, u) => t = u
  /\ Waiting(c) <=> OnList(c, m_awaiters) \/ \E t \in Threads : InHand(c, t)

BarrierLists == \A c \in Waiters : ListsOf(c)

(* How far a number is ahead of the last one published.                    *)
Ahead(s) == Difference(s, m_lastPublished)

(* A number that a waiter compares with others: it is at most a window     *)
(* behind what the waiter has seen, and not at all while it waits.         *)
Compared(c, s) ==
  /\ Ahead(m_lastKnownPublished[c]) - Window <= Ahead(s)
  /\ Waiting(c) => Ahead(m_lastKnownPublished[c]) <= Ahead(s)

NumbersOf(c) ==
  LET known == Ahead(m_lastKnownPublished[c])
      target == Ahead(m_targetSequence[c]) IN
  /\ -Window <= known /\ known <= 0
  /\ Waiting(c) => known < target /\ target <= known + MaxAhead
  /\ pc[c] # "idle" /\ ~Waiting(c) => target <= known /\ known <= target + Window
  /\ pc[c] = "acquire" => Compared(c, lastKnown[c]) /\ Ahead(lastKnown[c]) <= 0
  /\ pc[c] \in {"enqueue", "check"} => Compared(c, targetSequence[c]) /\ Ahead(targetSequence[c]) <= MaxAhead

BarrierNumbers == \A c \in Waiters : NumbersOf(c)

(* What is on a private list is there for a reason.                        *)
ListNumbersOf(c) ==
  /\ \A t \in Threads : OnList(c, awaitersToResume[t]) =>
       Ahead(m_targetSequence[c]) <= Ahead(lastKnown[t]) /\ Ahead(lastKnown[t]) <= 0
  /\ OnList(c, awaitersToRequeue[Publisher]) => Ahead(m_targetSequence[c]) > 0
  /\ \A d \in Waiters : OnList(c, awaitersToRequeue[d]) => Ahead(targetSequence[d]) <= Ahead(m_targetSequence[c])

BarrierListNumbers == \A c \in Waiters : ListNumbersOf(c)

BarrierAttended ==
  \A c \in Waiters : OnList(c, m_awaiters) /\ Ahead(m_targetSequence[c]) <= 0 =>
    \/ pc[Publisher] \in {"load", "exchange"}
    \/ \E d \in Waiters : \/ pc[d] = "acquire"
                          \/ pc[d] = "check" /\ Ahead(targetSequence[d]) <= Ahead(m_targetSequence[c])

BarrierInv ==
  BarrierTypes /\ BarrierLocals /\ BarrierLists /\ BarrierNumbers /\ BarrierListNumbers /\ BarrierAttended

(* The arithmetic of Width bits.                                           *)
Half == 2^(Width - 1)

LEMMA HalfOfRange ==
  /\ Half \in Nat \ {0} /\ 2^Width = Half + Half
  /\ Sequences = 0 .. 2^Width - 1 /\ initial_sequence \in Sequences
  <1>1. Width - 1 \in Nat /\ Width = (Width - 1) + 1
    BY WidthAssumption
  <1>2. Half \in Nat \ {0} /\ 2^Width = Half + Half
    BY <1>1, PowerOfTwo DEF Half
  <1>3. QED BY <1>2 DEF Sequences, initial_sequence

LEMMA DifferenceIsApart ==
  /\ \A a, b : Difference(a, b) = Apart(a, b, 2^Width, Half)
  /\ \A a, n : Advance(a, n) = Onward(a, n, 2^Width)
  BY DEF Difference, Apart, Advance, Onward, Half

LEMMA DifferenceType ==
  ASSUME NEW a \in Sequences, NEW b \in Sequences
  PROVE  /\ Difference(a, b) \in Int /\ -Half <= Difference(a, b) /\ Difference(a, b) < Half
         /\ Difference(a, b) = 0 <=> a = b
  <1>1. a \in 0 .. 2^Width - 1 /\ b \in 0 .. 2^Width - 1
    BY HalfOfRange
  <1>2. QED BY <1>1, HalfOfRange, ApartIs, ApartZero, DifferenceIsApart

LEMMA DifferenceAdds ==
  ASSUME NEW a \in Sequences, NEW b \in Sequences, NEW p \in Sequences,
         -Half <= Difference(a, p) - Difference(b, p), Difference(a, p) - Difference(b, p) < Half
  PROVE  Difference(a, b) = Difference(a, p) - Difference(b, p)
  <1>1. a \in 0 .. 2^Width - 1 /\ b \in 0 .. 2^Width - 1 /\ p \in 0 .. 2^Width - 1
    BY HalfOfRange
  <1>2. -Half <= Apart(a, p, 2^Width, Half) - Apart(b, p, 2^Width, Half) /\ Apart(a, p, 2^Width, Half) - Apart(b, p, 2^Width, Half) < Half
    BY DifferenceIsApart
  <1>3. Apart(a, b, 2^Width, Half) = Apart(a, p, 2^Width, Half) - Apart(b, p, 2^Width, Half)
    BY <1>1, <1>2, HalfOfRange, ApartAdds
  <1>4. QED BY <1>3, DifferenceIsApart

LEMMA AdvanceType ==
  ASSUME NEW a \in Sequences, NEW n \in Int
  PROVE  Advance(a, n) \in Sequences
  <1>1. a \in 0 .. 2^Width - 1 /\ 2^Width \in Nat \ {0}
    BY HalfOfRange
  <1>2. QED BY <1>1, OnwardIs, HalfOfRange, DifferenceIsApart

LEMMA DifferenceOnward ==
  ASSUME NEW a \in Sequences, NEW p \in Sequences, NEW n \in Int, -Half <= n, n <= Half,
         -Half <= Difference(a, p) + n, Difference(a, p) + n < Half
  PROVE  Difference(Advance(a, n), p) = Difference(a, p) + n
  <1>1. a \in 0 .. 2^Width - 1 /\ p \in 0 .. 2^Width - 1 /\ -2^Width <= n /\ n <= 2^Width
    BY HalfOfRange
  <1>2. -Half <= Apart(a, p, 2^Width, Half) + n /\ Apart(a, p, 2^Width, Half) + n < Half
    BY DifferenceIsApart
  <1>3. Apart(Onward(a, n, 2^Width), p, 2^Width, Half) = Apart(a, p, 2^Width, Half) + n
    BY <1>1, <1>2, HalfOfRange, ApartOnward
  <1>4. QED BY <1>3, DifferenceIsApart

LEMMA DifferenceFromOnward ==
  ASSUME NEW a \in Sequences, NEW p \in Sequences, NEW n \in Int, -Half <= n, n <= Half,
         -Half <= Difference(a, p) - n, Difference(a, p) - n < Half
  PROVE  Difference(a, Advance(p, n)) = Difference(a, p) - n
  <1>1. a \in 0 .. 2^Width - 1 /\ p \in 0 .. 2^Width - 1 /\ -2^Width <= n /\ n <= 2^Width
    BY HalfOfRange
  <1>2. -Half <= Apart(a, p, 2^Width, Half) - n /\ Apart(a, p, 2^Width, Half) - n < Half
    BY DifferenceIsApart
  <1>3. Apart(a, Onward(p, n, 2^Width), 2^Width, Half) = Apart(a, p, 2^Width, Half) - n
    BY <1>1, <1>2, HalfOfRange, ApartFromOnward
  <1>4. QED BY <1>3, DifferenceIsApart

LEMMA WindowFacts ==
  /\ MaxStep \in Nat /\ Window \in Nat /\ MaxAhead \in Nat /\ Half \in Nat \ {0}
  /\ Window + Window + MaxAhead < Half /\ Pending \notin Sequences
  <1>1. 2 * Window = Window + Window
    BY WindowAssumption
  <1>2. QED BY <1>1, WindowAssumption, HalfOfRange DEF Half

(* What follows from the invariant.                                        *)
LEMMA BarrierCounts ==
  ASSUME NEW c \in Waiters, BarrierTypes, ListsOf(c)
  PROVE  Cardinality(Places(c)) = IF Waiting(c) THEN 1 ELSE 0
  <1> DEFINE Spot(k, t, list) == {<<k, t>>} \X Positions(c, list)
  <1>1. Publisher \in Threads
    BY DEF Threads
  <1>2. \A k, t, list : OnceOnList(c, list) => \A x, y \in Spot(k, t, list) : x = y
    BY DEF Positions, OnceOnList
  <1>3. \A k, t, list : Spot(k, t, list) = {} <=> ~OnList(c, list)
    <2> SUFFICES ASSUME NEW k, NEW t, NEW list PROVE Spot(k, t, list) = {} <=> ~OnList(c, list)
      OBVIOUS
    <2>1. ASSUME NEW i \in DOMAIN list, list[i] = c PROVE <<<<k, t>>, i>> \in Spot(k, t, list)
      BY <2>1 DEF Positions
    <2>2. ASSUME NEW x \in Spot(k, t, list) PROVE x[2] \in DOMAIN list /\ list[x[2]] = c
      BY <2>2 DEF Positions
    <2> HIDE DEF Spot
    <2>3. QED BY <2>1, <2>2 DEF OnList
  <1>4. Places(c) = Spot("stack", Publisher, m_awaiters)
          \cup UNION {Spot("requeue", t, awaitersToRequeue[t]) \cup Spot("resume", t, awaitersToResume[t]) : t \in Threads}
    BY DEF Places
  <1> HIDE DEF Spot
  <1>5. \A x : x \in Places(c) <=> \/ x \in Spot("stack", Publisher, m_awaiters)
                                   \/ \E t \in Threads : \/ x \in Spot("requeue", t, awaitersToRequeue[t])
                                                         \/ x \in Spot("resume", t, awaitersToResume[t])
    BY <1>4
  <1>6. \A x, y \in Places(c) : x = y
    <2> SUFFICES ASSUME NEW x \in Places(c), NEW y \in Places(c) PROVE x = y
      OBVIOUS
    <2>1. CASE OnList(c, m_awaiters)
      <3>1. \A t \in Threads : ~InHand(c, t)
        BY <2>1 DEF ListsOf
      <3>2. x \in Spot("stack", Publisher, m_awaiters) /\ y \in Spot("stack", Publisher, m_awaiters)
        BY <1>3, <1>5, <3>1 DEF InHand
      <3>3. QED BY <1>2, <3>2 DEF ListsOf
    <2>2. CASE ~OnList(c, m_awaiters)
      <3>1. PICK t \in Threads : x \in Spot("requeue", t, awaitersToRequeue[t]) \/ x \in Spot("resume", t, awaitersToResume[t])
        BY <1>3, <1>5, <2>2
      <3>2. PICK u \in Threads : y \in Spot("requeue", u, awaitersToRequeue[u]) \/ y \in Spot("resume", u, awaitersToResume[u])
        BY <1>3, <1>5, <2>2
      <3>3. t = u
        BY <1>3, <3>1, <3>2 DEF ListsOf, InHand
      <3>4. QED BY <1>2, <1>3, <3>1, <3>2, <3>3 DEF ListsOf
    <2>3. QED BY <2>1, <2>2
  <1>7. Places(c) # {} <=> Waiting(c)
    BY <1>1, <1>3, <1>5 DEF ListsOf, InHand
  <1>8. CASE Waiting(c)
    <2>1. PICK x : x \in Places(c)
      BY <1>7, <1>8
    <2>2. Places(c) = {x}
      BY <1>6, <2>1
    <2>3. QED BY <1>8, <2>2, FS_Singleton
  <1>9. CASE ~Waiting(c)
    BY <1>7, <1>9, FS_EmptySet
  <1>10. QED BY <1>8, <1>9

LEMMA BarrierInvIsSafe ==
  ASSUME BarrierInv
  PROVE  BarrierSafe
  <1>1. BarrierTypes /\ BarrierLists /\ BarrierNumbers /\ BarrierAttended
    BY DEF BarrierInv
  <1>2. OnOneList
    BY <1>1, BarrierCounts DEF OnOneList, BarrierLists, Waiting
  <1>3. SatisfiedIsAttended
    <2> SUFFICES ASSUME NEW c \in ToSet(m_awaiters), ~Precedes(m_lastPublished, m_targetSequence[c])
                 PROVE  \/ pc[Publisher] \in {"load", "exchange"}
                        \/ \E d \in Waiters :
                             \/ pc[d] = "acquire"
                             \/ pc[d] = "check" /\ ~Precedes(m_targetSequence[c], targetSequence[d])
      BY DEF SatisfiedIsAttended
    <2>1. /\ m_lastPublished \in Sequences /\ m_awaiters \in Seq(Waiters)
          /\ m_targetSequence \in [Waiters -> Sequences] /\ targetSequence \in [Waiters -> Sequences]
          /\ m_lastKnownPublished \in [Waiters -> Sequences]
      BY <1>1 DEF BarrierTypes, BarrierTypeOK
    <2>2. c \in Waiters /\ OnList(c, m_awaiters)
      BY <2>1 DEF ToSet, OnList
    <2>3. Waiting(c)
      BY <1>1, <2>2 DEF BarrierLists, ListsOf
    <2>4. /\ Ahead(m_targetSequence[c]) \in Int /\ -Window <= Ahead(m_targetSequence[c])
          /\ Ahead(m_targetSequence[c]) <= MaxAhead
      <3>1. NumbersOf(c)
        BY <1>1, <2>2 DEF BarrierNumbers
      <3>2. Ahead(m_targetSequence[c]) \in Int /\ Ahead(m_lastKnownPublished[c]) \in Int
        BY <2>1, <2>2, DifferenceType DEF Ahead
      <3>3. QED BY <2>3, <3>1, <3>2, WindowFacts DEF NumbersOf
    <2>5. Ahead(m_targetSequence[c]) <= 0
      <3>1. Difference(m_lastPublished, m_lastPublished) = 0
        BY <2>1, DifferenceType
      <3>2. Difference(m_lastPublished, m_targetSequence[c]) = 0 - Ahead(m_targetSequence[c])
        BY <2>1, <2>2, <2>4, <3>1, WindowFacts, DifferenceAdds DEF Ahead
      <3>3. QED BY <2>4, <3>2 DEF Precedes
    <2>6. ASSUME NEW d \in Waiters, pc[d] = "check", Ahead(targetSequence[d]) <= Ahead(m_targetSequence[c])
          PROVE  ~Precedes(m_targetSequence[c], targetSequence[d])
      <3>1. NumbersOf(d) /\ Ahead(m_lastKnownPublished[d]) \in Int /\ Ahead(targetSequence[d]) \in Int
        BY <1>1, <2>1, DifferenceType DEF BarrierNumbers, Ahead
      <3>2. -(Window + Window) <= Ahead(targetSequence[d])
        BY <2>6, <3>1, WindowFacts DEF NumbersOf, Compared
      <3>3. Difference(m_targetSequence[c], targetSequence[d]) = Ahead(m_targetSequence[c]) - Ahead(targetSequence[d])
        BY <2>1, <2>2, <2>4, <2>6, <3>1, <3>2, WindowFacts, DifferenceAdds DEF Ahead
      <3>4. QED BY <2>4, <2>6, <3>1, <3>3 DEF Precedes
    <2>7. QED BY <1>1, <2>2, <2>5, <2>6 DEF BarrierAttended
  <1>4. QED BY <1>1, <1>2, <1>3 DEF BarrierSafe, BarrierTypes
LEMMA BarrierInitially ==
  ASSUME Init
  PROVE  BarrierInv
  <1>1. /\ m_lastPublished = initial_sequence /\ m_awaiters = << >>
        /\ m_targetSequence = [c \in Waiters |-> initial_sequence]
        /\ m_lastKnownPublished = [c \in Waiters |-> initial_sequence]
        /\ m_readyToResume = [c \in Waiters |-> FALSE]
        /\ pc = [t \in Threads |-> "idle"]
        /\ awaitersToRequeue = [t \in Threads |-> << >>] /\ awaitersToResume = [t \in Threads |-> << >>]
        /\ targetSequence = [c \in Waiters |-> initial_sequence] /\ lastKnown = [t \in Threads |-> initial_sequence]
    BY DEF Init, BarrierInit
  <1>2. Publisher \in Threads /\ \A c \in Waiters : c \in Threads
    BY DEF Threads
  <1>3. BarrierTypes
    BY <1>1, <1>2, HalfOfRange, EmptyList DEF BarrierTypes, BarrierTypeOK, WaiterLabels, PublisherLabels
  <1>4. BarrierLocals
    BY <1>1, <1>2 DEF BarrierLocals
  <1>5. BarrierLists
    BY <1>1, <1>2, OnEmptyList DEF BarrierLists, ListsOf, InHand, Waiting
  <1>6. BarrierNumbers
    <2>1. Difference(initial_sequence, initial_sequence) = 0
      BY HalfOfRange, DifferenceType
    <2>2. QED BY <1>1, <1>2, <2>1, WindowFacts DEF BarrierNumbers, NumbersOf, Waiting, Ahead
  <1>7. BarrierListNumbers /\ BarrierAttended
    BY <1>1, <1>2, OnEmptyList DEF BarrierListNumbers, ListNumbersOf, BarrierAttended
  <1>8. QED BY <1>3, <1>4, <1>5, <1>6, <1>7 DEF BarrierInv

-----------------------------------------------------------------------------
(* Steps of the barrier                                                    *)

LEMMA BarrierParties ==
  /\ Publisher \in Threads /\ Publisher \notin Waiters
  /\ \A t : t \in Threads <=> t \in Waiters \/ t = Publisher
  BY BarrierAssumption DEF Threads

(* The values of the variables, as the steps use them.                     *)
LEMMA BarrierValues ==
  ASSUME BarrierInv
  PROVE  /\ m_lastPublished \in Sequences /\ m_awaiters \in Seq(Waiters)
         /\ m_targetSequence \in [Waiters -> Sequences] /\ m_lastKnownPublished \in [Waiters -> Sequences]
         /\ m_readyToResume \in [Waiters -> BOOLEAN]
         /\ pc \in [Threads -> WaiterLabels \cup PublisherLabels]
         /\ \A c \in Waiters : pc[c] \in WaiterLabels
         /\ pc[Publisher] \in PublisherLabels
         /\ awaitersToRequeue \in [Threads -> Seq(Waiters)] /\ awaitersToResume \in [Threads -> Seq(Waiters)]
         /\ targetSequence \in [Waiters -> Sequences] /\ lastKnown \in [Threads -> Sequences]
         /\ \A s \in Sequences : Ahead(s) \in Int /\ -Half <= Ahead(s) /\ Ahead(s) < Half
  <1>1. BarrierTypes
    BY DEF BarrierInv
  <1>2. m_lastPublished \in Sequences
    BY <1>1 DEF BarrierTypes, BarrierTypeOK
  <1>3. \A s \in Sequences : Ahead(s) \in Int /\ -Half <= Ahead(s) /\ Ahead(s) < Half
    BY <1>2, DifferenceType DEF Ahead
  <1>4. QED BY <1>1, <1>2, <1>3 DEF BarrierTypes, BarrierTypeOK, WaiterLabels, PublisherLabels

(* One operation's lists do not change.                                    *)
LEMMA ListsKept ==
  ASSUME NEW c \in Waiters, ListsOf(c), Waiting(c)' <=> Waiting(c),
         OnList(c, m_awaiters') <=> OnList(c, m_awaiters), OnceOnList(c, m_awaiters'),
         \A t \in Threads : /\ OnList(c, awaitersToRequeue'[t]) <=> OnList(c, awaitersToRequeue[t])
                            /\ OnList(c, awaitersToResume'[t]) <=> OnList(c, awaitersToResume[t])
                            /\ OnceOnList(c, awaitersToRequeue'[t]) /\ OnceOnList(c, awaitersToResume'[t])
  PROVE  ListsOf(c)'
  BY DEF ListsOf, InHand

(* A step that changes no list, nor who waits.                             *)
LEMMA AllListsKept ==
  ASSUME BarrierLists, UNCHANGED <<m_awaiters, awaitersToRequeue, awaitersToResume>>,
         \A c \in Waiters : Waiting(c)' <=> Waiting(c)
  PROVE  BarrierLists'
  <1> SUFFICES ASSUME NEW c \in Waiters PROVE ListsOf(c)'
    BY DEF BarrierLists
  <1>1. ListsOf(c)
    BY DEF BarrierLists
  <1>2. OnceOnList(c, m_awaiters') /\ \A t \in Threads : OnceOnList(c, awaitersToRequeue'[t]) /\ OnceOnList(c, awaitersToResume'[t])
    BY <1>1 DEF ListsOf
  <1>3. QED BY <1>1, <1>2, ListsKept

(* Nothing of what concerns the numbers of one operation changes.          *)
LEMMA NumbersKept ==
  ASSUME NEW c \in Waiters, NumbersOf(c), Waiting(c)' <=> Waiting(c), UNCHANGED m_lastPublished,
         m_lastKnownPublished'[c] = m_lastKnownPublished[c], m_targetSequence'[c] = m_targetSequence[c],
         pc'[c] # "idle" => pc[c] # "idle",
         pc'[c] = "acquire" => pc[c] = "acquire" /\ lastKnown'[c] = lastKnown[c],
         pc'[c] \in {"enqueue", "check"} => pc[c] \in {"enqueue", "check"} /\ targetSequence'[c] = targetSequence[c]
  PROVE  NumbersOf(c)'
  BY DEF NumbersOf, Compared, Ahead

(* A thread goes from one label to another; a waiter is at work at both.   *)
LEMMA BarrierMoves ==
  ASSUME BarrierInv, NEW t \in Threads, NEW label,
         t \in Waiters => pc[t] \notin {"idle", "suspended"} /\ label \notin {"idle", "suspended"},
         label \in (IF t = Publisher THEN PublisherLabels ELSE WaiterLabels),
         pc' = [pc EXCEPT ![t] = label], UNCHANGED m_readyToResume
  PROVE  /\ pc' \in [Threads -> WaiterLabels \cup PublisherLabels] /\ pc'[t] = label
         /\ \A u \in Threads : u # t => pc'[u] = pc[u]
         /\ \A c \in Waiters : pc'[c] \in WaiterLabels
         /\ pc'[Publisher] \in PublisherLabels
         /\ \A c \in Waiters : Waiting(c)' <=> Waiting(c)
  <1>1. /\ pc \in [Threads -> WaiterLabels \cup PublisherLabels]
        /\ (\A c \in Waiters : pc[c] \in WaiterLabels) /\ pc[Publisher] \in PublisherLabels
    BY BarrierValues
  <1>2. pc' \in [Threads -> WaiterLabels \cup PublisherLabels] /\ pc'[t] = label /\ \A u \in Threads : u # t => pc'[u] = pc[u]
    BY <1>1
  <1>3. (\A c \in Waiters : pc'[c] \in WaiterLabels) /\ pc'[Publisher] \in PublisherLabels
    BY <1>1, <1>2, BarrierParties
  <1>4. \A c \in Waiters : Waiting(c)' <=> Waiting(c)
    BY <1>2, BarrierParties DEF Waiting
  <1>5. QED BY <1>2, <1>3, <1>4

(* A list is put back on the stack, by a waiter or by the publisher.       *)
PutBack(t, label) ==
  /\ m_awaiters' = awaitersToRequeue[t] \o m_awaiters
  /\ awaitersToRequeue' = [awaitersToRequeue EXCEPT ![t] = << >>]
  /\ pc' = [pc EXCEPT ![t] = label]
  /\ UNCHANGED <<m_lastPublished, m_targetSequence, m_lastKnownPublished, m_readyToResume, awaitersToResume, targetSequence, lastKnown>>

LEMMA PutBackStep ==
  ASSUME BarrierInv, NEW t \in Threads, NEW label, PutBack(t, label),
         \/ t \in Waiters /\ pc[t] = "enqueue" /\ label = "check"
         \/ t = Publisher /\ pc[t] = "requeue" /\ label = "resume"
  PROVE  BarrierInv'
  <1> USE BarrierParties
  <1>1. BarrierTypes /\ BarrierLocals /\ BarrierLists /\ BarrierNumbers /\ BarrierListNumbers /\ BarrierAttended
    BY DEF BarrierInv
  <1>2. /\ m_awaiters \in Seq(Waiters)
        /\ awaitersToRequeue \in [Threads -> Seq(Waiters)] /\ awaitersToResume \in [Threads -> Seq(Waiters)]
    BY BarrierValues
  <1>3. /\ pc' \in [Threads -> WaiterLabels \cup PublisherLabels] /\ pc'[t] = label
        /\ \A u \in Threads : u # t => pc'[u] = pc[u]
        /\ \A c \in Waiters : pc'[c] \in WaiterLabels
        /\ pc'[Publisher] \in PublisherLabels
        /\ \A c \in Waiters : Waiting(c)' <=> Waiting(c)
    <2>1. /\ t \in Waiters => pc[t] \notin {"idle", "suspended"} /\ label \notin {"idle", "suspended"}
          /\ label \in (IF t = Publisher THEN PublisherLabels ELSE WaiterLabels)
      BY DEF WaiterLabels, PublisherLabels
    <2>2. pc' = [pc EXCEPT ![t] = label] /\ UNCHANGED m_readyToResume
      BY DEF PutBack
    <2>3. QED BY <2>1, <2>2, BarrierMoves
  <1>4. /\ m_awaiters' \in Seq(Waiters)
        /\ \A c : OnList(c, m_awaiters') <=> OnList(c, awaitersToRequeue[t]) \/ OnList(c, m_awaiters)
        /\ \A c : OnceOnList(c, awaitersToRequeue[t]) /\ OnceOnList(c, m_awaiters)
                    /\ ~(OnList(c, awaitersToRequeue[t]) /\ OnList(c, m_awaiters)) => OnceOnList(c, m_awaiters')
    <2>1. m_awaiters' = awaitersToRequeue[t] \o m_awaiters /\ awaitersToRequeue[t] \in Seq(Waiters)
      BY <1>2 DEF PutBack
    <2>2. QED BY <1>2, <2>1, OnConcatenated
  <1>5. /\ awaitersToRequeue' \in [Threads -> Seq(Waiters)] /\ awaitersToRequeue'[t] = << >>
        /\ \A u \in Threads : u # t => awaitersToRequeue'[u] = awaitersToRequeue[u]
        /\ \A c : ~OnList(c, awaitersToRequeue'[t]) /\ OnceOnList(c, awaitersToRequeue'[t])
    BY <1>2, OnEmptyList, EmptyList DEF PutBack
  <1>6. UNCHANGED <<m_lastPublished, m_targetSequence, m_lastKnownPublished, m_readyToResume, awaitersToResume, targetSequence, lastKnown>>
    BY DEF PutBack
  <1>7. BarrierTypes'
    BY <1>1, <1>3, <1>4, <1>5, <1>6 DEF BarrierTypes, BarrierTypeOK, WaiterLabels, PublisherLabels
  <1>8. BarrierLocals'
    BY <1>1, <1>3, <1>5, <1>6 DEF BarrierLocals
  <1>9. BarrierLists'
    <2> SUFFICES ASSUME NEW c \in Waiters PROVE ListsOf(c)'
      BY DEF BarrierLists
    <2>1. ListsOf(c)
      BY <1>1 DEF BarrierLists
    <2>2. \A u \in Threads : OnList(c, awaitersToRequeue'[u]) <=> u # t /\ OnList(c, awaitersToRequeue[u])
      BY <1>5
    <2>3. \A u \in Threads : OnceOnList(c, awaitersToRequeue'[u])
      BY <1>5, <2>1 DEF ListsOf
    <2>4. OnceOnList(c, m_awaiters')
      BY <1>4, <2>1 DEF ListsOf, InHand
    <2>5. Waiting(c)' <=> Waiting(c)
      BY <1>3
    <2>6. QED BY <1>4, <1>6, <2>1, <2>2, <2>3, <2>4, <2>5 DEF ListsOf, InHand
  <1>10. BarrierNumbers'
    <2> SUFFICES ASSUME NEW c \in Waiters PROVE NumbersOf(c)'
      BY DEF BarrierNumbers
    <2>1. NumbersOf(c)
      BY <1>1 DEF BarrierNumbers
    <2>2. /\ pc'[c] # "idle" => pc[c] # "idle"
          /\ pc'[c] = "acquire" => pc[c] = "acquire"
          /\ pc'[c] \in {"enqueue", "check"} => pc[c] \in {"enqueue", "check"}
      BY <1>3
    <2>3. Waiting(c)' <=> Waiting(c)
      BY <1>3
    <2>4. QED BY <1>6, <2>1, <2>2, <2>3, NumbersKept
  <1>11. BarrierListNumbers'
    <2> SUFFICES ASSUME NEW c \in Waiters PROVE ListNumbersOf(c)'
      BY DEF BarrierListNumbers
    <2>1. ListNumbersOf(c)
      BY <1>1 DEF BarrierListNumbers
    <2>2. \A u \in Threads : OnList(c, awaitersToRequeue'[u]) => OnList(c, awaitersToRequeue[u])
      BY <1>5
    <2>3. QED BY <1>6, <2>1, <2>2 DEF ListNumbersOf, Ahead
  <1>12. BarrierAttended'
    <2> SUFFICES ASSUME NEW c \in Waiters, OnList(c, m_awaiters'), Ahead(m_targetSequence[c]) <= 0
                 PROVE  \/ pc'[Publisher] \in {"load", "exchange"}
                        \/ \E d \in Waiters : \/ pc'[d] = "acquire"
                                              \/ pc'[d] = "check" /\ Ahead(targetSequence[d]) <= Ahead(m_targetSequence[c])
      BY <1>6 DEF BarrierAttended, Ahead
    <2>1. ListNumbersOf(c) /\ Ahead(m_targetSequence[c]) \in Int
      BY <1>1, BarrierValues DEF BarrierListNumbers
    <2>2. CASE OnList(c, awaitersToRequeue[t])
      <3>1. t \in Waiters
        BY <2>1, <2>2 DEF ListNumbersOf
      <3>2. pc'[t] = "check" /\ Ahead(targetSequence[t]) <= Ahead(m_targetSequence[c])
        BY <1>3, <2>1, <2>2, <3>1 DEF ListNumbersOf
      <3>3. QED BY <3>1, <3>2
    <2>3. CASE OnList(c, m_awaiters)
      <3>1. \/ pc[Publisher] \in {"load", "exchange"}
            \/ \E d \in Waiters : \/ pc[d] = "acquire"
                                  \/ pc[d] = "check" /\ Ahead(targetSequence[d]) <= Ahead(m_targetSequence[c])
        BY <1>1, <2>3 DEF BarrierAttended
      <3>2. CASE pc[Publisher] \in {"load", "exchange"}
        BY <1>3, <3>2
      <3>3. ASSUME NEW d \in Waiters, pc[d] \in {"acquire", "check"} PROVE pc'[d] = pc[d]
        BY <1>3, <3>3
      <3>4. QED BY <3>1, <3>2, <3>3
    <2>4. QED BY <1>4, <2>2, <2>3
  <1>13. QED BY <1>7, <1>8, <1>9, <1>10, <1>11, <1>12 DEF BarrierInv
LEMMA EmptyIsEmpty ==
  ASSUME NEW S, NEW s \in Seq(S)
  PROVE  (\A x \in S : ~OnList(x, s)) <=> s = << >>
  BY DEF OnList

(* How the stack is sorted by who takes it.                                *)
LEMMA TakenLists ==
  ASSUME BarrierInv, NEW t \in Threads, pc[t] \in {"acquire", "exchange"}
  PROVE  LET satisfied == Satisfied(m_awaiters, lastKnown[t])
             later == Unsatisfied(m_awaiters, lastKnown[t]) IN
         /\ satisfied \in Seq(Waiters) /\ later \in Seq(Waiters)
         /\ \A c \in Waiters :
              /\ OnList(c, satisfied) <=> OnList(c, m_awaiters) /\ Ahead(m_targetSequence[c]) <= Ahead(lastKnown[t])
              /\ OnList(c, later) <=> OnList(c, m_awaiters) /\ Ahead(m_targetSequence[c]) > Ahead(lastKnown[t])
              /\ OnceOnList(c, m_awaiters) => OnceOnList(c, satisfied) /\ OnceOnList(c, later)
              /\ OnList(c, m_awaiters) =>
                   /\ Difference(m_targetSequence[c], lastKnown[t]) = Ahead(m_targetSequence[c]) - Ahead(lastKnown[t])
                   /\ -Window <= Ahead(m_targetSequence[c]) /\ Ahead(m_targetSequence[c]) <= MaxAhead
         /\ -(Window + Window) <= Ahead(lastKnown[t]) /\ Ahead(lastKnown[t]) <= 0
  <1> USE BarrierParties
  <1> DEFINE satisfied == Satisfied(m_awaiters, lastKnown[t])
             later == Unsatisfied(m_awaiters, lastKnown[t])
             Due == {c \in Waiters : Difference(m_targetSequence[c], lastKnown[t]) <= 0}
             NotDue == {c \in Waiters : Difference(m_targetSequence[c], lastKnown[t]) > 0}
  <1>1. BarrierLocals /\ BarrierLists /\ BarrierNumbers
    BY DEF BarrierInv
  <1>2. /\ m_lastPublished \in Sequences /\ m_awaiters \in Seq(Waiters)
        /\ m_targetSequence \in [Waiters -> Sequences] /\ m_lastKnownPublished \in [Waiters -> Sequences]
        /\ lastKnown[t] \in Sequences
        /\ \A s \in Sequences : Ahead(s) \in Int /\ -Half <= Ahead(s) /\ Ahead(s) < Half
    BY BarrierValues
  <1>3. -(Window + Window) <= Ahead(lastKnown[t]) /\ Ahead(lastKnown[t]) <= 0
    <2>1. CASE t = Publisher
      <3>1. lastKnown[t] = m_lastPublished
        BY <1>1, <2>1 DEF BarrierLocals
      <3>2. Ahead(lastKnown[t]) = 0
        BY <1>2, <3>1, DifferenceType DEF Ahead
      <3>3. QED BY <3>2, WindowFacts
    <2>2. CASE t \in Waiters
      <3>1. pc[t] = "acquire"
        BY <2>2, BarrierValues DEF WaiterLabels
      <3>2. NumbersOf(t)
        BY <1>1, <2>2 DEF BarrierNumbers
      <3>3. QED BY <1>2, <2>2, <3>1, <3>2, WindowFacts DEF NumbersOf, Compared
    <2>3. QED BY <2>1, <2>2
  <1>4. ASSUME NEW c \in Waiters, OnList(c, m_awaiters)
        PROVE  /\ -Window <= Ahead(m_targetSequence[c]) /\ Ahead(m_targetSequence[c]) <= MaxAhead
               /\ Difference(m_targetSequence[c], lastKnown[t]) = Ahead(m_targetSequence[c]) - Ahead(lastKnown[t])
    <2>1. Waiting(c) /\ NumbersOf(c)
      BY <1>1, <1>4 DEF BarrierLists, ListsOf, BarrierNumbers
    <2>2. -Window <= Ahead(m_targetSequence[c]) /\ Ahead(m_targetSequence[c]) <= MaxAhead
      BY <1>2, <2>1, WindowFacts DEF NumbersOf
    <2>3. m_targetSequence[c] \in Sequences /\ Ahead(m_targetSequence[c]) \in Int /\ Ahead(lastKnown[t]) \in Int
      BY <1>2
    <2>4. -Half <= Ahead(m_targetSequence[c]) - Ahead(lastKnown[t]) /\ Ahead(m_targetSequence[c]) - Ahead(lastKnown[t]) < Half
      BY <1>3, <2>2, <2>3, WindowFacts
    <2>5. Difference(m_targetSequence[c], lastKnown[t]) = Ahead(m_targetSequence[c]) - Ahead(lastKnown[t])
      BY <1>2, <2>3, <2>4, DifferenceAdds DEF Ahead
    <2>6. QED BY <2>2, <2>5
  <1>5. satisfied = Selected(m_awaiters, Due) /\ later = Selected(m_awaiters, NotDue)
    BY DEF Satisfied, Unsatisfied
  <1> HIDE DEF satisfied, later
  <1>6. /\ satisfied \in Seq(Waiters) /\ later \in Seq(Waiters)
        /\ \A c : OnList(c, satisfied) <=> OnList(c, m_awaiters) /\ c \in Due
        /\ \A c : OnList(c, later) <=> OnList(c, m_awaiters) /\ c \in NotDue
        /\ \A c : OnceOnList(c, m_awaiters) => OnceOnList(c, satisfied) /\ OnceOnList(c, later)
    <2> HIDE DEF Due, NotDue
    <2>1. QED BY <1>2, <1>5, SelectedList
  <1>7. ASSUME NEW c \in Waiters, OnList(c, m_awaiters)
        PROVE  /\ c \in Due <=> Ahead(m_targetSequence[c]) <= Ahead(lastKnown[t])
               /\ c \in NotDue <=> Ahead(m_targetSequence[c]) > Ahead(lastKnown[t])
    <2>1. PICK x \in Int : x = Ahead(m_targetSequence[c])
      BY <1>2
    <2>2. PICK y \in Int : y = Ahead(lastKnown[t])
      BY <1>2
    <2>3. Difference(m_targetSequence[c], lastKnown[t]) = x - y
      BY <1>4, <1>7, <2>1, <2>2
    <2>4. QED BY <2>1, <2>2, <2>3
  <1> HIDE DEF Due, NotDue
  <1>8. QED BY <1>3, <1>4, <1>6, <1>7 DEF satisfied, later

(* The stack is taken, by a waiter or by the publisher.                    *)
Take(t, label) ==
  /\ m_awaiters' = << >>
  /\ awaitersToResume' = [awaitersToResume EXCEPT ![t] = @ \o Satisfied(m_awaiters, lastKnown[t])]
  /\ awaitersToRequeue' = [awaitersToRequeue EXCEPT ![t] = Unsatisfied(m_awaiters, lastKnown[t])]
  /\ pc' = [pc EXCEPT ![t] = label]
  /\ targetSequence' \in [Waiters -> Sequences]
  /\ \A d \in Waiters : d # t => targetSequence'[d] = targetSequence[d]
  /\ UNCHANGED <<m_lastPublished, m_targetSequence, m_lastKnownPublished, m_readyToResume, lastKnown>>

WaiterTakes(t, label) ==
  LET later == Unsatisfied(m_awaiters, lastKnown[t]) IN
  /\ t \in Waiters /\ pc[t] = "acquire"
  /\ label = IF later = << >> THEN "resume" ELSE "enqueue"
  /\ later # << >> => /\ Ahead(lastKnown[t]) <= Ahead(targetSequence'[t]) /\ Ahead(targetSequence'[t]) <= MaxAhead
                      /\ \A d \in Waiters : OnList(d, later) => Ahead(targetSequence'[t]) <= Ahead(m_targetSequence[d])

PublisherTakes(t, label) ==
  LET later == Unsatisfied(m_awaiters, lastKnown[t]) IN
  /\ t = Publisher /\ pc[t] = "exchange"
  /\ label = IF later # << >> THEN "requeue" ELSE IF m_awaiters = << >> THEN "idle" ELSE "resume"

LEMMA TakeStep ==
  ASSUME BarrierInv, NEW t \in Threads, NEW label, Take(t, label), WaiterTakes(t, label) \/ PublisherTakes(t, label)
  PROVE  BarrierInv'
  <1> USE BarrierParties
  <1> DEFINE satisfied == Satisfied(m_awaiters, lastKnown[t])
             later == Unsatisfied(m_awaiters, lastKnown[t])
  <1>1. BarrierTypes /\ BarrierLocals /\ BarrierLists /\ BarrierNumbers /\ BarrierListNumbers /\ BarrierAttended
    BY DEF BarrierInv
  <1>2. /\ m_awaiters \in Seq(Waiters)
        /\ awaitersToRequeue \in [Threads -> Seq(Waiters)] /\ awaitersToResume \in [Threads -> Seq(Waiters)]
    BY BarrierValues
  <1>3. UNCHANGED <<m_lastPublished, m_targetSequence, m_lastKnownPublished, m_readyToResume, lastKnown>>
    BY DEF Take
  <1>4. pc[t] \in {"acquire", "exchange"}
    BY DEF WaiterTakes, PublisherTakes
  <1>5. /\ pc' \in [Threads -> WaiterLabels \cup PublisherLabels] /\ pc'[t] = label
        /\ \A u \in Threads : u # t => pc'[u] = pc[u]
        /\ \A c \in Waiters : pc'[c] \in WaiterLabels
        /\ pc'[Publisher] \in PublisherLabels
        /\ \A c \in Waiters : Waiting(c)' <=> Waiting(c)
    <2>1. /\ t \in Waiters => pc[t] \notin {"idle", "suspended"} /\ label \notin {"idle", "suspended"}
          /\ label \in (IF t = Publisher THEN PublisherLabels ELSE WaiterLabels)
      BY DEF WaiterLabels, PublisherLabels, WaiterTakes, PublisherTakes
    <2>2. pc' = [pc EXCEPT ![t] = label] /\ UNCHANGED m_readyToResume
      BY DEF Take
    <2>3. QED BY <2>1, <2>2, BarrierMoves
  <1>6. /\ satisfied \in Seq(Waiters) /\ later \in Seq(Waiters)
        /\ \A c \in Waiters :
             /\ OnList(c, satisfied) <=> OnList(c, m_awaiters) /\ Ahead(m_targetSequence[c]) <= Ahead(lastKnown[t])
             /\ OnList(c, later) <=> OnList(c, m_awaiters) /\ Ahead(m_targetSequence[c]) > Ahead(lastKnown[t])
             /\ OnceOnList(c, m_awaiters) => OnceOnList(c, satisfied) /\ OnceOnList(c, later)
        /\ Ahead(lastKnown[t]) <= 0
    BY <1>4, TakenLists
  <1>7. /\ m_awaiters' = << >>
        /\ awaitersToResume' = [awaitersToResume EXCEPT ![t] = @ \o satisfied]
        /\ awaitersToRequeue' = [awaitersToRequeue EXCEPT ![t] = later]
        /\ t \in Waiters => label = IF later = << >> THEN "resume" ELSE "enqueue"
        /\ t = Publisher => label = IF later # << >> THEN "requeue" ELSE IF m_awaiters = << >> THEN "idle" ELSE "resume"
    BY DEF Take, WaiterTakes, PublisherTakes
  <1>8. /\ targetSequence' \in [Waiters -> Sequences] /\ \A d \in Waiters : d # t => targetSequence'[d] = targetSequence[d]
        /\ t \in Waiters /\ later # << >> =>
             /\ Ahead(lastKnown[t]) <= Ahead(targetSequence'[t]) /\ Ahead(targetSequence'[t]) <= MaxAhead
             /\ \A d \in Waiters : OnList(d, later) => Ahead(targetSequence'[t]) <= Ahead(m_targetSequence[d])
    BY DEF Take, WaiterTakes, PublisherTakes
  <1> HIDE DEF satisfied, later
  <1>9. awaitersToRequeue[t] = << >> /\ (t = Publisher => awaitersToResume[t] = << >>)
    BY <1>1, <1>4, BarrierValues DEF BarrierLocals, PublisherLabels
  <1>10. /\ awaitersToRequeue' \in [Threads -> Seq(Waiters)] /\ awaitersToRequeue'[t] = later
         /\ \A u \in Threads : u # t => awaitersToRequeue'[u] = awaitersToRequeue[u]
    BY <1>2, <1>6, <1>7
  <1>11. /\ awaitersToResume' \in [Threads -> Seq(Waiters)] /\ awaitersToResume'[t] = awaitersToResume[t] \o satisfied
         /\ \A u \in Threads : u # t => awaitersToResume'[u] = awaitersToResume[u]
    <2>1. awaitersToResume[t] \o satisfied \in Seq(Waiters)
      BY <1>2, <1>6, ConcatProperties
    <2>2. QED BY <1>2, <1>7, <2>1
  <1>12. ASSUME NEW c \in Waiters
         PROVE  /\ OnList(c, awaitersToResume'[t]) <=> OnList(c, awaitersToResume[t]) \/ OnList(c, satisfied)
                /\ ListsOf(c) => OnceOnList(c, awaitersToResume'[t]) /\ OnceOnList(c, later)
                /\ ~OnList(c, m_awaiters') /\ OnceOnList(c, m_awaiters')
    <2>1. awaitersToResume[t] \in Seq(Waiters)
      BY <1>2
    <2>2. /\ OnList(c, awaitersToResume'[t]) <=> OnList(c, awaitersToResume[t]) \/ OnList(c, satisfied)
          /\ OnceOnList(c, awaitersToResume[t]) /\ OnceOnList(c, satisfied)
               /\ ~(OnList(c, awaitersToResume[t]) /\ OnList(c, satisfied)) => OnceOnList(c, awaitersToResume'[t])
      BY <1>6, <1>11, <2>1, OnConcatenated
    <2>3. ListsOf(c) => OnceOnList(c, awaitersToResume'[t]) /\ OnceOnList(c, later)
      BY <1>6, <2>2 DEF ListsOf, InHand
    <2>4. QED BY <1>7, <2>2, <2>3, OnEmptyList
  <1>13. BarrierTypes'
    BY <1>1, <1>3, <1>5, <1>7, <1>8, <1>10, <1>11, EmptyList
       DEF BarrierTypes, BarrierTypeOK, WaiterLabels, PublisherLabels
  <1>14. BarrierLocals'
    <2>1. CASE t \in Waiters
      BY <1>1, <1>3, <1>5, <1>7, <1>10, <1>11, <2>1 DEF BarrierLocals
    <2>2. CASE t = Publisher
      <3>1. m_awaiters = << >> => satisfied = << >>
        BY <1>6, EmptyIsEmpty, OnEmptyList
      <3>2. m_awaiters = << >> => awaitersToResume'[t] = << >>
        BY <1>9, <1>11, <2>2, <3>1
      <3>3. awaitersToResume'[t] # << >> => pc'[t] \in {"requeue", "resume"}
        BY <1>5, <1>7, <2>2, <3>2
      <3>4. awaitersToRequeue'[t] # << >> => pc'[t] = "requeue"
        BY <1>5, <1>7, <1>10, <2>2
      <3>5. pc[Publisher] # "idle"
        BY <1>4, <2>2
      <3>6. QED BY <1>1, <1>3, <1>5, <1>10, <1>11, <2>2, <3>3, <3>4, <3>5 DEF BarrierLocals
    <2>3. QED BY <2>1, <2>2
  <1>15. BarrierLists'
    <2> SUFFICES ASSUME NEW c \in Waiters PROVE ListsOf(c)'
      BY DEF BarrierLists
    <2>1. ListsOf(c)
      BY <1>1 DEF BarrierLists
    <2>2. ~OnList(c, awaitersToRequeue[t])
      BY <1>9, OnEmptyList
    <2>3. Waiting(c)' <=> Waiting(c)
      BY <1>5
    <2>4. OnList(c, satisfied) \/ OnList(c, later) <=> OnList(c, m_awaiters)
      BY <1>6, BarrierValues
    <2>5. ~(OnList(c, satisfied) /\ OnList(c, later))
      BY <1>6, BarrierValues
    <2>6. \A u \in Threads : u # t => (InHand(c, u)' <=> InHand(c, u))
      BY <1>10, <1>11 DEF InHand
    <2>7. InHand(c, t)' <=> InHand(c, t) \/ OnList(c, m_awaiters)
      BY <1>10, <1>12, <2>2, <2>4 DEF InHand
    <2>8. \A u \in Threads : OnceOnList(c, awaitersToRequeue'[u]) /\ OnceOnList(c, awaitersToResume'[u])
      BY <1>10, <1>11, <1>12, <2>1 DEF ListsOf
    <2>9. \A u \in Threads : ~(OnList(c, awaitersToRequeue'[u]) /\ OnList(c, awaitersToResume'[u]))
      <3>1. ~(OnList(c, awaitersToRequeue'[t]) /\ OnList(c, awaitersToResume'[t]))
        BY <1>10, <1>12, <2>1, <2>4, <2>5 DEF ListsOf, InHand
      <3>2. QED BY <1>10, <1>11, <2>1, <3>1 DEF ListsOf
    <2>10. Waiting(c)' <=> OnList(c, m_awaiters') \/ \E u \in Threads : InHand(c, u)'
      BY <1>12, <2>1, <2>3, <2>6, <2>7 DEF ListsOf
    <2>11. \A u, v \in Threads : InHand(c, u)' /\ InHand(c, v)' => u = v
      BY <2>1, <2>6, <2>7 DEF ListsOf
    <2>12. QED BY <1>12, <2>8, <2>9, <2>10, <2>11 DEF ListsOf
  <1>16. BarrierNumbers'
    <2> SUFFICES ASSUME NEW c \in Waiters PROVE NumbersOf(c)'
      BY DEF BarrierNumbers
    <2>1. NumbersOf(c)
      BY <1>1 DEF BarrierNumbers
    <2>2. Waiting(c)' <=> Waiting(c)
      BY <1>5
    <2>3. CASE c # t
      BY <1>3, <1>5, <1>8, <2>1, <2>2, <2>3, NumbersKept
    <2>4. CASE c = t /\ later = << >>
      <3>1. pc[c] # "idle" /\ pc'[c] = "resume"
        BY <1>4, <1>5, <1>7, <2>4
      <3>2. QED BY <1>3, <2>1, <2>2, <3>1, NumbersKept
    <2>5. CASE c = t /\ later # << >>
      <3>1. pc[c] = "acquire" /\ pc'[c] = "enqueue"
        BY <1>4, <1>5, <1>7, <2>5, BarrierValues DEF WaiterLabels
      <3>2. /\ Ahead(lastKnown[c]) \in Int /\ Ahead(targetSequence'[c]) \in Int
            /\ Ahead(m_lastKnownPublished[c]) \in Int
        BY <1>8, BarrierValues
      <3>3. Compared(c, lastKnown[c]) /\ Ahead(lastKnown[c]) <= Ahead(targetSequence'[c]) /\ Ahead(targetSequence'[c]) <= MaxAhead
        BY <1>8, <2>1, <2>5, <3>1 DEF NumbersOf
      <3>4. /\ Ahead(m_lastKnownPublished[c]) - Window <= Ahead(targetSequence'[c])
            /\ Waiting(c) => Ahead(m_lastKnownPublished[c]) <= Ahead(targetSequence'[c])
        BY <3>2, <3>3, WindowFacts DEF Compared
      <3>5. QED BY <1>3, <2>1, <2>2, <3>1, <3>3, <3>4 DEF NumbersOf, Compared, Ahead
    <2>6. QED BY <2>3, <2>4, <2>5
  <1>17. BarrierListNumbers'
    <2> SUFFICES ASSUME NEW c \in Waiters PROVE ListNumbersOf(c)'
      BY DEF BarrierListNumbers
    <2>1. ListNumbersOf(c)
      BY <1>1 DEF BarrierListNumbers
    <2>2. ASSUME NEW u \in Threads, OnList(c, awaitersToResume'[u])
          PROVE  Ahead(m_targetSequence[c]) <= Ahead(lastKnown[u]) /\ Ahead(lastKnown[u]) <= 0
      BY <1>6, <1>11, <1>12, <2>1, <2>2 DEF ListNumbersOf
    <2>3. ASSUME OnList(c, awaitersToRequeue'[Publisher])
          PROVE  Ahead(m_targetSequence[c]) > 0
      <3>1. CASE t = Publisher
        <4>1. lastKnown[t] = m_lastPublished
          BY <1>1, <1>4, <3>1 DEF BarrierLocals
        <4>2. Ahead(lastKnown[t]) = 0
          BY <4>1, BarrierValues, DifferenceType DEF Ahead
        <4>3. QED BY <1>6, <1>10, <2>3, <3>1, <4>2
      <3>2. CASE t # Publisher
        BY <1>10, <2>1, <2>3, <3>2 DEF ListNumbersOf
      <3>3. QED BY <3>1, <3>2
    <2>4. ASSUME NEW d \in Waiters, OnList(c, awaitersToRequeue'[d])
          PROVE  Ahead(targetSequence'[d]) <= Ahead(m_targetSequence[c])
      <3>1. CASE d = t
        <4>1. later # << >>
          BY <1>10, <2>4, <3>1, OnEmptyList
        <4>2. QED BY <1>8, <1>10, <2>4, <3>1, <4>1
      <3>2. CASE d # t
        BY <1>8, <1>10, <2>1, <2>4, <3>2 DEF ListNumbersOf
      <3>3. QED BY <3>1, <3>2
    <2>5. QED BY <1>3, <2>2, <2>3, <2>4 DEF ListNumbersOf, Ahead
  <1>18. BarrierAttended'
    BY <1>12 DEF BarrierAttended
  <1>19. QED BY <1>13, <1>14, <1>15, <1>16, <1>17, <1>18 DEF BarrierInv
LEMMA AcquireStep ==
  ASSUME BarrierInv, NEW c \in Waiters, AcquireAwaiters(c)
  PROVE  BarrierInv'
  <1> USE BarrierParties
  <1> DEFINE later == Unsatisfied(m_awaiters, lastKnown[c])
             diffs == {Difference(m_targetSequence[d], lastKnown[c]) : d \in ToSet(later)}
             all == diffs \cup {2^(Width - 1) - 1}
             minDiff == CHOOSE m \in all : \A n \in all : m <= n
             label == IF later = << >> THEN "resume" ELSE "enqueue"
  <1>1. c \in Threads /\ pc[c] = "acquire" /\ lastKnown[c] \in Sequences /\ m_lastPublished \in Sequences
    BY BarrierValues DEF AcquireAwaiters
  <1>2. /\ targetSequence' = [targetSequence EXCEPT ![c] = Advance(lastKnown[c], minDiff)]
        /\ pc' = [pc EXCEPT ![c] = label]
        /\ m_awaiters' = << >>
        /\ awaitersToResume' = [awaitersToResume EXCEPT ![c] = @ \o Satisfied(m_awaiters, lastKnown[c])]
        /\ awaitersToRequeue' = [awaitersToRequeue EXCEPT ![c] = later]
        /\ UNCHANGED <<m_lastPublished, m_targetSequence, m_lastKnownPublished, m_readyToResume, lastKnown>>
    BY DEF AcquireAwaiters, Goto, operations
  <1>3. /\ later \in Seq(Waiters)
        /\ \A d \in Waiters : OnList(d, later) =>
             /\ Difference(m_targetSequence[d], lastKnown[c]) = Ahead(m_targetSequence[d]) - Ahead(lastKnown[c])
             /\ Ahead(m_targetSequence[d]) > Ahead(lastKnown[c])
             /\ Ahead(m_targetSequence[d]) <= MaxAhead
        /\ -(Window + Window) <= Ahead(lastKnown[c]) /\ Ahead(lastKnown[c]) <= 0
    BY <1>1, TakenLists
  <1> HIDE DEF later
  <1>4. Ahead(lastKnown[c]) \in Int /\ \A d \in Waiters : Ahead(m_targetSequence[d]) \in Int
    BY <1>1, BarrierValues
  <1>5. \A d : d \in ToSet(later) <=> d \in Waiters /\ OnList(d, later)
    BY <1>3 DEF ToSet, OnList
  <1>6. minDiff \in all /\ \A n \in all : minDiff <= n
    <2>1. all \in SUBSET Nat
      <3>1. ASSUME NEW d \in ToSet(later) PROVE Difference(m_targetSequence[d], lastKnown[c]) \in Nat
        BY <1>3, <1>4, <1>5
      <3>2. 2^(Width - 1) - 1 \in Nat
        BY HalfOfRange DEF Half
      <3>3. QED BY <3>1, <3>2
    <2>2. all # {}
      OBVIOUS
    <2> HIDE DEF all
    <2>3. \E m \in all : \A n \in all : m <= n
      BY <2>1, <2>2, LeastNumber
    <2>4. QED BY <2>3
  <1>7. minDiff \in Nat /\ minDiff < Half
    <2>1. ASSUME NEW d \in ToSet(later)
          PROVE  Difference(m_targetSequence[d], lastKnown[c]) \in Nat /\ Difference(m_targetSequence[d], lastKnown[c]) < Half
      <3>1. m_targetSequence[d] \in Sequences
        BY <1>5, BarrierValues
      <3>2. QED BY <1>1, <1>3, <1>4, <1>5, <3>1, DifferenceType
    <2>2. 2^(Width - 1) - 1 \in Nat /\ 2^(Width - 1) - 1 < Half
      BY HalfOfRange DEF Half
    <2>3. QED BY <1>6, <2>1, <2>2
  <1>8. ASSUME NEW d \in Waiters, OnList(d, later)
        PROVE  minDiff <= Ahead(m_targetSequence[d]) - Ahead(lastKnown[c])
    BY <1>3, <1>5, <1>6, <1>8
  <1> HIDE DEF minDiff
  <1>9. targetSequence' \in [Waiters -> Sequences] /\ targetSequence'[c] = Advance(lastKnown[c], minDiff)
        /\ \A d \in Waiters : d # c => targetSequence'[d] = targetSequence[d]
    <2>1. Advance(lastKnown[c], minDiff) \in Sequences
      BY <1>1, <1>7, AdvanceType
    <2>2. targetSequence \in [Waiters -> Sequences]
      BY BarrierValues
    <2>3. QED BY <1>2, <2>1, <2>2
  <1>10. ASSUME later # << >>
         PROVE  /\ Ahead(lastKnown[c]) <= Ahead(targetSequence'[c]) /\ Ahead(targetSequence'[c]) <= MaxAhead
                /\ \A d \in Waiters : OnList(d, later) => Ahead(targetSequence'[c]) <= Ahead(m_targetSequence[d])
    <2>1. PICK e \in Waiters : OnList(e, later)
      BY <1>3, <1>10, EmptyIsEmpty
    <2>2. PICK k \in Int : k = Ahead(lastKnown[c])
      BY <1>4
    <2>3. k + minDiff <= Ahead(m_targetSequence[e]) /\ Ahead(m_targetSequence[e]) <= MaxAhead
      BY <1>3, <1>4, <1>7, <1>8, <2>1, <2>2
    <2>4. k + minDiff \in Int /\ k + minDiff <= MaxAhead /\ k <= k + minDiff /\ k + minDiff < Half /\ -Half <= k + minDiff
      BY <1>3, <1>4, <1>7, <2>1, <2>2, <2>3, WindowFacts
    <2>5. Ahead(targetSequence'[c]) = k + minDiff
      BY <1>1, <1>7, <1>9, <2>2, <2>4, WindowFacts, DifferenceOnward DEF Ahead
    <2>6. \A d \in Waiters : OnList(d, later) => k + minDiff <= Ahead(m_targetSequence[d])
      BY <1>4, <1>7, <1>8, <2>2
    <2>7. QED BY <2>2, <2>4, <2>5, <2>6
  <1>11. Take(c, label)
    BY <1>2, <1>9 DEF Take, later
  <1>12. WaiterTakes(c, label)
    BY <1>1, <1>10 DEF WaiterTakes, later
  <1> HIDE DEF label
  <1>13. QED BY <1>1, <1>11, <1>12, TakeStep

LEMMA PublishAcquiresStep ==
  ASSUME BarrierInv, PublishAcquires
  PROVE  BarrierInv'
  <1> DEFINE later == Unsatisfied(m_awaiters, lastKnown[Publisher])
             label == IF later # << >> THEN "requeue" ELSE IF m_awaiters = << >> THEN "idle" ELSE "resume"
  <1>1. /\ pc[Publisher] = "exchange" /\ m_awaiters' = << >>
        /\ awaitersToResume' = [awaitersToResume EXCEPT ![Publisher] = Satisfied(m_awaiters, lastKnown[Publisher])]
        /\ awaitersToRequeue' = [awaitersToRequeue EXCEPT ![Publisher] = later]
        /\ pc' = [pc EXCEPT ![Publisher] = label]
        /\ UNCHANGED <<m_lastPublished, m_targetSequence, m_lastKnownPublished, m_readyToResume, targetSequence, lastKnown>>
    BY DEF PublishAcquires, Goto, operations
  <1>2. targetSequence \in [Waiters -> Sequences]
    BY BarrierValues
  <1>3. awaitersToResume[Publisher] \o Satisfied(m_awaiters, lastKnown[Publisher]) = Satisfied(m_awaiters, lastKnown[Publisher])
    <2>1. Satisfied(m_awaiters, lastKnown[Publisher]) \in Seq(Waiters)
      BY <1>1, BarrierParties, TakenLists
    <2>2. awaitersToResume[Publisher] = << >>
      BY <1>1, BarrierParties DEF BarrierInv, BarrierLocals
    <2>3. QED BY <2>1, <2>2
  <1>4. awaitersToResume' = [awaitersToResume EXCEPT ![Publisher] = @ \o Satisfied(m_awaiters, lastKnown[Publisher])]
    BY <1>1, <1>3
  <1>5. Take(Publisher, label) /\ PublisherTakes(Publisher, label)
    BY <1>1, <1>2, <1>4 DEF Take, PublisherTakes
  <1> HIDE DEF label
  <1>6. QED BY <1>5, BarrierParties, TakeStep

LEMMA RequeueSteps ==
  ASSUME BarrierInv, PublishRequeues \/ \E c \in Waiters : EnqueueAwaiters(c)
  PROVE  BarrierInv'
  <1>1. CASE PublishRequeues
    <2>1. PutBack(Publisher, "resume") /\ pc[Publisher] = "requeue"
      BY <1>1 DEF PublishRequeues, Goto, operations, PutBack
    <2>2. QED BY <2>1, BarrierParties, PutBackStep
  <1>2. CASE \E c \in Waiters : EnqueueAwaiters(c)
    <2>1. PICK c \in Waiters : EnqueueAwaiters(c)
      BY <1>2
    <2>2. PutBack(c, "check") /\ pc[c] = "enqueue"
      BY <2>1 DEF EnqueueAwaiters, Goto, operations, PutBack
    <2>3. QED BY <2>2, BarrierParties, PutBackStep
  <1>3. QED BY <1>1, <1>2
(* publish() finds the stack empty, or returns.                            *)
LEMMA PublisherMovesStep ==
  ASSUME BarrierInv, PublishLoads \/ PublishReturns
  PROVE  BarrierInv'
  <1> USE BarrierParties
  <1>1. BarrierTypes /\ BarrierLocals /\ BarrierLists /\ BarrierNumbers /\ BarrierListNumbers /\ BarrierAttended
    BY DEF BarrierInv
  <1>2. PICK label \in {"idle", "exchange"} :
          /\ pc' = [pc EXCEPT ![Publisher] = label]
          /\ label = "idle" => m_awaiters = << >> \/ pc[Publisher] = "resume"
          /\ pc[Publisher] \in {"load", "resume"}
          /\ awaitersToResume[Publisher] = << >> /\ awaitersToRequeue[Publisher] = << >>
    BY <1>1 DEF PublishLoads, PublishReturns, Goto, BarrierLocals
  <1>3. UNCHANGED <<m_lastPublished, m_awaiters, m_targetSequence, m_lastKnownPublished, m_readyToResume,
                    awaitersToRequeue, awaitersToResume, targetSequence, lastKnown>>
    BY DEF PublishLoads, PublishReturns, operations, locals
  <1>4. /\ pc' \in [Threads -> WaiterLabels \cup PublisherLabels] /\ pc'[Publisher] = label
        /\ \A u \in Threads : u # Publisher => pc'[u] = pc[u]
        /\ \A c \in Waiters : pc'[c] \in WaiterLabels
        /\ pc'[Publisher] \in PublisherLabels
        /\ \A c \in Waiters : Waiting(c)' <=> Waiting(c)
    <2>1. label \in PublisherLabels
      BY DEF PublisherLabels
    <2>2. QED BY <1>2, <1>3, <2>1, BarrierMoves
  <1>5. BarrierTypes'
    BY <1>1, <1>3, <1>4 DEF BarrierTypes, BarrierTypeOK, WaiterLabels, PublisherLabels
  <1>6. BarrierLocals'
    BY <1>1, <1>2, <1>3, <1>4 DEF BarrierLocals
  <1>7. BarrierLists'
    BY <1>1, <1>3, <1>4, AllListsKept
  <1>8. BarrierNumbers'
    <2> SUFFICES ASSUME NEW c \in Waiters PROVE NumbersOf(c)'
      BY DEF BarrierNumbers
    <2>1. NumbersOf(c) /\ pc'[c] = pc[c]
      BY <1>1, <1>4 DEF BarrierNumbers
    <2>2. QED BY <1>3, <1>4, <2>1, NumbersKept
  <1>9. BarrierListNumbers'
    BY <1>1, <1>3 DEF BarrierListNumbers, ListNumbersOf, Ahead
  <1>10. BarrierAttended'
    <2>1. m_awaiters = << >> => \A c : ~OnList(c, m_awaiters)
      BY OnEmptyList
    <2>2. \A d \in Waiters : pc'[d] = pc[d]
      BY <1>4
    <2>3. m_awaiters # << >> /\ pc[Publisher] \in {"load", "exchange"} => pc'[Publisher] = "exchange"
      BY <1>2, <1>4
    <2>4. QED BY <1>1, <1>3, <2>1, <2>2, <2>3 DEF BarrierAttended, Ahead
  <1>11. QED BY <1>5, <1>6, <1>7, <1>8, <1>9, <1>10 DEF BarrierInv

(* Whether a number within half the range has been published.              *)
LEMMA PublishedIsBehind ==
  ASSUME m_lastPublished \in Sequences, NEW s \in Sequences, Ahead(s) < Half, -Half < Ahead(s)
  PROVE  /\ Difference(m_lastPublished, s) = -Ahead(s)
         /\ Precedes(m_lastPublished, s) <=> Ahead(s) > 0
  <1>1. Ahead(s) \in Int /\ Difference(m_lastPublished, m_lastPublished) = 0
    BY DifferenceType DEF Ahead
  <1>2. -Half <= 0 - Ahead(s) /\ 0 - Ahead(s) < Half
    BY <1>1, WindowFacts
  <1>3. Difference(m_lastPublished, s) = 0 - Ahead(s)
    BY <1>1, <1>2, DifferenceAdds DEF Ahead
  <1>4. QED BY <1>1, <1>3 DEF Precedes

LEMMA CheckStep ==
  ASSUME BarrierInv, NEW c \in Waiters, CheckPublished(c)
  PROVE  BarrierInv'
  <1> USE BarrierParties
  <1>1. BarrierTypes /\ BarrierLocals /\ BarrierLists /\ BarrierNumbers /\ BarrierListNumbers /\ BarrierAttended
    BY DEF BarrierInv
  <1>2. /\ pc[c] = "check" /\ lastKnown' = [lastKnown EXCEPT ![c] = m_lastPublished]
        /\ pc' = [pc EXCEPT ![c] = IF Precedes(m_lastPublished, targetSequence[c]) THEN "resume" ELSE "acquire"]
        /\ UNCHANGED <<m_lastPublished, m_awaiters, m_targetSequence, m_lastKnownPublished, m_readyToResume,
                       awaitersToRequeue, awaitersToResume, targetSequence>>
    BY DEF CheckPublished, Goto, operations
  <1>3. /\ m_lastPublished \in Sequences /\ targetSequence[c] \in Sequences /\ lastKnown \in [Threads -> Sequences]
        /\ \A s \in Sequences : Ahead(s) \in Int
        /\ m_lastKnownPublished[c] \in Sequences
        /\ \A d \in Waiters : m_targetSequence[d] \in Sequences
    BY BarrierValues
  <1>4. Precedes(m_lastPublished, targetSequence[c]) <=> Ahead(targetSequence[c]) > 0
    <2>1. NumbersOf(c)
      BY <1>1 DEF BarrierNumbers
    <2>2. -Half < Ahead(targetSequence[c]) /\ Ahead(targetSequence[c]) < Half
      BY <1>2, <1>3, <2>1, WindowFacts DEF NumbersOf, Compared
    <2>3. QED BY <1>3, <2>2, PublishedIsBehind
  <1>5. PICK label \in {"resume", "acquire"} :
          pc' = [pc EXCEPT ![c] = label] /\ (label = "resume" <=> Ahead(targetSequence[c]) > 0)
    BY <1>2, <1>4
  <1>6. /\ pc' \in [Threads -> WaiterLabels \cup PublisherLabels] /\ pc'[c] = label
        /\ \A u \in Threads : u # c => pc'[u] = pc[u]
        /\ \A d \in Waiters : pc'[d] \in WaiterLabels
        /\ pc'[Publisher] \in PublisherLabels
        /\ \A d \in Waiters : Waiting(d)' <=> Waiting(d)
    <2>1. label \in WaiterLabels
      BY DEF WaiterLabels
    <2>2. QED BY <1>2, <1>5, <2>1, BarrierMoves
  <1>7. /\ lastKnown' \in [Threads -> Sequences] /\ lastKnown'[c] = m_lastPublished /\ Ahead(m_lastPublished) = 0
        /\ \A u \in Threads : u # c => lastKnown'[u] = lastKnown[u]
    BY <1>2, <1>3, DifferenceType DEF Ahead
  <1>8. BarrierTypes'
    BY <1>1, <1>2, <1>6, <1>7 DEF BarrierTypes, BarrierTypeOK, WaiterLabels, PublisherLabels
  <1>9. BarrierLocals'
    BY <1>1, <1>2, <1>6, <1>7 DEF BarrierLocals
  <1>10. BarrierLists'
    BY <1>1, <1>2, <1>6, AllListsKept
  <1>11. BarrierNumbers'
    <2> SUFFICES ASSUME NEW d \in Waiters PROVE NumbersOf(d)'
      BY DEF BarrierNumbers
    <2>1. NumbersOf(d) /\ (Waiting(d)' <=> Waiting(d))
      BY <1>1, <1>6 DEF BarrierNumbers
    <2>2. CASE d # c
      BY <1>2, <1>6, <1>7, <2>1, <2>2, NumbersKept
    <2>3. CASE d = c
      <3>1. pc[c] # "idle" /\ pc'[c] \notin {"idle", "enqueue", "check"}
        BY <1>2, <1>6
      <3>2. Ahead(m_lastKnownPublished[c]) <= 0 /\ Ahead(m_lastKnownPublished[c]) - Window <= 0
        BY <1>3, <2>1, <2>3, WindowFacts DEF NumbersOf
      <3>3. QED BY <1>2, <1>7, <2>1, <2>3, <3>1, <3>2 DEF NumbersOf, Compared, Ahead
    <2>4. QED BY <2>2, <2>3
  <1>12. BarrierListNumbers'
    <2> SUFFICES ASSUME NEW d \in Waiters PROVE ListNumbersOf(d)'
      BY DEF BarrierListNumbers
    <2>1. ListNumbersOf(d)
      BY <1>1 DEF BarrierListNumbers
    <2>2. ASSUME NEW u \in Threads, OnList(d, awaitersToResume[u])
          PROVE  Ahead(m_targetSequence[d]) <= Ahead(lastKnown'[u]) /\ Ahead(lastKnown'[u]) <= 0
      <3>1. Ahead(m_targetSequence[d]) <= Ahead(lastKnown[u]) /\ Ahead(lastKnown[u]) <= 0
        BY <2>1, <2>2 DEF ListNumbersOf
      <3>2. Ahead(m_targetSequence[d]) <= 0
        BY <1>3, <3>1
      <3>3. QED BY <1>7, <3>1, <3>2
    <2>3. QED BY <1>2, <2>1, <2>2 DEF ListNumbersOf, Ahead
  <1>13. BarrierAttended'
    <2> SUFFICES ASSUME NEW d \in Waiters, OnList(d, m_awaiters), Ahead(m_targetSequence[d]) <= 0
                 PROVE  \/ pc'[Publisher] \in {"load", "exchange"}
                        \/ \E e \in Waiters : \/ pc'[e] = "acquire"
                                              \/ pc'[e] = "check" /\ Ahead(targetSequence[e]) <= Ahead(m_targetSequence[d])
      BY <1>2 DEF BarrierAttended, Ahead
    <2>1. CASE Ahead(targetSequence[c]) <= Ahead(m_targetSequence[d])
      <3>1. ~(Ahead(targetSequence[c]) > 0)
        BY <1>3, <2>1
      <3>2. QED BY <1>5, <1>6, <3>1
    <2>2. CASE ~(Ahead(targetSequence[c]) <= Ahead(m_targetSequence[d]))
      <3>1. pc'[Publisher] = pc[Publisher] /\ \A e \in Waiters : e # c => pc'[e] = pc[e]
        BY <1>6
      <3>2. QED BY <1>1, <1>2, <2>2, <3>1 DEF BarrierAttended
    <2>3. QED BY <2>1, <2>2
  <1>14. QED BY <1>8, <1>9, <1>10, <1>11, <1>12, <1>13 DEF BarrierInv

(* The end of add_awaiter().                                               *)
LEMMA SuspendStep ==
  ASSUME BarrierInv, NEW c \in Waiters, SuspendOrContinue(c)
  PROVE  BarrierInv'
  <1> USE BarrierParties
  <1>1. BarrierTypes /\ BarrierLocals /\ BarrierLists /\ BarrierNumbers /\ BarrierListNumbers /\ BarrierAttended
    BY DEF BarrierInv
  <1>2. /\ pc[c] = "resume" /\ awaitersToResume[c] = << >> /\ m_readyToResume' = [m_readyToResume EXCEPT ![c] = TRUE]
        /\ pc' = [pc EXCEPT ![c] = IF m_readyToResume[c] THEN "idle" ELSE "suspended"]
        /\ targetSequence' = [targetSequence EXCEPT ![c] = initial_sequence]
        /\ lastKnown' = [lastKnown EXCEPT ![c] = initial_sequence]
        /\ UNCHANGED <<m_lastPublished, m_awaiters, m_targetSequence, m_lastKnownPublished, awaitersToRequeue, awaitersToResume>>
    BY DEF SuspendOrContinue, Goto
  <1>3. /\ m_readyToResume \in [Waiters -> BOOLEAN] /\ pc \in [Threads -> WaiterLabels \cup PublisherLabels]
        /\ (\A d \in Waiters : pc[d] \in WaiterLabels) /\ pc[Publisher] \in PublisherLabels
        /\ targetSequence \in [Waiters -> Sequences] /\ lastKnown \in [Threads -> Sequences]
    BY BarrierValues
  <1>4. /\ pc' \in [Threads -> WaiterLabels \cup PublisherLabels]
        /\ pc'[c] = (IF m_readyToResume[c] THEN "idle" ELSE "suspended") /\ \A u \in Threads : u # c => pc'[u] = pc[u]
        /\ m_readyToResume' \in [Waiters -> BOOLEAN] /\ m_readyToResume'[c] = TRUE
        /\ \A d \in Waiters : d # c => m_readyToResume'[d] = m_readyToResume[d]
    BY <1>2, <1>3 DEF WaiterLabels
  <1>5. (\A d \in Waiters : pc'[d] \in WaiterLabels) /\ pc'[Publisher] \in PublisherLabels
    BY <1>3, <1>4 DEF WaiterLabels
  <1>6. \A d \in Waiters : Waiting(d)' <=> Waiting(d)
    BY <1>2, <1>4 DEF Waiting
  <1>7. /\ targetSequence' \in [Waiters -> Sequences] /\ lastKnown' \in [Threads -> Sequences]
        /\ \A d \in Waiters : d # c => targetSequence'[d] = targetSequence[d]
        /\ \A u \in Threads : u # c => lastKnown'[u] = lastKnown[u]
    BY <1>2, <1>3, HalfOfRange
  <1>8. awaitersToRequeue[c] = << >>
    BY <1>1, <1>2 DEF BarrierLocals
  <1>9. BarrierTypes'
    BY <1>1, <1>2, <1>4, <1>5, <1>7 DEF BarrierTypes, BarrierTypeOK, WaiterLabels, PublisherLabels
  <1>10. BarrierLocals'
    BY <1>1, <1>2, <1>4, <1>7, <1>8 DEF BarrierLocals
  <1>11. BarrierLists'
    BY <1>1, <1>2, <1>6, AllListsKept
  <1>12. BarrierNumbers'
    <2> SUFFICES ASSUME NEW d \in Waiters PROVE NumbersOf(d)'
      BY DEF BarrierNumbers
    <2>1. NumbersOf(d) /\ (Waiting(d)' <=> Waiting(d))
      BY <1>1, <1>6 DEF BarrierNumbers
    <2>2. CASE d # c
      BY <1>2, <1>4, <1>7, <2>1, <2>2, NumbersKept
    <2>3. CASE d = c
      <3>1. pc[c] # "idle" /\ pc'[c] \notin {"acquire", "enqueue", "check"}
        BY <1>2, <1>4
      <3>2. QED BY <1>2, <2>1, <2>3, <3>1, NumbersKept
    <2>4. QED BY <2>2, <2>3
  <1>13. BarrierListNumbers'
    <2> SUFFICES ASSUME NEW d \in Waiters PROVE ListNumbersOf(d)'
      BY DEF BarrierListNumbers
    <2>1. ListNumbersOf(d)
      BY <1>1 DEF BarrierListNumbers
    <2>2. ~OnList(d, awaitersToResume[c]) /\ ~OnList(d, awaitersToRequeue[c])
      BY <1>2, <1>8, OnEmptyList
    <2>3. QED BY <1>2, <1>7, <2>1, <2>2 DEF ListNumbersOf, Ahead
  <1>14. BarrierAttended'
    <2>1. \A d \in Waiters : pc[d] \in {"acquire", "check"} => pc'[d] = pc[d] /\ targetSequence'[d] = targetSequence[d]
      BY <1>2, <1>4, <1>7
    <2>2. pc'[Publisher] = pc[Publisher]
      BY <1>4
    <2>3. QED BY <1>1, <1>2, <2>1, <2>2 DEF BarrierAttended, Ahead
  <1>15. QED BY <1>9, <1>10, <1>11, <1>12, <1>13, <1>14 DEF BarrierInv

(* A thread resumes the first operation of its list.                       *)
LEMMA ResumeStep ==
  ASSUME BarrierInv, NEW t \in Threads, ResumeAwaiter(t)
  PROVE  BarrierInv'
  <1> USE BarrierParties
  <1> DEFINE first == Head(awaitersToResume[t])
  <1>1. BarrierTypes /\ BarrierLocals /\ BarrierLists /\ BarrierNumbers /\ BarrierListNumbers /\ BarrierAttended
    BY DEF BarrierInv
  <1>2. /\ pc[t] = "resume" /\ awaitersToResume[t] # << >>
        /\ m_lastKnownPublished' = [m_lastKnownPublished EXCEPT ![first] = lastKnown[t]]
        /\ m_readyToResume' = [m_readyToResume EXCEPT ![first] = TRUE]
        /\ pc' = (IF m_readyToResume[first] THEN [pc EXCEPT ![first] = "idle"] ELSE pc)
        /\ awaitersToResume' = [awaitersToResume EXCEPT ![t] = Tail(@)]
        /\ UNCHANGED <<m_lastPublished, m_awaiters, m_targetSequence, awaitersToRequeue, targetSequence, lastKnown>>
    BY DEF ResumeAwaiter
  <1>3. /\ m_readyToResume \in [Waiters -> BOOLEAN] /\ pc \in [Threads -> WaiterLabels \cup PublisherLabels]
        /\ (\A d \in Waiters : pc[d] \in WaiterLabels) /\ pc[Publisher] \in PublisherLabels
        /\ awaitersToResume \in [Threads -> Seq(Waiters)] /\ awaitersToResume[t] \in Seq(Waiters)
        /\ m_lastKnownPublished \in [Waiters -> Sequences] /\ lastKnown \in [Threads -> Sequences]
        /\ m_targetSequence \in [Waiters -> Sequences] /\ targetSequence \in [Waiters -> Sequences]
        /\ \A s \in Sequences : Ahead(s) \in Int
    BY BarrierValues
  <1>4. PICK c \in Waiters : c = first
    BY <1>2, <1>3, SMTT(40)
  <1>5. /\ Tail(awaitersToResume[t]) \in Seq(Waiters)
        /\ \A d : OnList(d, awaitersToResume[t]) <=> d = c \/ OnList(d, Tail(awaitersToResume[t]))
        /\ \A d : OnceOnList(d, awaitersToResume[t]) =>
                    OnceOnList(d, Tail(awaitersToResume[t])) /\ (d = c => ~OnList(d, Tail(awaitersToResume[t])))
    BY <1>2, <1>3, <1>4, OnTail
  <1>6. /\ awaitersToResume' \in [Threads -> Seq(Waiters)] /\ awaitersToResume'[t] = Tail(awaitersToResume[t])
        /\ \A u \in Threads : u # t => awaitersToResume'[u] = awaitersToResume[u]
    BY <1>2, <1>3, <1>5
  <1>7. Waiting(c) /\ InHand(c, t) /\ ListsOf(c) /\ OnList(c, awaitersToResume[t])
    BY <1>1, <1>5 DEF BarrierLists, ListsOf, InHand
  <1>8. /\ m_readyToResume[c] => pc[c] = "suspended"
        /\ ~m_readyToResume[c] => pc[c] \notin {"idle", "suspended"}
    BY <1>1, <1>7 DEF Waiting, BarrierLocals
  <1>9. /\ m_readyToResume' \in [Waiters -> BOOLEAN] /\ m_readyToResume'[c] = TRUE
        /\ \A d \in Waiters : d # c => m_readyToResume'[d] = m_readyToResume[d]
        /\ m_lastKnownPublished' \in [Waiters -> Sequences] /\ m_lastKnownPublished'[c] = lastKnown[t]
        /\ \A d \in Waiters : d # c => m_lastKnownPublished'[d] = m_lastKnownPublished[d]
    BY <1>2, <1>3, <1>4
  <1>10. /\ pc' \in [Threads -> WaiterLabels \cup PublisherLabels]
         /\ pc'[c] = (IF m_readyToResume[c] THEN "idle" ELSE pc[c]) /\ \A u \in Threads : u # c => pc'[u] = pc[u]
    BY <1>2, <1>3, <1>4 DEF WaiterLabels
  <1>11. (\A d \in Waiters : pc'[d] \in WaiterLabels) /\ pc'[Publisher] \in PublisherLabels /\ pc'[Publisher] = pc[Publisher]
    BY <1>3, <1>10 DEF WaiterLabels
  <1>12. ~Waiting(c)' /\ \A d \in Waiters : d # c => (Waiting(d)' <=> Waiting(d))
    BY <1>8, <1>9, <1>10 DEF Waiting
  <1> HIDE DEF first
  <1>13. BarrierTypes'
    BY <1>1, <1>2, <1>6, <1>9, <1>10, <1>11 DEF BarrierTypes, BarrierTypeOK, WaiterLabels, PublisherLabels
  <1>14. \A u \in Threads : pc'[u] = pc[u] \/ (u = c /\ pc[u] = "suspended" /\ pc'[u] = "idle")
    BY <1>8, <1>10
  <1>15. BarrierLocals'
    <2>1. ASSUME NEW u \in Threads
          PROVE  /\ awaitersToRequeue'[u] # << >> => pc'[u] \in {"enqueue", "requeue"}
                 /\ awaitersToResume'[u] # << >> => pc'[u] \in {"enqueue", "check", "acquire", "requeue", "resume"}
      <3>1. /\ awaitersToRequeue[u] # << >> => pc[u] \in {"enqueue", "requeue"}
            /\ awaitersToResume[u] # << >> => pc[u] \in {"enqueue", "check", "acquire", "requeue", "resume"}
        BY <1>1 DEF BarrierLocals
      <3>2. awaitersToResume'[u] # << >> => awaitersToResume[u] # << >>
        BY <1>2, <1>6
      <3>3. QED BY <1>2, <1>14, <3>1, <3>2
    <2>2. \A d \in Waiters : pc'[d] = "suspended" => m_readyToResume'[d]
      BY <1>1, <1>9, <1>10 DEF BarrierLocals
    <2>3. pc'[Publisher] # "idle" => lastKnown'[Publisher] = m_lastPublished'
      BY <1>1, <1>2, <1>11 DEF BarrierLocals
    <2>4. QED BY <2>1, <2>2, <2>3 DEF BarrierLocals
  <1>16. BarrierLists'
    <2> SUFFICES ASSUME NEW d \in Waiters PROVE ListsOf(d)'
      BY DEF BarrierLists
    <2>1. ListsOf(d)
      BY <1>1 DEF BarrierLists
    <2>2. \A u \in Threads : OnceOnList(d, awaitersToResume'[u]) /\ OnceOnList(d, awaitersToRequeue'[u])
      BY <1>2, <1>5, <1>6, <2>1 DEF ListsOf
    <2>3. CASE d # c
      <3>1. \A u \in Threads : OnList(d, awaitersToResume'[u]) <=> OnList(d, awaitersToResume[u])
        BY <1>5, <1>6, <2>3
      <3>2. QED BY <1>2, <1>12, <2>1, <2>2, <2>3, <3>1, ListsKept DEF ListsOf
    <2>4. CASE d = c
      <3>1. ~OnList(c, m_awaiters) /\ \A u \in Threads : InHand(c, u) => t = u
        BY <1>7 DEF ListsOf
      <3>2. ~OnList(c, awaitersToRequeue[t])
        BY <1>7 DEF ListsOf
      <3>3. ~OnList(c, awaitersToResume'[t])
        BY <1>5, <1>6, <1>7 DEF ListsOf
      <3>4. \A u \in Threads : ~OnList(c, awaitersToRequeue'[u]) /\ ~OnList(c, awaitersToResume'[u])
        BY <1>2, <1>6, <3>1, <3>2, <3>3 DEF InHand
      <3>5. QED BY <1>2, <1>12, <2>1, <2>2, <2>4, <3>1, <3>4 DEF ListsOf, InHand
    <2>5. QED BY <2>3, <2>4
  <1>17. BarrierNumbers'
    <2> SUFFICES ASSUME NEW d \in Waiters PROVE NumbersOf(d)'
      BY DEF BarrierNumbers
    <2>1. NumbersOf(d)
      BY <1>1 DEF BarrierNumbers
    <2>2. CASE d # c
      BY <1>2, <1>9, <1>10, <1>12, <2>1, <2>2, NumbersKept
    <2>3. CASE d = c
      <3>1. PICK k \in Int : k = Ahead(m_lastKnownPublished[c])
        BY <1>3
      <3>2. PICK new \in Int : new = Ahead(lastKnown[t])
        BY <1>3
      <3>3. PICK target \in Int : target = Ahead(m_targetSequence[c])
        BY <1>3
      <3>4. target <= new /\ new <= 0
        BY <1>1, <1>7, <3>2, <3>3 DEF BarrierListNumbers, ListNumbersOf
      <3>5. -Window <= k /\ k < target
        BY <1>7, <2>1, <2>3, <3>1, <3>3 DEF NumbersOf
      <3>6. -Window <= new /\ target <= new /\ new <= target + Window /\ new - Window <= k
        BY <3>4, <3>5, WindowFacts
      <3>7. \A s \in Sequences : Compared(c, s) => new - Window <= Ahead(s)
        BY <1>3, <1>7, <3>1, <3>6, WindowFacts DEF Compared
      <3>8. pc'[c] # "idle" => pc'[c] = pc[c]
        BY <1>10
      <3>9. UNCHANGED m_lastPublished /\ m_lastKnownPublished'[c] = lastKnown[t] /\ m_targetSequence'[c] = m_targetSequence[c]
            /\ lastKnown' = lastKnown /\ targetSequence' = targetSequence
        BY <1>2, <1>9
      <3>10. /\ pc'[c] = "acquire" => Compared(c, lastKnown[c])' /\ Ahead(lastKnown[c])' <= 0
             /\ pc'[c] \in {"enqueue", "check"} => Compared(c, targetSequence[c])' /\ Ahead(targetSequence[c])' <= MaxAhead
        BY <1>3, <1>12, <2>1, <2>3, <3>2, <3>7, <3>8, <3>9 DEF NumbersOf, Compared, Ahead
      <3>11. QED BY <1>12, <2>3, <3>2, <3>3, <3>4, <3>6, <3>9, <3>10 DEF NumbersOf, Ahead
    <2>4. QED BY <2>2, <2>3
  <1>18. BarrierListNumbers'
    <2> SUFFICES ASSUME NEW d \in Waiters PROVE ListNumbersOf(d)'
      BY DEF BarrierListNumbers
    <2>1. ListNumbersOf(d)
      BY <1>1 DEF BarrierListNumbers
    <2>2. \A u \in Threads : OnList(d, awaitersToResume'[u]) => OnList(d, awaitersToResume[u])
      BY <1>5, <1>6
    <2>3. QED BY <1>2, <2>1, <2>2 DEF ListNumbersOf, Ahead
  <1>19. BarrierAttended'
    <2>1. \A d \in Waiters : pc[d] \in {"acquire", "check"} => pc'[d] = pc[d]
      BY <1>14
    <2>2. QED BY <1>1, <1>2, <1>11, <2>1 DEF BarrierAttended, Ahead
  <1>20. QED BY <1>13, <1>15, <1>16, <1>17, <1>18, <1>19 DEF BarrierInv

(* A coroutine starts to wait, or finds its target published.              *)
LEMMA WaitStep ==
  ASSUME BarrierInv, NEW c \in Waiters, WaitAhead(c)
  PROVE  BarrierInv'
  <1> USE BarrierParties
  <1>1. BarrierTypes /\ BarrierLocals /\ BarrierLists /\ BarrierNumbers /\ BarrierListNumbers /\ BarrierAttended
    BY DEF BarrierInv
  <1>2. PICK n \in 1 .. MaxAhead : Wait(c, Advance(m_lastKnownPublished[c], n))
    BY DEF WaitAhead
  <1>3. /\ m_readyToResume \in [Waiters -> BOOLEAN] /\ pc \in [Threads -> WaiterLabels \cup PublisherLabels]
        /\ (\A d \in Waiters : pc[d] \in WaiterLabels) /\ pc[Publisher] \in PublisherLabels
        /\ m_lastPublished \in Sequences /\ m_targetSequence \in [Waiters -> Sequences]
        /\ m_lastKnownPublished \in [Waiters -> Sequences] /\ targetSequence \in [Waiters -> Sequences]
        /\ awaitersToRequeue \in [Threads -> Seq(Waiters)]
        /\ \A s \in Sequences : Ahead(s) \in Int
    BY BarrierValues
  <1>4. PICK target : target = Advance(m_lastKnownPublished[c], n)
    OBVIOUS
  <1>5. /\ pc[c] = "idle" /\ m_targetSequence' = [m_targetSequence EXCEPT ![c] = target]
        /\ m_lastKnownPublished' = [m_lastKnownPublished EXCEPT ![c] = m_lastPublished]
        /\ m_readyToResume' = [m_readyToResume EXCEPT ![c] = FALSE]
        /\ UNCHANGED <<m_lastPublished, m_awaiters, awaitersToResume, lastKnown>>
        /\ ~Precedes(m_lastPublished, target) => UNCHANGED <<pc, awaitersToRequeue, targetSequence>>
        /\ Precedes(m_lastPublished, target) =>
             /\ awaitersToRequeue' = [awaitersToRequeue EXCEPT ![c] = <<c>>]
             /\ targetSequence' = [targetSequence EXCEPT ![c] = target]
             /\ pc' = [pc EXCEPT ![c] = "enqueue"]
    BY <1>2, <1>4 DEF Wait, Goto, locals
  <1>6. target \in Sequences /\ Ahead(target) \in Int /\ Ahead(target) <= MaxAhead /\ -Window <= Ahead(target)
    <2>1. PICK k \in Int : k = Ahead(m_lastKnownPublished[c])
      BY <1>3
    <2>2. -Window <= k /\ k <= 0
      BY <1>1, <2>1 DEF BarrierNumbers, NumbersOf
    <2>3. n \in Int /\ -Half <= n /\ n <= Half /\ -Half <= k + n /\ k + n < Half /\ k + n <= MaxAhead /\ -Window <= k + n
      BY <2>2, WindowFacts
    <2>4. Difference(target, m_lastPublished) = k + n
      BY <1>3, <1>4, <2>1, <2>3, DifferenceOnward DEF Ahead
    <2>5. target \in Sequences
      BY <1>3, <1>4, <2>3, AdvanceType
    <2>6. QED BY <2>3, <2>4, <2>5 DEF Ahead
  <1>7. Precedes(m_lastPublished, target) <=> Ahead(target) > 0
    <2>1. -Half < Ahead(target) /\ Ahead(target) < Half
      BY <1>6, WindowFacts
    <2>2. QED BY <1>3, <1>6, <2>1, PublishedIsBehind
  <1>8. /\ m_targetSequence' \in [Waiters -> Sequences] /\ m_targetSequence'[c] = target
        /\ \A d \in Waiters : d # c => m_targetSequence'[d] = m_targetSequence[d]
        /\ m_lastKnownPublished' \in [Waiters -> Sequences] /\ m_lastKnownPublished'[c] = m_lastPublished
        /\ \A d \in Waiters : d # c => m_lastKnownPublished'[d] = m_lastKnownPublished[d]
        /\ m_readyToResume' \in [Waiters -> BOOLEAN] /\ m_readyToResume'[c] = FALSE
        /\ \A d \in Waiters : d # c => m_readyToResume'[d] = m_readyToResume[d]
    BY <1>3, <1>5, <1>6
  <1>9. <<c>> \in Seq(Waiters) /\ \A d : (OnList(d, <<c>>) <=> d = c) /\ OnceOnList(d, <<c>>)
    BY OnSingleton
  <1>10. ASSUME Precedes(m_lastPublished, target)
         PROVE  /\ awaitersToRequeue' \in [Threads -> Seq(Waiters)] /\ awaitersToRequeue'[c] = <<c>>
                /\ \A u \in Threads : u # c => awaitersToRequeue'[u] = awaitersToRequeue[u]
                /\ targetSequence' \in [Waiters -> Sequences] /\ targetSequence'[c] = target
                /\ \A d \in Waiters : d # c => targetSequence'[d] = targetSequence[d]
                /\ pc' \in [Threads -> WaiterLabels \cup PublisherLabels] /\ pc'[c] = "enqueue"
                /\ \A u \in Threads : u # c => pc'[u] = pc[u]
    <2>1. /\ awaitersToRequeue' = [awaitersToRequeue EXCEPT ![c] = <<c>>]
          /\ targetSequence' = [targetSequence EXCEPT ![c] = target]
          /\ pc' = [pc EXCEPT ![c] = "enqueue"]
      BY <1>5, <1>10
    <2>2. /\ awaitersToRequeue' \in [Threads -> Seq(Waiters)] /\ awaitersToRequeue'[c] = <<c>>
          /\ \A u \in Threads : u # c => awaitersToRequeue'[u] = awaitersToRequeue[u]
      BY <1>3, <1>9, <2>1
    <2>3. /\ targetSequence' \in [Waiters -> Sequences] /\ targetSequence'[c] = target
          /\ \A d \in Waiters : d # c => targetSequence'[d] = targetSequence[d]
      BY <1>3, <1>6, <2>1
    <2>4. "enqueue" \in WaiterLabels
      BY DEF WaiterLabels
    <2>5. /\ pc' \in [Threads -> WaiterLabels \cup PublisherLabels] /\ pc'[c] = "enqueue"
          /\ \A u \in Threads : u # c => pc'[u] = pc[u]
      BY <1>3, <2>1, <2>4
    <2>6. QED BY <2>2, <2>3, <2>5
  <1>11. /\ awaitersToRequeue' \in [Threads -> Seq(Waiters)] /\ targetSequence' \in [Waiters -> Sequences]
         /\ pc' \in [Threads -> WaiterLabels \cup PublisherLabels]
         /\ \A u \in Threads : u # c => pc'[u] = pc[u] /\ awaitersToRequeue'[u] = awaitersToRequeue[u]
         /\ \A d \in Waiters : d # c => targetSequence'[d] = targetSequence[d]
         /\ pc'[c] = (IF Precedes(m_lastPublished, target) THEN "enqueue" ELSE "idle")
    BY <1>3, <1>5, <1>10
  <1>12. (\A d \in Waiters : pc'[d] \in WaiterLabels) /\ pc'[Publisher] \in PublisherLabels /\ pc'[Publisher] = pc[Publisher]
    BY <1>3, <1>11 DEF WaiterLabels
  <1>13. /\ ~Waiting(c) /\ (Waiting(c)' <=> Precedes(m_lastPublished, target))
         /\ \A d \in Waiters : d # c => (Waiting(d)' <=> Waiting(d))
    BY <1>5, <1>8, <1>11 DEF Waiting
  <1>14. ListsOf(c) /\ ~OnList(c, m_awaiters) /\ \A u \in Threads : ~InHand(c, u)
    BY <1>1, <1>13 DEF BarrierLists, ListsOf
  <1>15. awaitersToResume[c] = << >> /\ awaitersToRequeue[c] = << >>
    BY <1>1, <1>5 DEF BarrierLocals
  <1>16. Ahead(m_lastPublished) = 0
    BY <1>3, DifferenceType DEF Ahead
  <1>17. BarrierTypes'
    BY <1>1, <1>5, <1>8, <1>11, <1>12 DEF BarrierTypes, BarrierTypeOK, WaiterLabels, PublisherLabels
  <1>18. BarrierLocals'
    <2>1. ASSUME NEW u \in Threads
          PROVE  /\ awaitersToRequeue'[u] # << >> => pc'[u] \in {"enqueue", "requeue"}
                 /\ awaitersToResume'[u] # << >> => pc'[u] \in {"enqueue", "check", "acquire", "requeue", "resume"}
      <3>1. CASE u # c
        BY <1>1, <1>5, <1>11, <3>1 DEF BarrierLocals
      <3>2. CASE u = c
        BY <1>5, <1>11, <1>15, <3>2
      <3>3. QED BY <3>1, <3>2
    <2>2. \A d \in Waiters : pc'[d] = "suspended" => m_readyToResume'[d]
      <3>1. \A d \in Waiters : pc'[d] = "suspended" => d # c /\ pc[d] = "suspended"
        BY <1>11
      <3>2. QED BY <1>1, <1>8, <3>1 DEF BarrierLocals
    <2>3. pc'[Publisher] # "idle" => lastKnown'[Publisher] = m_lastPublished'
      BY <1>1, <1>5, <1>12 DEF BarrierLocals
    <2>4. QED BY <2>1, <2>2, <2>3 DEF BarrierLocals
  <1>19. \A d \in Waiters : \A u \in Threads :
           /\ OnList(d, awaitersToRequeue'[u]) <=>
                (OnList(d, awaitersToRequeue[u]) \/ (d = c /\ u = c /\ Precedes(m_lastPublished, target)))
           /\ OnceOnList(d, awaitersToRequeue[u]) => OnceOnList(d, awaitersToRequeue'[u])
    <2> SUFFICES ASSUME NEW d \in Waiters, NEW u \in Threads
                 PROVE  /\ OnList(d, awaitersToRequeue'[u]) <=>
                             (OnList(d, awaitersToRequeue[u]) \/ (d = c /\ u = c /\ Precedes(m_lastPublished, target)))
                        /\ OnceOnList(d, awaitersToRequeue[u]) => OnceOnList(d, awaitersToRequeue'[u])
      OBVIOUS
    <2>1. CASE u # c
      BY <1>11, <2>1
    <2>2. CASE u = c /\ Precedes(m_lastPublished, target)
      <3>1. ~OnList(d, awaitersToRequeue[c])
        BY <1>15, OnEmptyList
      <3>2. QED BY <1>9, <1>10, <2>2, <3>1
    <2>3. CASE u = c /\ ~Precedes(m_lastPublished, target)
      BY <1>5, <2>3
    <2>4. QED BY <2>1, <2>2, <2>3
  <1>20. BarrierLists'
    <2> SUFFICES ASSUME NEW d \in Waiters PROVE ListsOf(d)'
      BY DEF BarrierLists
    <2>1. ListsOf(d)
      BY <1>1 DEF BarrierLists
    <2>2. CASE d # c
      BY <1>5, <1>13, <1>19, <2>1, <2>2, ListsKept DEF ListsOf
    <2>3. CASE d = c
      BY <1>5, <1>13, <1>14, <1>19, <2>1, <2>3 DEF ListsOf, InHand
    <2>4. QED BY <2>2, <2>3
  <1>21. BarrierNumbers'
    <2> SUFFICES ASSUME NEW d \in Waiters PROVE NumbersOf(d)'
      BY DEF BarrierNumbers
    <2>1. NumbersOf(d)
      BY <1>1 DEF BarrierNumbers
    <2>2. CASE d # c
      BY <1>5, <1>8, <1>11, <1>13, <2>1, <2>2, NumbersKept
    <2>3. CASE d = c
      <3>1. Ahead(m_lastKnownPublished[c])' = 0 /\ Ahead(m_targetSequence[c])' = Ahead(target)
        BY <1>5, <1>8, <1>16 DEF Ahead
      <3>2. pc'[c] # "idle" => Precedes(m_lastPublished, target) /\ Ahead(targetSequence[c])' = Ahead(target) /\ pc'[c] = "enqueue"
        BY <1>5, <1>10, <1>11 DEF Ahead
      <3>3. 0 - Window <= 0 /\ 0 + MaxAhead = MaxAhead /\ (Ahead(target) > 0 => 0 <= Ahead(target) /\ 0 - Window <= Ahead(target))
        BY <1>6, WindowFacts
      <3>4. QED BY <1>6, <1>7, <1>13, <2>3, <3>1, <3>2, <3>3, WindowFacts DEF NumbersOf, Compared
    <2>4. QED BY <2>2, <2>3
  <1>22. BarrierListNumbers'
    <2> SUFFICES ASSUME NEW d \in Waiters PROVE ListNumbersOf(d)'
      BY DEF BarrierListNumbers
    <2>1. ListNumbersOf(d)
      BY <1>1 DEF BarrierListNumbers
    <2>2. CASE d # c
      <3>1. \A u \in Threads : OnList(d, awaitersToRequeue'[u]) => OnList(d, awaitersToRequeue[u]) /\ u # c
        BY <1>15, <1>19, <2>2, OnEmptyList
      <3>2. QED BY <1>5, <1>8, <1>11, <2>1, <2>2, <3>1 DEF ListNumbersOf, Ahead
    <2>3. CASE d = c
      <3>1. \A u \in Threads : ~OnList(c, awaitersToResume'[u])
        BY <1>5, <1>14 DEF InHand
      <3>2. \A u \in Threads : OnList(c, awaitersToRequeue'[u]) => u = c /\ Precedes(m_lastPublished, target)
        BY <1>14, <1>19 DEF InHand
      <3>3. Precedes(m_lastPublished, target) => Ahead(targetSequence[c])' = Ahead(m_targetSequence[c])'
        BY <1>8, <1>10 DEF Ahead
      <3>4. Ahead(m_targetSequence[c])' \in Int
        BY <1>5, <1>6, <1>8 DEF Ahead
      <3>5. QED BY <2>3, <3>1, <3>2, <3>3, <3>4 DEF ListNumbersOf
    <2>4. QED BY <2>2, <2>3
  <1>23. BarrierAttended'
    <2>1. \A d \in Waiters : pc[d] \in {"acquire", "check"} => pc'[d] = pc[d] /\ targetSequence'[d] = targetSequence[d]
      BY <1>5, <1>11
    <2>2. \A d \in Waiters : OnList(d, m_awaiters) => m_targetSequence'[d] = m_targetSequence[d]
      BY <1>8, <1>14
    <2>3. QED BY <1>1, <1>5, <1>12, <2>1, <2>2 DEF BarrierAttended, Ahead
  <1>24. QED BY <1>17, <1>18, <1>20, <1>21, <1>22, <1>23 DEF BarrierInv

(* publish(): every number falls back by what the publisher moves on; none *)
(* that is compared with another falls back by more than half the range.   *)
LEMMA PublishStep ==
  ASSUME BarrierInv, PublishAhead
  PROVE  BarrierInv'
  <1> USE BarrierParties
  <1>1. BarrierTypes /\ BarrierLocals /\ BarrierLists /\ BarrierNumbers /\ BarrierListNumbers /\ BarrierAttended
    BY DEF BarrierInv
  <1>2. PICK n \in 1 .. MaxStep :
          /\ \A c \in Waiters : Difference(m_lastPublished, m_lastKnownPublished[c]) + n <= Window
          /\ Publish(Advance(m_lastPublished, n))
    BY DEF PublishAhead
  <1>3. /\ m_lastPublished \in Sequences /\ m_targetSequence \in [Waiters -> Sequences]
        /\ m_lastKnownPublished \in [Waiters -> Sequences] /\ targetSequence \in [Waiters -> Sequences]
        /\ lastKnown \in [Threads -> Sequences]
        /\ \A s \in Sequences : Ahead(s) \in Int /\ Ahead(s) < Half
    BY BarrierValues
  <1>4. /\ pc[Publisher] = "idle" /\ m_lastPublished' = Advance(m_lastPublished, n)
        /\ lastKnown' = [lastKnown EXCEPT ![Publisher] = m_lastPublished']
        /\ pc' = [pc EXCEPT ![Publisher] = "load"]
        /\ UNCHANGED <<m_awaiters, m_targetSequence, m_lastKnownPublished, m_readyToResume,
                       awaitersToRequeue, awaitersToResume, targetSequence>>
    BY <1>2 DEF Publish, Goto, operations
  <1>5. n \in Int /\ n > 0 /\ m_lastPublished' \in Sequences
    <2>1. n \in Int /\ n > 0
      BY WindowFacts
    <2>2. QED BY <1>3, <1>4, <2>1, AdvanceType
  <1>6. /\ pc' \in [Threads -> WaiterLabels \cup PublisherLabels] /\ pc'[Publisher] = "load"
        /\ \A u \in Threads : u # Publisher => pc'[u] = pc[u]
        /\ \A c \in Waiters : pc'[c] \in WaiterLabels
        /\ pc'[Publisher] \in PublisherLabels
        /\ \A c \in Waiters : Waiting(c)' <=> Waiting(c)
    <2>1. "load" \in PublisherLabels
      BY DEF PublisherLabels
    <2>2. QED BY <1>4, <2>1, BarrierMoves
  <1>7. /\ lastKnown' \in [Threads -> Sequences] /\ lastKnown'[Publisher] = m_lastPublished'
        /\ \A u \in Threads : u # Publisher => lastKnown'[u] = lastKnown[u]
    BY <1>3, <1>4, <1>5
  <1>8. \A c \in Waiters : Ahead(m_lastKnownPublished[c]) - n >= -Window /\ n <= Window
    <2> SUFFICES ASSUME NEW c \in Waiters PROVE Ahead(m_lastKnownPublished[c]) - n >= -Window /\ n <= Window
      OBVIOUS
    <2>1. PICK k \in Int : k = Ahead(m_lastKnownPublished[c])
      BY <1>3
    <2>2. -Window <= k /\ k <= 0
      BY <1>1, <2>1 DEF BarrierNumbers, NumbersOf
    <2>3. -Half < k /\ k < Half
      BY <2>2, WindowFacts
    <2>4. Difference(m_lastPublished, m_lastKnownPublished[c]) = -k
      BY <1>3, <2>1, <2>3, PublishedIsBehind
    <2>5. -k + n <= Window
      BY <1>2, <2>4
    <2>6. QED BY <1>5, <2>1, <2>2, <2>5, WindowFacts
  <1>9. ASSUME NEW c \in Waiters, NEW s \in Sequences, Ahead(m_lastKnownPublished[c]) - Window <= Ahead(s)
        PROVE  Ahead(s) \in Int /\ Difference(s, m_lastPublished') = Ahead(s) - n
    <2>1. PICK k \in Int : k = Ahead(m_lastKnownPublished[c])
      BY <1>3
    <2>2. PICK a \in Int : a = Ahead(s) /\ a < Half
      BY <1>3
    <2>3. k - n >= -Window /\ n <= Window /\ k - Window <= a
      BY <1>8, <1>9, <2>1, <2>2
    <2>4. -Half <= a - n /\ a - n < Half /\ -Half <= n /\ n <= Half
      BY <1>5, <2>2, <2>3, WindowFacts
    <2>5. QED BY <1>3, <1>4, <1>5, <2>2, <2>4, DifferenceFromOnward DEF Ahead
  <1>10. ASSUME NEW c \in Waiters
         PROVE  /\ Ahead(m_lastKnownPublished[c]) \in Int
                /\ Difference(m_lastKnownPublished[c], m_lastPublished') = Ahead(m_lastKnownPublished[c]) - n
                /\ pc[c] # "idle" => /\ Ahead(m_targetSequence[c]) \in Int
                                     /\ Difference(m_targetSequence[c], m_lastPublished') = Ahead(m_targetSequence[c]) - n
                /\ pc[c] = "acquire" => /\ Ahead(lastKnown[c]) \in Int
                                        /\ Difference(lastKnown[c], m_lastPublished') = Ahead(lastKnown[c]) - n
                /\ pc[c] \in {"enqueue", "check"} =>
                     /\ Ahead(targetSequence[c]) \in Int
                     /\ Difference(targetSequence[c], m_lastPublished') = Ahead(targetSequence[c]) - n
    <2>1. NumbersOf(c)
      BY <1>1 DEF BarrierNumbers
    <2>2. PICK k \in Int : k = Ahead(m_lastKnownPublished[c])
      BY <1>3
    <2>3. k - Window <= k
      BY <2>2, WindowFacts
    <2>4. Difference(m_lastKnownPublished[c], m_lastPublished') = k - n
      BY <1>3, <1>9, <2>2, <2>3
    <2>5. ASSUME pc[c] # "idle" PROVE k - Window <= Ahead(m_targetSequence[c])
      <3>1. PICK target \in Int : target = Ahead(m_targetSequence[c])
        BY <1>3
      <3>2. CASE Waiting(c)
        BY <2>1, <2>2, <3>1, <3>2, WindowFacts DEF NumbersOf
      <3>3. CASE ~Waiting(c)
        BY <2>1, <2>2, <2>5, <3>1, <3>3, WindowFacts DEF NumbersOf
      <3>4. QED BY <3>2, <3>3
    <2>6. pc[c] = "acquire" => k - Window <= Ahead(lastKnown[c])
      BY <2>1, <2>2 DEF NumbersOf, Compared
    <2>7. pc[c] \in {"enqueue", "check"} => k - Window <= Ahead(targetSequence[c])
      BY <2>1, <2>2 DEF NumbersOf, Compared
    <2>8. QED BY <1>3, <1>9, <2>2, <2>4, <2>5, <2>6, <2>7
  <1>11. awaitersToRequeue[Publisher] = << >> /\ awaitersToResume[Publisher] = << >>
    BY <1>1, <1>4 DEF BarrierLocals
  <1>12. BarrierTypes'
    BY <1>1, <1>4, <1>5, <1>6, <1>7 DEF BarrierTypes, BarrierTypeOK, WaiterLabels, PublisherLabels
  <1>13. BarrierLocals'
    BY <1>1, <1>4, <1>6, <1>7, <1>11 DEF BarrierLocals
  <1>14. BarrierLists'
    BY <1>1, <1>4, <1>6, AllListsKept
  <1>15. BarrierNumbers'
    <2> SUFFICES ASSUME NEW c \in Waiters PROVE NumbersOf(c)'
      BY DEF BarrierNumbers
    <2>1. NumbersOf(c) /\ pc'[c] = pc[c] /\ (Waiting(c)' <=> Waiting(c)) /\ lastKnown'[c] = lastKnown[c]
      BY <1>1, <1>6, <1>7 DEF BarrierNumbers
    <2>2. PICK k \in Int : k = Ahead(m_lastKnownPublished[c])
      BY <1>10
    <2>3. Ahead(m_lastKnownPublished[c])' = k - n /\ -Window <= k - n /\ k - n <= 0
      BY <1>4, <1>5, <1>8, <1>10, <2>1, <2>2 DEF Ahead, NumbersOf
    <2>4. ASSUME pc'[c] # "idle"
          PROVE  LET target == Ahead(m_targetSequence[c])' IN
                 /\ Waiting(c)' => k - n < target /\ target <= k - n + MaxAhead
                 /\ ~Waiting(c)' => target <= k - n /\ k - n <= target + Window
      <3>1. PICK target \in Int : target = Ahead(m_targetSequence[c]) /\ Difference(m_targetSequence[c], m_lastPublished') = target - n
        BY <1>10, <2>1, <2>4
      <3>2. Ahead(m_targetSequence[c])' = target - n
        BY <1>4, <3>1 DEF Ahead
      <3>3. /\ Waiting(c) => k < target /\ target <= k + MaxAhead
            /\ ~Waiting(c) => target <= k /\ k <= target + Window
        BY <2>1, <2>2, <2>4, <3>1 DEF NumbersOf
      <3>4. QED BY <1>5, <2>1, <3>2, <3>3, WindowFacts
    <2>5. Waiting(c)' => pc'[c] # "idle"
      BY DEF Waiting
    <2>6. ASSUME NEW s \in Sequences, Compared(c, s)
          PROVE  /\ k - n - Window <= Ahead(s) - n
                 /\ Waiting(c)' => k - n <= Ahead(s) - n
      BY <1>3, <1>5, <2>1, <2>2, <2>6, WindowFacts DEF Compared
    <2>7. ASSUME pc'[c] = "acquire" PROVE Compared(c, lastKnown[c])' /\ Ahead(lastKnown[c])' <= 0
      <3>1. Ahead(lastKnown[c])' = Ahead(lastKnown[c]) - n /\ Ahead(lastKnown[c]) \in Int
        BY <1>10, <2>1, <2>7 DEF Ahead
      <3>2. Compared(c, lastKnown[c]) /\ Ahead(lastKnown[c]) <= 0 /\ lastKnown[c] \in Sequences
        BY <1>3, <2>1, <2>7 DEF NumbersOf
      <3>3. Ahead(lastKnown[c]) - n <= 0
        BY <1>5, <3>1, <3>2
      <3>4. k - n - Window <= Ahead(lastKnown[c]) - n /\ (Waiting(c)' => k - n <= Ahead(lastKnown[c]) - n)
        BY <2>6, <3>2
      <3>5. QED BY <2>3, <3>1, <3>3, <3>4 DEF Compared
    <2>8. ASSUME pc'[c] \in {"enqueue", "check"}
          PROVE  Compared(c, targetSequence[c])' /\ Ahead(targetSequence[c])' <= MaxAhead
      <3>1. Ahead(targetSequence[c])' = Ahead(targetSequence[c]) - n /\ Ahead(targetSequence[c]) \in Int
        BY <1>4, <1>10, <2>1, <2>8 DEF Ahead
      <3>2. Compared(c, targetSequence[c]) /\ Ahead(targetSequence[c]) <= MaxAhead /\ targetSequence[c] \in Sequences
        BY <1>3, <2>1, <2>8 DEF NumbersOf
      <3>3. Ahead(targetSequence[c]) - n <= MaxAhead
        BY <1>5, <3>1, <3>2, WindowFacts
      <3>4. k - n - Window <= Ahead(targetSequence[c]) - n /\ (Waiting(c)' => k - n <= Ahead(targetSequence[c]) - n)
        BY <2>6, <3>2
      <3>5. QED BY <2>3, <3>1, <3>3, <3>4 DEF Compared
    <2>9. QED BY <2>3, <2>4, <2>5, <2>7, <2>8 DEF NumbersOf
  <1>16. BarrierListNumbers'
    <2> SUFFICES ASSUME NEW c \in Waiters PROVE ListNumbersOf(c)'
      BY DEF BarrierListNumbers
    <2>1. ListNumbersOf(c) /\ ListsOf(c) /\ NumbersOf(c)
      BY <1>1 DEF BarrierListNumbers, BarrierLists, BarrierNumbers
    <2>2. ASSUME Waiting(c)
          PROVE  /\ Ahead(m_targetSequence[c]) \in Int /\ Ahead(m_lastKnownPublished[c]) < Ahead(m_targetSequence[c])
                 /\ Ahead(m_targetSequence[c])' = Ahead(m_targetSequence[c]) - n
      <3>1. pc[c] # "idle"
        BY <2>2 DEF Waiting
      <3>2. QED BY <1>4, <1>10, <2>1, <2>2, <3>1 DEF NumbersOf, Ahead
    <2>3. ~OnList(c, awaitersToRequeue'[Publisher]) /\ ~OnList(c, awaitersToResume'[Publisher])
      BY <1>4, <1>11, OnEmptyList
    <2>4. ASSUME NEW t \in Threads, OnList(c, awaitersToResume'[t])
          PROVE  Ahead(m_targetSequence[c])' <= Ahead(lastKnown[t])' /\ Ahead(lastKnown[t])' <= 0
      <3>1. t # Publisher /\ OnList(c, awaitersToResume[t]) /\ Waiting(c)
        BY <1>4, <2>1, <2>3, <2>4 DEF ListsOf, InHand
      <3>2. PICK a \in Int : a = Ahead(lastKnown[t])
        BY <1>3
      <3>3. PICK target \in Int : target = Ahead(m_targetSequence[c])
        BY <2>2, <3>1
      <3>4. target <= a /\ a <= 0
        BY <2>1, <3>1, <3>2, <3>3 DEF ListNumbersOf
      <3>5. Ahead(m_lastKnownPublished[c]) - Window <= a
        BY <1>10, <2>2, <3>1, <3>3, <3>4, WindowFacts
      <3>6. Ahead(lastKnown[t])' = a - n
        BY <1>3, <1>7, <1>9, <3>1, <3>2, <3>5 DEF Ahead
      <3>7. target - n <= a - n /\ a - n <= 0
        BY <1>5, <3>4
      <3>8. QED BY <2>2, <3>1, <3>3, <3>6, <3>7
    <2>5. ASSUME NEW d \in Waiters, OnList(c, awaitersToRequeue'[d])
          PROVE  Ahead(targetSequence[d])' <= Ahead(m_targetSequence[c])'
      <3>1. OnList(c, awaitersToRequeue[d]) /\ Waiting(c)
        BY <1>4, <2>1, <2>5 DEF ListsOf, InHand
      <3>2. pc[d] = "enqueue"
        <4>1. awaitersToRequeue[d] # << >>
          BY <3>1, OnEmptyList
        <4>2. pc[d] \in {"enqueue", "requeue"} /\ pc[d] \in WaiterLabels
          BY <1>1, <4>1, BarrierValues DEF BarrierLocals
        <4>3. QED BY <4>2 DEF WaiterLabels
      <3>3. Ahead(targetSequence[d])' = Ahead(targetSequence[d]) - n /\ Ahead(targetSequence[d]) \in Int
        BY <1>4, <1>10, <3>2 DEF Ahead
      <3>4. Ahead(targetSequence[d]) <= Ahead(m_targetSequence[c])
        BY <2>1, <3>1 DEF ListNumbersOf
      <3>5. QED BY <1>5, <2>2, <3>1, <3>3, <3>4
    <2>6. QED BY <2>3, <2>4, <2>5 DEF ListNumbersOf
  <1>17. BarrierAttended'
    BY <1>6 DEF BarrierAttended
  <1>18. QED BY <1>12, <1>13, <1>14, <1>15, <1>16, <1>17 DEF BarrierInv

LEMMA BarrierStep ==
  ASSUME BarrierInv, Next
  PROVE  BarrierInv'
  <1>1. CASE \E c \in Waiters : WaitAhead(c) \/ WaitProceeds(c)
    <2>1. PICK c \in Waiters : WaitAhead(c) \/ WaitProceeds(c)
      BY <1>1
    <2>2. c \in Threads
      BY BarrierParties
    <2>3. QED BY <2>1, <2>2, WaitStep, RequeueSteps, CheckStep, AcquireStep, ResumeStep, SuspendStep DEF WaitProceeds
  <1>2. CASE PublishAhead
    BY <1>2, PublishStep
  <1>3. CASE PublishProceeds
    BY <1>3, BarrierParties, PublisherMovesStep, PublishAcquiresStep, RequeueSteps, ResumeStep DEF PublishProceeds
  <1>4. QED BY <1>1, <1>2, <1>3 DEF Next

(* A step of another component.                                            *)
LEMMA BarrierRests ==
  ASSUME BarrierInv, UNCHANGED barrierVars
  PROVE  BarrierInv'
  <1>1. UNCHANGED <<m_lastPublished, m_awaiters, m_targetSequence, m_lastKnownPublished, m_readyToResume, pc,
                    awaitersToRequeue, awaitersToResume, targetSequence, lastKnown>>
    BY DEF barrierVars, operations, locals
  <1>2. BarrierTypes' /\ BarrierLocals'
    BY <1>1 DEF BarrierInv, BarrierTypes, BarrierTypeOK, BarrierLocals
  <1>3. BarrierLists'
    BY <1>1 DEF BarrierInv, BarrierLists, ListsOf, InHand, Waiting
  <1>4. BarrierNumbers' /\ BarrierListNumbers' /\ BarrierAttended'
    BY <1>1 DEF BarrierInv, BarrierNumbers, NumbersOf, Compared, Waiting, Ahead, BarrierListNumbers, ListNumbersOf, BarrierAttended
  <1>5. QED BY <1>2, <1>3, <1>4 DEF BarrierInv

LEMMA BarrierAlways == MCSpec => []BarrierInv
  <1>1. MCInit => BarrierInv
    BY BarrierInitially DEF MCInit
  <1>2. BarrierInv /\ [MCNext]_<<chosen, barrierVars, sequencerVars, multiVars>> => BarrierInv'
    <2> SUFFICES ASSUME BarrierInv, [MCNext]_<<chosen, barrierVars, sequencerVars, multiVars>> PROVE BarrierInv'
      OBVIOUS
    <2>1. Next \/ UNCHANGED barrierVars
      BY DEF MCNext
    <2>2. QED BY <2>1, BarrierStep, BarrierRests
  <1>3. QED BY <1>1, <1>2, PTL DEF MCSpec

(* sequence_barrier, for every width of the numbers, every number of       *)
(* waiters and every window that fits: an operation that waits is on one   *)
(* list, once, wherever it is moved to, no other operation is on any, and  *)
(* one on the stack whose number has been published is attended to by the  *)
(* publisher or by a waiter, although numbers wrap around without end.     *)
THEOREM BarrierIsSafe == MCSpec => []BarrierSafe
  <1>1. BarrierInv => BarrierSafe
    BY BarrierInvIsSafe
  <1>2. QED BY <1>1, BarrierAlways, PTL

-----------------------------------------------------------------------------
(* The barrier as a cursor: what the coroutines see.                       *)

Result == [c \in Waiters |-> IF pc[c] = "idle" THEN m_lastKnownPublished[c] ELSE Pending]

(* The operators of the cursor's module are those of the barrier's.        *)
LEMMA CursorTerms ==
  /\ Cursor!Sequences = Sequences /\ Cursor!initial_sequence = initial_sequence
  /\ \A a, b : Cursor!Difference(a, b) = Difference(a, b) /\ Cursor!Advance(a, b) = Advance(a, b)
  /\ \A a, b : Cursor!Precedes(a, b) <=> Precedes(a, b)
  BY DEF Cursor!Sequences, Sequences, Cursor!initial_sequence, initial_sequence, Cursor!Difference, Difference,
         Cursor!Advance, Advance, Cursor!Precedes, Precedes

LEMMA CursorRests ==
  ASSUME UNCHANGED <<m_lastPublished, m_targetSequence>>,
         \A c \in Waiters : /\ pc'[c] = "idle" <=> pc[c] = "idle"
                            /\ pc[c] = "idle" => m_lastKnownPublished'[c] = m_lastKnownPublished[c]
  PROVE  UNCHANGED Cursor!cursorVars
  <1>1. Result' = Result
    BY DEF Result
  <1>2. QED BY <1>1 DEF Cursor!cursorVars, Result

(* A coroutine goes on with a number between its target and the last one   *)
(* published.                                                              *)
LEMMA CursorResumes ==
  ASSUME BarrierInv, NEW c \in Waiters, NEW r \in Sequences,
         Ahead(m_targetSequence[c]) <= Ahead(r), Ahead(r) <= 0, -Window - Window <= Ahead(m_targetSequence[c]),
         pc[c] # "idle", pc'[c] = "idle", m_lastKnownPublished'[c] = r,
         UNCHANGED <<m_lastPublished, m_targetSequence>>,
         \A d \in Waiters : d # c => pc'[d] = pc[d] /\ m_lastKnownPublished'[d] = m_lastKnownPublished[d]
  PROVE  Cursor!CursorNext
  <1>1. /\ m_lastPublished \in Sequences /\ m_targetSequence[c] \in Sequences
        /\ \A s \in Sequences : Ahead(s) \in Int /\ -Half <= Ahead(s) /\ Ahead(s) < Half
    BY BarrierValues
  <1>2. PICK a \in Int : a = Ahead(m_targetSequence[c])
    BY <1>1
  <1>3. PICK b \in Int : b = Ahead(r)
    BY <1>1
  <1>4. PICK n \in Int : n = b - a
    BY <1>2, <1>3
  <1>5. /\ n \in 0 .. -a /\ -Half < a /\ a < Half /\ -Half <= n /\ n <= Half
        /\ -Half <= a + n /\ a + n < Half /\ a + n = b
    BY <1>2, <1>3, <1>4, WindowFacts
  <1>6. Difference(m_lastPublished, m_targetSequence[c]) = -a
    BY <1>1, <1>2, <1>5, PublishedIsBehind
  <1>7. Advance(m_targetSequence[c], n) = r
    <2>1. PICK s \in Sequences : s = Advance(m_targetSequence[c], n)
      BY <1>1, AdvanceType
    <2>2. Difference(s, m_lastPublished) = b
      BY <1>1, <1>2, <1>5, <2>1, DifferenceOnward DEF Ahead
    <2>3. Difference(s, m_lastPublished) - Difference(r, m_lastPublished) = 0
      BY <1>3, <2>2 DEF Ahead
    <2>4. Difference(s, r) = 0
      BY <1>1, <2>3, WindowFacts, DifferenceAdds
    <2>5. QED BY <2>1, <2>4, DifferenceType
  <1>8. /\ Result[c] = Pending /\ Result' = [Result EXCEPT ![c] = Advance(m_targetSequence[c], n)]
    BY <1>7 DEF Result
  <1>9. Cursor!ResumeWaiter(c)
    BY <1>5, <1>6, <1>8, CursorTerms DEF Cursor!ResumeWaiter, Result
  <1>10. QED BY <1>9 DEF Cursor!CursorNext

LEMMA CursorWaits ==
  ASSUME BarrierInv, NEW c \in Waiters, WaitAhead(c)
  PROVE  Cursor!CursorNext
  <1>1. PICK n \in 1 .. MaxAhead : Wait(c, Advance(m_lastKnownPublished[c], n))
    BY DEF WaitAhead
  <1>2. /\ m_lastKnownPublished \in [Waiters -> Sequences] /\ pc \in [Threads -> WaiterLabels \cup PublisherLabels]
        /\ n \in Int /\ c \in Threads /\ \A d \in Waiters : d \in Threads
    BY BarrierValues, BarrierParties, WindowFacts
  <1>3. PICK t \in Sequences : t = Advance(m_lastKnownPublished[c], n)
    BY <1>2, AdvanceType
  <1>4. /\ pc[c] = "idle" /\ m_targetSequence' = [m_targetSequence EXCEPT ![c] = t] /\ UNCHANGED m_lastPublished
        /\ m_lastKnownPublished' = [m_lastKnownPublished EXCEPT ![c] = m_lastPublished]
        /\ pc' = IF Precedes(m_lastPublished, t) THEN [pc EXCEPT ![c] = "enqueue"] ELSE pc
    BY <1>1, <1>3 DEF Wait, Goto
  <1>5. Result[c] # Pending
    BY <1>2, <1>4, WindowFacts DEF Result
  <1>6. Result' = [Result EXCEPT ![c] = IF Precedes(m_lastPublished, t) THEN Pending ELSE m_lastPublished]
    BY <1>2, <1>4 DEF Result
  <1>7. Cursor!WaitUntilPublished(c, t)
    BY <1>4, <1>5, <1>6, CursorTerms DEF Cursor!WaitUntilPublished, Result
  <1>8. QED BY <1>3, <1>7, CursorTerms DEF Cursor!CursorNext

LEMMA CursorMovesOn ==
  ASSUME BarrierInv, PublishAhead
  PROVE  Cursor!CursorNext
  <1>1. PICK n \in 1 .. MaxStep : Publish(Advance(m_lastPublished, n))
    BY DEF PublishAhead
  <1>2. m_lastPublished \in Sequences /\ pc \in [Threads -> WaiterLabels \cup PublisherLabels]
    BY BarrierValues
  <1>3. n \in Int /\ n > 0 /\ -Half <= 0 - n /\ 0 - n < Half /\ -Half <= n /\ n <= Half
    BY WindowFacts, WindowAssumption DEF Half
  <1>4. PICK s \in Sequences : s = Advance(m_lastPublished, n)
    BY <1>2, <1>3, AdvanceType
  <1>5. Difference(m_lastPublished, s) = 0 - n
    <2>1. Difference(m_lastPublished, m_lastPublished) = 0
      BY <1>2, DifferenceType
    <2>2. QED BY <1>2, <1>3, <1>4, <2>1, DifferenceFromOnward
  <1>6. m_lastPublished' = s /\ UNCHANGED <<m_targetSequence, m_lastKnownPublished>> /\ \A c \in Waiters : pc'[c] = pc[c]
    BY <1>1, <1>2, <1>4, BarrierParties DEF Publish, Goto, operations
  <1>7. Result' = Result
    BY <1>6 DEF Result
  <1>8. Cursor!PublishSequence(s)
    BY <1>3, <1>5, <1>6, <1>7, CursorTerms DEF Cursor!PublishSequence, Precedes, Result
  <1>9. QED BY <1>4, <1>8, CursorTerms DEF Cursor!CursorNext

(* resume(), by whoever comes second.                                      *)
LEMMA CursorStepOfResume ==
  ASSUME BarrierInv, NEW t \in Threads, ResumeAwaiter(t)
  PROVE  Cursor!CursorNext \/ UNCHANGED Cursor!cursorVars
  <1> DEFINE first == Head(awaitersToResume[t])
  <1>1. /\ pc[t] = "resume" /\ awaitersToResume[t] # << >>
        /\ m_lastKnownPublished' = [m_lastKnownPublished EXCEPT ![first] = lastKnown[t]]
        /\ pc' = (IF m_readyToResume[first] THEN [pc EXCEPT ![first] = "idle"] ELSE pc)
        /\ UNCHANGED <<m_lastPublished, m_targetSequence>>
    BY DEF ResumeAwaiter
  <1>2. /\ pc \in [Threads -> WaiterLabels \cup PublisherLabels] /\ awaitersToResume[t] \in Seq(Waiters)
        /\ m_lastKnownPublished \in [Waiters -> Sequences] /\ lastKnown[t] \in Sequences
        /\ m_targetSequence \in [Waiters -> Sequences]
        /\ \A s \in Sequences : Ahead(s) \in Int
    BY BarrierValues
  <1>3. PICK c \in Waiters : c = first
    BY <1>1, <1>2
  <1>4. OnList(c, awaitersToResume[t]) /\ c \in Threads /\ \A d \in Waiters : d \in Threads
    BY <1>1, <1>2, <1>3, OnTail, BarrierParties
  <1>5. Waiting(c)
    BY <1>4 DEF BarrierInv, BarrierLists, ListsOf, InHand
  <1>6. Ahead(m_targetSequence[c]) <= Ahead(lastKnown[t]) /\ Ahead(lastKnown[t]) <= 0
    BY <1>4 DEF BarrierInv, BarrierListNumbers, ListNumbersOf
  <1>7. -Window - Window <= Ahead(m_targetSequence[c])
    <2>1. -Window <= Ahead(m_lastKnownPublished[c]) /\ Ahead(m_lastKnownPublished[c]) < Ahead(m_targetSequence[c])
      BY <1>5 DEF BarrierInv, BarrierNumbers, NumbersOf
    <2>2. QED BY <1>2, <2>1, WindowFacts
  <1>8. /\ m_lastKnownPublished'[c] = lastKnown[t]
        /\ \A d \in Waiters : d # c => pc'[d] = pc[d] /\ m_lastKnownPublished'[d] = m_lastKnownPublished[d]
        /\ pc'[c] = IF m_readyToResume[c] THEN "idle" ELSE pc[c]
    BY <1>1, <1>2, <1>3, <1>4
  <1>9. pc[c] # "idle"
    BY <1>5 DEF Waiting
  <1> HIDE DEF first
  <1>10. CASE m_readyToResume[c]
    BY <1>1, <1>2, <1>6, <1>7, <1>8, <1>9, <1>10, CursorResumes
  <1>11. CASE ~m_readyToResume[c]
    BY <1>1, <1>8, <1>9, <1>11, CursorRests
  <1>12. QED BY <1>10, <1>11

LEMMA CursorStepOfSuspend ==
  ASSUME BarrierInv, NEW c \in Waiters, SuspendOrContinue(c)
  PROVE  Cursor!CursorNext \/ UNCHANGED Cursor!cursorVars
  <1>1. /\ pc[c] = "resume" /\ UNCHANGED <<m_lastPublished, m_targetSequence, m_lastKnownPublished>>
        /\ pc' = [pc EXCEPT ![c] = IF m_readyToResume[c] THEN "idle" ELSE "suspended"]
    BY DEF SuspendOrContinue, Goto
  <1>2. /\ pc \in [Threads -> WaiterLabels \cup PublisherLabels] /\ m_lastKnownPublished[c] \in Sequences
        /\ m_targetSequence[c] \in Sequences
        /\ (\A s \in Sequences : Ahead(s) \in Int) /\ \A d \in Waiters : d \in Threads
    BY BarrierValues, BarrierParties
  <1>3. pc'[c] = (IF m_readyToResume[c] THEN "idle" ELSE "suspended") /\ \A d \in Waiters : d # c => pc'[d] = pc[d]
    BY <1>1, <1>2
  <1>4. CASE m_readyToResume[c]
    <2>1. NumbersOf(c) /\ ~Waiting(c)
      BY <1>1, <1>4 DEF BarrierInv, BarrierNumbers, Waiting
    <2>2. PICK k \in Int : k = Ahead(m_lastKnownPublished[c])
      BY <1>2
    <2>3. PICK a \in Int : a = Ahead(m_targetSequence[c])
      BY <1>2
    <2>4. -Window <= k /\ k <= 0 /\ a <= k /\ k <= a + Window
      BY <1>1, <2>1, <2>2, <2>3 DEF NumbersOf
    <2>5. a <= k /\ k <= 0 /\ -Window - Window <= a
      BY <2>4, WindowFacts
    <2>6. QED BY <1>1, <1>2, <1>3, <1>4, <2>2, <2>3, <2>5, CursorResumes
  <1>5. CASE ~m_readyToResume[c]
    BY <1>1, <1>3, <1>5, CursorRests
  <1>6. QED BY <1>4, <1>5

LEMMA CursorStep ==
  ASSUME BarrierInv, Next
  PROVE  Cursor!CursorNext \/ UNCHANGED Cursor!cursorVars
  <1> USE BarrierParties
  <1>1. pc \in [Threads -> WaiterLabels \cup PublisherLabels]
    BY BarrierValues
  <1>2. ASSUME NEW c \in Waiters, EnqueueAwaiters(c) \/ CheckPublished(c) \/ AcquireAwaiters(c)
        PROVE  UNCHANGED Cursor!cursorVars
    <2>1. UNCHANGED <<m_lastPublished, m_targetSequence, m_lastKnownPublished>> /\ pc[c] # "idle"
      BY <1>2 DEF EnqueueAwaiters, CheckPublished, AcquireAwaiters, operations
    <2>2. PICK label \in {"check", "resume", "acquire", "enqueue"} : pc' = [pc EXCEPT ![c] = label]
      BY <1>2 DEF EnqueueAwaiters, CheckPublished, AcquireAwaiters, Goto
    <2>3. \A d \in Waiters : pc'[d] = "idle" <=> pc[d] = "idle"
      BY <1>1, <2>1, <2>2
    <2>4. QED BY <2>1, <2>3, CursorRests
  <1>3. ASSUME PublishLoads \/ PublishAcquires \/ PublishRequeues \/ PublishReturns
        PROVE  UNCHANGED Cursor!cursorVars
    <2>1. UNCHANGED <<m_lastPublished, m_targetSequence, m_lastKnownPublished>>
      BY <1>3 DEF PublishLoads, PublishAcquires, PublishRequeues, PublishReturns, operations
    <2>2. PICK label : pc' = [pc EXCEPT ![Publisher] = label]
      BY <1>3 DEF PublishLoads, PublishAcquires, PublishRequeues, PublishReturns, Goto
    <2>3. \A d \in Waiters : pc'[d] = pc[d]
      BY <1>1, <2>2
    <2>4. QED BY <2>1, <2>3, CursorRests
  <1>4. CASE \E c \in Waiters : WaitAhead(c) \/ WaitProceeds(c)
    BY <1>2, <1>4, CursorWaits, CursorStepOfResume, CursorStepOfSuspend DEF WaitProceeds
  <1>5. CASE PublishAhead
    BY <1>5, CursorMovesOn
  <1>6. CASE PublishProceeds
    BY <1>3, <1>6, CursorStepOfResume DEF PublishProceeds
  <1>7. QED BY <1>4, <1>5, <1>6 DEF Next

(* The barrier implements the cursor, but for fairness: whatever publish() *)
(* and the waiters' calls do in between, a coroutine goes on once per wait *)
(* and with a result between its target and the last number published.     *)
THEOREM BarrierStepsAsCursor == MCSpec => Cursor!CursorInit /\ [][Cursor!CursorNext]_(Cursor!cursorVars)
  <1>1. MCInit => Cursor!CursorInit
    <2> SUFFICES ASSUME MCInit PROVE Cursor!CursorInit
      OBVIOUS
    <2>1. /\ m_lastPublished = initial_sequence /\ m_targetSequence = [c \in Waiters |-> initial_sequence]
          /\ m_lastKnownPublished = [c \in Waiters |-> initial_sequence] /\ pc = [t \in Threads |-> "idle"]
      BY DEF MCInit, Init, BarrierInit
    <2>2. Result = [c \in Waiters |-> initial_sequence]
      BY <2>1, BarrierParties DEF Result
    <2>3. QED BY <2>1, <2>2, CursorTerms DEF Cursor!CursorInit, Result
  <1>2. BarrierInv /\ [MCNext]_<<chosen, barrierVars, sequencerVars, multiVars>> => [Cursor!CursorNext]_(Cursor!cursorVars)
    <2> SUFFICES ASSUME BarrierInv, [MCNext]_<<chosen, barrierVars, sequencerVars, multiVars>>
                 PROVE  Cursor!CursorNext \/ UNCHANGED Cursor!cursorVars
      OBVIOUS
    <2>1. Next \/ UNCHANGED barrierVars
      BY DEF MCNext
    <2>2. CASE UNCHANGED barrierVars
      <3>1. UNCHANGED <<m_lastPublished, m_targetSequence, m_lastKnownPublished, pc>>
        BY <2>2 DEF barrierVars, operations
      <3>2. QED BY <3>1, CursorRests
    <2>3. QED BY <2>1, <2>2, CursorStep
  <1>3. QED BY <1>1, <1>2, BarrierAlways, PTL DEF MCSpec

-----------------------------------------------------------------------------
(* single_producer_sequencer                                               *)

(* How far a number is after the last one that all consumers have read.    *)
From(s) == Difference(s, m_consumerBarrier)

Parties == Readers \cup {Producer}
PartyLabels == {"idle", "claim", "write", "wait", "read"}

SequencerTypes ==
  /\ Sequencer!TypeOK
  /\ sequencerPc \in [Parties -> PartyLabels]
  /\ waitTarget \in [Readers -> Sequences]
  /\ claimTarget \in [{Producer} -> Sequences]
  /\ lastConsumed \in [{Producer} -> Sequences \cup {NoResult}]

(* The producer is at most a buffer ahead; what it has claimed is what is  *)
(* next to be published.                                                   *)
ProducerPlace ==
  /\ 0 <= From(m_producerBarrier) /\ From(m_producerBarrier) < From(m_nextToClaim)
  /\ From(m_nextToClaim) <= BufferSize + 1
  /\ sequencerPc[Producer] # "write" => m_nextToClaim = Advance(m_producerBarrier, 1)
  /\ sequencerPc[Producer] = "write" =>
       /\ claimed.begin = Advance(m_producerBarrier, 1) /\ claimed.end = m_nextToClaim
       /\ From(m_producerBarrier) + 1 < From(m_nextToClaim)
       /\ From(m_producerBarrier) + 1 <= From(claimed.next) /\ From(claimed.next) <= From(m_nextToClaim)

(* What the producer waits for, and what it is told has been read.         *)
ClaimPlace ==
  /\ lastConsumed[Producer] = NoResult => sequencerPc[Producer] = "claim"
  /\ sequencerPc[Producer] = "claim" =>
       /\ claimTarget[Producer] = Advance(m_nextToClaim, -BufferSize)
       /\ lastConsumed[Producer] # NoResult =>
            From(m_nextToClaim) - BufferSize <= From(lastConsumed[Producer]) /\ From(lastConsumed[Producer]) <= 0

ReaderPlace(c) ==
  /\ available[c] = NoResult => sequencerPc[c] = "wait"
  /\ 1 <= From(nextToRead[c]) /\ From(nextToRead[c]) <= From(m_producerBarrier) + 1
  /\ sequencerPc[c] = "wait" => waitTarget[c] = nextToRead[c]
  /\ sequencerPc[c] = "read" => 1 <= From(waitTarget[c]) /\ From(waitTarget[c]) <= From(nextToRead[c])
  /\ sequencerPc[c] \in {"wait", "read"} /\ available[c] # NoResult =>
       From(nextToRead[c]) <= From(available[c]) /\ From(available[c]) <= From(m_producerBarrier)

ReaderPlaces == \A c \in Readers : ReaderPlace(c)

(* Everything from the last number that all have read up to the number     *)
(* that is written next is in the buffer.                                  *)
NextToWrite == IF sequencerPc[Producer] = "write" THEN claimed.next ELSE m_nextToClaim
BufferFilled ==
  \A s \in Sequences : 1 <= From(s) /\ From(s) < From(NextToWrite) => buffer[Sequencer!Slot(s)] = s

SequencerInv == SequencerTypes /\ ProducerPlace /\ ClaimPlace /\ ReaderPlaces /\ BufferFilled

(* The operators of the instances are those of this module.                *)
LEMMA SequencerTerms ==
  /\ Sequencer!Sequences = Sequences /\ Sequencer!initial_sequence = initial_sequence
  /\ Sequencer!Written!initial_sequence = initial_sequence /\ Sequencer!Read!initial_sequence = initial_sequence
  /\ \A a, b : /\ Sequencer!Difference(a, b) = Difference(a, b)
               /\ Sequencer!Written!Difference(a, b) = Difference(a, b)
               /\ Sequencer!Read!Difference(a, b) = Difference(a, b)
               /\ Sequencer!Advance(a, b) = Advance(a, b)
               /\ Sequencer!Written!Advance(a, b) = Advance(a, b)
               /\ Sequencer!Read!Advance(a, b) = Advance(a, b)
               /\ Sequencer!Precedes(a, b) <=> Difference(a, b) < 0
               /\ Sequencer!Written!Precedes(a, b) <=> Difference(a, b) < 0
               /\ Sequencer!Read!Precedes(a, b) <=> Difference(a, b) < 0
  BY DEF Sequencer!Sequences, Sequences, Sequencer!initial_sequence, Sequencer!Written!initial_sequence,
         Sequencer!Read!initial_sequence, initial_sequence,
         Sequencer!Difference, Sequencer!Written!Difference, Sequencer!Read!Difference, Difference,
         Sequencer!Advance, Sequencer!Written!Advance, Sequencer!Read!Advance, Advance,
         Sequencer!Precedes, Sequencer!Written!Precedes, Sequencer!Read!Precedes

LEMMA BufferFacts ==
  /\ BufferSize \in Nat \ {0} /\ BufferSize + 1 < Half /\ Half \in Nat \ {0}
  /\ \E q \in Nat : 2^Width = q * BufferSize
  /\ NoResult \notin Sequences /\ Producer \notin Readers /\ MaxSingleClaim \in Nat \ {0}
  /\ Producer \in Parties /\ \A c \in Readers : c \in Parties
  <1>1. PICK i \in 0 .. (Width - 2) : BufferSize = 2^i
    BY MultiProducerAssumption
  <1>2. PICK j \in Nat : Width = i + j
    <2>1. Width \in Int /\ i \in Int /\ i <= Width - 2
      BY WidthAssumption
    <2>2. Width - i \in Nat /\ Width = i + (Width - i)
      BY <2>1
    <2>3. QED BY <2>2
  <1>3. i \in Nat
    OBVIOUS
  <1>4. BufferSize \in Nat \ {0}
    BY <1>1, <1>3, PowerOfTwo
  <1>5. \E q \in Nat : 2^Width = q * BufferSize
    BY <1>1, <1>2, <1>3, PowerDivides
  <1>6. QED BY <1>4, <1>5, SingleProducerAssumption, HalfOfRange DEF Half, Parties

(* Numbers less than a buffer apart have different slots.                  *)
LEMMA SlotsDiffer ==
  ASSUME NEW s \in Sequences, NEW t \in Sequences, 0 < Difference(t, s), Difference(t, s) < BufferSize
  PROVE  Sequencer!Slot(s) # Sequencer!Slot(t)
  <1> SUFFICES ASSUME s % BufferSize = t % BufferSize PROVE FALSE
    BY DEF Sequencer!Slot
  <1>1. PICK B \in Nat \ {0} : B = BufferSize
    BY BufferFacts
  <1>2. PICK q \in Nat : 2^Width = q * B
    BY <1>1, BufferFacts
  <1>3. PICK d \in Int : d = Difference(t, s) /\ (d = t - s \/ d = t - s + 2^Width \/ d = t - s - 2^Width)
    <2>1. s \in 0 .. 2^Width - 1 /\ t \in 0 .. 2^Width - 1
      BY HalfOfRange
    <2>2. /\ Difference(t, s) \in Int
          /\ \/ Difference(t, s) = t - s
             \/ Difference(t, s) = t - s + 2^Width
             \/ Difference(t, s) = t - s - 2^Width
      BY <2>1, HalfOfRange, ApartIs, DifferenceIsApart
    <2>3. QED BY <2>2
  <1>4. s \in Int /\ t \in Int /\ 0 < d /\ d < B
    BY <1>1, <1>3, HalfOfRange
  <1>5. PICK x \in Int : B * x \in Int /\ s = B * x + (s % B)
    BY <1>4, QuotientOf
  <1>6. PICK y \in Int : B * y \in Int /\ t = B * y + (t % B)
    BY <1>4, QuotientOf
  <1>7. t - s = B * (y - x)
    <2>1. PICK r \in Int : r = s % B /\ r = t % B
      BY <1>1, <1>4
    <2>2. B * y - B * x = B * (y - x)
      BY <1>5, <1>6
    <2>3. PICK a \in Int : a = B * x /\ s = a + r
      BY <1>5, <2>1
    <2>4. PICK b \in Int : b = B * y /\ t = b + r
      BY <1>6, <2>1
    <2>5. t - s = b - a
      BY <2>3, <2>4
    <2>6. QED BY <2>2, <2>3, <2>4, <2>5
  <1>8. PICK z \in Int : d = B * z
    <2>1. B * (y - x) + q * B = B * (y - x + q) /\ B * (y - x) - q * B = B * (y - x - q)
      BY <1>2
    <2>2. y - x \in Int /\ y - x + q \in Int /\ y - x - q \in Int
      OBVIOUS
    <2>3. d = B * (y - x) \/ d = B * (y - x + q) \/ d = B * (y - x - q)
      BY <1>2, <1>3, <1>7, <2>1
    <2>4. QED BY <2>2, <2>3
  <1>9. QED BY <1>4, <1>8, MultipleIsLarge

LEMMA SlotType ==
  ASSUME NEW s \in Sequences
  PROVE  Sequencer!Slot(s) \in 0 .. BufferSize - 1
  <1>1. s \in Int /\ BufferSize \in Nat \ {0}
    BY BufferFacts, HalfOfRange
  <1>2. QED BY <1>1 DEF Sequencer!Slot

LEMMA SequencerValues ==
  ASSUME SequencerInv
  PROVE  /\ m_nextToClaim \in Sequences /\ m_producerBarrier \in Sequences /\ m_consumerBarrier \in Sequences
         /\ claimed \in [begin : Sequences, end : Sequences, next : Sequences]
         /\ claimed.begin \in Sequences /\ claimed.end \in Sequences /\ claimed.next \in Sequences
         /\ m_count \in 1 .. MaxSingleClaim
         /\ buffer \in [0 .. (BufferSize - 1) -> Sequences]
         /\ nextToRead \in [Readers -> Sequences]
         /\ sequencerPc \in [Parties -> PartyLabels]
         /\ sequencerPc[Producer] \in {"idle", "claim", "write"}
         /\ \A c \in Readers : sequencerPc[c] \in {"idle", "wait", "read"}
         /\ waitTarget \in [Readers -> Sequences] /\ available \in [Readers -> Sequences \cup {NoResult}]
         /\ claimTarget \in [{Producer} -> Sequences]
         /\ lastConsumed \in [{Producer} -> Sequences \cup {NoResult}]
         /\ \A s \in Sequences : From(s) \in Int /\ -Half <= From(s) /\ From(s) < Half
         /\ From(m_consumerBarrier) = 0
  <1>1. SequencerTypes
    BY DEF SequencerInv
  <1>2. Sequencer!TypeOK
    BY <1>1 DEF SequencerTypes
  <1>3. /\ m_nextToClaim \in Sequences /\ m_producerBarrier \in Sequences /\ m_consumerBarrier \in Sequences
        /\ claimed \in [begin : Sequences, end : Sequences, next : Sequences]
        /\ m_count \in 1 .. MaxSingleClaim
        /\ buffer \in [0 .. (BufferSize - 1) -> Sequences]
        /\ nextToRead \in [Readers -> Sequences]
        /\ sequencerPc[Producer] \in {"idle", "claim", "write"}
        /\ \A c \in Readers : sequencerPc[c] \in {"idle", "wait", "read"}
        /\ available \in [Readers -> Sequences \cup {NoResult}]
    BY <1>2, SequencerTerms DEF Sequencer!TypeOK
  <1>4. /\ \A s \in Sequences : From(s) \in Int /\ -Half <= From(s) /\ From(s) < Half
        /\ From(m_consumerBarrier) = 0
    BY <1>3, DifferenceType DEF From
  <1>5. QED BY <1>1, <1>3, <1>4 DEF SequencerTypes

LEMMA FromAdvance ==
  ASSUME m_consumerBarrier \in Sequences, NEW s \in Sequences, NEW n \in Int, -Half <= n, n <= Half,
         -Half <= From(s) + n, From(s) + n < Half
  PROVE  Advance(s, n) \in Sequences /\ From(Advance(s, n)) = From(s) + n
  <1>1. Difference(Advance(s, n), m_consumerBarrier) = Difference(s, m_consumerBarrier) + n
    BY DifferenceOnward DEF From
  <1>2. QED BY <1>1, AdvanceType DEF From

LEMMA FromDifference ==
  ASSUME m_consumerBarrier \in Sequences, NEW a \in Sequences, NEW b \in Sequences,
         -Half <= From(a) - From(b), From(a) - From(b) < Half
  PROVE  Difference(a, b) = From(a) - From(b)
  BY DifferenceAdds DEF From

LEMMA FromIsUnique ==
  ASSUME m_consumerBarrier \in Sequences, NEW a \in Sequences, NEW b \in Sequences, From(a) = From(b)
  PROVE  a = b
  <1>1. From(a) \in Int /\ From(b) \in Int
    BY DifferenceType DEF From
  <1>2. Difference(a, b) = From(a) - From(b)
    BY <1>1, HalfOfRange, FromDifference
  <1>3. Difference(a, b) = 0
    BY <1>1, <1>2
  <1>4. QED BY <1>3, DifferenceType

(* What the parts of the invariant say in numbers.                         *)
LEMMA PlaceFacts ==
  ASSUME SequencerInv
  PROVE  \E p, n, w \in Int :
           /\ p = From(m_producerBarrier) /\ n = From(m_nextToClaim) /\ w = From(NextToWrite)
           /\ NextToWrite \in Sequences
           /\ 0 <= p /\ p < w /\ w <= n /\ n <= BufferSize + 1
           /\ From(Advance(m_producerBarrier, 1)) = p + 1
  <1>1. ProducerPlace
    BY DEF SequencerInv
  <1>2. /\ m_nextToClaim \in Sequences /\ m_producerBarrier \in Sequences /\ m_consumerBarrier \in Sequences
        /\ claimed.next \in Sequences /\ \A s \in Sequences : From(s) \in Int
    BY SequencerValues
  <1>3. PICK p \in Int : p = From(m_producerBarrier)
    BY <1>2
  <1>4. PICK n \in Int : n = From(m_nextToClaim)
    BY <1>2
  <1>5. NextToWrite \in Sequences
    BY <1>2 DEF NextToWrite
  <1>6. PICK w \in Int : w = From(NextToWrite)
    BY <1>2, <1>5
  <1>7. 0 <= p /\ p < n /\ n <= BufferSize + 1
    BY <1>1, <1>3, <1>4 DEF ProducerPlace
  <1>8. p < w /\ w <= n
    <2>1. CASE sequencerPc[Producer] = "write"
      <3>1. w = From(claimed.next)
        BY <1>6, <2>1 DEF NextToWrite
      <3>2. p + 1 <= w /\ w <= n
        BY <1>1, <1>3, <1>4, <2>1, <3>1 DEF ProducerPlace
      <3>3. QED BY <3>2
    <2>2. CASE sequencerPc[Producer] # "write"
      BY <1>4, <1>6, <1>7, <2>2 DEF NextToWrite
    <2>3. QED BY <2>1, <2>2
  <1>9. From(Advance(m_producerBarrier, 1)) = p + 1
    <2>1. -Half <= 1 /\ 1 <= Half /\ -Half <= p + 1 /\ p + 1 < Half
      BY <1>7, BufferFacts
    <2>2. QED BY <1>2, <1>3, <2>1, FromAdvance
  <1>10. QED BY <1>3, <1>4, <1>5, <1>6, <1>7, <1>8, <1>9

LEMMA SequencerInvIsSafe ==
  ASSUME SequencerInv
  PROVE  SequencerSafe
  <1>1. /\ SequencerTypes /\ ProducerPlace /\ ReaderPlaces /\ BufferFilled
    BY DEF SequencerInv
  <1>2. /\ m_nextToClaim \in Sequences /\ m_producerBarrier \in Sequences /\ m_consumerBarrier \in Sequences
        /\ claimed.begin \in Sequences /\ claimed.end \in Sequences
        /\ nextToRead \in [Readers -> Sequences] /\ available \in [Readers -> Sequences \cup {NoResult}]
        /\ \A s \in Sequences : From(s) \in Int
    BY SequencerValues
  <1>3. PICK p, n, w \in Int :
          /\ p = From(m_producerBarrier) /\ n = From(m_nextToClaim) /\ w = From(NextToWrite)
          /\ 0 <= p /\ p < w /\ w <= n /\ n <= BufferSize + 1
          /\ From(Advance(m_producerBarrier, 1)) = p + 1
    BY PlaceFacts
  <1>4. ASSUME NEW c \in Readers, sequencerPc[c] \in {"wait", "read"}, available[c] # NoResult
        PROVE  /\ ~Sequencer!Precedes(available[c], nextToRead[c])
               /\ \A k \in 0 .. Sequencer!Difference(available[c], nextToRead[c]) :
                    buffer[Sequencer!Slot(Sequencer!Advance(nextToRead[c], k))] = Sequencer!Advance(nextToRead[c], k)
    <2>1. available[c] \in Sequences /\ nextToRead[c] \in Sequences
      BY <1>2, <1>4
    <2>2. PICK a \in Int : a = From(available[c])
      BY <1>2, <2>1
    <2>3. PICK r \in Int : r = From(nextToRead[c])
      BY <1>2, <2>1
    <2>4. 1 <= r /\ r <= a /\ a <= p
      BY <1>1, <1>3, <1>4, <2>2, <2>3 DEF ReaderPlaces, ReaderPlace
    <2>5. Difference(available[c], nextToRead[c]) = a - r
      <3>1. -Half <= a - r /\ a - r < Half
        BY <1>3, <2>4, BufferFacts
      <3>2. QED BY <1>2, <2>1, <2>2, <2>3, <3>1, FromDifference
    <2>6. ASSUME NEW k \in 0 .. (a - r)
          PROVE  buffer[Sequencer!Slot(Advance(nextToRead[c], k))] = Advance(nextToRead[c], k)
      <3>1. k \in Int /\ -Half <= k /\ k <= Half /\ -Half <= r + k /\ r + k < Half /\ 1 <= r + k /\ r + k < w
        BY <1>3, <2>4, BufferFacts
      <3>2. PICK s \in Sequences : s = Advance(nextToRead[c], k) /\ From(s) = r + k
        BY <1>2, <2>1, <2>3, <3>1, FromAdvance
      <3>3. QED BY <1>1, <1>3, <3>1, <3>2 DEF BufferFilled
    <2>7. QED BY <2>4, <2>5, <2>6, SequencerTerms
  <1>5. Sequencer!ReadsWhatWasWritten
    BY <1>4 DEF Sequencer!ReadsWhatWasWritten
  <1>6. Sequencer!ClaimsWithinBuffer
    <2>1. n \in 1 .. (BufferSize + 1)
      BY <1>3, BufferFacts
    <2>2. ASSUME sequencerPc[Producer] = "write"
          PROVE  claimed.begin = Advance(m_producerBarrier, 1) /\ Difference(claimed.begin, claimed.end) < 0
      <3>1. claimed.begin = Advance(m_producerBarrier, 1) /\ claimed.end = m_nextToClaim /\ p + 1 < n
        BY <1>1, <1>3, <2>2 DEF ProducerPlace
      <3>2. From(claimed.begin) = p + 1 /\ From(claimed.end) = n
        BY <1>3, <3>1
      <3>3. -Half <= (p + 1) - n /\ (p + 1) - n < Half
        BY <1>3, <3>1, BufferFacts
      <3>4. Difference(claimed.begin, claimed.end) = (p + 1) - n
        BY <1>2, <3>2, <3>3, FromDifference
      <3>5. QED BY <3>1, <3>4
    <2>3. QED BY <1>3, <2>1, <2>2, SequencerTerms DEF Sequencer!ClaimsWithinBuffer, From
  <1>7. QED BY <1>1, <1>5, <1>6 DEF SequencerSafe, SequencerTypes

LEMMA SequencerInitially ==
  ASSUME Sequencer!Init
  PROVE  SequencerInv
  <1>1. /\ m_nextToClaim = Advance(initial_sequence, 1)
        /\ claimed = [begin |-> 0, end |-> 0, next |-> 0] /\ m_count = 1
        /\ buffer = [i \in 0 .. (BufferSize - 1) |-> initial_sequence]
        /\ nextToRead = [c \in Readers |-> Advance(initial_sequence, 1)]
        /\ sequencerPc = [t \in Parties |-> "idle"]
        /\ m_producerBarrier = initial_sequence /\ waitTarget = [c \in Readers |-> initial_sequence]
        /\ available = [c \in Readers |-> initial_sequence]
        /\ m_consumerBarrier = initial_sequence /\ claimTarget = [c \in {Producer} |-> initial_sequence]
        /\ lastConsumed = [c \in {Producer} |-> initial_sequence]
    BY SequencerTerms DEF Sequencer!Init, Sequencer!Written!CursorInit, Sequencer!Read!CursorInit, Parties
  <1>2. initial_sequence \in Sequences /\ 0 \in Sequences
    BY HalfOfRange
  <1>3. PICK first \in Sequences : first = Advance(initial_sequence, 1)
    BY <1>2, AdvanceType
  <1>4. /\ From(initial_sequence) = 0 /\ From(first) = 1
    <2>1. From(initial_sequence) = 0
      BY <1>1, <1>2, DifferenceType DEF From
    <2>2. -Half <= 1 /\ 1 <= Half /\ -Half <= 0 + 1 /\ 0 + 1 < Half
      BY BufferFacts
    <2>3. From(first) = 0 + 1
      BY <1>1, <1>2, <1>3, <2>1, <2>2, FromAdvance
    <2>4. QED BY <2>1, <2>3
  <1>5. SequencerTypes
    <2>1. m_count \in 1 .. MaxSingleClaim
      BY <1>1, BufferFacts
    <2>2. sequencerPc \in [Parties -> PartyLabels] /\ \A t \in Parties : sequencerPc[t] = "idle"
      BY <1>1 DEF PartyLabels
    <2>3. Sequencer!TypeOK
      BY <1>1, <1>2, <1>3, <2>1, <2>2, BufferFacts, SequencerTerms DEF Sequencer!TypeOK
    <2>4. QED BY <1>1, <1>2, <2>2, <2>3 DEF SequencerTypes
  <1>6. sequencerPc[Producer] = "idle" /\ \A c \in Readers : sequencerPc[c] = "idle"
    BY <1>1, BufferFacts
  <1>7. ProducerPlace
    <2>1. 1 <= BufferSize + 1
      BY BufferFacts
    <2>2. QED BY <1>1, <1>3, <1>4, <1>6, <2>1 DEF ProducerPlace
  <1>8. ClaimPlace
    BY <1>1, <1>2, <1>6, BufferFacts DEF ClaimPlace
  <1>9. ReaderPlaces
    BY <1>1, <1>2, <1>3, <1>4, <1>6, BufferFacts DEF ReaderPlaces, ReaderPlace
  <1>10. BufferFilled
    <2>1. NextToWrite = first
      BY <1>1, <1>3, <1>6 DEF NextToWrite
    <2>2. \A s \in Sequences : From(s) \in Int
      BY <1>1, <1>2, DifferenceType DEF From
    <2>3. QED BY <1>4, <2>1, <2>2 DEF BufferFilled
  <1>11. QED BY <1>5, <1>7, <1>8, <1>9, <1>10 DEF SequencerInv

(* A step of the producer that moves its barrier, if at all, forward.      *)
LEMMA ReadersKept ==
  ASSUME SequencerInv, UNCHANGED <<m_consumerBarrier, nextToRead, waitTarget, available>>,
         \A c \in Readers : sequencerPc'[c] = sequencerPc[c],
         m_producerBarrier' \in Sequences, From(m_producerBarrier) <= From(m_producerBarrier')
  PROVE  ReaderPlaces'
  <1> SUFFICES ASSUME NEW c \in Readers PROVE ReaderPlace(c)'
    BY DEF ReaderPlaces
  <1>1. ReaderPlace(c)
    BY DEF SequencerInv, ReaderPlaces
  <1>2. /\ From(m_producerBarrier) \in Int /\ From(m_producerBarrier') \in Int
        /\ nextToRead[c] \in Sequences /\ From(nextToRead[c]) \in Int
        /\ available[c] # NoResult => From(available[c]) \in Int
    BY SequencerValues
  <1>3. \A x \in Int : /\ x <= From(m_producerBarrier) => x <= From(m_producerBarrier')
                       /\ x <= From(m_producerBarrier) + 1 => x <= From(m_producerBarrier') + 1
    BY <1>2
  <1>4. UNCHANGED m_consumerBarrier /\ \A s : Difference(s, m_consumerBarrier') = From(s)
    BY DEF From
  <1>5. QED BY <1>1, <1>2, <1>3, <1>4 DEF ReaderPlace, From

(* A step of a consumer.                                                   *)
LEMMA ProducerKept ==
  ASSUME SequencerInv, sequencerPc'[Producer] = sequencerPc[Producer],
         UNCHANGED <<m_consumerBarrier, m_producerBarrier, m_nextToClaim, claimed, claimTarget, lastConsumed, buffer>>
  PROVE  ProducerPlace' /\ ClaimPlace' /\ BufferFilled'
  <1>1. ProducerPlace' /\ ClaimPlace'
    BY DEF SequencerInv, ProducerPlace, ClaimPlace, From
  <1>2. NextToWrite' = NextToWrite
    BY DEF NextToWrite
  <1>3. BufferFilled'
    BY <1>2 DEF SequencerInv, BufferFilled, From
  <1>4. QED BY <1>1, <1>3

(* One party goes to another label.                                        *)
LEMMA PartyMoves ==
  ASSUME SequencerInv, NEW t \in Parties, NEW label \in PartyLabels, sequencerPc' = [sequencerPc EXCEPT ![t] = label]
  PROVE  /\ sequencerPc' \in [Parties -> PartyLabels] /\ sequencerPc'[t] = label
         /\ \A u \in Parties : u # t => sequencerPc'[u] = sequencerPc[u]
  BY SequencerValues

(* claim_one() and claim_up_to()                                           *)
LEMMA SequencerClaim ==
  ASSUME SequencerInv, NEW count \in 1 .. MaxSingleClaim, Sequencer!Claim(count)
  PROVE  SequencerInv'
  <1> USE BufferFacts
  <1>1. SequencerTypes /\ ProducerPlace /\ ClaimPlace /\ ReaderPlaces /\ BufferFilled
    BY DEF SequencerInv
  <1>2. /\ m_nextToClaim \in Sequences /\ m_producerBarrier \in Sequences /\ m_consumerBarrier \in Sequences
        /\ claimTarget \in [{Producer} -> Sequences] /\ lastConsumed \in [{Producer} -> Sequences \cup {NoResult}]
        /\ (\A s \in Sequences : From(s) \in Int) /\ From(m_consumerBarrier) = 0
        /\ \A c \in Readers : sequencerPc[c] \in {"idle", "wait", "read"}
    BY SequencerValues
  <1>3. PICK t : t = Advance(m_nextToClaim, -BufferSize)
    OBVIOUS
  <1>4. /\ sequencerPc[Producer] = "idle" /\ claimTarget' = [claimTarget EXCEPT ![Producer] = t]
        /\ lastConsumed' = [lastConsumed EXCEPT ![Producer] = IF Difference(m_consumerBarrier, t) < 0 THEN NoResult ELSE m_consumerBarrier]
        /\ m_count' = count /\ sequencerPc' = [sequencerPc EXCEPT ![Producer] = "claim"]
        /\ UNCHANGED <<m_consumerBarrier, m_nextToClaim, claimed, buffer, nextToRead, m_producerBarrier, waitTarget, available>>
    BY <1>3, SequencerTerms DEF Sequencer!Claim, Sequencer!Read!WaitUntilPublished, Sequencer!Goto, Sequencer!producerBarrier
  <1>5. PICK n \in Int : n = From(m_nextToClaim) /\ 1 <= n /\ n <= BufferSize + 1
    BY PlaceFacts
  <1>6. t \in Sequences /\ From(t) = n - BufferSize /\ Difference(m_consumerBarrier, t) = BufferSize - n
    <2>1. -BufferSize \in Int /\ -Half <= -BufferSize /\ -BufferSize <= Half /\ -Half <= n + (-BufferSize) /\ n + (-BufferSize) < Half
      BY <1>5
    <2>2. t \in Sequences /\ From(t) = n + (-BufferSize)
      BY <1>2, <1>3, <1>5, <2>1, FromAdvance
    <2>3. -Half <= 0 - (n + (-BufferSize)) /\ 0 - (n + (-BufferSize)) < Half
      BY <1>5
    <2>4. Difference(m_consumerBarrier, t) = 0 - (n + (-BufferSize))
      BY <1>2, <2>2, <2>3, FromDifference
    <2>5. QED BY <1>5, <2>2, <2>4
  <1>7. /\ sequencerPc' \in [Parties -> PartyLabels] /\ sequencerPc'[Producer] = "claim"
        /\ \A u \in Parties : u # Producer => sequencerPc'[u] = sequencerPc[u]
    BY <1>4, PartyMoves DEF PartyLabels
  <1>8. /\ claimTarget' \in [{Producer} -> Sequences] /\ claimTarget'[Producer] = t
        /\ lastConsumed' \in [{Producer} -> Sequences \cup {NoResult}]
        /\ lastConsumed'[Producer] = IF Difference(m_consumerBarrier, t) < 0 THEN NoResult ELSE m_consumerBarrier
    BY <1>2, <1>4, <1>6
  <1>9. SequencerTypes'
    BY <1>1, <1>4, <1>7, <1>8, SequencerTerms DEF SequencerTypes, Sequencer!TypeOK
  <1>10. ProducerPlace'
    BY <1>1, <1>4, <1>7 DEF ProducerPlace, From
  <1>11. ClaimPlace'
    <2>1. lastConsumed'[Producer] # NoResult => lastConsumed'[Producer] = m_consumerBarrier /\ n - BufferSize <= 0
      BY <1>5, <1>6, <1>8
    <2>2. QED BY <1>2, <1>3, <1>4, <1>5, <1>7, <1>8, <2>1 DEF ClaimPlace, From
  <1>12. ReaderPlaces'
    BY <1>2, <1>4, <1>7, ReadersKept
  <1>13. BufferFilled'
    <2>1. NextToWrite' = NextToWrite
      BY <1>4, <1>7 DEF NextToWrite
    <2>2. QED BY <1>1, <1>4, <2>1 DEF BufferFilled, From
  <1>14. QED BY <1>9, <1>10, <1>11, <1>12, <1>13 DEF SequencerInv

(* The consumer barrier resumes the producer.                              *)
LEMMA SequencerClaimWait ==
  ASSUME SequencerInv, Sequencer!ClaimWaitResumes
  PROVE  SequencerInv'
  <1> USE BufferFacts
  <1>1. SequencerTypes /\ ProducerPlace /\ ClaimPlace /\ ReaderPlaces /\ BufferFilled
    BY DEF SequencerInv
  <1>2. /\ m_nextToClaim \in Sequences /\ m_producerBarrier \in Sequences /\ m_consumerBarrier \in Sequences
        /\ lastConsumed \in [{Producer} -> Sequences \cup {NoResult}]
        /\ (\A s \in Sequences : From(s) \in Int) /\ From(m_consumerBarrier) = 0
    BY SequencerValues
  <1>3. PICK k \in 0 .. Difference(m_consumerBarrier, claimTarget[Producer]) :
          lastConsumed' = [lastConsumed EXCEPT ![Producer] = Advance(claimTarget[Producer], k)]
    BY SequencerTerms DEF Sequencer!ClaimWaitResumes, Sequencer!Read!ResumeWaiter
  <1>4. /\ lastConsumed[Producer] = NoResult
        /\ UNCHANGED <<m_consumerBarrier, claimTarget, m_nextToClaim, claimed, m_count, buffer, nextToRead, sequencerPc,
                       m_producerBarrier, waitTarget, available>>
    BY DEF Sequencer!ClaimWaitResumes, Sequencer!Read!ResumeWaiter, Sequencer!producerBarrier
  <1>5. PICK n \in Int : n = From(m_nextToClaim) /\ 1 <= n /\ n <= BufferSize + 1
    BY PlaceFacts
  <1>6. PICK t : t = claimTarget[Producer]
    OBVIOUS
  <1>7. sequencerPc[Producer] = "claim" /\ t = Advance(m_nextToClaim, -BufferSize)
    BY <1>1, <1>4, <1>6 DEF ClaimPlace
  <1>8. t \in Sequences /\ From(t) = n - BufferSize /\ Difference(m_consumerBarrier, t) = BufferSize - n
    <2>1. -BufferSize \in Int /\ -Half <= -BufferSize /\ -BufferSize <= Half /\ -Half <= n + (-BufferSize) /\ n + (-BufferSize) < Half
      BY <1>5
    <2>2. t \in Sequences /\ From(t) = n + (-BufferSize)
      BY <1>2, <1>5, <1>7, <2>1, FromAdvance
    <2>3. -Half <= 0 - (n + (-BufferSize)) /\ 0 - (n + (-BufferSize)) < Half
      BY <1>5
    <2>4. Difference(m_consumerBarrier, t) = 0 - (n + (-BufferSize))
      BY <1>2, <2>2, <2>3, FromDifference
    <2>5. QED BY <1>5, <2>2, <2>4
  <1>9. k \in Int /\ 0 <= k /\ k <= BufferSize - n
    BY <1>3, <1>5, <1>6, <1>8
  <1>10. PICK r \in Sequences : r = Advance(t, k) /\ From(r) = n - BufferSize + k
    <2>1. -Half <= k /\ k <= Half /\ -Half <= n - BufferSize + k /\ n - BufferSize + k < Half
      BY <1>5, <1>9
    <2>2. QED BY <1>2, <1>8, <1>9, <2>1, FromAdvance
  <1>11. n - BufferSize <= From(r) /\ From(r) <= 0
    BY <1>5, <1>9, <1>10
  <1>12. lastConsumed' \in [{Producer} -> Sequences \cup {NoResult}] /\ lastConsumed'[Producer] = r
    BY <1>2, <1>3, <1>6, <1>10
  <1>13. SequencerTypes'
    BY <1>1, <1>4, <1>12, SequencerTerms DEF SequencerTypes, Sequencer!TypeOK
  <1>14. ProducerPlace'
    BY <1>1, <1>4 DEF ProducerPlace, From
  <1>15. ClaimPlace'
    BY <1>4, <1>5, <1>6, <1>7, <1>11, <1>12 DEF ClaimPlace, From
  <1>16. ReaderPlaces'
    BY <1>2, <1>4, ReadersKept
  <1>17. BufferFilled'
    BY <1>1, <1>4 DEF BufferFilled, NextToWrite, From
  <1>18. QED BY <1>13, <1>14, <1>15, <1>16, <1>17 DEF SequencerInv

(* The unsigned difference that claim_up_to() computes.                    *)
LEMMA UnsignedDifference ==
  ASSUME NEW a \in Sequences, NEW b \in Sequences, 0 <= Difference(a, b)
  PROVE  (a - b) % 2^Width = Difference(a, b)
  <1>1. 2^Width \in Nat \ {0} /\ a - b \in Int
    BY HalfOfRange
  <1>2. PICK d \in 0 .. 2^Width - 1 : d = (a - b) % 2^Width
    <2>1. PICK x \in Int : x = a - b
      BY <1>1
    <2>2. x % 2^Width \in 0 .. 2^Width - 1
      BY <1>1, ModuloCases
    <2>3. QED BY <2>1, <2>2
  <1>3. Difference(a, b) = IF d < Half THEN d ELSE d - 2^Width
    BY <1>2 DEF Difference, Half
  <1>4. QED BY <1>1, <1>2, <1>3

LEMMA SequencerClaimResumes ==
  ASSUME SequencerInv, Sequencer!ClaimResumes
  PROVE  SequencerInv'
  <1> USE BufferFacts
  <1> DEFINE l == lastConsumed[Producer]
             lastAvailable == Advance(l, BufferSize)
             availableCount == Advance((lastAvailable - m_nextToClaim) % 2^Width, 1)
             count == IF m_count < availableCount THEN m_count ELSE availableCount
             end == Advance(m_nextToClaim, count)
  <1>1. SequencerTypes /\ ProducerPlace /\ ClaimPlace /\ ReaderPlaces /\ BufferFilled
    BY DEF SequencerInv
  <1>2. /\ m_nextToClaim \in Sequences /\ m_producerBarrier \in Sequences /\ m_consumerBarrier \in Sequences
        /\ lastConsumed \in [{Producer} -> Sequences \cup {NoResult}] /\ m_count \in 1 .. MaxSingleClaim
        /\ (\A s \in Sequences : From(s) \in Int)
    BY SequencerValues
  <1>3. /\ sequencerPc[Producer] = "claim" /\ l # NoResult
        /\ claimed' = [begin |-> m_nextToClaim, end |-> end, next |-> m_nextToClaim]
        /\ m_nextToClaim' = end /\ sequencerPc' = [sequencerPc EXCEPT ![Producer] = "write"]
        /\ UNCHANGED <<m_count, buffer, nextToRead, m_producerBarrier, waitTarget, available,
                       m_consumerBarrier, claimTarget, lastConsumed>>
    <2>1. Sequencer!ClaimedRange = [begin |-> m_nextToClaim, end |-> end, next |-> m_nextToClaim]
      BY SequencerTerms DEF Sequencer!ClaimedRange
    <2> HIDE DEF end
    <2>2. QED BY <2>1 DEF Sequencer!ClaimResumes, Sequencer!Goto, Sequencer!producerBarrier, Sequencer!consumerBarrier
  <1>4. PICK p, n \in Int : /\ p = From(m_producerBarrier) /\ n = From(m_nextToClaim) /\ 0 <= p /\ p < n /\ n <= BufferSize + 1
                            /\ NextToWrite \in Sequences
    <2>1. PICK p, n, w \in Int : /\ p = From(m_producerBarrier) /\ n = From(m_nextToClaim) /\ 0 <= p /\ p < w /\ w <= n
                                 /\ n <= BufferSize + 1 /\ NextToWrite \in Sequences
      BY PlaceFacts
    <2>2. p < n
      BY <2>1
    <2>3. QED BY <2>1, <2>2
  <1>5. l \in Sequences
    BY <1>2, <1>3
  <1>6. PICK f \in Int : f = From(l) /\ n - BufferSize <= f /\ f <= 0
    <2>1. n - BufferSize <= From(l) /\ From(l) <= 0
      BY <1>1, <1>3, <1>4 DEF ClaimPlace
    <2>2. QED BY <1>2, <1>5, <2>1
  <1>7. lastAvailable \in Sequences /\ From(lastAvailable) = f + BufferSize
    <2>1. BufferSize \in Int /\ -Half <= BufferSize /\ BufferSize <= Half /\ -Half <= f + BufferSize /\ f + BufferSize < Half
      BY <1>4, <1>6
    <2>2. QED BY <1>2, <1>5, <1>6, <2>1, FromAdvance
  <1> HIDE DEF lastAvailable, l
  <1>8. (lastAvailable - m_nextToClaim) % 2^Width = f + BufferSize - n
    <2>1. -Half <= f + BufferSize - n /\ f + BufferSize - n < Half /\ 0 <= f + BufferSize - n
      BY <1>4, <1>6
    <2>2. Difference(lastAvailable, m_nextToClaim) = f + BufferSize - n
      BY <1>2, <1>4, <1>7, <2>1, FromDifference
    <2>3. QED BY <1>2, <1>7, <2>1, <2>2, UnsignedDifference
  <1>9. availableCount = f + BufferSize - n + 1 /\ availableCount \in 1 .. BufferSize
    <2>1. PICK x \in Int : x = f + BufferSize - n + 1 /\ 1 <= x /\ x <= BufferSize
      BY <1>4, <1>6
    <2>2. 2^Width \in Nat \ {0} /\ x \in 0 .. 2^Width - 1
      BY <2>1, HalfOfRange
    <2>3. x % 2^Width = x
      BY <2>2, ModuloCases
    <2>4. QED BY <1>8, <2>1, <2>3 DEF Advance
  <1> HIDE DEF availableCount
  <1>10. count \in 1 .. BufferSize /\ count <= f + BufferSize - n + 1
    BY <1>2, <1>9
  <1> HIDE DEF count
  <1>11. end \in Sequences /\ From(end) = n + count /\ n + count <= BufferSize + 1
    <2>1. /\ count \in Int /\ -Half <= count /\ count <= Half /\ -Half <= n + count /\ n + count < Half
          /\ n + count <= BufferSize + 1
      BY <1>4, <1>6, <1>10
    <2>2. QED BY <1>2, <1>4, <2>1, FromAdvance
  <1> HIDE DEF end
  <1>12. /\ sequencerPc' \in [Parties -> PartyLabels] /\ sequencerPc'[Producer] = "write"
         /\ \A u \in Parties : u # Producer => sequencerPc'[u] = sequencerPc[u]
    BY <1>3, PartyMoves DEF PartyLabels
  <1>13. /\ claimed' \in [begin : Sequences, end : Sequences, next : Sequences]
         /\ claimed'.begin = m_nextToClaim /\ claimed'.end = end /\ claimed'.next = m_nextToClaim
    BY <1>2, <1>3, <1>11
  <1>14. SequencerTypes'
    BY <1>1, <1>3, <1>11, <1>12, <1>13, SequencerTerms DEF SequencerTypes, Sequencer!TypeOK
  <1>15. ProducerPlace'
    <2>1. m_nextToClaim = Advance(m_producerBarrier, 1)
      BY <1>1, <1>3 DEF ProducerPlace
    <2>2. p < n + count /\ p + 1 < n + count /\ p + 1 <= n /\ n <= n + count
      BY <1>4, <1>10
    <2>3. QED BY <1>3, <1>4, <1>11, <1>12, <1>13, <2>1, <2>2 DEF ProducerPlace, From
  <1>16. ClaimPlace'
    BY <1>3, <1>12 DEF ClaimPlace, l
  <1>17. ReaderPlaces'
    BY <1>2, <1>3, <1>12, ReadersKept
  <1>18. BufferFilled'
    <2>1. NextToWrite' = NextToWrite
      BY <1>3, <1>12, <1>13 DEF NextToWrite
    <2>2. QED BY <1>1, <1>3, <2>1 DEF BufferFilled, From
  <1>19. QED BY <1>14, <1>15, <1>16, <1>17, <1>18 DEF SequencerInv

LEMMA SequencerWrite ==
  ASSUME SequencerInv, Sequencer!WriteElement
  PROVE  SequencerInv'
  <1> USE BufferFacts
  <1>1. SequencerTypes /\ ProducerPlace /\ ClaimPlace /\ ReaderPlaces /\ BufferFilled
    BY DEF SequencerInv
  <1>2. /\ m_nextToClaim \in Sequences /\ m_producerBarrier \in Sequences /\ m_consumerBarrier \in Sequences
        /\ claimed \in [begin : Sequences, end : Sequences, next : Sequences] /\ claimed.next \in Sequences
        /\ buffer \in [0 .. (BufferSize - 1) -> Sequences]
        /\ (\A s \in Sequences : From(s) \in Int)
    BY SequencerValues
  <1>3. PICK next \in Sequences : next = claimed.next
    BY <1>2
  <1>4. /\ sequencerPc[Producer] = "write" /\ next # claimed.end
        /\ buffer' = [buffer EXCEPT ![Sequencer!Slot(next)] = next]
        /\ claimed' = [claimed EXCEPT !.next = Advance(next, 1)]
        /\ UNCHANGED <<m_nextToClaim, m_count, nextToRead, sequencerPc, m_producerBarrier, waitTarget, available,
                       m_consumerBarrier, claimTarget, lastConsumed>>
    BY <1>3, SequencerTerms DEF Sequencer!WriteElement, Sequencer!producerBarrier, Sequencer!consumerBarrier
  <1>5. PICK p \in Int : p = From(m_producerBarrier) /\ 0 <= p
    BY PlaceFacts
  <1>6. PICK n \in Int : n = From(m_nextToClaim) /\ n <= BufferSize + 1
    BY PlaceFacts
  <1>7. PICK w \in Int : w = From(next)
    BY <1>2
  <1>8. claimed.end = m_nextToClaim /\ p + 1 < n /\ p + 1 <= w /\ w <= n /\ claimed.begin = Advance(m_producerBarrier, 1)
    BY <1>1, <1>3, <1>4, <1>5, <1>6, <1>7 DEF ProducerPlace
  <1>9. w < n
    <2>1. w # n
      BY <1>2, <1>4, <1>6, <1>7, <1>8, FromIsUnique
    <2>2. QED BY <1>8, <2>1
  <1>10. PICK m \in Sequences : m = Advance(next, 1) /\ From(m) = w + 1
    <2>1. -Half <= 1 /\ 1 <= Half /\ -Half <= w + 1 /\ w + 1 < Half
      BY <1>5, <1>6, <1>8, <1>9
    <2>2. QED BY <1>2, <1>7, <2>1, FromAdvance
  <1>11. /\ claimed' \in [begin : Sequences, end : Sequences, next : Sequences]
         /\ claimed'.begin = claimed.begin /\ claimed'.end = claimed.end /\ claimed'.next = m
    BY <1>2, <1>4, <1>10
  <1>12. /\ buffer' \in [0 .. (BufferSize - 1) -> Sequences] /\ buffer'[Sequencer!Slot(next)] = next
         /\ \A i \in 0 .. (BufferSize - 1) : i # Sequencer!Slot(next) => buffer'[i] = buffer[i]
    BY <1>2, <1>4, SlotType
  <1>13. SequencerTypes'
    BY <1>1, <1>4, <1>11, <1>12, SequencerTerms DEF SequencerTypes, Sequencer!TypeOK
  <1>14. ProducerPlace'
    <2>1. p + 1 <= w + 1 /\ w + 1 <= n
      BY <1>5, <1>6, <1>8, <1>9
    <2>2. QED BY <1>1, <1>4, <1>5, <1>6, <1>8, <1>10, <1>11, <2>1 DEF ProducerPlace, From
  <1>15. ClaimPlace'
    BY <1>1, <1>4 DEF ClaimPlace, From
  <1>16. ReaderPlaces'
    BY <1>2, <1>4, ReadersKept
  <1>17. BufferFilled'
    <2> SUFFICES ASSUME NEW s \in Sequences, 1 <= From(s), From(s) < w + 1 PROVE buffer'[Sequencer!Slot(s)] = s
      <3>1. NextToWrite' = m
        BY <1>4, <1>11 DEF NextToWrite
      <3>2. QED BY <1>4, <1>10, <3>1 DEF BufferFilled, From
    <2>1. CASE From(s) = w
      <3>1. s = next
        BY <1>2, <1>7, <2>1, FromIsUnique
      <3>2. QED BY <1>12, <3>1
    <2>2. CASE From(s) # w
      <3>1. PICK a \in Int : a = From(s) /\ 1 <= a /\ a < w
        BY <1>2, <2>2
      <3>2. Difference(next, s) = w - a
        <4>1. -Half <= w - a /\ w - a < Half
          BY <1>6, <1>9, <3>1
        <4>2. QED BY <1>2, <1>7, <3>1, <4>1, FromDifference
      <3>3. 0 < Difference(next, s) /\ Difference(next, s) < BufferSize
        BY <1>6, <1>9, <3>1, <3>2
      <3>4. Sequencer!Slot(s) # Sequencer!Slot(next) /\ Sequencer!Slot(s) \in 0 .. (BufferSize - 1)
        BY <3>3, SlotsDiffer, SlotType
      <3>5. buffer[Sequencer!Slot(s)] = s
        <4>1. NextToWrite = next
          BY <1>3, <1>4 DEF NextToWrite
        <4>2. QED BY <1>1, <1>7, <3>1, <4>1 DEF BufferFilled
      <3>6. QED BY <1>12, <3>4, <3>5
    <2>3. QED BY <2>1, <2>2
  <1>18. QED BY <1>13, <1>14, <1>15, <1>16, <1>17 DEF SequencerInv

(* publish()                                                               *)
LEMMA SequencerPublish ==
  ASSUME SequencerInv, Sequencer!Publish
  PROVE  SequencerInv'
  <1> USE BufferFacts
  <1>1. SequencerTypes /\ ProducerPlace /\ ClaimPlace /\ ReaderPlaces /\ BufferFilled
    BY DEF SequencerInv
  <1>2. /\ m_nextToClaim \in Sequences /\ m_producerBarrier \in Sequences /\ m_consumerBarrier \in Sequences
        /\ (\A s \in Sequences : From(s) \in Int)
    BY SequencerValues
  <1>3. /\ sequencerPc[Producer] = "write" /\ claimed.next = claimed.end
        /\ m_producerBarrier' = Advance(claimed.end, -1) /\ sequencerPc' = [sequencerPc EXCEPT ![Producer] = "idle"]
        /\ UNCHANGED <<waitTarget, available, m_nextToClaim, claimed, m_count, buffer, nextToRead,
                       m_consumerBarrier, claimTarget, lastConsumed>>
    BY SequencerTerms DEF Sequencer!Publish, Sequencer!Written!PublishSequence, Sequencer!Goto, Sequencer!consumerBarrier
  <1>4. PICK p \in Int : p = From(m_producerBarrier) /\ 0 <= p
    BY PlaceFacts
  <1>5. PICK n \in Int : n = From(m_nextToClaim) /\ n <= BufferSize + 1
    BY PlaceFacts
  <1>6. claimed.end = m_nextToClaim /\ p + 1 < n
    BY <1>1, <1>3, <1>4, <1>5 DEF ProducerPlace
  <1>7. m_producerBarrier' \in Sequences /\ From(m_producerBarrier') = n - 1
    <2>1. -1 \in Int /\ -Half <= -1 /\ -1 <= Half /\ -Half <= n + (-1) /\ n + (-1) < Half /\ n + (-1) = n - 1
      BY <1>4, <1>5, <1>6
    <2>2. Advance(m_nextToClaim, -1) \in Sequences /\ From(Advance(m_nextToClaim, -1)) = n + (-1)
      BY <1>2, <1>5, <2>1, FromAdvance
    <2>3. QED BY <1>3, <1>6, <2>1, <2>2
  <1>8. m_nextToClaim = Advance(m_producerBarrier', 1)
    <2>1. -Half <= 1 /\ 1 <= Half /\ -Half <= (n - 1) + 1 /\ (n - 1) + 1 < Half /\ (n - 1) + 1 = n
      BY <1>4, <1>5, <1>6
    <2>2. PICK s \in Sequences : s = m_producerBarrier' /\ From(s) = n - 1
      BY <1>7
    <2>3. Advance(s, 1) \in Sequences /\ From(Advance(s, 1)) = n
      BY <1>2, <2>1, <2>2, FromAdvance, SMTT(40)
    <2>4. QED BY <1>2, <1>5, <2>2, <2>3, FromIsUnique
  <1>9. /\ sequencerPc' \in [Parties -> PartyLabels] /\ sequencerPc'[Producer] = "idle"
        /\ \A u \in Parties : u # Producer => sequencerPc'[u] = sequencerPc[u]
    BY <1>3, PartyMoves DEF PartyLabels
  <1>10. SequencerTypes'
    BY <1>1, <1>3, <1>7, <1>9, SequencerTerms DEF SequencerTypes, Sequencer!TypeOK
  <1>11. ProducerPlace'
    <2>1. 0 <= n - 1 /\ n - 1 < n
      BY <1>4, <1>6
    <2>2. QED BY <1>3, <1>5, <1>7, <1>8, <1>9, <2>1 DEF ProducerPlace, From
  <1>12. ClaimPlace'
    BY <1>1, <1>3, <1>9 DEF ClaimPlace
  <1>13. ReaderPlaces'
    <2>1. From(m_producerBarrier) <= From(m_producerBarrier')
      BY <1>4, <1>5, <1>6, <1>7
    <2>2. QED BY <1>3, <1>7, <1>9, <2>1, ReadersKept
  <1>14. BufferFilled'
    <2>1. NextToWrite' = NextToWrite
      BY <1>3, <1>6, <1>9 DEF NextToWrite
    <2>2. QED BY <1>1, <1>3, <2>1 DEF BufferFilled, From
  <1>15. QED BY <1>10, <1>11, <1>12, <1>13, <1>14 DEF SequencerInv

(* A step of one consumer that leaves the others alone.                    *)
LEMMA OtherReadersKept ==
  ASSUME SequencerInv, NEW c \in Readers, ReaderPlace(c)', UNCHANGED <<m_consumerBarrier, m_producerBarrier>>,
         \A d \in Readers : d # c => /\ sequencerPc'[d] = sequencerPc[d] /\ nextToRead'[d] = nextToRead[d]
                                     /\ waitTarget'[d] = waitTarget[d] /\ available'[d] = available[d]
  PROVE  ReaderPlaces'
  <1> SUFFICES ASSUME NEW d \in Readers, d # c PROVE ReaderPlace(d)'
    BY DEF ReaderPlaces
  <1>1. ReaderPlace(d)
    BY DEF SequencerInv, ReaderPlaces
  <1>2. QED BY <1>1 DEF ReaderPlace, From

LEMMA SequencerWait ==
  ASSUME SequencerInv, NEW c \in Readers, Sequencer!WaitForNext(c)
  PROVE  SequencerInv'
  <1> USE BufferFacts
  <1>1. SequencerTypes /\ ReaderPlaces
    BY DEF SequencerInv
  <1>2. /\ m_producerBarrier \in Sequences /\ m_consumerBarrier \in Sequences /\ nextToRead[c] \in Sequences
        /\ waitTarget \in [Readers -> Sequences] /\ available \in [Readers -> Sequences \cup {NoResult}]
        /\ (\A s \in Sequences : From(s) \in Int)
        /\ \A d \in Readers : sequencerPc[d] \in {"idle", "wait", "read"}
    BY SequencerValues
  <1>3. /\ sequencerPc[c] = "idle" /\ waitTarget' = [waitTarget EXCEPT ![c] = nextToRead[c]]
        /\ available' = [available EXCEPT ![c] = IF Difference(m_producerBarrier, nextToRead[c]) < 0 THEN NoResult ELSE m_producerBarrier]
        /\ sequencerPc' = [sequencerPc EXCEPT ![c] = "wait"]
        /\ UNCHANGED <<m_producerBarrier, m_nextToClaim, claimed, m_count, buffer, nextToRead,
                       m_consumerBarrier, claimTarget, lastConsumed>>
    BY SequencerTerms DEF Sequencer!WaitForNext, Sequencer!Written!WaitUntilPublished, Sequencer!Goto, Sequencer!consumerBarrier
  <1>4. /\ sequencerPc' \in [Parties -> PartyLabels] /\ sequencerPc'[c] = "wait"
        /\ \A u \in Parties : u # c => sequencerPc'[u] = sequencerPc[u]
    BY <1>3, PartyMoves DEF PartyLabels
  <1>5. /\ waitTarget' \in [Readers -> Sequences] /\ waitTarget'[c] = nextToRead[c]
        /\ available' \in [Readers -> Sequences \cup {NoResult}]
        /\ available'[c] = IF Difference(m_producerBarrier, nextToRead[c]) < 0 THEN NoResult ELSE m_producerBarrier
        /\ \A d \in Readers : d # c => waitTarget'[d] = waitTarget[d] /\ available'[d] = available[d]
    BY <1>2, <1>3
  <1>6. sequencerPc'[Producer] = sequencerPc[Producer] /\ \A d \in Readers : sequencerPc'[d] \in {"idle", "wait", "read"}
    BY <1>2, <1>4
  <1>7. SequencerTypes'
    BY <1>1, <1>3, <1>4, <1>5, <1>6, SequencerTerms DEF SequencerTypes, Sequencer!TypeOK
  <1>8. ProducerPlace' /\ ClaimPlace' /\ BufferFilled'
    BY <1>3, <1>6, ProducerKept
  <1>9. ReaderPlace(c)'
    <2>1. PICK p \in Int : p = From(m_producerBarrier) /\ 0 <= p /\ p <= BufferSize
      <3>1. PICK p, n, w \in Int : p = From(m_producerBarrier) /\ 0 <= p /\ p < w /\ w <= n /\ n <= BufferSize + 1
        BY PlaceFacts
      <3>2. p <= BufferSize
        BY <3>1
      <3>3. QED BY <3>1, <3>2
    <2>2. PICK r \in Int : r = From(nextToRead[c]) /\ 1 <= r /\ r <= p + 1
      BY <1>1, <1>2, <2>1 DEF ReaderPlaces, ReaderPlace
    <2>3. Difference(m_producerBarrier, nextToRead[c]) = p - r
      <3>1. -Half <= p - r /\ p - r < Half
        BY <2>1, <2>2
      <3>2. QED BY <1>2, <2>1, <2>2, <3>1, FromDifference
    <2>4. available'[c] # NoResult => available'[c] = m_producerBarrier /\ r <= p
      BY <1>5, <2>1, <2>2, <2>3
    <2>5. QED BY <1>3, <1>4, <1>5, <2>1, <2>2, <2>4 DEF ReaderPlace, From
  <1>10. ReaderPlaces'
    BY <1>3, <1>4, <1>5, <1>9, OtherReadersKept
  <1>11. QED BY <1>7, <1>8, <1>10 DEF SequencerInv

(* The producer barrier resumes a consumer.                                *)
LEMMA SequencerWaitResumes ==
  ASSUME SequencerInv, NEW c \in Readers, Sequencer!WaitResumes(c)
  PROVE  SequencerInv'
  <1> USE BufferFacts
  <1>1. SequencerTypes /\ ReaderPlaces
    BY DEF SequencerInv
  <1>2. /\ m_producerBarrier \in Sequences /\ m_consumerBarrier \in Sequences /\ nextToRead[c] \in Sequences
        /\ available \in [Readers -> Sequences \cup {NoResult}]
        /\ (\A s \in Sequences : From(s) \in Int)
    BY SequencerValues
  <1>3. PICK k \in 0 .. Difference(m_producerBarrier, waitTarget[c]) :
          available' = [available EXCEPT ![c] = Advance(waitTarget[c], k)]
    BY SequencerTerms DEF Sequencer!WaitResumes, Sequencer!Written!ResumeWaiter
  <1>4. /\ available[c] = NoResult
        /\ UNCHANGED <<m_producerBarrier, waitTarget, m_nextToClaim, claimed, m_count, buffer, nextToRead, sequencerPc,
                       m_consumerBarrier, claimTarget, lastConsumed>>
    BY DEF Sequencer!WaitResumes, Sequencer!Written!ResumeWaiter, Sequencer!consumerBarrier
  <1>5. sequencerPc[c] = "wait" /\ waitTarget[c] = nextToRead[c]
    BY <1>1, <1>4 DEF ReaderPlaces, ReaderPlace
  <1>6. PICK p \in Int : p = From(m_producerBarrier) /\ 0 <= p /\ p <= BufferSize
    <2>1. PICK p, n, w \in Int : p = From(m_producerBarrier) /\ 0 <= p /\ p < w /\ w <= n /\ n <= BufferSize + 1
      BY PlaceFacts
    <2>2. p <= BufferSize
      BY <2>1
    <2>3. QED BY <2>1, <2>2
  <1>7. PICK r \in Int : r = From(nextToRead[c]) /\ 1 <= r /\ r <= p + 1
    BY <1>1, <1>2, <1>6 DEF ReaderPlaces, ReaderPlace
  <1>8. Difference(m_producerBarrier, nextToRead[c]) = p - r
    <2>1. -Half <= p - r /\ p - r < Half
      BY <1>6, <1>7
    <2>2. QED BY <1>2, <1>6, <1>7, <2>1, FromDifference
  <1>9. k \in Int /\ 0 <= k /\ k <= p - r
    BY <1>3, <1>5, <1>6, <1>7, <1>8
  <1>10. PICK a \in Sequences : a = Advance(nextToRead[c], k) /\ From(a) = r + k
    <2>1. -Half <= k /\ k <= Half /\ -Half <= r + k /\ r + k < Half
      BY <1>6, <1>7, <1>9
    <2>2. QED BY <1>2, <1>7, <1>9, <2>1, FromAdvance
  <1>11. r <= From(a) /\ From(a) <= p
    BY <1>6, <1>7, <1>9, <1>10
  <1>12. /\ available' \in [Readers -> Sequences \cup {NoResult}] /\ available'[c] = a
         /\ \A d \in Readers : d # c => available'[d] = available[d]
    BY <1>2, <1>3, <1>5, <1>10
  <1>13. SequencerTypes'
    BY <1>1, <1>4, <1>12, SequencerTerms DEF SequencerTypes, Sequencer!TypeOK
  <1>14. ProducerPlace' /\ ClaimPlace' /\ BufferFilled'
    BY <1>4, ProducerKept
  <1>15. ReaderPlace(c)'
    BY <1>4, <1>5, <1>6, <1>7, <1>11, <1>12 DEF ReaderPlace, From
  <1>16. ReaderPlaces'
    BY <1>4, <1>12, <1>15, OtherReadersKept
  <1>17. QED BY <1>13, <1>14, <1>16 DEF SequencerInv

LEMMA SequencerRead ==
  ASSUME SequencerInv, NEW c \in Readers, Sequencer!ReadElement(c)
  PROVE  SequencerInv'
  <1> USE BufferFacts
  <1>1. SequencerTypes /\ ReaderPlaces
    BY DEF SequencerInv
  <1>2. /\ m_producerBarrier \in Sequences /\ m_consumerBarrier \in Sequences /\ nextToRead[c] \in Sequences
        /\ nextToRead \in [Readers -> Sequences]
        /\ waitTarget \in [Readers -> Sequences] /\ available \in [Readers -> Sequences \cup {NoResult}]
        /\ (\A s \in Sequences : From(s) \in Int)
        /\ \A d \in Readers : sequencerPc[d] \in {"idle", "wait", "read"}
    BY SequencerValues
  <1>3. PICK label \in {"idle", "read"} : label = IF nextToRead[c] = available[c] THEN "idle" ELSE "read"
    OBVIOUS
  <1>4. /\ sequencerPc[c] \in {"wait", "read"} /\ available[c] # NoResult
        /\ nextToRead' = [nextToRead EXCEPT ![c] = Advance(nextToRead[c], 1)]
        /\ sequencerPc' = [sequencerPc EXCEPT ![c] = label]
        /\ UNCHANGED <<m_nextToClaim, claimed, m_count, buffer, m_producerBarrier, waitTarget, available,
                       m_consumerBarrier, claimTarget, lastConsumed>>
    BY <1>3, SequencerTerms DEF Sequencer!ReadElement, Sequencer!Goto, Sequencer!producerBarrier, Sequencer!consumerBarrier
  <1>5. PICK p \in Int : p = From(m_producerBarrier) /\ 0 <= p /\ p <= BufferSize
    <2>1. PICK p, n, w \in Int : p = From(m_producerBarrier) /\ 0 <= p /\ p < w /\ w <= n /\ n <= BufferSize + 1
      BY PlaceFacts
    <2>2. p <= BufferSize
      BY <2>1
    <2>3. QED BY <2>1, <2>2
  <1>6. PICK r \in Int : r = From(nextToRead[c]) /\ 1 <= r
    BY <1>1, <1>2 DEF ReaderPlaces, ReaderPlace
  <1>7. available[c] \in Sequences
    BY <1>2, <1>4
  <1>8. PICK a \in Int : a = From(available[c]) /\ r <= a /\ a <= p
    BY <1>1, <1>2, <1>4, <1>5, <1>6, <1>7 DEF ReaderPlaces, ReaderPlace
  <1>9. label = "read" => r + 1 <= a
    <2>1. label = "read" => r # a
      BY <1>2, <1>3, <1>6, <1>7, <1>8, FromIsUnique
    <2>2. QED BY <1>8, <2>1
  <1>10. PICK m \in Sequences : m = Advance(nextToRead[c], 1) /\ From(m) = r + 1
    <2>1. -Half <= 1 /\ 1 <= Half /\ -Half <= r + 1 /\ r + 1 < Half
      BY <1>5, <1>6, <1>8
    <2>2. QED BY <1>2, <1>6, <2>1, FromAdvance
  <1>11. /\ nextToRead' \in [Readers -> Sequences] /\ nextToRead'[c] = m
         /\ \A d \in Readers : d # c => nextToRead'[d] = nextToRead[d]
    BY <1>2, <1>4, <1>10
  <1>12. /\ sequencerPc' \in [Parties -> PartyLabels] /\ sequencerPc'[c] = label
         /\ \A u \in Parties : u # c => sequencerPc'[u] = sequencerPc[u]
    <2>1. label \in PartyLabels
      BY DEF PartyLabels
    <2>2. QED BY <1>4, <2>1, PartyMoves
  <1>13. sequencerPc'[Producer] = sequencerPc[Producer] /\ \A d \in Readers : sequencerPc'[d] \in {"idle", "wait", "read"}
    BY <1>2, <1>12
  <1>14. SequencerTypes'
    BY <1>1, <1>4, <1>11, <1>12, <1>13, SequencerTerms DEF SequencerTypes, Sequencer!TypeOK
  <1>15. ProducerPlace' /\ ClaimPlace' /\ BufferFilled'
    BY <1>4, <1>13, ProducerKept
  <1>16. 1 <= From(waitTarget[c]) /\ From(waitTarget[c]) <= r
    <2>1. CASE sequencerPc[c] = "wait"
      BY <1>1, <1>6, <2>1 DEF ReaderPlaces, ReaderPlace
    <2>2. CASE sequencerPc[c] = "read"
      BY <1>1, <1>6, <2>2 DEF ReaderPlaces, ReaderPlace
    <2>3. QED BY <1>4, <2>1, <2>2
  <1>17. ReaderPlace(c)'
    <2>1. PICK t \in Int : t = From(waitTarget[c]) /\ 1 <= t /\ t <= r
      BY <1>2, <1>16
    <2>2. 1 <= r + 1 /\ r + 1 <= p + 1 /\ t <= r + 1
      BY <1>6, <1>8, <2>1
    <2>3. QED BY <1>3, <1>4, <1>5, <1>8, <1>9, <1>10, <1>11, <1>12, <2>1, <2>2 DEF ReaderPlace, From
  <1>18. ReaderPlaces'
    BY <1>4, <1>11, <1>12, <1>17, OtherReadersKept
  <1>19. QED BY <1>14, <1>15, <1>18 DEF SequencerInv

(* What all consumers have read is published on the consumer barrier: all  *)
(* places are counted from the new number.                                 *)
LEMMA SequencerPublishRead ==
  ASSUME SequencerInv, Sequencer!PublishRead
  PROVE  SequencerInv'
  <1> USE BufferFacts
  <1> DEFINE Begin(c) == Sequencer!BatchBegin(c)
  <1>1. SequencerTypes /\ ProducerPlace /\ ClaimPlace /\ ReaderPlaces /\ BufferFilled
    BY DEF SequencerInv
  <1>2. /\ m_nextToClaim \in Sequences /\ m_producerBarrier \in Sequences /\ m_consumerBarrier \in Sequences
        /\ claimed.next \in Sequences
        /\ nextToRead \in [Readers -> Sequences] /\ waitTarget \in [Readers -> Sequences]
        /\ available \in [Readers -> Sequences \cup {NoResult}]
        /\ lastConsumed \in [{Producer} -> Sequences \cup {NoResult}]
        /\ (\A x \in Sequences : From(x) \in Int)
        /\ From(m_consumerBarrier) = 0
    BY SequencerValues
  <1>3. PICK s \in Sequences :
          /\ \A c \in Readers : Difference(s, Begin(c)) < 0
          /\ \E c \in Readers : s = Advance(Begin(c), -1)
          /\ Difference(m_consumerBarrier, s) < 0
          /\ m_consumerBarrier' = s
          /\ UNCHANGED <<m_nextToClaim, claimed, m_count, buffer, nextToRead, sequencerPc, m_producerBarrier, waitTarget,
                         available, claimTarget, lastConsumed>>
    BY SequencerTerms DEF Sequencer!PublishRead, Sequencer!Read!PublishSequence, Sequencer!producerBarrier
  <1>4. PICK p, n, w \in Int :
          /\ p = From(m_producerBarrier) /\ n = From(m_nextToClaim) /\ w = From(NextToWrite) /\ NextToWrite \in Sequences
          /\ 0 <= p /\ p < w /\ w <= n /\ n <= BufferSize + 1
    BY PlaceFacts
  <1>5. ASSUME NEW c \in Readers
        PROVE  Begin(c) \in Sequences /\ 1 <= From(Begin(c)) /\ From(Begin(c)) <= p + 1
    <2>1. ReaderPlace(c) /\ nextToRead[c] \in Sequences /\ waitTarget[c] \in Sequences
      BY <1>1, <1>2 DEF ReaderPlaces
    <2>2. PICK r \in Int : r = From(nextToRead[c]) /\ 1 <= r /\ r <= p + 1
      BY <1>2, <1>4, <2>1 DEF ReaderPlace
    <2>3. CASE sequencerPc[c] = "read"
      <3>1. PICK t \in Int : t = From(waitTarget[c]) /\ 1 <= t /\ t <= r
        BY <1>2, <2>1, <2>2, <2>3 DEF ReaderPlace
      <3>2. t <= p + 1
        BY <2>2, <3>1
      <3>3. QED BY <2>1, <2>3, <3>1, <3>2 DEF Sequencer!BatchBegin
    <2>4. CASE sequencerPc[c] # "read"
      BY <2>1, <2>2, <2>4 DEF Sequencer!BatchBegin
    <2>5. QED BY <2>3, <2>4
  <1> HIDE DEF Begin
  <1>6. PICK m \in Int : m = From(s) /\ 0 <= m /\ m <= p
    <2>1. PICK c \in Readers : s = Advance(Begin(c), -1)
      BY <1>3
    <2>2. PICK b \in Int : b = From(Begin(c)) /\ 1 <= b /\ b <= p + 1
      BY <1>2, <1>5
    <2>3. -1 \in Int /\ -Half <= -1 /\ -1 <= Half /\ -Half <= b + (-1) /\ b + (-1) < Half
      BY <1>4, <2>2
    <2>4. From(s) = b + (-1)
      BY <1>2, <1>5, <2>1, <2>2, <2>3, FromAdvance
    <2>5. b + (-1) \in Int /\ 0 <= b + (-1) /\ b + (-1) <= p
      BY <2>2
    <2>6. QED BY <2>4, <2>5
  <1>7. ASSUME NEW c \in Readers
        PROVE  m + 1 <= From(Begin(c))
    <2>1. PICK b \in Int : b = From(Begin(c)) /\ 1 <= b /\ b <= p + 1
      BY <1>2, <1>5
    <2>2. -Half <= m - b /\ m - b < Half
      BY <1>4, <1>6, <2>1
    <2>3. Difference(s, Begin(c)) = m - b
      BY <1>2, <1>5, <1>6, <2>1, <2>2, FromDifference
    <2>4. QED BY <1>3, <1>6, <2>1, <2>3
  <1>8. ASSUME NEW x \in Sequences, -BufferSize <= From(x) - m, From(x) <= BufferSize + 1
        PROVE  Difference(x, s) = From(x) - m
    <2>1. PICK f \in Int : f = From(x)
      BY <1>2
    <2>2. -Half <= f - m /\ f - m < Half
      BY <1>6, <1>8, <2>1
    <2>3. QED BY <1>2, <1>6, <2>1, <2>2, FromDifference
  <1>9. Difference(m_producerBarrier, s) = p - m
    BY <1>2, <1>4, <1>6, <1>8
  <1>10. Difference(m_nextToClaim, s) = n - m
    BY <1>2, <1>4, <1>6, <1>8
  <1>11. SequencerTypes'
    BY <1>1, <1>3, SequencerTerms DEF SequencerTypes, Sequencer!TypeOK
  <1>12. ProducerPlace'
    <2>1. 0 <= p - m /\ p - m < n - m /\ n - m <= BufferSize + 1
      BY <1>4, <1>6
    <2>2. CASE sequencerPc[Producer] # "write"
      BY <1>1, <1>3, <1>9, <1>10, <2>1, <2>2 DEF ProducerPlace, From
    <2>3. CASE sequencerPc[Producer] = "write"
      <3>1. PICK f \in Int : f = From(claimed.next) /\ p + 1 <= f /\ f <= n
        BY <1>1, <1>2, <1>4, <2>3 DEF ProducerPlace
      <3>2. -BufferSize <= f - m /\ f <= BufferSize + 1
        BY <1>4, <1>6, <3>1
      <3>3. Difference(claimed.next, s) = f - m
        BY <1>2, <1>8, <3>1, <3>2
      <3>4. p + 1 < n /\ claimed.begin = Advance(m_producerBarrier, 1) /\ claimed.end = m_nextToClaim
        BY <1>1, <1>4, <2>3 DEF ProducerPlace
      <3>5. (p - m) + 1 < n - m /\ (p - m) + 1 <= f - m /\ f - m <= n - m
        BY <1>6, <3>1, <3>4
      <3>6. QED BY <1>3, <1>9, <1>10, <2>1, <2>3, <3>3, <3>4, <3>5 DEF ProducerPlace, From
    <2>4. QED BY <2>2, <2>3
  <1>13. ClaimPlace'
    <2>1. ASSUME sequencerPc[Producer] = "claim", lastConsumed[Producer] # NoResult
          PROVE  (n - m) - BufferSize <= Difference(lastConsumed[Producer], s) /\ Difference(lastConsumed[Producer], s) <= 0
      <3>1. lastConsumed[Producer] \in Sequences
        BY <1>2, <2>1
      <3>2. PICK f \in Int : f = From(lastConsumed[Producer]) /\ n - BufferSize <= f /\ f <= 0
        BY <1>1, <1>2, <1>4, <2>1, <3>1 DEF ClaimPlace
      <3>3. -BufferSize <= f - m /\ f <= BufferSize + 1
        BY <1>4, <1>6, <3>2
      <3>4. Difference(lastConsumed[Producer], s) = f - m
        BY <1>8, <3>1, <3>2, <3>3
      <3>5. QED BY <1>4, <1>6, <3>2, <3>4
    <2>2. QED BY <1>1, <1>3, <1>10, <2>1 DEF ClaimPlace, From
  <1>14. ReaderPlaces'
    <2> SUFFICES ASSUME NEW c \in Readers PROVE ReaderPlace(c)'
      BY DEF ReaderPlaces
    <2>1. ReaderPlace(c) /\ nextToRead[c] \in Sequences /\ waitTarget[c] \in Sequences
      BY <1>1, <1>2 DEF ReaderPlaces
    <2>2. PICK r \in Int : r = From(nextToRead[c]) /\ 1 <= r /\ r <= p + 1
      BY <1>2, <1>4, <2>1 DEF ReaderPlace
    <2>3. PICK b \in Int : b = From(Begin(c)) /\ m + 1 <= b
      BY <1>2, <1>5, <1>7
    <2>4. sequencerPc[c] = "read" => b = From(waitTarget[c]) /\ b <= r
      BY <2>1, <2>2, <2>3 DEF ReaderPlace, Begin, Sequencer!BatchBegin
    <2>5. sequencerPc[c] # "read" => b = r
      BY <2>2, <2>3 DEF Begin, Sequencer!BatchBegin
    <2>6. m + 1 <= r
      BY <2>2, <2>3, <2>4, <2>5
    <2>7. Difference(nextToRead[c], s) = r - m
      <3>1. -BufferSize <= r - m /\ r <= BufferSize + 1
        BY <1>4, <2>2, <2>6
      <3>2. QED BY <1>8, <2>1, <2>2, <3>1
    <2>8. 1 <= r - m /\ r - m <= (p - m) + 1
      BY <1>6, <2>2, <2>6
    <2>9. sequencerPc[c] = "read" => 1 <= Difference(waitTarget[c], s) /\ Difference(waitTarget[c], s) <= r - m
      <3> SUFFICES ASSUME sequencerPc[c] = "read"
                   PROVE  1 <= Difference(waitTarget[c], s) /\ Difference(waitTarget[c], s) <= r - m
        OBVIOUS
      <3>1. -BufferSize <= b - m /\ b <= BufferSize + 1
        BY <1>4, <2>2, <2>3, <2>4
      <3>2. Difference(waitTarget[c], s) = b - m
        BY <1>8, <2>1, <2>4, <3>1
      <3>3. QED BY <2>2, <2>3, <2>4, <3>2
    <2>10. sequencerPc[c] \in {"wait", "read"} /\ available[c] # NoResult =>
             r - m <= Difference(available[c], s) /\ Difference(available[c], s) <= p - m
      <3> SUFFICES ASSUME sequencerPc[c] \in {"wait", "read"}, available[c] # NoResult
                   PROVE  r - m <= Difference(available[c], s) /\ Difference(available[c], s) <= p - m
        OBVIOUS
      <3>1. available[c] \in Sequences
        BY <1>2
      <3>2. PICK a \in Int : a = From(available[c]) /\ r <= a /\ a <= p
        BY <1>2, <1>4, <2>1, <2>2, <3>1 DEF ReaderPlace
      <3>3. -BufferSize <= a - m /\ a <= BufferSize + 1
        BY <1>4, <2>6, <3>2
      <3>4. Difference(available[c], s) = a - m
        BY <1>8, <3>1, <3>2, <3>3
      <3>5. QED BY <1>6, <2>2, <3>2, <3>4
    <2>11. QED BY <1>3, <1>9, <2>1, <2>7, <2>8, <2>9, <2>10 DEF ReaderPlace, From
  <1>15. BufferFilled'
    <2>1. Difference(NextToWrite, s) = w - m
      BY <1>4, <1>6, <1>8
    <2>2. NextToWrite' = NextToWrite
      BY <1>3 DEF NextToWrite
    <2> SUFFICES ASSUME NEW x \in Sequences, 1 <= Difference(x, s), Difference(x, s) < w - m
                 PROVE  buffer[Sequencer!Slot(x)] = x
      BY <1>3, <2>1, <2>2 DEF BufferFilled, From
    <2>3. PICK d \in Int : d = Difference(x, s) /\ 1 <= d /\ d < w - m
      BY DifferenceType
    <2>4. Difference(m_consumerBarrier, s) = -m
      <3>1. Difference(m_consumerBarrier, s) = 0 - m
        <4>1. -BufferSize <= 0 - m /\ 0 <= BufferSize + 1
          BY <1>4, <1>6
        <4>2. QED BY <1>2, <1>8, <4>1
      <3>2. QED BY <1>6, <3>1
    <2>5. -Half <= d - (-m) /\ d - (-m) < Half /\ d - (-m) = d + m /\ 1 <= d + m /\ d + m < w
      BY <1>4, <1>6, <2>3
    <2>6. From(x) = d + m
      <3>1. Difference(x, m_consumerBarrier) = d - (-m)
        BY <1>2, <2>3, <2>4, <2>5, DifferenceAdds
      <3>2. QED BY <2>5, <3>1 DEF From
    <2>7. QED BY <1>1, <1>4, <2>5, <2>6 DEF BufferFilled
  <1>16. QED BY <1>11, <1>12, <1>13, <1>14, <1>15 DEF SequencerInv

LEMMA SequencerStep ==
  ASSUME SequencerInv, Sequencer!Next
  PROVE  SequencerInv'
  <1>1. CASE \E count \in 1 .. MaxSingleClaim : Sequencer!Claim(count)
    BY <1>1, SequencerClaim
  <1>2. CASE Sequencer!ProducerStep
    BY <1>2, SequencerClaimWait, SequencerClaimResumes, SequencerWrite, SequencerPublish DEF Sequencer!ProducerStep
  <1>3. CASE \E c \in Readers : Sequencer!ConsumerStep(c)
    BY <1>3, SequencerWait, SequencerWaitResumes, SequencerRead DEF Sequencer!ConsumerStep
  <1>4. CASE Sequencer!PublishRead
    BY <1>4, SequencerPublishRead
  <1>5. QED BY <1>1, <1>2, <1>3, <1>4 DEF Sequencer!Next

(* A step of another component.                                            *)
LEMMA SequencerRests ==
  ASSUME SequencerInv, UNCHANGED sequencerVars
  PROVE  SequencerInv'
  <1>1. UNCHANGED <<m_nextToClaim, claimed, m_count, buffer, nextToRead, sequencerPc, m_producerBarrier, waitTarget,
                    available, m_consumerBarrier, claimTarget, lastConsumed>>
    BY DEF sequencerVars
  <1>2. SequencerTypes'
    BY <1>1 DEF SequencerInv, SequencerTypes, Sequencer!TypeOK
  <1>3. ProducerPlace' /\ ClaimPlace' /\ BufferFilled'
    BY <1>1, ProducerKept
  <1>4. ReaderPlaces'
    BY <1>1 DEF SequencerInv, ReaderPlaces, ReaderPlace, From
  <1>5. QED BY <1>2, <1>3, <1>4 DEF SequencerInv

(* single_producer_sequencer, for every width of the numbers, every power  *)
(* of two for the buffer, every number of consumers and every claim: what  *)
(* a consumer has been told it may read, and has not read yet, is in the   *)
(* buffer, although the producer writes up to a buffer ahead and numbers   *)
(* wrap around without end; and the producer claims at least one slot, in  *)
(* order, and never more than a buffer ahead of the slowest consumer.      *)
THEOREM SequencerIsSafe == MCSpec => []SequencerSafe
  <1>1. MCInit => SequencerInv
    BY SequencerInitially DEF MCInit
  <1>2. SequencerInv /\ [MCNext]_<<chosen, barrierVars, sequencerVars, multiVars>> => SequencerInv'
    <2> SUFFICES ASSUME SequencerInv, [MCNext]_<<chosen, barrierVars, sequencerVars, multiVars>> PROVE SequencerInv'
      OBVIOUS
    <2>1. Sequencer!Next \/ UNCHANGED sequencerVars
      BY DEF MCNext
    <2>2. QED BY <2>1, SequencerStep, SequencerRests
  <1>3. SequencerInv => SequencerSafe
    BY SequencerInvIsSafe
  <1>4. QED BY <1>1, <1>2, <1>3, PTL DEF MCSpec
=============================================================================
