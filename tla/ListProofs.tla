----------------------------- MODULE ListProofs -----------------------------
(***************************************************************************)
(* Facts about the lists of waiters that the other proofs need: what a     *)
(* push, an append, taking the head, a reversal and a concatenation do to  *)
(* the coroutines on a list that holds nobody twice, and what selecting    *)
(* the elements of a set keeps; and about the numbers that the sequencers  *)
(* count with, which wrap around.                                          *)
(***************************************************************************)
EXTENDS Integers, SequencesExt, Selection, SequenceTheorems, FunctionTheorems,
        FiniteSetTheorems, TLAPS

(* Reverse, as unlock() reverses the stack, gives a sequence of the same   *)
(* length over the same set, empty only for the empty stack.               *)
LEMMA ReverseType ==
  ASSUME NEW S, NEW s \in Seq(S)
  PROVE  /\ Reverse(s) \in Seq(S)
         /\ Len(Reverse(s)) = Len(s)
         /\ Reverse(s) = << >> <=> s = << >>
  BY DEF Reverse

(* Pushing on the stack of new waiters is appending to its reversal.       *)
LEMMA ReverseCons ==
  ASSUME NEW S, NEW s \in Seq(S), NEW e \in S
  PROVE  Reverse(Cons(e, s)) = Append(Reverse(s), e)
  <1> DEFINE l == Reverse(Cons(e, s))
             r == Append(Reverse(s), e)
  <1>1. Cons(e, s) \in Seq(S) /\ Len(Cons(e, s)) = Len(s) + 1
    BY DEF Cons
  <1>2. \A i \in 1 .. Len(s) + 1 :
          Cons(e, s)[i] = IF i = 1 THEN e ELSE s[i - 1]
    BY DEF Cons
  <1>3. l \in Seq(S) /\ r \in Seq(S) /\ Len(l) = Len(s) + 1 /\ Len(r) = Len(s) + 1
    BY <1>1, ReverseType
  <1>4. ASSUME NEW i \in 1 .. Len(s) + 1
        PROVE  l[i] = r[i]
    <2>1. l[i] = Cons(e, s)[(Len(s) + 1 - i) + 1]
      BY <1>1 DEF Reverse
    <2>2. CASE i = Len(s) + 1
      <3>1. l[i] = e
        BY <1>2, <2>1, <2>2
      <3>2. r[i] = e
        BY <2>2, ReverseType
      <3>3. QED BY <3>1, <3>2
    <2>3. CASE i \in 1 .. Len(s)
      <3>1. l[i] = s[Len(s) - i + 1]
        BY <1>2, <2>1, <2>3
      <3>2. r[i] = Reverse(s)[i]
        BY <2>3, ReverseType
      <3>3. Reverse(s)[i] = s[Len(s) - i + 1]
        BY <2>3 DEF Reverse
      <3>4. QED BY <3>1, <3>2, <3>3
    <2>4. i = Len(s) + 1 \/ i \in 1 .. Len(s)
      OBVIOUS
    <2>5. QED BY <2>2, <2>3, <2>4
  <1>5. QED BY <1>3, <1>4

(* A queue of distinct coroutines stays one when a newcomer is appended.   *)
LEMMA AppendDistinct ==
  ASSUME NEW S, NEW s \in Seq(S), NEW e \in S, IsInjective(s), e \notin ToSet(s)
  PROVE  IsInjective(Append(s, e)) /\ ToSet(Append(s, e)) = ToSet(s) \cup {e}
  BY DEF IsInjective, ToSet

(* ... and when its head is removed, which then is no longer in it.        *)
LEMMA TailDistinct ==
  ASSUME NEW S, NEW s \in Seq(S), IsInjective(s), s # << >>
  PROVE  /\ IsInjective(Tail(s))
         /\ ToSet(Tail(s)) = ToSet(s) \ {Head(s)}
         /\ Head(s) \in ToSet(s)
  <1>1. Len(s) >= 1 /\ Tail(s) \in Seq(S) /\ Len(Tail(s)) = Len(s) - 1 /\ Head(s) = s[1]
    OBVIOUS
  <1>2. \A i \in 1 .. Len(s) - 1 : Tail(s)[i] = s[i + 1]
    OBVIOUS
  <1>3. IsInjective(Tail(s)) /\ Head(s) \in ToSet(s)
    BY <1>1, <1>2 DEF IsInjective, ToSet
  <1>4. ASSUME NEW x \in ToSet(Tail(s))
        PROVE  x \in ToSet(s) \ {Head(s)}
    BY <1>1, <1>2 DEF IsInjective, ToSet
  <1>5. ASSUME NEW x \in ToSet(s) \ {Head(s)}
        PROVE  x \in ToSet(Tail(s))
    <2>1. PICK i \in 1 .. Len(s) : x = s[i]
      BY DEF ToSet
    <2>2. i - 1 \in 1 .. Len(s) - 1 /\ x = Tail(s)[i - 1]
      BY <1>1, <1>2, <2>1
    <2>3. i - 1 \in DOMAIN Tail(s)
      BY <1>1, <2>2
    <2>4. QED BY <2>2, <2>3 DEF ToSet
  <1>6. QED BY <1>3, <1>4, <1>5

(* A newcomer that is pushed on a list.                                    *)
LEMMA PushDistinct ==
  ASSUME NEW S, NEW s \in Seq(S), NEW e \in S, IsInjective(s), e \notin ToSet(s)
  PROVE  /\ <<e>> \o s \in Seq(S)
         /\ IsInjective(<<e>> \o s)
         /\ ToSet(<<e>> \o s) = ToSet(s) \cup {e}
  <1> DEFINE r == <<e>> \o s
  <1>1. /\ r \in Seq(S) /\ DOMAIN r = 1 .. Len(s) + 1 /\ Len(r) = Len(s) + 1
        /\ \A i \in 1 .. Len(s) + 1 : r[i] = IF i = 1 THEN e ELSE s[i - 1]
    OBVIOUS
  <1> HIDE DEF r
  <1>2. IsInjective(r)
    <2>1. \A i \in 1 .. Len(s) : s[i] # e
      BY DEF ToSet
    <2>2. SUFFICES ASSUME NEW i \in 1 .. Len(s) + 1, NEW j \in 1 .. Len(s) + 1, r[i] = r[j] PROVE i = j
      BY <1>1 DEF IsInjective
    <2>3. CASE i = 1 \/ j = 1
      BY <1>1, <2>1, <2>2, <2>3, SMTT(40)
    <2>4. CASE i # 1 /\ j # 1
      <3>1. i - 1 \in 1 .. Len(s) /\ j - 1 \in 1 .. Len(s) /\ s[i - 1] = s[j - 1]
        BY <1>1, <2>2, <2>4
      <3>2. QED BY <3>1 DEF IsInjective
    <2>5. QED BY <2>3, <2>4
  <1>3. ASSUME NEW x \in ToSet(s)
        PROVE  x \in ToSet(r)
    <2>1. PICK i \in 1 .. Len(s) : x = s[i]
      BY DEF ToSet
    <2>2. i + 1 \in DOMAIN r /\ x = r[i + 1]
      BY <1>1, <2>1
    <2>3. QED BY <1>1, <2>2 DEF ToSet
  <1>4. e \in ToSet(r)
    BY <1>1 DEF ToSet
  <1>5. ToSet(r) \subseteq ToSet(s) \cup {e}
    BY <1>1 DEF ToSet
  <1>6. QED BY <1>1, <1>2, <1>3, <1>4, <1>5 DEF r

(* At most one of what is all the same.                                    *)
LEMMA AtMostOne ==
  ASSUME NEW S, \A x, y \in S : x = y
  PROVE  Cardinality(S) <= 1
  <1>1. CASE S = {}
    BY <1>1, FS_EmptySet
  <1>2. ASSUME NEW x \in S
        PROVE  Cardinality(S) <= 1
    <2>1. S = {x}
      OBVIOUS
    <2>2. QED BY <2>1, FS_Singleton
  <1>3. QED BY <1>1, <1>2

LEMMA EmptyList == ToSet(<< >>) = {} /\ IsInjective(<< >>) /\ \A S : << >> \in Seq(S)
  BY DEF ToSet, IsInjective

(* Two lists read as one queue: the older waiters, then those that were    *)
(* pushed on a stack meanwhile.                                            *)
LEMMA QueueOfTwo ==
  ASSUME NEW S, NEW q \in Seq(S), NEW n \in Seq(S)
  PROVE  /\ q \o Reverse(n) \in Seq(S)
         /\ Len(q \o Reverse(n)) = Len(q) + Len(n)
         /\ ToSet(q \o Reverse(n)) = ToSet(q) \cup ToSet(n)
         /\ \A e \in S : q \o Reverse(Cons(e, n)) = Append(q \o Reverse(n), e)
  <1> DEFINE r == Reverse(n)
             o == q \o r
  <1>1. r \in Seq(S) /\ Len(r) = Len(n) /\ \A i \in 1 .. Len(n) : r[i] = n[Len(n) - i + 1]
    BY ReverseType DEF Reverse
  <1>2. ASSUME NEW e \in S
        PROVE  q \o Reverse(Cons(e, n)) = Append(q \o Reverse(n), e)
    <2>1. Reverse(Cons(e, n)) = Append(r, e)
      BY ReverseCons
    <2> HIDE DEF r
    <2>2. q \o Append(r, e) = Append(q \o r, e)
      BY <1>1
    <2>3. QED BY <2>1, <2>2 DEF r
  <1> HIDE DEF r
  <1>3. /\ o \in Seq(S) /\ Len(o) = Len(q) + Len(n) /\ DOMAIN o = 1 .. Len(q) + Len(n)
        /\ \A i \in 1 .. Len(q) + Len(n) : o[i] = IF i <= Len(q) THEN q[i] ELSE r[i - Len(q)]
    <2>1. o \in Seq(S) /\ Len(o) = Len(q) + Len(r)
      BY <1>1, ConcatProperties
    <2>2. \A i \in 1 .. Len(q) + Len(r) : o[i] = IF i <= Len(q) THEN q[i] ELSE r[i - Len(q)]
      BY ONLY q \in Seq(S), <1>1, ConcatProperties
    <2> HIDE DEF o
    <2>3. DOMAIN o = 1 .. Len(o)
      BY <2>1
    <2>4. QED BY <1>1, <2>1, <2>2, <2>3
  <1> HIDE DEF o
  <1>4. ASSUME NEW x \in ToSet(q)
        PROVE  x \in ToSet(o)
    BY <1>3 DEF ToSet
  <1>5. ASSUME NEW x \in ToSet(n)
        PROVE  x \in ToSet(o)
    <2>1. PICK i \in 1 .. Len(n) : x = n[i]
      BY DEF ToSet
    <2>2. (Len(n) - i + 1) \in 1 .. Len(n) /\ r[Len(n) - i + 1] = x
      BY <1>1, <2>1
    <2>3. PICK k \in 1 .. Len(n) : r[k] = x
      BY <2>2
    <2>4. (Len(q) + k) \in 1 .. Len(q) + Len(n) /\ ~(Len(q) + k <= Len(q)) /\ (Len(q) + k) - Len(q) = k
      OBVIOUS
    <2>5. o[Len(q) + k] = x
      BY <1>3, <2>3, <2>4
    <2>6. QED BY <1>3, <2>4, <2>5 DEF ToSet
  <1>6. ASSUME NEW x \in ToSet(o)
        PROVE  x \in ToSet(q) \cup ToSet(n)
    <2>1. PICK i \in 1 .. Len(q) + Len(n) : x = o[i]
      BY <1>3 DEF ToSet
    <2>2. CASE i <= Len(q)
      BY <1>3, <2>1, <2>2 DEF ToSet
    <2>3. CASE i > Len(q)
      <3>1. (i - Len(q)) \in 1 .. Len(n) /\ x = r[i - Len(q)]
        BY <1>3, <2>1, <2>3
      <3>2. PICK k \in 1 .. Len(n) : x = r[k]
        BY <3>1
      <3>3. x = n[Len(n) - k + 1] /\ (Len(n) - k + 1) \in DOMAIN n
        BY <1>1, <3>2
      <3>4. QED BY <3>3 DEF ToSet
    <2>4. QED BY <2>2, <2>3
  <1>7. QED BY <1>2, <1>3, <1>4, <1>5, <1>6 DEF r, o

(* Taking the oldest waiter, after the stack was moved to an empty list.   *)
LEMMA QueueTakes ==
  ASSUME NEW S, NEW q \in Seq(S), NEW n \in Seq(S)
  PROVE  /\ q = << >> => q \o Reverse(n) = Reverse(n) /\ Tail(Reverse(n)) \o Reverse(<< >>) = Tail(Reverse(n))
         /\ q # << >> => /\ q \o Reverse(n) # << >>
                         /\ Head(q \o Reverse(n)) = Head(q)
                         /\ Tail(q) \o Reverse(n) = Tail(q \o Reverse(n))
  <1>1. Reverse(n) \in Seq(S) /\ Reverse(<< >>) = << >>
    BY ReverseType, EmptyList
  <1>2. CASE q = << >>
    <2>1. Tail(Reverse(n)) \in Seq(S) \/ Reverse(n) = << >>
      BY <1>1
    <2>2. Tail(Reverse(n)) \o << >> = Tail(Reverse(n))
      BY <1>1, <2>1
    <2>3. QED BY <1>1, <1>2, <2>2
  <1>3. CASE q # << >>
    BY <1>1, <1>3
  <1>4. QED BY <1>2, <1>3

-----------------------------------------------------------------------------
(* Whether an element is on a list, and on it once at most.                *)

OnList(x, s) == \E i \in DOMAIN s : s[i] = x
OnceOnList(x, s) == \A i, j \in DOMAIN s : s[i] = x /\ s[j] = x => i = j

LEMMA OnEmptyList ==
  ASSUME NEW x
  PROVE  ~OnList(x, << >>) /\ OnceOnList(x, << >>)
  BY DEF OnList, OnceOnList

LEMMA OnSingleton ==
  ASSUME NEW S, NEW e \in S, NEW x
  PROVE  (OnList(x, <<e>>) <=> x = e) /\ OnceOnList(x, <<e>>) /\ <<e>> \in Seq(S)
  BY DEF OnList, OnceOnList

LEMMA OnAppended ==
  ASSUME NEW S, NEW s \in Seq(S), NEW e \in S, NEW x
  PROVE  /\ OnList(x, Append(s, e)) <=> OnList(x, s) \/ x = e
         /\ OnceOnList(x, s) /\ (x = e => ~OnList(x, s)) => OnceOnList(x, Append(s, e))
  <1>1. /\ DOMAIN Append(s, e) = 1 .. Len(s) + 1 /\ DOMAIN s = 1 .. Len(s) /\ Len(s) \in Nat
        /\ Append(s, e)[Len(s) + 1] = e /\ \A i \in 1 .. Len(s) : Append(s, e)[i] = s[i]
    OBVIOUS
  <1>2. OnList(x, Append(s, e)) <=> OnList(x, s) \/ x = e
    BY <1>1 DEF OnList
  <1>3. OnceOnList(x, s) /\ (x = e => ~OnList(x, s)) => OnceOnList(x, Append(s, e))
    BY <1>1 DEF OnList, OnceOnList
  <1>4. QED BY <1>2, <1>3

LEMMA OnTail ==
  ASSUME NEW S, NEW s \in Seq(S), s # << >>, NEW x
  PROVE  /\ OnList(x, s) <=> x = Head(s) \/ OnList(x, Tail(s))
         /\ OnceOnList(x, s) => OnceOnList(x, Tail(s)) /\ (x = Head(s) => ~OnList(x, Tail(s)))
  <1>1. /\ Len(s) \in Nat /\ Len(s) >= 1 /\ DOMAIN s = 1 .. Len(s) /\ Head(s) = s[1]
        /\ DOMAIN Tail(s) = 1 .. Len(s) - 1 /\ \A i \in 1 .. Len(s) - 1 : Tail(s)[i] = s[i + 1]
    OBVIOUS
  <1>2. ASSUME OnList(x, s) PROVE x = Head(s) \/ OnList(x, Tail(s))
    <2>1. PICK i \in 1 .. Len(s) : s[i] = x
      BY <1>1, <1>2 DEF OnList
    <2>2. CASE i = 1
      BY <1>1, <2>1, <2>2
    <2>3. CASE i # 1
      <3>1. i - 1 \in 1 .. Len(s) - 1 /\ (i - 1) + 1 = i
        BY <1>1, <2>3
      <3>2. QED BY <1>1, <2>1, <3>1 DEF OnList
    <2>4. QED BY <2>2, <2>3
  <1>3. ASSUME x = Head(s) \/ OnList(x, Tail(s)) PROVE OnList(x, s)
    BY <1>1, <1>3 DEF OnList
  <1>4. ASSUME OnceOnList(x, s) PROVE OnceOnList(x, Tail(s)) /\ (x = Head(s) => ~OnList(x, Tail(s)))
    BY <1>1, <1>4 DEF OnList, OnceOnList
  <1>5. QED BY <1>2, <1>3, <1>4

LEMMA OnConcatenated ==
  ASSUME NEW S, NEW s \in Seq(S), NEW r \in Seq(S), NEW x
  PROVE  /\ s \o r \in Seq(S)
         /\ OnList(x, s \o r) <=> OnList(x, s) \/ OnList(x, r)
         /\ OnceOnList(x, s) /\ OnceOnList(x, r) /\ ~(OnList(x, s) /\ OnList(x, r)) => OnceOnList(x, s \o r)
  <1> DEFINE b == s \o r
  <1>1. /\ b \in Seq(S) /\ Len(s) \in Nat /\ Len(r) \in Nat /\ DOMAIN s = 1 .. Len(s) /\ DOMAIN r = 1 .. Len(r)
        /\ DOMAIN b = 1 .. Len(s) + Len(r)
        /\ \A i \in 1 .. Len(s) + Len(r) : b[i] = IF i <= Len(s) THEN s[i] ELSE r[i - Len(s)]
    OBVIOUS
  <1> HIDE DEF b
  <1>2. ASSUME OnList(x, b) PROVE OnList(x, s) \/ OnList(x, r)
    <2>1. PICK i \in 1 .. Len(s) + Len(r) : b[i] = x
      BY <1>1, <1>2 DEF OnList
    <2>2. i <= Len(s) \/ (i - Len(s) \in 1 .. Len(r))
      BY <1>1
    <2>3. QED BY <1>1, <2>1, <2>2 DEF OnList
  <1>3. ASSUME OnList(x, s) PROVE OnList(x, b)
    BY <1>1, <1>3 DEF OnList
  <1>4. ASSUME OnList(x, r) PROVE OnList(x, b)
    <2>1. PICK j \in 1 .. Len(r) : r[j] = x
      BY <1>1, <1>4 DEF OnList
    <2>2. Len(s) + j \in 1 .. Len(s) + Len(r) /\ ~(Len(s) + j <= Len(s)) /\ (Len(s) + j) - Len(s) = j
      BY <1>1
    <2>3. QED BY <1>1, <2>1, <2>2 DEF OnList
  <1>5. ASSUME OnceOnList(x, s), OnceOnList(x, r), ~(OnList(x, s) /\ OnList(x, r)) PROVE OnceOnList(x, b)
    <2>1. ASSUME NEW i \in 1 .. Len(s) + Len(r), NEW j \in 1 .. Len(s) + Len(r), b[i] = x, b[j] = x PROVE i = j
      <3>1. CASE i <= Len(s) /\ j <= Len(s)
        BY <1>1, <1>5, <2>1, <3>1 DEF OnceOnList
      <3>2. CASE i > Len(s) /\ j > Len(s)
        <4>1. i - Len(s) \in 1 .. Len(r) /\ j - Len(s) \in 1 .. Len(r)
          BY <1>1, <3>2
        <4>2. r[i - Len(s)] = x /\ r[j - Len(s)] = x
          BY <1>1, <2>1, <3>2
        <4>3. i - Len(s) = j - Len(s)
          BY <1>1, <1>5, <4>1, <4>2 DEF OnceOnList
        <4>4. QED BY <1>1, <4>3
      <3>3. CASE i <= Len(s) /\ j > Len(s)
        <4>1. j - Len(s) \in 1 .. Len(r)
          BY <1>1, <3>3
        <4>2. i \in 1 .. Len(s) /\ s[i] = x /\ r[j - Len(s)] = x
          BY <1>1, <2>1, <3>3
        <4>3. OnList(x, s) /\ OnList(x, r)
          BY <1>1, <4>1, <4>2 DEF OnList
        <4>4. QED BY <1>5, <4>3
      <3>4. CASE i > Len(s) /\ j <= Len(s)
        <4>1. i - Len(s) \in 1 .. Len(r)
          BY <1>1, <3>4
        <4>2. j \in 1 .. Len(s) /\ s[j] = x /\ r[i - Len(s)] = x
          BY <1>1, <2>1, <3>4
        <4>3. OnList(x, s) /\ OnList(x, r)
          BY <1>1, <4>1, <4>2 DEF OnList
        <4>4. QED BY <1>5, <4>3
      <3>5. QED BY <1>1, <3>1, <3>2, <3>3, <3>4
    <2>2. QED BY <1>1, <2>1 DEF OnceOnList
  <1>6. QED BY <1>1, <1>2, <1>3, <1>4, <1>5 DEF b
-----------------------------------------------------------------------------
(* The least-number principle, which stands in for induction.              *)

LEMMA LeastNumber ==
  ASSUME NEW T \in SUBSET Nat, T # {}
  PROVE  \E m \in T : \A n \in T : m <= n
  <1>1. IsWellFoundedOn(OpToRel(<, Nat), Nat)
    BY NatLessThanWellFounded
  <1>2. \E x \in T : \A y \in T : ~(<<y, x>> \in OpToRel(<, Nat))
    BY <1>1, WFMin
  <1>3. PICK x \in T : \A y \in T : ~(<<y, x>> \in OpToRel(<, Nat))
    BY <1>2
  <1>4. ASSUME NEW y \in T PROVE x <= y
    <2>1. <<y, x>> \in Nat \X Nat
      OBVIOUS
    <2>2. ~(y < x)
      BY <1>3, <2>1 DEF OpToRel
    <2>3. QED BY <2>2
  <1>5. QED BY <1>4

(* A finite set of positions can be counted off in increasing order.       *)
LEMMA EnumerationExists ==
  ASSUME NEW N \in Nat, NEW I, I \subseteq 1 .. N
  PROVE  \E f \in [1 .. Cardinality(I) -> I] : Increasing(f)
  <1> DEFINE Bad(J) == ~\E f \in [1 .. Cardinality(J) -> J] : Increasing(f)
             T == {n \in Nat : \E J \in SUBSET (1 .. N) : Cardinality(J) = n /\ Bad(J)}
  <1>1. ASSUME NEW J \in SUBSET (1 .. N) PROVE IsFiniteSet(J) /\ Cardinality(J) \in Nat
    <2>1. IsFiniteSet(1 .. N) /\ J \in SUBSET (1 .. N)
      BY <1>1, FS_Interval
    <2>2. QED BY <2>1, FS_Subset, FS_CardinalityType
  <1>2. SUFFICES ASSUME Bad(I) PROVE FALSE
    OBVIOUS
  <1>3. PICK n \in T : \A m \in T : n <= m
    <2>1. T \in SUBSET Nat /\ Cardinality(I) \in T
      BY <1>1, <1>2
    <2>2. HIDE DEF T
    <2>3. QED BY <2>1, LeastNumber
  <1>4. PICK J \in SUBSET (1 .. N) : Cardinality(J) = n /\ Bad(J)
    OBVIOUS
  <1>5. J # {}
    <2> SUFFICES ASSUME J = {} PROVE FALSE
      OBVIOUS
    <2>1. Cardinality(J) = 0
      BY FS_EmptySet
    <2>2. [i \in 1 .. 0 |-> 0] \in [1 .. Cardinality(J) -> J] /\ Increasing([i \in 1 .. 0 |-> 0])
      BY <2>1 DEF Increasing
    <2>3. QED BY <1>4, <2>2
  <1>6. PICK m \in J : \A i \in J : i <= m
    <2> DEFINE D == {d \in Nat : \E i \in J : d = N - i}
    <2>1. D \in SUBSET Nat /\ D # {}
      <3>1. PICK i \in J : TRUE
        BY <1>5
      <3>2. i \in 1 .. N /\ N - i \in Nat
        OBVIOUS
      <3>3. QED BY <3>2
    <2>2. PICK d \in D : \A e \in D : d <= e
      <3> HIDE DEF D
      <3> QED BY <2>1, LeastNumber
    <2>3. PICK m \in J : d = N - m
      OBVIOUS
    <2>4. ASSUME NEW i \in J PROVE i <= m
      <3>1. N - i \in D
        OBVIOUS
      <3>2. N - m <= N - i
        BY <2>2, <2>3, <3>1
      <3>3. QED BY <3>2
    <2>5. QED BY <2>4
  <1>7. /\ J \ {m} \in SUBSET (1 .. N)
        /\ n \in Nat \ {0} /\ Cardinality(J \ {m}) = n - 1
    BY <1>1, <1>4, FS_RemoveElement, FS_EmptySet
  <1>8. ~Bad(J \ {m})
    <2> SUFFICES ASSUME Bad(J \ {m}) PROVE FALSE
      OBVIOUS
    <2>1. n - 1 \in T
      <3>1. n - 1 \in Nat
        BY <1>7
      <3>2. QED BY <1>7, <3>1
    <2>2. n <= n - 1
      BY <1>3, <2>1
    <2>3. QED BY <1>7, <2>2
  <1>9. PICK f \in [1 .. n - 1 -> J \ {m}] : Increasing(f)
    BY <1>7, <1>8
  <1> DEFINE g == [k \in 1 .. n |-> IF k = n THEN m ELSE f[k]]
  <1>10. g \in [1 .. n -> J]
    BY <1>7
  <1>11. Increasing(g)
    <2> SUFFICES ASSUME NEW j \in 1 .. n, NEW k \in 1 .. n, j < k PROVE g[j] < g[k]
      BY DEF Increasing
    <2>1. j \in 1 .. n - 1 /\ f[j] \in J \ {m} /\ g[j] = f[j]
      BY <1>7
    <2>2. CASE k = n
      <3>1. f[j] \in 1 .. N /\ m \in 1 .. N
        BY <2>1
      <3>2. f[j] <= m /\ f[j] # m
        BY <1>6, <2>1
      <3>3. QED BY <2>1, <2>2, <3>1, <3>2
    <2>3. CASE k # n
      BY <1>7, <1>9, <2>1, <2>3 DEF Increasing
    <2>4. QED BY <2>2, <2>3
  <1>12. QED BY <1>4, <1>10, <1>11

(* What sorting out a list of operations gives.                            *)
LEMMA SelectedList ==
  ASSUME NEW S, NEW list \in Seq(S), NEW T
  PROVE  /\ Selected(list, T) \in Seq(S)
         /\ \A x : OnList(x, Selected(list, T)) <=> OnList(x, list) /\ x \in T
         /\ \A x : OnceOnList(x, list) => OnceOnList(x, Selected(list, T))
  <1> DEFINE I == Kept(list, T)
             n == Cardinality(I)
             nth == CHOOSE f \in [1 .. n -> I] : Increasing(f)
             r == Selected(list, T)
  <1>1. I \in SUBSET (1 .. Len(list)) /\ \A i \in 1 .. Len(list) : i \in I <=> list[i] \in T
    BY DEF Kept
  <1>2. IsFiniteSet(I) /\ n \in Nat
    <2>1. IsFiniteSet(1 .. Len(list))
      BY FS_Interval
    <2>2. IsFiniteSet(I)
      BY <1>1, <2>1, FS_Subset
    <2>3. QED BY <2>2, FS_CardinalityType
  <1>3. nth \in [1 .. n -> I] /\ Increasing(nth)
    <2>1. Len(list) \in Nat
      OBVIOUS
    <2> HIDE DEF I
    <2>2. \E f \in [1 .. n -> I] : Increasing(f)
      BY <1>1, <2>1, EnumerationExists
    <2>3. QED BY <2>2
  <1>4. r = [k \in 1 .. n |-> list[nth[k]]]
    BY DEF Selected
  <1>5. ASSUME NEW i \in I PROVE i \in 1 .. Len(list) /\ i \in DOMAIN list /\ i \in Nat /\ list[i] \in S /\ list[i] \in T
    BY <1>1
  <1> HIDE DEF nth, n, I, r
  <1>6. ASSUME NEW j \in 1 .. n, NEW k \in 1 .. n, nth[j] = nth[k] PROVE j = k
    <2>1. nth[j] \in Nat /\ nth[k] \in Nat
      BY <1>3, <1>5
    <2>2. ~(j < k) /\ ~(k < j)
      BY <1>2, <1>3, <1>6, <2>1 DEF Increasing
    <2>3. QED BY <1>2, <2>2
  <1>7. ASSUME NEW i \in I PROVE \E k \in 1 .. n : nth[k] = i
    <2>1. nth \in Injection(1 .. n, I)
      BY <1>3, <1>6 DEF Injection, IsInjective
    <2>2. Cardinality(1 .. n) = n
      BY <1>2, FS_Interval
    <2>3. nth \in Surjection(1 .. n, I)
      BY <1>2, <2>1, <2>2, FS_Injection DEF n
    <2>4. QED BY <2>3 DEF Surjection
  <1>8. r \in Seq(S) /\ DOMAIN r = 1 .. n /\ Len(r) = n
    <2>1. \A k \in 1 .. n : list[nth[k]] \in S
      BY <1>3, <1>5
    <2>2. QED BY <1>2, <1>4, <2>1
  <1>9. ASSUME NEW x PROVE OnList(x, r) <=> OnList(x, list) /\ x \in T
    <2>1. ASSUME OnList(x, r) PROVE OnList(x, list) /\ x \in T
      <3>1. PICK k \in 1 .. n : r[k] = x
        BY <1>8, <2>1 DEF OnList
      <3>2. nth[k] \in I /\ list[nth[k]] = x
        BY <1>3, <1>4, <3>1
      <3>3. QED BY <1>5, <3>2 DEF OnList
    <2>2. ASSUME OnList(x, list), x \in T PROVE OnList(x, r)
      <3>1. PICK i \in 1 .. Len(list) : list[i] = x
        BY <2>2 DEF OnList
      <3>2. i \in I
        BY <1>1, <2>2, <3>1
      <3>3. PICK k \in 1 .. n : nth[k] = i
        BY <1>7, <3>2
      <3>4. QED BY <1>4, <1>8, <3>1, <3>3 DEF OnList
    <2>3. QED BY <2>1, <2>2
  <1>10. ASSUME NEW x, OnceOnList(x, list) PROVE OnceOnList(x, r)
    <2> SUFFICES ASSUME NEW j \in 1 .. n, NEW k \in 1 .. n, r[j] = x, r[k] = x PROVE j = k
      BY <1>8 DEF OnceOnList
    <2>1. list[nth[j]] = x /\ list[nth[k]] = x /\ nth[j] \in DOMAIN list /\ nth[k] \in DOMAIN list
      BY <1>3, <1>4, <1>5
    <2>2. nth[j] = nth[k]
      BY <1>10, <2>1 DEF OnceOnList
    <2>3. QED BY <1>6, <2>2
  <1>11. QED BY <1>8, <1>9, <1>10 DEF r

(* ... in the order of the list.                                           *)
LEMMA SelectedOrder ==
  ASSUME NEW S, NEW list \in Seq(S), NEW T
  PROVE  \A i, j \in DOMAIN Selected(list, T) :
           i < j => \E k, l \in DOMAIN list : k < l /\ list[k] = Selected(list, T)[i] /\ list[l] = Selected(list, T)[j]
  <1> DEFINE I == Kept(list, T)
             n == Cardinality(I)
             nth == CHOOSE f \in [1 .. n -> I] : Increasing(f)
             r == Selected(list, T)
  <1>1. I \in SUBSET (1 .. Len(list)) /\ Len(list) \in Nat /\ DOMAIN list = 1 .. Len(list)
    BY DEF Kept
  <1>2. nth \in [1 .. n -> I] /\ Increasing(nth)
    <2> HIDE DEF I
    <2>1. \E f \in [1 .. n -> I] : Increasing(f)
      BY <1>1, EnumerationExists
    <2>2. QED BY <2>1
  <1>3. r = [k \in 1 .. n |-> list[nth[k]]]
    BY DEF Selected
  <1> HIDE DEF nth, n, I, r
  <1> SUFFICES ASSUME NEW i \in DOMAIN r, NEW j \in DOMAIN r, i < j
               PROVE  \E k, l \in DOMAIN list : k < l /\ list[k] = r[i] /\ list[l] = r[j]
    BY DEF r
  <1>4. i \in 1 .. n /\ j \in 1 .. n /\ r[i] = list[nth[i]] /\ r[j] = list[nth[j]]
    BY <1>3
  <1>5. nth[i] \in DOMAIN list /\ nth[j] \in DOMAIN list /\ nth[i] < nth[j]
    BY <1>1, <1>2, <1>4 DEF Increasing
  <1>6. QED BY <1>4, <1>5
-----------------------------------------------------------------------------
(* Numbers that wrap around                                                *)

(* Powers of two, from the number of subsets of 1 .. n.                    *)
LEMMA PowerOfTwo ==
  ASSUME NEW n \in Nat
  PROVE  2^n \in Nat \ {0} /\ 2^(n + 1) = 2^n + 2^n
  <1> DEFINE S == 1 .. n
             e == n + 1
             A == SUBSET S
             B == {X \in SUBSET (S \cup {e}) : e \in X}
             f == [X \in A |-> X \cup {e}]
  <1>1. IsFiniteSet(S) /\ Cardinality(S) = n /\ e \notin S
    BY FS_Interval
  <1>2. IsFiniteSet(S \cup {e}) /\ Cardinality(S \cup {e}) = n + 1
    BY <1>1, FS_AddElement
  <1> HIDE DEF S
  <1>3. /\ IsFiniteSet(A) /\ Cardinality(A) = 2^n
        /\ IsFiniteSet(SUBSET (S \cup {e})) /\ Cardinality(SUBSET (S \cup {e})) = 2^(n + 1)
    BY <1>1, <1>2, FS_SUBSET
  <1>4. Cardinality(A) \in Nat \ {0}
    <2>1. {} \in A
      OBVIOUS
    <2>2. A # {}
      BY <2>1
    <2>3. QED BY <1>3, <2>2, FS_EmptySet, FS_CardinalityType
  <1>5. f \in Bijection(A, B)
    <2>1. f \in [A -> B]
      BY <1>1
    <2>2. \A X, Y \in A : f[X] = f[Y] => X = Y
      <3> SUFFICES ASSUME NEW X \in A, NEW Y \in A, X \cup {e} = Y \cup {e} PROVE X = Y
        OBVIOUS
      <3>1. e \notin X /\ e \notin Y
        BY <1>1
      <3>2. QED BY <3>1
    <2>3. \A Y \in B : \E X \in A : f[X] = Y
      <3> TAKE Y \in B
      <3>1. Y \ {e} \in A /\ (Y \ {e}) \cup {e} = Y
        OBVIOUS
      <3>2. QED BY <3>1
    <2> HIDE DEF A, B, f
    <2>4. QED BY <2>1, <2>2, <2>3, Fun_IsBij
  <1>6. IsFiniteSet(B) /\ Cardinality(B) = Cardinality(A)
    <2>1. ExistsBijection(A, B)
      BY <1>5, Zenon DEF ExistsBijection
    <2> HIDE DEF A, B
    <2>2. QED BY <1>3, <2>1, FS_Bijection
  <1>7. A \cap B = {} /\ A \cup B = SUBSET (S \cup {e})
    <2>1. ASSUME NEW X \in SUBSET (S \cup {e}), e \notin X PROVE X \in A
      BY <2>1
    <2>2. A \cap B = {}
      BY <1>1
    <2>3. QED BY <2>1, <2>2
  <1>8. Cardinality(A \cup B) = Cardinality(A) + Cardinality(B) - Cardinality(A \cap B)
    <2> HIDE DEF A, B
    <2> QED BY <1>3, <1>6, FS_Union
  <1>9. Cardinality(A \cap B) = 0
    BY <1>7, FS_EmptySet
  <1>10. Cardinality(A \cup B) = 2^(n + 1)
    BY <1>3, <1>7
  <1> HIDE DEF A, B
  <1>11. 2^(n + 1) = 2^n + 2^n - 0
    BY <1>3, <1>6, <1>8, <1>9, <1>10
  <1>12. QED BY <1>3, <1>4, <1>11

(* Difference and Advance for a range of M numbers with the half H.        *)
Apart(a, b, M, H) == LET d == (a - b) % M IN IF d < H THEN d ELSE d - M
Onward(a, n, M) == (a + n) % M

LEMMA ModuloCases ==
  ASSUME NEW M \in Nat \ {0}, NEW x \in Int
  PROVE  /\ x % M \in 0 .. M - 1
         /\ x \in 0 .. M - 1 => x % M = x
         /\ -M <= x /\ x < 0 => x % M = x + M
         /\ M <= x /\ x < M + M => x % M = x - M
  OBVIOUS

(* The signed difference is the difference, or it is off by one lap.       *)
LEMMA ApartIs ==
  ASSUME NEW H \in Nat \ {0}, NEW M, M = H + H, NEW a \in 0 .. M - 1, NEW b \in 0 .. M - 1
  PROVE  /\ Apart(a, b, M, H) \in Int /\ -H <= Apart(a, b, M, H) /\ Apart(a, b, M, H) < H
         /\ \/ Apart(a, b, M, H) = a - b
            \/ Apart(a, b, M, H) = a - b + M
            \/ Apart(a, b, M, H) = a - b - M
  <1> DEFINE d == (a - b) % M
  <1>1. M \in Nat \ {0} /\ a - b \in Int
    OBVIOUS
  <1>2. d \in 0 .. M - 1 /\ (d = a - b \/ d = a - b + M)
    <2>1. PICK x \in Int : x = a - b
      OBVIOUS
    <2>2. /\ x % M \in 0 .. M - 1
          /\ x \in 0 .. M - 1 => x % M = x
          /\ -M <= x /\ x < 0 => x % M = x + M
      BY <1>1, ModuloCases
    <2>3. x \in 0 .. M - 1 \/ (-M <= x /\ x < 0)
      BY <1>1, <2>1
    <2>4. QED BY <2>1, <2>2, <2>3
  <1>3. Apart(a, b, M, H) = IF d < H THEN d ELSE d - M
    BY DEF Apart
  <1> HIDE DEF d
  <1>4. QED BY <1>2, <1>3

LEMMA OnwardIs ==
  ASSUME NEW M \in Nat \ {0}, NEW a \in 0 .. M - 1, NEW n \in Int
  PROVE  /\ Onward(a, n, M) \in 0 .. M - 1
         /\ -M <= n /\ n <= M => \/ Onward(a, n, M) = a + n
                                 \/ Onward(a, n, M) = a + n - M
                                 \/ Onward(a, n, M) = a + n + M
  <1>1. PICK x \in Int : x = a + n
    OBVIOUS
  <1>2. /\ x % M \in 0 .. M - 1
        /\ x \in 0 .. M - 1 => x % M = x
        /\ -M <= x /\ x < 0 => x % M = x + M
        /\ M <= x /\ x < M + M => x % M = x - M
    BY ModuloCases
  <1>3. PICK o : o = x % M
    OBVIOUS
  <1>4. ASSUME -M <= n, n <= M PROVE o = a + n \/ o = a + n - M \/ o = a + n + M
    <2>1. x \in 0 .. M - 1 \/ (-M <= x /\ x < 0) \/ (M <= x /\ x < M + M)
      BY <1>1, <1>4
    <2>2. QED BY <1>1, <1>2, <1>3, <2>1
  <1>5. QED BY <1>1, <1>2, <1>3, <1>4 DEF Onward

(* As long as all numbers are within half the range of one of them,        *)
(* differences add up as if nothing wrapped around.                        *)
LEMMA ApartAdds ==
  ASSUME NEW H \in Nat \ {0}, NEW M, M = H + H, NEW a \in 0 .. M - 1, NEW b \in 0 .. M - 1, NEW p \in 0 .. M - 1,
         -H <= Apart(a, p, M, H) - Apart(b, p, M, H), Apart(a, p, M, H) - Apart(b, p, M, H) < H
  PROVE  Apart(a, b, M, H) = Apart(a, p, M, H) - Apart(b, p, M, H)
  <1>1. PICK x \in Int : x = Apart(a, p, M, H) /\ (x = a - p \/ x = a - p + M \/ x = a - p - M)
    <2>1. Apart(a, p, M, H) \in Int /\ (Apart(a, p, M, H) = a - p \/ Apart(a, p, M, H) = a - p + M \/ Apart(a, p, M, H) = a - p - M)
      BY ApartIs
    <2>2. QED BY <2>1
  <1>2. PICK y \in Int : y = Apart(b, p, M, H) /\ (y = b - p \/ y = b - p + M \/ y = b - p - M)
    <2>1. Apart(b, p, M, H) \in Int /\ (Apart(b, p, M, H) = b - p \/ Apart(b, p, M, H) = b - p + M \/ Apart(b, p, M, H) = b - p - M)
      BY ApartIs
    <2>2. QED BY <2>1
  <1>3. PICK z \in Int : z = Apart(a, b, M, H) /\ -H <= z /\ z < H /\ (z = a - b \/ z = a - b + M \/ z = a - b - M)
    <2>1. Apart(a, b, M, H) \in Int /\ -H <= Apart(a, b, M, H) /\ Apart(a, b, M, H) < H /\ (Apart(a, b, M, H) = a - b \/ Apart(a, b, M, H) = a - b + M \/ Apart(a, b, M, H) = a - b - M)
      BY ApartIs
    <2>2. QED BY <2>1
  <1>4. z = x - y
    BY <1>1, <1>2, <1>3
  <1>5. QED BY <1>1, <1>2, <1>3, <1>4

LEMMA ApartOnward ==
  ASSUME NEW H \in Nat \ {0}, NEW M, M = H + H, NEW a \in 0 .. M - 1, NEW p \in 0 .. M - 1,
         NEW n \in Int, -M <= n, n <= M, -H <= Apart(a, p, M, H) + n, Apart(a, p, M, H) + n < H
  PROVE  Onward(a, n, M) \in 0 .. M - 1 /\ Apart(Onward(a, n, M), p, M, H) = Apart(a, p, M, H) + n
  <1>1. PICK o \in 0 .. M - 1 : o = Onward(a, n, M) /\ (o = a + n \/ o = a + n - M \/ o = a + n + M)
    <2>1. Onward(a, n, M) \in 0 .. M - 1 /\ (Onward(a, n, M) = a + n \/ Onward(a, n, M) = a + n - M \/ Onward(a, n, M) = a + n + M)
      BY OnwardIs
    <2>2. QED BY <2>1
  <1>2. PICK x \in Int : x = Apart(a, p, M, H) /\ (x = a - p \/ x = a - p + M \/ x = a - p - M)
    <2>1. Apart(a, p, M, H) \in Int /\ (Apart(a, p, M, H) = a - p \/ Apart(a, p, M, H) = a - p + M \/ Apart(a, p, M, H) = a - p - M)
      BY ApartIs
    <2>2. QED BY <2>1
  <1>3. PICK z \in Int : z = Apart(o, p, M, H) /\ -H <= z /\ z < H /\ (z = o - p \/ z = o - p + M \/ z = o - p - M)
    <2>1. Apart(o, p, M, H) \in Int /\ -H <= Apart(o, p, M, H) /\ Apart(o, p, M, H) < H /\ (Apart(o, p, M, H) = o - p \/ Apart(o, p, M, H) = o - p + M \/ Apart(o, p, M, H) = o - p - M)
      BY ApartIs
    <2>2. QED BY <2>1
  <1>4. z = x + n
    BY <1>1, <1>2, <1>3
  <1>5. QED BY <1>1, <1>2, <1>3, <1>4

(* ... and the same when the number they are compared with moves on.       *)
LEMMA ApartFromOnward ==
  ASSUME NEW H \in Nat \ {0}, NEW M, M = H + H, NEW a \in 0 .. M - 1, NEW p \in 0 .. M - 1,
         NEW n \in Int, -M <= n, n <= M, -H <= Apart(a, p, M, H) - n, Apart(a, p, M, H) - n < H
  PROVE  Apart(a, Onward(p, n, M), M, H) = Apart(a, p, M, H) - n
  <1>1. PICK o \in 0 .. M - 1 : o = Onward(p, n, M) /\ (o = p + n \/ o = p + n - M \/ o = p + n + M)
    <2>1. Onward(p, n, M) \in 0 .. M - 1 /\ (Onward(p, n, M) = p + n \/ Onward(p, n, M) = p + n - M \/ Onward(p, n, M) = p + n + M)
      BY OnwardIs
    <2>2. QED BY <2>1
  <1>2. PICK x \in Int : x = Apart(a, p, M, H) /\ (x = a - p \/ x = a - p + M \/ x = a - p - M)
    <2>1. Apart(a, p, M, H) \in Int /\ (Apart(a, p, M, H) = a - p \/ Apart(a, p, M, H) = a - p + M \/ Apart(a, p, M, H) = a - p - M)
      BY ApartIs
    <2>2. QED BY <2>1
  <1>3. PICK z \in Int : z = Apart(a, o, M, H) /\ -H <= z /\ z < H /\ (z = a - o \/ z = a - o + M \/ z = a - o - M)
    <2>1. Apart(a, o, M, H) \in Int /\ -H <= Apart(a, o, M, H) /\ Apart(a, o, M, H) < H /\ (Apart(a, o, M, H) = a - o \/ Apart(a, o, M, H) = a - o + M \/ Apart(a, o, M, H) = a - o - M)
      BY ApartIs
    <2>2. QED BY <2>1
  <1>4. z = x - n
    BY <1>1, <1>2, <1>3
  <1>5. QED BY <1>1, <1>2, <1>3, <1>4

LEMMA ApartZero ==
  ASSUME NEW H \in Nat \ {0}, NEW M, M = H + H, NEW a \in 0 .. M - 1, NEW b \in 0 .. M - 1
  PROVE  Apart(a, b, M, H) = 0 <=> a = b
  <1>1. PICK x \in Int : x = Apart(a, b, M, H) /\ -H <= x /\ x < H /\ (x = a - b \/ x = a - b + M \/ x = a - b - M)
    <2>1. Apart(a, b, M, H) \in Int /\ -H <= Apart(a, b, M, H) /\ Apart(a, b, M, H) < H /\ (Apart(a, b, M, H) = a - b \/ Apart(a, b, M, H) = a - b + M \/ Apart(a, b, M, H) = a - b - M)
      BY ApartIs
    <2>2. QED BY <2>1
  <1>2. QED BY <1>1

(* A power of two divides the greater ones.                                *)
LEMMA PowerDivides ==
  ASSUME NEW i \in Nat, NEW j \in Nat
  PROVE  \E q \in Nat : 2^(i + j) = q * 2^i
  <1> DEFINE T == {n \in Nat : ~\E q \in Nat : 2^(i + n) = q * 2^i}
  <1> SUFFICES ASSUME T # {} PROVE FALSE
    OBVIOUS
  <1>1. PICK m \in T : \A n \in T : m <= n
    BY LeastNumber
  <1>2. 2^i \in Nat
    BY PowerOfTwo
  <1>3. m # 0
    <2>1. i + 0 = i /\ 2^i = 1 * 2^i
      BY <1>2
    <2>2. QED BY <2>1
  <1>4. PICK k \in Nat : m = k + 1
    BY <1>3
  <1>5. k \notin T
    BY <1>1, <1>4
  <1>6. PICK q \in Nat : 2^(i + k) = q * 2^i
    BY <1>5
  <1>7. 2^(i + m) = 2^(i + k) + 2^(i + k)
    <2>1. i + k \in Nat /\ i + m = (i + k) + 1
      BY <1>4
    <2>2. QED BY <2>1, PowerOfTwo
  <1>8. q * 2^i + q * 2^i = (q + q) * 2^i
    BY <1>2
  <1>9. 2^(i + m) = (q + q) * 2^i
    BY <1>6, <1>7, <1>8
  <1>10. q + q \in Nat
    OBVIOUS
  <1>11. QED BY <1>9, <1>10

LEMMA QuotientOf ==
  ASSUME NEW B \in Nat \ {0}, NEW x \in Int
  PROVE  \E y \in Int : B * y \in Int /\ x = B * y + (x % B)
  <1>1. x = B * (x \div B) + (x % B) /\ x \div B \in Int
    OBVIOUS
  <1>2. B * (x \div B) \in Int
    BY <1>1
  <1>3. QED BY <1>1, <1>2

LEMMA MultipleIsLarge ==
  ASSUME NEW B \in Nat \ {0}, NEW z \in Int, B * z > 0
  PROVE  B * z >= B
  <1>1. CASE z <= 0
    <2>1. B * z <= 0
      BY <1>1
    <2>2. QED BY <2>1
  <1>2. CASE z >= 1
    <2>1. PICK y \in Nat : z = y + 1
      BY <1>2
    <2>2. B * z = B + B * y /\ B * y >= 0
      BY <2>1
    <2>3. QED BY <2>2
  <1>3. QED BY <1>1, <1>2

LEMMA ModuloEqual ==
  ASSUME NEW B \in Nat \ {0}, NEW x \in Int, NEW y \in Int
  PROVE  x % B = y % B <=> \E z \in Int : x - y = B * z
  <1>1. PICK a \in Int : B * a \in Int /\ x = B * a + (x % B)
    BY QuotientOf
  <1>2. PICK b \in Int : B * b \in Int /\ y = B * b + (y % B)
    BY QuotientOf
  <1>3. PICK r \in 0 .. B - 1 : r = x % B
    BY ModuloCases
  <1>4. PICK s \in 0 .. B - 1 : s = y % B
    BY ModuloCases
  <1>5. a - b \in Int /\ B * (a - b) = B * a - B * b /\ B * (a - b) \in Int
    BY <1>1, <1>2
  <1>6. x - y = B * (a - b) + (r - s)
    <2>1. PICK u \in Int : u = B * a
      BY <1>1
    <2>2. PICK v \in Int : v = B * b
      BY <1>2
    <2>3. B * (a - b) = u - v /\ x = u + r /\ y = v + s
      BY <1>1, <1>2, <1>3, <1>4, <1>5, <2>1, <2>2
    <2>4. QED BY <2>3
  <1>7. ASSUME r = s PROVE \E z \in Int : x - y = B * z
    <2>1. PICK w \in Int : w = B * (a - b)
      BY <1>5
    <2>2. x - y = w
      BY <1>6, <1>7, <2>1
    <2>3. QED BY <1>5, <2>1, <2>2
  <1>8. ASSUME NEW z \in Int, x - y = B * z PROVE r = s
    <2>1. PICK w \in Int : w = B * (a - b)
      BY <1>5
    <2>2. PICK v \in Int : v = B * z
      BY <1>8
    <2>3. r - s = v - w
      BY <1>6, <1>8, <2>1, <2>2
    <2>4. B * (z - (a - b)) = v - w /\ B * ((a - b) - z) = w - v
      BY <1>5, <2>1, <2>2
    <2>5. z - (a - b) \in Int /\ (a - b) - z \in Int
      OBVIOUS
    <2>6. CASE r > s
      <3>1. B * (z - (a - b)) > 0
        BY <2>3, <2>4, <2>6
      <3>2. B * (z - (a - b)) >= B
        BY <2>5, <3>1, MultipleIsLarge
      <3>3. r - s >= B
        BY <2>3, <2>4, <3>2
      <3>4. QED BY <3>3
    <2>7. CASE s > r
      <3>1. B * ((a - b) - z) > 0
        BY <2>3, <2>4, <2>7
      <3>2. B * ((a - b) - z) >= B
        BY <2>5, <3>1, MultipleIsLarge
      <3>3. w - v >= B
        BY <2>4, <3>2
      <3>4. s - r >= B
        BY <2>3, <3>3
      <3>5. QED BY <3>4
    <2>8. QED BY <2>6, <2>7
  <1>9. QED BY <1>3, <1>4, <1>7, <1>8

(* How far a number is past another one, once around at most.              *)
Past(s, b, M) == (s - b) % M

LEMMA PastIs ==
  ASSUME NEW M \in Nat \ {0}, NEW s \in 0 .. M - 1, NEW b \in 0 .. M - 1
  PROVE  Past(s, b, M) \in 0 .. M - 1 /\ (Past(s, b, M) = s - b \/ Past(s, b, M) = s - b + M)
  <1>1. PICK x \in Int : x = s - b
    OBVIOUS
  <1>2. /\ x % M \in 0 .. M - 1
        /\ x \in 0 .. M - 1 => x % M = x
        /\ -M <= x /\ x < 0 => x % M = x + M
    BY ModuloCases
  <1>3. x \in 0 .. M - 1 \/ (-M <= x /\ x < 0)
    BY <1>1
  <1>4. QED BY <1>1, <1>2, <1>3 DEF Past

LEMMA PastOnward ==
  ASSUME NEW M \in Nat \ {0}, NEW s \in 0 .. M - 1, NEW b \in 0 .. M - 1, NEW n \in Int, -M <= n, n <= M,
         0 <= Past(s, b, M) + n, Past(s, b, M) + n < M
  PROVE  Onward(s, n, M) \in 0 .. M - 1 /\ Past(Onward(s, n, M), b, M) = Past(s, b, M) + n
  <1>1. PICK o \in 0 .. M - 1 : o = Onward(s, n, M) /\ (o = s + n \/ o = s + n - M \/ o = s + n + M)
    <2>1. Onward(s, n, M) \in 0 .. M - 1 /\ (Onward(s, n, M) = s + n \/ Onward(s, n, M) = s + n - M \/ Onward(s, n, M) = s + n + M)
      BY OnwardIs
    <2>2. QED BY <2>1
  <1>2. PICK x \in 0 .. M - 1 : x = Past(s, b, M) /\ (x = s - b \/ x = s - b + M)
    BY PastIs
  <1>3. PICK y \in 0 .. M - 1 : y = Past(o, b, M) /\ (y = o - b \/ y = o - b + M)
    BY PastIs
  <1>4. y = x + n
    BY <1>1, <1>2, <1>3
  <1>5. QED BY <1>1, <1>2, <1>3, <1>4

(* ... and the same when the number they are compared with moves on.       *)
LEMMA PastFromOnward ==
  ASSUME NEW M \in Nat \ {0}, NEW s \in 0 .. M - 1, NEW b \in 0 .. M - 1, NEW t \in 0 .. M - 1,
         Past(t, b, M) <= Past(s, b, M)
  PROVE  Past(s, t, M) = Past(s, b, M) - Past(t, b, M)
  <1>1. PICK x \in 0 .. M - 1 : x = Past(s, b, M) /\ (x = s - b \/ x = s - b + M)
    BY PastIs
  <1>2. PICK y \in 0 .. M - 1 : y = Past(t, b, M) /\ (y = t - b \/ y = t - b + M)
    BY PastIs
  <1>3. PICK z \in 0 .. M - 1 : z = Past(s, t, M) /\ (z = s - t \/ z = s - t + M)
    BY PastIs
  <1>4. z = x - y
    BY <1>1, <1>2, <1>3
  <1>5. QED BY <1>1, <1>2, <1>3, <1>4

LEMMA PastIsUnique ==
  ASSUME NEW M \in Nat \ {0}, NEW s \in 0 .. M - 1, NEW t \in 0 .. M - 1, NEW b \in 0 .. M - 1
  PROVE  Past(s, b, M) = Past(t, b, M) <=> s = t
  <1>1. PICK x \in 0 .. M - 1 : x = Past(s, b, M) /\ (x = s - b \/ x = s - b + M)
    BY PastIs
  <1>2. PICK y \in 0 .. M - 1 : y = Past(t, b, M) /\ (y = t - b \/ y = t - b + M)
    BY PastIs
  <1>3. QED BY <1>1, <1>2

LEMMA ApartPast ==
  ASSUME NEW H \in Nat \ {0}, NEW M, M = H + H, NEW s \in 0 .. M - 1, NEW t \in 0 .. M - 1, NEW b \in 0 .. M - 1
  PROVE  /\ -H <= Past(s, b, M) - Past(t, b, M) /\ Past(s, b, M) - Past(t, b, M) < H
              => Apart(s, t, M, H) = Past(s, b, M) - Past(t, b, M)
         /\ Past(s, b, M) - Past(t, b, M) = H => Apart(s, t, M, H) = -H
  <1>1. M \in Nat \ {0}
    OBVIOUS
  <1>2. PICK x \in 0 .. M - 1 : x = Past(s, b, M) /\ (x = s - b \/ x = s - b + M)
    <2>1. Past(s, b, M) \in 0 .. M - 1 /\ (Past(s, b, M) = s - b \/ Past(s, b, M) = s - b + M)
      BY ONLY <1>1, s \in 0 .. M - 1, b \in 0 .. M - 1, PastIs
    <2>2. QED BY <2>1
  <1>3. PICK y \in 0 .. M - 1 : y = Past(t, b, M) /\ (y = t - b \/ y = t - b + M)
    <2>1. Past(t, b, M) \in 0 .. M - 1 /\ (Past(t, b, M) = t - b \/ Past(t, b, M) = t - b + M)
      BY ONLY <1>1, t \in 0 .. M - 1, b \in 0 .. M - 1, PastIs
    <2>2. QED BY <2>1
  <1>4. PICK z \in Int : z = Apart(s, t, M, H) /\ -H <= z /\ z < H /\ (z = s - t \/ z = s - t + M \/ z = s - t - M)
    <2>1. Apart(s, t, M, H) \in Int /\ -H <= Apart(s, t, M, H) /\ Apart(s, t, M, H) < H /\ (Apart(s, t, M, H) = s - t \/ Apart(s, t, M, H) = s - t + M \/ Apart(s, t, M, H) = s - t - M)
      BY ApartIs
    <2>2. QED BY <2>1
  <1>5. -H <= x - y /\ x - y < H => z = x - y
    BY <1>2, <1>3, <1>4
  <1>6. x - y = H => z = -H
    BY <1>2, <1>3, <1>4
  <1>7. QED BY <1>2, <1>3, <1>4, <1>5, <1>6

(* The slots of a ring buffer whose size divides the range: those of       *)
(* numbers less than a buffer apart differ, those of numbers a buffer      *)
(* apart are the same.                                                     *)
LEMMA PastSlots ==
  ASSUME NEW B \in Nat \ {0}, NEW q \in Nat, NEW M \in Nat \ {0}, M = q * B,
         NEW s \in 0 .. M - 1, NEW t \in 0 .. M - 1, NEW b \in 0 .. M - 1
  PROVE  /\ 0 < Past(s, b, M) - Past(t, b, M) /\ Past(s, b, M) - Past(t, b, M) < B => s % B # t % B
         /\ Past(s, b, M) - Past(t, b, M) = B => s % B = t % B
  <1>1. PICK x \in 0 .. M - 1 : x = Past(s, b, M) /\ (x = s - b \/ x = s - b + M)
    <2>1. Past(s, b, M) \in 0 .. M - 1 /\ (Past(s, b, M) = s - b \/ Past(s, b, M) = s - b + M)
      BY ONLY M \in Nat \ {0}, s \in 0 .. M - 1, b \in 0 .. M - 1, PastIs
    <2>2. QED BY ONLY <2>1
  <1>2. PICK y \in 0 .. M - 1 : y = Past(t, b, M) /\ (y = t - b \/ y = t - b + M)
    <2>1. Past(t, b, M) \in 0 .. M - 1 /\ (Past(t, b, M) = t - b \/ Past(t, b, M) = t - b + M)
      BY ONLY M \in Nat \ {0}, t \in 0 .. M - 1, b \in 0 .. M - 1, PastIs
    <2>2. QED BY ONLY <2>1
  <1>3. s % B = t % B <=> \E z \in Int : s - t = B * z
    <2>1. s \in Int /\ t \in Int
      OBVIOUS
    <2>2. QED BY <2>1, ModuloEqual
  <1>4. x - y = s - t \/ x - y = (s - t) + M \/ x - y = (s - t) - M
    BY <1>1, <1>2
  <1>5. ASSUME NEW z \in Int, s - t = B * z, 0 < x - y, x - y < B PROVE FALSE
    <2>1. B * (z + q) = B * z + q * B /\ B * (z - q) = B * z - q * B
      OBVIOUS
    <2>2. PICK u \in Int : u \in {z, z + q, z - q} /\ x - y = B * u
      <3>1. B * (z + q) = (s - t) + M /\ B * (z - q) = (s - t) - M
        BY <1>5, <2>1
      <3>2. z + q \in Int /\ z - q \in Int
        OBVIOUS
      <3>3. QED BY <1>4, <1>5, <3>1, <3>2
    <2>3. B * u >= B
      BY <1>5, <2>2, MultipleIsLarge
    <2>4. QED BY <1>5, <2>2, <2>3
  <1>6. ASSUME x - y = B PROVE \E z \in Int : s - t = B * z
    <2>1. B * 1 = B /\ B * (1 - q) = B - q * B /\ B * (1 + q) = B + q * B
      OBVIOUS
    <2>2. s - t = B \/ s - t = B - M \/ s - t = B + M
      BY <1>4, <1>6
    <2>3. 1 \in Int /\ 1 - q \in Int /\ 1 + q \in Int
      OBVIOUS
    <2>4. QED BY <2>1, <2>2, <2>3
  <1>7. 0 < x - y /\ x - y < B => s % B # t % B
    BY <1>3, <1>5
  <1>8. x - y = B => s % B = t % B
    BY <1>3, <1>6
  <1>9. QED BY <1>1, <1>2, <1>7, <1>8

(* As many numbers as ranges of at most K numbers can cover.               *)
LEMMA RangesFit ==
  ASSUME NEW P, IsFiniteSet(P), NEW K \in Nat, NEW b \in [P -> Int], NEW e \in [P -> Int],
         NEW lo \in Int, NEW hi \in Int,
         \A p \in P : e[p] - b[p] <= K,
         \A n \in lo .. hi : \E p \in P : b[p] <= n /\ n < e[p]
  PROVE  hi - lo + 1 <= Cardinality(P) * K
  <1> DEFINE R == 0 .. K - 1
             of(n) == CHOOSE p \in P : b[p] <= n /\ n < e[p]
             f == [n \in lo .. hi |-> <<of(n), n - b[of(n)]>>]
  <1>1. IsFiniteSet(R) /\ Cardinality(R) = K
    BY FS_Interval
  <1>2. IsFiniteSet(P \X R) /\ Cardinality(P \X R) = Cardinality(P) * K
    BY <1>1, FS_Product
  <1>3. ASSUME NEW n \in lo .. hi PROVE of(n) \in P /\ b[of(n)] <= n /\ n < e[of(n)] /\ n - b[of(n)] \in R
    <2>1. of(n) \in P /\ b[of(n)] <= n /\ n < e[of(n)]
      BY <1>3
    <2> HIDE DEF of
    <2>2. b[of(n)] \in Int /\ e[of(n)] \in Int /\ e[of(n)] - b[of(n)] <= K
      BY <2>1
    <2>3. QED BY <2>1, <2>2
  <1> HIDE DEF of
  <1>4. f \in Injection(lo .. hi, P \X R)
    <2>1. f \in [lo .. hi -> P \X R]
      BY <1>3
    <2>2. ASSUME NEW m \in lo .. hi, NEW n \in lo .. hi, f[m] = f[n] PROVE m = n
      <3>1. of(m) = of(n) /\ m - b[of(m)] = n - b[of(n)]
        BY <2>2
      <3>2. b[of(m)] \in Int
        BY <1>3
      <3>3. QED BY <3>1, <3>2
    <2> HIDE DEF f, R
    <2>3. QED BY <2>1, <2>2, Fun_IsInj
  <1>5. IsFiniteSet(lo .. hi) /\ Cardinality(lo .. hi) <= Cardinality(P) * K
    <2> HIDE DEF f, R
    <2> QED BY <1>2, <1>4, FS_Injection
  <1>6. CASE lo <= hi
    BY <1>5, <1>6, FS_Interval
  <1>7. CASE lo > hi
    <2>1. Cardinality(P) \in Nat
      BY FS_CardinalityType
    <2>2. Cardinality(P) * K >= 0
      BY <2>1
    <2>3. PICK m \in Int : m = Cardinality(P) * K /\ m >= 0
      BY <2>1, <2>2
    <2>4. QED BY <1>7, <2>3
  <1>8. QED BY <1>6, <1>7
=============================================================================
