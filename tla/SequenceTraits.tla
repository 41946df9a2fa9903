--------------------------- MODULE SequenceTraits ---------------------------
(***************************************************************************)
(* cppcoro::sequence_traits (sequence_traits.hpp): sequence numbers are    *)
(* unsigned integers that wrap around, compared by the sign of their       *)
(* difference.  The first one is initial_sequence, the largest, so that    *)
(* the first number ever published is already a wrap-around.               *)
(***************************************************************************)
EXTENDS Integers

CONSTANT Width   \* bits of SEQUENCE

ASSUME WidthAssumption == Width \in Nat \ {0}

Sequences == 0..(2^Width - 1)

initial_sequence == 2^Width - 1

(* static_cast<SEQUENCE>(a + n) for a signed n.                            *)
Advance(a, n) == (a + n) % 2^Width

(* static_cast<difference_type>(a - b): the result is signed.              *)
Difference(a, b) ==
  LET d == (a - b) % 2^Width IN IF d < 2^(Width - 1) THEN d ELSE d - 2^Width

Precedes(a, b) == Difference(a, b) < 0
=============================================================================
