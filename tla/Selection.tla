------------------------------ MODULE Selection ------------------------------
(***************************************************************************)
(* The elements of a list that belong to a set, in the order of the list:  *)
(* SelectSeq without recursion, so that what it returns can be proved.     *)
(***************************************************************************)
EXTENDS Integers, Sequences, FiniteSets

Increasing(f) == \A j, k \in DOMAIN f : j < k => f[j] < f[k]

(* The positions in a list of what belongs to a set.                       *)
Kept(list, S) == {i \in DOMAIN list : list[i] \in S}

Selected(list, S) ==
  LET kept == Kept(list, S)
      nth  == CHOOSE f \in [1..Cardinality(kept) -> kept] : Increasing(f)
  IN  [k \in 1..Cardinality(kept) |-> list[nth[k]]]
=============================================================================
