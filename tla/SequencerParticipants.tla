----------------------- MODULE SequencerParticipants -----------------------
(***************************************************************************)
(* The producers and consumers of a ring buffer that a sequencer with      *)
(* several producers keeps apart.                                          *)
(***************************************************************************)
EXTENDS SequenceTraits, FiniteSets

CONSTANTS Producers, Consumers, NoResult,
          BufferSize,  \* a power of two
          MaxClaim,    \* bound on the argument of claim_up_to()
          MaxReach,    \* bound on how far ahead a consumer waits
          MaxNumber    \* bound on the numbers claimed; no bound from 2^Width + MaxClaim

ASSUME MultiProducerAssumption ==
  /\ Producers \cap Consumers = {} /\ IsFiniteSet(Producers)
  /\ NoResult \notin Sequences
  /\ BufferSize \in {2^i : i \in 0..(Width - 2)}
  /\ MaxClaim \in Nat \ {0}
  /\ MaxReach \in 1..BufferSize
  /\ MaxNumber \in Nat
  /\ Cardinality(Producers) * MaxClaim < 2^(Width - 1)  \* all claims fit in half the range
=============================================================================
