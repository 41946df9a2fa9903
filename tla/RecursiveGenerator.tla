------------------------- MODULE RecursiveGenerator -------------------------
(***************************************************************************)
(* cppcoro::recursive_generator (recursive_generator.hpp): a coroutine     *)
(* that yields values or whole generators.  The consumer holds Root and    *)
(* resumes the innermost generator directly, which Root's m_parentOrLeaf   *)
(* names; of the others m_parentOrLeaf names the parent.                   *)
(*                                                                         *)
(* Everything happens on one thread, as nested calls of resume(): `stack'  *)
(* holds the coroutines whose resume() has not returned.  What a body does *)
(* next is arbitrary: yield a value, yield a fresh generator, return, or   *)
(* throw; an exception from a nested generator is caught or passed on.     *)
(***************************************************************************)
EXTENDS Integers, FiniteSets, Sequences

CONSTANTS Generators,   \* the coroutines that may nest
          Root,         \* the generator that the consumer holds
          NoGenerator,
          MaxValues     \* bound: how many values are yielded

VARIABLES
  status,           \* per generator, where its coroutine is
  m_root, m_parentOrLeaf, m_value, m_exception,
  child,            \* the generator that a co_yield of a generator waits for
  stack,
  pulling,          \* the consumer is in pull()
  iterator,         \* "none" before begin(), "at" a value, "end" or "destroyed"
  yields            \* how many values have been yielded: the last one yielded

vars == <<status, m_root, m_parentOrLeaf, m_value, m_exception, child, stack, pulling, iterator, yields>>

TypeOK ==
  /\ status \in [Generators -> {"initial", "running", "thrown", "yielded", "nesting", "waiting", "final", "destroyed"}]
  /\ m_root \in [Generators -> Generators]
  /\ m_parentOrLeaf \in [Generators -> Generators]
  /\ m_value \in [Generators -> 0..MaxValues]
  /\ m_exception \in [Generators -> BOOLEAN]
  /\ child \in [Generators -> Generators \cup {NoGenerator}]
  /\ stack \in Seq(Generators)
  /\ pulling \in BOOLEAN
  /\ iterator \in {"none", "at", "end", "destroyed"}
  /\ yields \in 0..MaxValues

Init ==
  /\ status = [g \in Generators |-> "initial"]
  /\ m_root = [g \in Generators |-> g]
  /\ m_parentOrLeaf = [g \in Generators |-> g]
  /\ m_value = [g \in Generators |-> 0]
  /\ m_exception = [g \in Generators |-> FALSE]
  /\ child = [g \in Generators |-> NoGenerator]
  /\ stack = << >>
  /\ pulling = FALSE
  /\ iterator = "none"
  /\ yields = 0

Leaf == m_parentOrLeaf[Root]
Running(g) == stack # << >> /\ stack[Len(stack)] = g
Pop == SubSeq(stack, 1, Len(stack) - 1)

-----------------------------------------------------------------------------
(* The body of the generator on top of the stack                           *)

YieldValue(g) ==
  /\ Running(g) /\ status[g] = "running"
  /\ yields < MaxValues
  /\ yields' = yields + 1
  /\ m_value' = [m_value EXCEPT ![g] = yields + 1]
  /\ status' = [status EXCEPT ![g] = "yielded"]
  /\ stack' = Pop
  /\ UNCHANGED <<m_root, m_parentOrLeaf, m_exception, child, pulling, iterator>>

(* A slip: the new generator is hung up under the root, not under g.       *)
YieldGeneratorUnderRoot(g, h) ==
  /\ Running(g) /\ status[g] = "running"
  /\ h # Root /\ status[h] = "initial"
  /\ m_root' = [m_root EXCEPT ![h] = m_root[g]]
  /\ m_parentOrLeaf' = [m_parentOrLeaf EXCEPT ![m_root[g]] = h, ![h] = m_root[g]]
  /\ status' = [status EXCEPT ![g] = "nesting", ![h] = "running"]
  /\ child' = [child EXCEPT ![g] = h]
  /\ stack' = Append(stack, h)
  /\ UNCHANGED <<m_value, m_exception, pulling, iterator, yields>>

(* yield_value(generator): h becomes the leaf and is resumed at once.      *)
YieldGenerator(g, h) ==
  /\ Running(g) /\ status[g] = "running"
  /\ h # Root /\ status[h] = "initial"
  /\ m_root' = [m_root EXCEPT ![h] = m_root[g]]
  /\ m_parentOrLeaf' = [m_parentOrLeaf EXCEPT ![m_root[g]] = h, ![h] = g]
  /\ status' = [status EXCEPT ![g] = "nesting", ![h] = "running"]
  /\ child' = [child EXCEPT ![g] = h]
  /\ stack' = Append(stack, h)
  /\ UNCHANGED <<m_value, m_exception, pulling, iterator, yields>>

(* ... and its resume() has returned: if h is complete, g goes on without  *)
(* suspending, and without looking at h's exception.                       *)
NestedResumeReturns(g) ==
  /\ Running(g) /\ status[g] = "nesting"
  /\ \/ /\ status[child[g]] = "final"
        /\ m_parentOrLeaf' = [m_parentOrLeaf EXCEPT ![m_root[g]] = g]
        /\ child' = [child EXCEPT ![g] = NoGenerator]
        /\ status' = [status EXCEPT ![g] = "running"]
        /\ UNCHANGED stack
     \/ /\ status[child[g]] # "final"
        /\ status' = [status EXCEPT ![g] = "waiting"]
        /\ stack' = Pop
        /\ UNCHANGED <<m_parentOrLeaf, child>>
  /\ UNCHANGED <<m_root, m_value, m_exception, pulling, iterator, yields>>

(* The body runs to its end, or an exception leaves it: unhandled_exception*)
BodyCompletes(g) ==
  /\ Running(g) /\ status[g] \in {"running", "thrown"}
  /\ \E thrown \in IF status[g] = "thrown" THEN {TRUE} ELSE BOOLEAN :
       m_exception' = [m_exception EXCEPT ![g] = thrown]
  /\ status' = [status EXCEPT ![g] = "final"]
  /\ stack' = Pop
  /\ UNCHANGED <<m_root, m_parentOrLeaf, m_value, child, pulling, iterator, yields>>

BodyCatches(g) ==
  /\ Running(g) /\ status[g] = "thrown"
  /\ status' = [status EXCEPT ![g] = "running"]
  /\ UNCHANGED <<m_root, m_parentOrLeaf, m_value, m_exception, child, stack, pulling, iterator, yields>>

-----------------------------------------------------------------------------
(* The consumer                                                            *)

(* pull(), from begin() or operator++(): resumes the leaf.                 *)
Pull ==
  /\ iterator \in {"none", "at"}
  /\ ~pulling
  /\ pulling' = TRUE
  /\ stack' = <<Leaf>>
  /\ status' = [status EXCEPT ![Leaf] = "running"]
  /\ UNCHANGED <<m_root, m_parentOrLeaf, m_value, m_exception, child, iterator, yields>>

(* The loop of pull(): while the leaf is complete its parent becomes the   *)
(* leaf and is resumed, with the exception of the generator it waited for. *)
ResumeParent ==
  /\ pulling /\ stack = << >>
  /\ Leaf # Root /\ status[Leaf] = "final"
  /\ LET parent == m_parentOrLeaf[Leaf] IN
       /\ m_parentOrLeaf' = [m_parentOrLeaf EXCEPT ![Root] = parent]
       /\ stack' = <<parent>>
       /\ status' = [status EXCEPT ![parent] = IF m_exception[child[parent]] THEN "thrown" ELSE "running"]
       /\ m_exception' = [m_exception EXCEPT ![child[parent]] = FALSE]
       /\ child' = [child EXCEPT ![parent] = NoGenerator]
  /\ UNCHANGED <<m_root, m_value, pulling, iterator, yields>>

(* pull() returns: at a value, or at the end and with Root's exception.    *)
PullReturns ==
  /\ pulling /\ stack = << >>
  /\ Leaf = Root \/ status[Leaf] # "final"
  /\ pulling' = FALSE
  /\ iterator' = IF status[Root] = "final" THEN "end" ELSE "at"
  /\ m_exception' = [m_exception EXCEPT ![Root] = FALSE]
  /\ UNCHANGED <<status, m_root, m_parentOrLeaf, m_value, child, stack, yields>>

(* ~recursive_generator(): Root's frame goes, and those it holds.          *)
Destroy ==
  /\ iterator # "destroyed"
  /\ ~pulling
  /\ iterator' = "destroyed"
  /\ status' = [g \in Generators |-> IF status[g] = "initial" /\ g # Root THEN "initial" ELSE "destroyed"]
  /\ UNCHANGED <<m_root, m_parentOrLeaf, m_value, m_exception, child, stack, pulling, yields>>

-----------------------------------------------------------------------------
Next ==
  \/ \E g \in Generators : YieldValue(g) \/ NestedResumeReturns(g) \/ BodyCompletes(g) \/ BodyCatches(g)
  \/ \E g, h \in Generators : YieldGenerator(g, h)
  \/ Pull \/ ResumeParent \/ PullReturns \/ Destroy

Spec == Init /\ [][Next]_vars

-----------------------------------------------------------------------------
(* Where the consumer stands, the leaf is the one generator that stands at *)
(* a value, the last one yielded, and the pointers to the parents lead     *)
(* through all the generators that wait, each for the one before it, to    *)
(* the root: so no value is skipped or delivered twice, however generators *)
(* nest, complete and throw.                                               *)
LeafIsInnermost ==
  iterator = "at" /\ ~pulling =>
    /\ status[Leaf] = "yielded"
    /\ m_value[Leaf] = yields
    /\ \A g \in Generators : status[g] = "yielded" => g = Leaf
    /\ \A g \in Generators : status[g] = "waiting" =>
         /\ child[g] # Root /\ m_parentOrLeaf[child[g]] = g /\ m_root[child[g]] = Root
         /\ status[child[g]] \in {"waiting", "yielded"}
    /\ \A g \in Generators \ {Root} : status[g] \in {"waiting", "yielded"} =>
         status[m_parentOrLeaf[g]] = "waiting" /\ child[m_parentOrLeaf[g]] = g

(* A coroutine is resumed only when it is suspended, and the one on top of *)
(* the stack alone runs, the others being in a co_yield of the next one.   *)
CallsNest ==
  /\ \A i \in 1..Len(stack) - 1 : status[stack[i]] = "nesting" /\ child[stack[i]] = stack[i + 1]
  /\ Cardinality({g \in Generators : status[g] \in {"running", "thrown", "nesting"}}) = Len(stack)
  /\ ~pulling => stack = << >>

(* An exception that leaves a nested generator is not swallowed: until the *)
(* generator that yields it gets the exception, it is still waiting.       *)
ExceptionReachesParent ==
  \A g \in Generators \ {Root} :
    status[g] = "final" /\ m_exception[g] => child[m_parentOrLeaf[g]] = g
=============================================================================
