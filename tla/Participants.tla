---------------------------- MODULE Participants ----------------------------
(***************************************************************************)
(* The coroutines around an event, a task or a scope.  An awaiter lives in *)
(* the frame of the coroutine that awaits it, so its address is the        *)
(* coroutine.                                                              *)
(***************************************************************************)
EXTENDS Integers, FiniteSets

CONSTANTS Coroutines,   \* coroutines that await
          NullPtr

ASSUME CoroutinesAssumption == NullPtr \notin Coroutines
=============================================================================
