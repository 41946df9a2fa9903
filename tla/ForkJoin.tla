------------------------------ MODULE ForkJoin ------------------------------
(***************************************************************************)
(* sync_wait(when_all(tasks)): cppcoro::task (task.hpp), the when_all_task *)
(* coroutines and their counter (when_all*.hpp), the sync_wait coroutine   *)
(* (sync_wait*.hpp) and lightweight_manual_reset_event on Linux.           *)
(*                                                                         *)
(* Main calls sync_wait, starts the tasks one after the other and sleeps   *)
(* on the event.  A task's body completes in the call that starts it, or   *)
(* suspends and is completed by a thread of its own; whoever brings the    *)
(* counter to zero goes on with the coroutine that awaits them all.  Both  *)
(* builds are here, with and without symmetric transfer.                   *)
(***************************************************************************)
EXTENDS Integers, Sequences, FiniteSets

CONSTANT MaxTasks

Main == 0

VARIABLES
  symmetric,        \* the compiler supports symmetric transfer
  body,             \* per task: "null", "initial", "running", "suspended" or "final"
  m_state,          \* per task: somebody got to the continuation first
  m_resultType,     \* per task: "empty", "value" or "exception"
  outcome,          \* per when_all_task: what it holds, "empty" before it completes
  m_count,          \* when_all_counter
  m_awaitingCoroutine,
  starting,         \* the task Main is starting
  waitResult,       \* what the sync_wait_task holds
  m_value,          \* the event
  pc                \* where Main and each task's thread are

vars == <<symmetric, body, m_state, m_resultType, outcome, m_count, m_awaitingCoroutine,
          starting, waitResult, m_value, pc>>

Tasks == DOMAIN body
Threads == {Main} \cup Tasks
Results == {"value", "exception"}

TypeOK ==
  /\ symmetric \in BOOLEAN
  /\ \A i \in Tasks :
       /\ body[i] \in {"null", "initial", "running", "suspended", "final"}
       /\ m_state[i] \in BOOLEAN
       /\ m_resultType[i] \in Results \cup {"empty"}
       /\ outcome[i] \in Results \cup {"empty"}
  /\ m_count \in 0..Len(body) + 1
  /\ m_awaitingCoroutine \in BOOLEAN
  /\ starting \in 1..Len(body) + 1
  /\ waitResult \in Results \cup {"empty"}
  /\ m_value \in {0, 1}
  /\ pc \in [Threads -> {"idle", "start", "body", "final", "set_continuation", "notify", "results",
                         "set", "wake", "wait", "futex", "asleep", "return", "done"}]

(* A slip: the counter does not count the awaiting coroutine itself.       *)
CounterForTasksOnly(n) == n

(* when_all_counter's initial count.                                       *)
InitialCount(n) == n + 1

(* The tasks are lazily started, complete already, or default constructed. *)
Init ==
  /\ symmetric \in BOOLEAN
  /\ \E n \in 0..MaxTasks : body \in [1..n -> {"null", "initial", "final"}]
  /\ m_state = [i \in Tasks |-> body[i] = "final"]
  /\ m_resultType \in [Tasks -> Results \cup {"empty"}]
  /\ \A i \in Tasks : (m_resultType[i] # "empty") = (body[i] = "final")
  /\ outcome = [i \in Tasks |-> "empty"]
  /\ m_count = InitialCount(Len(body))
  /\ m_awaitingCoroutine = FALSE
  /\ starting = 1
  /\ waitResult = "empty"
  /\ m_value = 0
  /\ pc = [t \in Threads |-> IF t = Main THEN "start" ELSE "idle"]

Goto(t, label) == pc' = [pc EXCEPT ![t] = label]

TaskOf(t) == IF t = Main THEN starting ELSE t

(* Thread t has no more to do for its task: Main starts the next one.      *)
TaskLeft(t) ==
  /\ Goto(t, IF t = Main THEN "start" ELSE "done")
  /\ starting' = IF t = Main THEN starting + 1 ELSE starting

-----------------------------------------------------------------------------
(* task                                                                    *)

(* when_all_task_promise::start() runs up to co_await of the task, whose   *)
(* await_ready() is true when there is no coroutine or it is done;         *)
(* otherwise the body is started.                                          *)
StartTask ==
  /\ pc[Main] = "start"
  /\ starting \in Tasks
  /\ \/ /\ body[starting] \in {"null", "final"}
        /\ Goto(Main, "notify")
        /\ UNCHANGED body
     \/ /\ body[starting] = "initial"
        /\ body' = [body EXCEPT ![starting] = "running"]
        /\ Goto(Main, "body")
  /\ UNCHANGED <<symmetric, m_state, m_resultType, outcome, m_count, m_awaitingCoroutine, starting, waitResult, m_value>>

(* The body suspends: Main returns from resume(), without symmetric        *)
(* transfer to set the continuation.                                       *)
BodySuspends ==
  /\ pc[Main] = "body"
  /\ body' = [body EXCEPT ![starting] = "suspended"]
  /\ \/ symmetric /\ TaskLeft(Main)
     \/ ~symmetric /\ Goto(Main, "set_continuation") /\ UNCHANGED starting
  /\ UNCHANGED <<symmetric, m_state, m_resultType, outcome, m_count, m_awaitingCoroutine, waitResult, m_value>>

WorkerResumesBody(t) ==
  /\ body[t] = "suspended"
  /\ pc[t] = "idle"
  /\ body' = [body EXCEPT ![t] = "running"]
  /\ Goto(t, "body")
  /\ UNCHANGED <<symmetric, m_state, m_resultType, outcome, m_count, m_awaitingCoroutine, starting, waitResult, m_value>>

(* return_value() or unhandled_exception(), then final_suspend().          *)
BodyCompletes(t) ==
  /\ pc[t] = "body"
  /\ \E r \in Results : m_resultType' = [m_resultType EXCEPT ![TaskOf(t)] = r]
  /\ body' = [body EXCEPT ![TaskOf(t)] = "final"]
  /\ Goto(t, "final")
  /\ UNCHANGED <<symmetric, m_state, outcome, m_count, m_awaitingCoroutine, starting, waitResult, m_value>>

(* final_awaitable::await_suspend(): on to the continuation, which without *)
(* symmetric transfer must have been set before.                           *)
FinalSuspend(t) ==
  /\ pc[t] = "final"
  /\ m_state' = [m_state EXCEPT ![TaskOf(t)] = TRUE]
  /\ Goto(t, CASE symmetric \/ m_state[TaskOf(t)] -> "notify"
               [] t = Main /\ ~symmetric /\ ~m_state[TaskOf(t)] -> "set_continuation"
               [] OTHER -> "done")
  /\ UNCHANGED <<symmetric, body, m_resultType, outcome, m_count, m_awaitingCoroutine, starting, waitResult, m_value>>

(* A slip: the coroutine stays suspended although the task has completed.  *)
SetContinuationAlwaysSuspends ==
  /\ pc[Main] = "set_continuation"
  /\ m_state' = [m_state EXCEPT ![starting] = TRUE]
  /\ TaskLeft(Main)
  /\ UNCHANGED <<symmetric, body, m_resultType, outcome, m_count, m_awaitingCoroutine, waitResult, m_value>>

(* try_set_continuation(): the exchange decides who got there first.       *)
SetContinuation ==
  /\ pc[Main] = "set_continuation"
  /\ m_state' = [m_state EXCEPT ![starting] = TRUE]
  /\ \/ m_state[starting] /\ Goto(Main, "notify") /\ UNCHANGED starting
     \/ ~m_state[starting] /\ TaskLeft(Main)
  /\ UNCHANGED <<symmetric, body, m_resultType, outcome, m_count, m_awaitingCoroutine, waitResult, m_value>>

-----------------------------------------------------------------------------
(* when_all                                                                *)

(* await_resume() of a task: broken_promise if there is no coroutine.      *)
TaskResult(i) == IF body[i] = "null" THEN "exception" ELSE m_resultType[i]

(* The when_all_task keeps its task's result or exception.                 *)
KeepResult(i) == outcome' = [outcome EXCEPT ![i] = TaskResult(i)]

(* Its completion_notifier takes one from the counter: who takes the last  *)
(* one resumes the awaiting coroutine.                                     *)
NotifyAwaitableCompleted(t) ==
  /\ pc[t] = "notify"
  /\ KeepResult(TaskOf(t))
  /\ m_count' = m_count - 1
  /\ \/ m_count = 1 /\ Goto(t, "results") /\ UNCHANGED starting
     \/ m_count # 1 /\ TaskLeft(t)
  /\ UNCHANGED <<symmetric, body, m_state, m_resultType, m_awaitingCoroutine, waitResult, m_value>>

(* when_all_counter::try_await(), after all tasks have been started.       *)
TryAwait ==
  /\ pc[Main] = "start"
  /\ starting > Len(body)
  /\ m_awaitingCoroutine' = TRUE
  /\ m_count' = m_count - 1
  /\ Goto(Main, IF m_count > 1 THEN "wait" ELSE "results")
  /\ UNCHANGED <<symmetric, body, m_state, m_resultType, outcome, starting, waitResult, m_value>>

(* when_all() fetches the results in order and rethrows the first          *)
(* exception it meets.                                                     *)
WhenAllResult == IF \E i \in Tasks : outcome[i] = "exception" THEN "exception" ELSE "value"

(* The awaiting coroutine goes on, and its sync_wait_task keeps either.    *)
FetchResults(t) ==
  /\ pc[t] = "results"
  /\ waitResult' = WhenAllResult
  /\ Goto(t, "set")
  /\ UNCHANGED <<symmetric, body, m_state, m_resultType, outcome, m_count, m_awaitingCoroutine, starting, m_value>>

-----------------------------------------------------------------------------
(* lightweight_manual_reset_event, and sync_wait() that waits on it        *)

SetEvent(t) ==
  /\ pc[t] = "set"
  /\ m_value' = 1
  /\ Goto(t, "wake")
  /\ UNCHANGED <<symmetric, body, m_state, m_resultType, outcome, m_count, m_awaitingCoroutine, starting, waitResult>>

FutexWake(t) ==
  /\ pc[t] = "wake"
  /\ pc' = [u \in Threads |-> CASE u = Main /\ (t = Main \/ pc[Main] = "asleep") -> "wait"
                                [] u = t /\ t # Main -> "done"
                                [] OTHER -> pc[u]]
  /\ UNCHANGED <<symmetric, body, m_state, m_resultType, outcome, m_count, m_awaitingCoroutine, starting, waitResult, m_value>>

LoadValue ==
  /\ pc[Main] = "wait"
  /\ Goto(Main, IF m_value = 0 THEN "futex" ELSE "return")
  /\ UNCHANGED <<symmetric, body, m_state, m_resultType, outcome, m_count, m_awaitingCoroutine, starting, waitResult, m_value>>

(* A slip: the thread goes to sleep whatever the value is by then.         *)
FutexWaitUnconditionally ==
  /\ pc[Main] = "futex"
  /\ Goto(Main, "asleep")
  /\ UNCHANGED <<symmetric, body, m_state, m_resultType, outcome, m_count, m_awaitingCoroutine, starting, waitResult, m_value>>

(* FUTEX_WAIT sleeps only if the value is still 0; EAGAIN ends the wait.   *)
FutexWait ==
  /\ pc[Main] = "futex"
  /\ Goto(Main, IF m_value = 0 THEN "asleep" ELSE "return")
  /\ UNCHANGED <<symmetric, body, m_state, m_resultType, outcome, m_count, m_awaitingCoroutine, starting, waitResult, m_value>>

SpuriousWakeUp ==
  /\ pc[Main] = "asleep"
  /\ Goto(Main, "wait")
  /\ UNCHANGED <<symmetric, body, m_state, m_resultType, outcome, m_count, m_awaitingCoroutine, starting, waitResult, m_value>>

(* sync_wait() returns or rethrows; the frames are destroyed.              *)
ReturnResult ==
  /\ pc[Main] = "return"
  /\ Goto(Main, "done")
  /\ UNCHANGED <<symmetric, body, m_state, m_resultType, outcome, m_count, m_awaitingCoroutine, starting, waitResult, m_value>>

-----------------------------------------------------------------------------
ThreadStep(t) ==
  \/ BodyCompletes(t) \/ FinalSuspend(t) \/ NotifyAwaitableCompleted(t)
  \/ FetchResults(t) \/ SetEvent(t) \/ FutexWake(t)

MainStep ==
  StartTask \/ BodySuspends \/ SetContinuation \/ TryAwait \/ LoadValue \/ FutexWait \/ ReturnResult

Next ==
  \/ \E t \in Threads : ThreadStep(t)
  \/ \E t \in Tasks : WorkerResumesBody(t)
  \/ MainStep
  \/ SpuriousWakeUp

(* Threads go on with what they have begun; a body that has suspended is   *)
(* resumed and completes.                                                  *)
Proceeds(t) ==
  /\ t \in Threads
  /\ ThreadStep(t) \/ (t = Main /\ MainStep) \/ (t # Main /\ WorkerResumesBody(t))

Spec == Init /\ [][Next]_vars /\ \A t \in 0..MaxTasks : WF_vars(Proceeds(t))

-----------------------------------------------------------------------------
(* One thread at most goes on with the awaiting coroutine, once it is      *)
(* registered and every task has left its result; Main does not do so      *)
(* while it is still starting tasks.                                       *)
JoinedOnce ==
  /\ Cardinality({t \in Threads : pc[t] \in {"results", "set", "wake"}}) <= 1
  /\ \A t \in Threads :
       pc[t] = "results" =>
         /\ m_awaitingCoroutine
         /\ waitResult = "empty"
         /\ \A i \in Tasks : outcome[i] # "empty"
         /\ pc[Main] \notin {"start", "body", "final", "set_continuation", "notify"}

(* A task's continuation runs after the task has completed, on one thread, *)
(* whichever of final_suspend() and try_set_continuation() comes first.    *)
ContinuationRunsOnce ==
  \A i \in Tasks :
    LET there == {t \in Threads : TaskOf(t) = i /\ pc[t] \in {"notify", "set_continuation"}}
    IN  /\ Cardinality({t \in there : pc[t] = "notify"}) <= 1
        /\ (\E t \in there : pc[t] = "notify") => body[i] \in {"null", "final"} /\ outcome[i] = "empty"

(* When sync_wait() returns, and the coroutine frames and the event on its *)
(* stack go, nobody is left who uses them but for a futex wake-up on the   *)
(* event's address; what it returns is an exception if some task threw.    *)
NothingRunsAfterReturn ==
  pc[Main] \in {"return", "done"} =>
    /\ \A t \in Tasks : pc[t] \in {"idle", "wake", "done"} /\ body[t] \in {"null", "final"}
    /\ waitResult = IF \E i \in Tasks : body[i] = "null" \/ m_resultType[i] = "exception"
                      THEN "exception" ELSE "value"

(* sync_wait() returns: no wake-up of the coroutine or the thread is lost. *)
SyncWaitReturns == <>(pc[Main] = "done")
=============================================================================
