------------------------------- MODULE MCTasks -------------------------------
(***************************************************************************)
(* What coroutines are built from, in one model: async_mutex, shared_task, *)
(* async_scope, sync_wait of when_all of tasks, async_generator and        *)
(* recursive_generator.  They share no state; a behaviour is one of the    *)
(* component that `chosen' names, with the others at rest.                 *)
(***************************************************************************)
EXTENDS AsyncMutex

CONSTANTS TaskCoroutines,   \* coroutines that use the shared task
          Creator, Worker, Work,
          NotStarted, Ready,
          MaxTasks,         \* bound: how many tasks are joined
          Generators, Root, NoGenerator,
          MaxValues         \* bound: how many values are yielded

ASSUME TaskParticipantsAssumption ==
  /\ Creator \in Coroutines
  /\ Worker \notin Coroutines
  /\ IsFiniteSet(Work)

ASSUME GeneratorsAssumption ==
  /\ Root \in Generators
  /\ NoGenerator \notin Generators
  /\ MaxValues \in Nat

ASSUME TasksAssumption ==
  /\ IsFiniteSet(TaskCoroutines)
  /\ Creator \in TaskCoroutines
  /\ Worker \notin TaskCoroutines
  /\ NotStarted # Ready
  /\ \A m \in {NotStarted, Ready} : m \notin Seq(TaskCoroutines)
  /\ MaxTasks \in Nat

VARIABLES
  chosen,
  (* SharedTask *)
  taskWaiters, taskRefCount, handles, alive, taskBody, taskPc, toResume,
  (* AsyncScope *)
  workCount, m_continuation, owner, work,
  (* ForkJoin *)
  joinSymmetric, body, m_state, m_resultType, outcome, m_count, m_awaitingCoroutine,
  starting, waitResult, m_value, joinPc,
  (* AsyncGenerator *)
  symmetric, streamState, m_currentValue, streamException, producer, consumer, nested, seenState, yielded, received,
  (* RecursiveGenerator *)
  status, m_root, m_parentOrLeaf, treeValue, m_exception, child, stack, pulling, iterator, yields

Shared == INSTANCE SharedTask WITH
  Coroutines <- TaskCoroutines, m_waiters <- taskWaiters, m_refCount <- taskRefCount, body <- taskBody, pc <- taskPc
Scope == INSTANCE AsyncScope WITH m_count <- workCount
Join == INSTANCE ForkJoin WITH symmetric <- joinSymmetric, pc <- joinPc
Stream == INSTANCE AsyncGenerator WITH m_state <- streamState, m_exception <- streamException
Tree == INSTANCE RecursiveGenerator WITH m_value <- treeValue

sharedVars == <<taskWaiters, taskRefCount, handles, alive, taskBody, taskPc, toResume>>
scopeVars == <<workCount, m_continuation, owner, work>>
joinVars ==
  <<joinSymmetric, body, m_state, m_resultType, outcome, m_count, m_awaitingCoroutine,
    starting, waitResult, m_value, joinPc>>
streamVars ==
  <<symmetric, streamState, m_currentValue, streamException, producer, consumer, nested, seenState, yielded, received>>
treeVars == <<status, m_root, m_parentOrLeaf, treeValue, m_exception, child, stack, pulling, iterator, yields>>
taskVars == <<sharedVars, scopeVars>>
generatorVars == <<streamVars, treeVars>>

MCInit ==
  /\ chosen \in {"mutex", "shared_task", "scope", "fork_join", "async_generator", "recursive_generator"}
  /\ Init
  /\ Shared!Init
  /\ Scope!Init
  /\ Join!Init
  /\ Stream!Init
  /\ Tree!Init
  /\ chosen # "fork_join" => Len(body) = 0 /\ joinSymmetric
  /\ chosen # "async_generator" => symmetric

TaskNext ==
  \/ chosen = "shared_task" /\ Shared!Next /\ UNCHANGED scopeVars
  \/ chosen = "scope" /\ Scope!Next /\ UNCHANGED sharedVars

GeneratorNext ==
  \/ chosen = "async_generator" /\ Stream!Next /\ UNCHANGED treeVars
  \/ chosen = "recursive_generator" /\ Tree!Next /\ UNCHANGED streamVars

MCNext ==
  /\ \/ chosen = "mutex" /\ Next /\ UNCHANGED <<taskVars, joinVars, generatorVars>>
     \/ TaskNext /\ UNCHANGED <<vars, joinVars, generatorVars>>
     \/ chosen = "fork_join" /\ Join!Next /\ UNCHANGED <<vars, taskVars, generatorVars>>
     \/ GeneratorNext /\ UNCHANGED <<vars, taskVars, joinVars>>
  /\ UNCHANGED chosen

(* Each component's own fairness: a call that has begun goes on, an owner  *)
(* unlocks, bodies and work that were started complete, and a producer     *)
(* that runs comes to its next co_yield.                                   *)
MCSpec ==
  /\ MCInit /\ [][MCNext]_<<chosen, vars, taskVars, joinVars, generatorVars>>
  /\ \A c \in Coroutines : WF_vars(chosen = "mutex" /\ AwaitSuspend(c)) /\ WF_vars(chosen = "mutex" /\ Unlock(c))
  /\ \A c \in TaskCoroutines :
       WF_sharedVars(chosen = "shared_task" /\ (Shared!AwaitStep(c) \/ Shared!BodyStep(c)))
  /\ WF_sharedVars(chosen = "shared_task" /\ (Shared!WorkerResumesBody \/ Shared!BodyStep(Worker)))
  /\ WF_scopeVars(chosen = "scope" /\ Scope!OwnerStep)
  /\ \A w \in Work : WF_scopeVars(chosen = "scope" /\ Scope!WorkStep(w))
  /\ \A t \in 0..MaxTasks : WF_joinVars(chosen = "fork_join" /\ Join!Proceeds(t))
  /\ WF_streamVars(chosen = "async_generator" /\ Stream!ProducerProceeds)
  /\ WF_streamVars(chosen = "async_generator" /\ Stream!ProducerResumedElsewhere)
  /\ SF_streamVars(chosen = "async_generator" /\ Stream!BodyProceeds)
  /\ WF_streamVars(chosen = "async_generator" /\ Stream!ConsumerProceeds)

-----------------------------------------------------------------------------
(* async_mutex: a coroutine that was queued eventually owns the lock.      *)
LockIsGranted == (chosen = "mutex") => QueuedGetsLock

(* shared_task: who is suspended is on one list, from which it will be     *)
(* resumed; the body is run by one thread at a time; the frame lives as    *)
(* long as somebody uses it, and the result is there before it is read.    *)
(* async_scope: join() completes after all work, and one piece of work at  *)
(* most resumes the owner, when it is suspended and its handle stored.     *)
TasksSafe ==
  /\ Shared!TypeOK
  /\ Shared!SuspendedIsOnOneList
  /\ Shared!RunByOneThread
  /\ Shared!AliveWhenUsed
  /\ Scope!TypeOK
  /\ Scope!JoinedMeansDone
  /\ Scope!ResumesTheOwner

(* Every co_await of a shared_task ends, join() of a scope completes,      *)
(* whoever gives up its count last, and sync_wait() returns, whichever way *)
(* the tasks, when_all, the coroutine and the futex race.                  *)
TasksEnd ==
  /\ (chosen = "shared_task") => Shared!AwaitEnds
  /\ (chosen = "scope") => Scope!JoinCompletes
  /\ (chosen = "fork_join") => Join!SyncWaitReturns

(* when_all and sync_wait: exactly one thread goes on with the coroutine   *)
(* that awaits all tasks, after the last one; a task's continuation runs   *)
(* once; and when sync_wait() returns nobody uses what it destroys.        *)
ForkJoinSafe ==
  /\ Join!TypeOK
  /\ Join!JoinedOnce
  /\ Join!ContinuationRunsOnce
  /\ Join!NothingRunsAfterReturn

(* async_generator: what one side believes of the other is true, a value   *)
(* stays where it is while the consumer looks at it, and the frame is      *)
(* destroyed only when nobody is in it.  recursive_generator: the consumer *)
(* stands at the innermost generator and each coroutine is resumed only    *)
(* when it is suspended.                                                   *)
GeneratorsSafe ==
  /\ [](Stream!TypeOK /\ Stream!StateIsTrue /\ Stream!ValueIsStable /\ Stream!DestroyedWhenUnused)
  /\ [](Tree!TypeOK /\ Tree!LeafIsInnermost /\ Tree!CallsNest)
  /\ Stream!FrameIsNotInUse

(* A consumer that waits for a value of an async_generator gets it, or the *)
(* end; and a generator that is destroyed takes its coroutine with it.     *)
AsyncGeneratorLive ==
  (chosen = "async_generator") => (Stream!ConsumerIsResumed /\ Stream!FrameIsDestroyed)
=============================================================================
