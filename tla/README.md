# A TLA+ model of cppcoro

cppcoro is a C++ library of coroutine types and of the things coroutines wait
for: mutexes, events, latches, sequence numbers, thread pools, cancellation and
I/O. Its core is lock-free: almost every primitive packs its whole state into
one atomic word (or two) and hands coroutines from one thread to another with a
few compare-exchanges. That is where the correctness of the library is decided,
and where a unit test reaches only a handful of interleavings. This project
models those algorithms from the source, checks them with TLC on small
instances, and proves most of their safety properties with TLAPS for every size.

Paths below are relative to the repository; `include/` stands for
`include/cppcoro/`. `PROJECT.json` maps every definition to the lines it
translates.

## 1. Inventory

| component | state it keeps | operations | hard part | what makes it correct |
|---|---|---|---|---|
| `async_mutex` | `m_state` (unlocked / locked / stack of new waiters), `m_waiters` | `try_lock`, `lock_async`, `unlock` | push races with hand-over; resume inside `unlock` | one owner, no waiter lost, first come first served, every waiter served |
| `static_thread_pool` | per worker: ring buffer, head, tail, sleep flag, wake-up event; global queue (stack and list); sleeper count; stop flag | `schedule`, the workers' loop, destruction | speculative pop against steal; sleeping against enqueueing; shutdown | each operation run exactly once, no lost wake-up, shutdown ends |
| `async_auto_reset_event` | two counters in one word, two waiter lists, a reference count per waiter | `set`, `reset`, `co_await` | the counter word is also a lock; a waiter is released while it still suspends | one resumer at a time, no waiter lost, released in order |
| `async_manual_reset_event`, `async_latch` | one word: set, or a stack of waiters; the latch adds a counter | `set`, `reset`, `co_await`; `count_down` | push races with set and reset | who waits is on one list and is resumed; the latch opens at zero and not before |
| `single_consumer_event`, `single_consumer_async_auto_reset_event` | one word, the awaiting handle | `set`, `reset`, `co_await` | set between `await_ready` and the suspend | one resume per suspend, no signal lost |
| `async_scope` | a count, a continuation | `spawn`, `join` | last work against `join` | joined exactly when all work is done |
| `shared_task` | not started / list of waiters / ready, reference count | copy, drop, `co_await` | who starts it; completion races with awaiters and drops | started once, everybody resumed, frame outlives its users |
| cancellation (`cancellation_state` with source, token, registration) | flags and two reference counts in one word, chunked tables of registrations | register, deregister, `request_cancellation`, copy and drop | registering and deregistering during cancellation | callback once, never after its destructor; none missed; deleted with the last user |
| `sequence_barrier`, `sequence_traits` | last published number, stack of waiters | `publish`, `wait_until_published` | lists taken, sorted and put back by several threads; wrap-around | every wait ends when, and only when, its target is published |
| `single_producer_sequencer` | next number to claim, a barrier | `claim_one`, `claim_up_to`, `publish`, `wait_until_published` | full buffer; two sides waiting for each other | nothing overwritten unread, nothing read unwritten, no deadlock |
| `multi_producer_sequencer` | next number to claim, one published number per slot, stack of waiters | the same, and publish out of order | gaps; stale scans; lists in the hands of several threads | what is announced is published without a gap |
| `task`, `when_all`, `sync_wait` | continuation and result of each task, the counter of `when_all`, a futex word | start, complete, await; block and return | a task completes while the awaiter still starts the others; the last thread still signals when `sync_wait` returns | one thread goes on, after the last task; nobody uses what the return destroys |
| `async_generator` | five-state hand-over word, the current value | advance, `co_yield`, end, destroy | both sides suspend at once; destroyed while the producer runs | what one side believes of the other is true; a value stays while it is looked at; frame destroyed once |
| `recursive_generator`, `generator` | root, parent or leaf, exception, per generator | `begin`, `++`, `co_yield` of a value or of a generator, destroy | nesting, exceptions on the way out | the consumer stands at the innermost generator; exceptions reach the parent |
| `io_service` | stop flag and thread count in one word, work count, the pipe, an overflow list | `schedule`, event loops, `stop`, `reset`, work scopes | full pipe; stop against entering and leaving | each schedule resumed once, stop empties the loop |
| timers of `io_service` (Windows) | lists of timers, a flag word, two events, a heap with a fallback list | `schedule_after`, cancel, the timer thread, destruction | the timer elapses while it is queued or cancelled; no memory; system calls fail | resumed once, not early, when nobody uses the operation |
| `async_operation` (Linux) | `m_state`, `m_isCancelled`, result, what epoll watches, its messages in the pipe | start, complete, cancel | completion inside start; cancellation against both; several event threads; a full pipe; a handle that epoll refuses | completes, once; success means performed |
| IP addresses and endpoints | bytes, port | `from_string`, `to_string` | `::`, dotted tails, bounds of integers, the end of the view | what is written is read back; what is read is what the text denotes |
| files, sockets, `round_robin_scheduler`, traits, platform | wrappers of system calls, compile-time code | | | |

How they interact: coroutines are resumed by direct calls, so a `set()`, an
`unlock()` or a `publish()` runs other coroutines inside itself; schedulers
(thread pool, I/O service) resume them from a queue. The latch is built on the
manual-reset event; both sequencers on `sequence_barrier`; `sync_wait` runs
`when_all`, which runs tasks; I/O operations and timers use cancellation
registrations and are resumed by the event loops of the I/O service.

`PROJECT.json` lists every component, also those left out, and the hazards with
the properties that would catch them.

## 2. Modules

| module | models | extends or instantiates |
|---|---|---|
| `AsyncMutex` | `lib/async_mutex.cpp` | `Participants`, `FifoLock` (abstract specification) |
| `SharedTask`, `AsyncScope` | the headers of these names | `Participants` |
| `ForkJoin` | `sync_wait(when_all(...))` over tasks: `include/task.hpp`, `when_all*.hpp`, `sync_wait*.hpp`, `lib/lightweight_manual_reset_event.cpp` (futex); builds with and without symmetric transfer | |
| `AsyncGenerator` | `include/async_generator.hpp`, both builds | |
| `RecursiveGenerator` | `include/recursive_generator.hpp` | |
| `WorkQueue` | one worker's local queue in `lib/static_thread_pool.cpp` | |
| `ThreadPool` | the rest of the pool, over atomic local queues | |
| `AsyncAutoResetEvent`, `AsyncManualResetEvent` | the two files in `lib/` | `EventParticipants` |
| `AsyncLatch` | `include/async_latch.hpp` | `AsyncManualResetEvent` |
| `SingleConsumerEvent`, `SingleConsumerAutoResetEvent` | the headers of these names | `EventParticipants` |
| `CancellationState` | `lib/cancellation_state.cpp` and the objects around it | |
| `AsyncOperation` | `include/detail/async_operation.hpp`, `lib/linux.cpp`, the watched handles of `lib/linux_message_queue.cpp`, and how each file, socket and timer operation starts | |
| `IoService` | event loops, schedule, stop, reset and work count of `lib/io_service.cpp` over the pipe of `lib/linux_message_queue.cpp` | `IoParticipants` |
| `TimerThread` | timer queue, timer thread and timed operations of `lib/io_service.cpp` | `Selection` |
| `IpAddress` | `from_string` and `to_string` of both address families and endpoints | |
| `SequenceTraits` | wrap-around arithmetic | |
| `SequenceCursor` | what a barrier promises (abstract specification) | `SequenceTraits` |
| `SequenceBarrier` | `include/sequence_barrier.hpp` and the way it is used | `SequenceCursor` |
| `SingleProducerSequencer` | `include/single_producer_sequencer.hpp`, over two `SequenceCursor`s | `SequenceCursor` |
| `MultiProducerSequencer` | `include/multi_producer_sequencer.hpp`, its consumer barrier a `SequenceCursor` | `SequenceTraits`, `SequenceCursor`, `Selection` |
| `Participants`, `EventParticipants`, `SequencerParticipants`, `IoParticipants` | constants and their assumptions | |
| `Selection` | the elements of a list that belong to a set, without recursion | |
| `MCTasks`, `MCContention`, `MCEvents`, `MCSequences`, `MCIo` | harnesses, see below | the components of one run |
| `AsyncOperationProofs`, `ThreadPoolProofs` | theorems about these components (section 5) | `AsyncOperation`; `ThreadPool` |
| `TaskProofs`, `ContentionProofs`, `EventProofs`, `SequenceProofs`, `IoProofs` | theorems about the components of a run | its harness |
| `ListProofs` | lemmas about lists and about numbers that wrap around | `Selection` |

Conventions, the same in every module:

* **State.** Variables keep the names of the members they stand for. A word that
  encodes several things (`m_state`) is split into them, and an operator gives
  back what a load sees. An operation object lives in the frame of the coroutine
  that awaits it, so its address *is* the coroutine; a coroutine that waits again
  reuses its address, which is the ABA case of the compare-exchanges.
* **Steps.** One action is one access to shared state together with the local
  computation around it. `pc` says where in a function a thread is. Locals that
  outlive an access (`oldState`, a list taken off a stack) are variables. A loop
  around a compare-exchange whose retry only reloads is the exchange that
  succeeds; where the retry decides differently (`async_mutex`, the manual-reset
  event) it is an action of its own. A spurious failure stutters.
* **Resumption.** `resume()` runs a coroutine as a nested call. In `AsyncMutex`, the
  two generators and `IoService` the nesting is state (`caller`, `nested`, `stack`,
  `thread`), because the call returns when the coroutine suspends. Elsewhere the resumed coroutine goes on as a thread of its own, which
  allows every interleaving the nested call has, and those of a coroutine that
  moves to another thread at once.
* **Slips.** A definition whose comment begins with "A slip" or that stands in a
  section of slips is a deliberately wrong variant of the one after it. No
  specification uses it; replacing the right one by it must make TLC find a
  violation (`mutants` in `PROJECT.json`), which shows that the property depends on
  that piece of code.
* **Harnesses.** A module `MC...` puts components that share no state in one run:
  `chosen` is fixed initially, the others keep their initial state. No state of
  one is ever combined with states of another, so that this is the same as a run
  per component. A property of a harness is the conjunction of those of its
  components, and names the component whose fairness it needs.

Memory is sequentially consistent in all modules. The algorithms use
acquire/release orders that the models do not represent, and a slip in them is
outside of what is checked. (One place where it would matter: `m_stopRequested`
is stored with relaxed order before `m_isSleeping` is looked at,
`lib/static_thread_pool.cpp:501`.)

## 3. Runs

Passing runs:

* **tasks** (`MCTasks`) - coroutines that hand over to each other.
  *`async_mutex`*: four coroutines, every interleaving of `try_lock`, `lock_async`
  and `unlock`; `MutualExclusion`, `WaitersAreTheSuspended` (the two lists hold
  exactly the suspended coroutines, once each), `CollectFindsWaiter` (the exchange in
  `unlock` never finds an empty stack), `ImplementsFifoLock` (refinement) and
  `LockIsGranted`. Four give an owner, a batch of two already reversed and a newcomer
  that pushes behind it.
  *`shared_task`, `async_scope`*: three coroutines copy, move, await and drop a task
  whose body ends at once or on another thread; four pieces of work race with `join()`
  (`TasksSafe`, `TasksEnd`).
  *Fork and join*: `sync_wait` of up to three tasks, each of which completes inside the
  call that starts it, before or after that returns, with a value or an exception, in
  both builds (`ForkJoinSafe`, and that `sync_wait` returns in `TasksEnd`). With three
  tasks one is done, one completes and one is not yet started.
  *Generators*: producer and consumer of an `async_generator` with three values, both
  of which may be resumed by other threads in between and the consumer may destroy the
  generator (`GeneratorsSafe`, `AsyncGeneratorLive`); three nested
  `recursive_generator`s, so that a generator is a parent and a child at once.
* **thread_pool** (`ThreadPool`) - two workers, one outside thread, two remote
  operations and one scheduled on the pool, then destruction. `OpsAccounted`,
  `GlobalQueueIsFifo`, `EveryOpRuns`, `ShutdownCompletes`. Two workers suffice for
  stealing, waking each other up and both falling asleep; two remote operations for a
  batch.
* **contention** (`MCContention`) - safety on the instances that are too large for
  liveness. *Work queue*: six operations, an owner and two thieves, a buffer of two
  slots that grows (`HandedOutOnce`, `NothingLost`, `EmptyAnswerIsRight`). *Thread
  pool*: three workers and one operation, for the one thing two workers cannot do: a
  worker that was woken up by somebody else passes on its claim and has to skip workers
  that are awake (`ClaimsAreCovered`: a claim on the sleeper count always has a marked
  worker behind it). *Cancellation*: three registrations against one
  `request_cancellation` (`CancellationSafe`). *`multi_producer_sequencer`*: two
  producers claim six numbers, one or two at a time, through two slots and publish them
  out of order: three laps around the buffer (`MultiSafe`).
* **events** (`MCEvents`) - each event with three setters and two or three coroutines (or
  its one consumer): `AutoResetSafe`, `AutoResetReleases`, `ManualResetSafe`,
  `ManualResetReleases`, `SingleConsumerSafe`, `SingleConsumerSees`. The latch counts from
  3 by 1 or 2, so that it both hits and steps over zero; `MaxOverrun` bounds how far
  below, `MaxChanges` the changes signalled to a single consumer. *Cancellation*: two
  registrations and two cancellers, `CancellationLive` (a destructor that waits for
  callbacks returns). *I/O operation* (`AsyncOperation`): one operation of the Linux
  build, on a timer, a file or a socket (a kind has the ends that `try_start` of any of
  its operations may have), with and without a token: the handle gets ready at some time
  or never, cancellation is requested before, while or after it is started, epoll may
  refuse the handle and the pipe the message, and any of three threads starts it, requests
  cancellation and processes events. Three are enough for these to be three different
  ones, or for two event threads to compete while the third starts the operation; the
  threads are alike, and which of them starts it is fixed. `OperationSafe` has two parts.
  On whatever threads all this happens, the result is true: success is only what was
  performed (the one exception is the subject of `cancelled_delay` below), and an
  operation that `cancel()` has marked as cancelled says `operation_cancelled`. In the
  uses the code is made for (`Sheltered`: one event thread, on which also an operation
  that is cancelled was started and is cancelled, and no regular file cancelled) the
  coroutine goes on once, with nothing left behind, and no handle is unwatched twice;
  outside of them the code fails, which `event_threads` shows and an observation below
  adds to. `OperationCompletes` is for all threads: an operation that is due completes,
  unless a message was lost (`lost_message`) or an exception of epoll has ended the
  program.
* **sequences** (`MCSequences`) - two coroutines wait one or two numbers ahead on a
  barrier of 4-bit numbers (`BarrierSafe`; `ImplementsCursor` is the refinement, with its
  fairness); one producer claims up to three slots of a two-slot buffer, of the same numbers,
  that two consumers read in batches (`SequencerSafe`, `SequencerLive`). Numbers wrap
  around in both, and these state spaces are complete: no bound on how long they run.
  Two producers and a consumer of a `multi_producer_sequencer`, four numbers in all
  (`MultiLive`): two laps, so that a producer waits for the consumer and the consumer for
  a producer.
* **io** (`MCIo`) - *I/O service*: a blocking and a polling thread, two coroutines that
  await `schedule()`, a pipe for two messages (so that it is full when a third comes),
  `stop()` by an owner or by the last work scope, `reset()` and another round, signals
  that interrupt `epoll_wait` (`ScheduleSafe`, `StopEmptiesTheLoop`,
  `ScheduledIsResumed`). *Timers*: two timers that are due now, later or never, awaited
  and cancelled in every order, with memory that may run out, and the destructor
  (`TimersSafe`, `TimersLive`); one timer where also the system calls fail, for safety.
  Two times are enough to order two timers; `FirstDue` breaks the symmetry between them.
  *Texts*: `TextsSafe` compares the parsers with a definition of what a text denotes that
  cuts it at its separators and has no state, and with `to_string()`. The values have
  every pattern of zero parts of an IPv6 address (256 of them), parts of one to four
  digits, and ports at their bounds; the texts have up to three pieces (parts,
  separators, dotted ends) alone and after `::`, and integers around the largest one.
  TLC's integers end at 2^31 - 1, which stands for the bound 2^32 - 1 of the code.

Runs that must find a violation, each a disagreement between the code and what a
comment, the documentation or a test says (`findings` in `PROJECT.json`):

* **thread_pool_shutdown_hang** - "We should be guaranteed of finding a thread to
  wake-up here" (`lib/static_thread_pool.cpp:745`): a worker that is inside `wake_one_thread` for a coroutine
  that has completed elsewhere meanwhile searches for ever once shutdown has
  unmarked the sleepers; the destructor never joins it. The `thread_pool` run shows
  that shutdown completes if the application also waits until no worker is inside
  `schedule` (`Destruction = "callsReturned"`; `"workDone"` is what the comment of
  the destructor asks for).
* **multi_producer_sequencer_targets** - `add_awaiter` compares other coroutines'
  operations with its own target (`include/multi_producer_sequencer.hpp:786`), so
  that a consumer is resumed before the number it waits for is published. It is
  resumed with what the other knew, which may even precede what it has read itself:
  its place in the buffer goes back behind what the barrier announces as consumed, and
  a producer writes a slot that it has still to read (`MultiSafe` with two consumers, a
  counterexample of 39 steps). The passing runs and `MultiProducerIsSafe` (section 5)
  have one consumer for this reason; `LoneWaitReachesTarget` proves that a consumer which
  is alone is never resumed early, so that another one is all that the mistake needs.
* **recursive_generator_exception** - a nested generator that throws before it has
  yielded anything: `yield_value` sees it done, forgets it, and the exception that the
  awaitable would rethrow is lost (`include/recursive_generator.hpp:117`). The test of
  exceptions from nested generators yields a value first.
* **event_threads** - "You can multiplex processing of events across multiple threads by
  having multiple threads call `process_events()`" (`README.md:1499`): a handle is watched
  level-triggered and without `EPOLLONESHOT` (`lib/linux_message_queue.cpp:46`), so that epoll
  reports it to every thread that asks until one has unwatched it. Two that were told of it
  both unwatch it; the second call throws out of `on_operation_completed`, which is
  `noexcept`. Nobody cancels anything in this run.
* **lost_message** - cancelling a delay means to "schedule it for resumption immediately"
  (`include/io_service.hpp:73`): `io_state::cancel()` unwatches the handle and posts a
  message, whose write to a full pipe fails, and nobody looks at the answer
  (`lib/linux.cpp:139`, `lib/linux_message_queue.cpp:89`). Nothing is left that would resume
  the coroutine. The same happens to an operation on a regular file (`:65`). `schedule()`
  has an overflow list for this (`IoService`).
* **cancelled_delay** - "The co_await operation will throw cppcoro::operation_cancelled if
  cancellation was requested before the coroutine could be resumed"
  (`include/io_service.hpp:75`): an operation whose token is cancelled before it is
  constructed counts as completed (`include/detail/async_operation.hpp:90`) with
  `m_isCancelled` still false, so that the `co_await` succeeds at once with a result of 0.

Observations made on the way, without a run of their own:

* The comment "Keep each thread's local queue under 1MB" (`lib/static_thread_pool.cpp:22`)
  does not hold: the limit is compared with `m_mask`, one less than a power of two, which
  never equals it (`:135`), so the buffer doubles for ever. `WorkQueue` has the comparison as
  it is (`m_mask # MaxLocalQueueSize`).
* The re-check before sleeping is there so that no worker sleeps next to work nobody will
  wake it for (`lib/static_thread_pool.cpp:459`, `README.md:1387`). Between the exchange of the
  global stack and the store of the rest of the list (`:670`) it sees neither, and the worker
  sleeps. The work is not lost (`EveryOpRuns` holds): the worker that took the list runs it
  one by one.
* "This request for cancellation may end up being ignored" when the operation has completed
  (`include/detail/async_operation.hpp:161`), but a callback that has seen the operation started
  (`:243`) and calls `cancel()` after the event thread has completed it unwatches a handle that
  epoll no longer has; the exception ends the program because `cancel()` is `noexcept`. One
  event thread is enough for this. It is the end that `event_threads` shows without a
  cancellation, and why `Sheltered` has cancellation requested on the event thread.
* `try_clear_intent_to_sleep` makes one pass over the workers, and with four workers or
  more (out of TLC's reach) the pass may end with nobody woken and one sleeper less
  counted than marked, when those it went past fall asleep while others wake up the
  ones ahead (`lib/static_thread_pool.cpp:639`).
* `deregister_callback` waits until *all* callbacks have returned
  (`lib/cancellation_state.cpp:613`), where the comments speak of the callback of that
  registration (`lib/cancellation_state.hpp:78`).
* `watch_handle()` throws for every error but `EPERM` (`lib/linux_message_queue.cpp:67`), out
  of `try_start()`, which is `noexcept`: no memory, or a second operation on a descriptor that
  is being watched (a receive and a send on one `socket` object at the same time; a copy has
  a descriptor of its own, `lib/socket.cpp:466`), ends the program. The model has the step (`terminated = "watch_handle"`), and no document promises otherwise.
* Cancelling an operation that was started by another thread than the one that handles
  its event, or an operation on a regular file, may unwatch a handle that is not watched,
  with the same end.
* `process_events()` may return before `stop()`: when epoll wakes up two threads for one
  message and the second finds the pipe empty, or on a signal (`include/io_service.hpp:83`
  says "until the io_service is stopped"). `StopEmptiesTheLoop` and `ScheduledIsResumed`
  hold all the same, if some thread calls again.
* A schedule operation that goes to the overflow list after all I/O threads have begun
  to wait is posted when one of them returns, which needs another message
  (`lib/io_service.cpp:437`). `ScheduledIsResumed` is checked with a thread that polls.
* When `SetWaitableTimer` fails, the timer thread means to fall back on a timeout of the
  wait (comment at `lib/io_service.cpp:730`), but `timeout` is declared inside the loop
  (`:628`) and the fallback is lost with the iteration. Liveness of timers is checked
  without such failures.
* The dotted end of an IPv6 address is parsed without a look at the length before the
  dot (`lib/ipv6_address.cpp:166`): the view `::8.8` of a longer text `::8.8.8.8` is read
  past its end. `ReadsWhatIsDenoted` leaves out views with a dot and something behind them.
* `ipv4_address::is_private_network` tests the third byte where the network 192.168/16
  needs the second (`include/net/ipv4_address.hpp`).
* `round_robin_scheduler::exchange_next` uses names that are not declared, so that the
  template cannot be instantiated (`include/round_robin_scheduler.hpp:107`).

`CHECK_DEADLOCK FALSE` stands in all runs: their participants may all be done (used-up
operations, registrations, changes or numbers; a generator that is destroyed; a text that
is parsed). That nobody is stuck *before* that is what the liveness properties say.

## 4. Fairness

Fairness is weak, per thread and only for calls that have begun: the operating
system runs a thread that can run. Nothing makes an application call `set()`,
submit an operation, claim a number, `stop()` or request cancellation. Beyond that:

* an owner of the mutex unlocks it, bodies of tasks and spawned work complete, and
  cancellation callbacks return: the contract of these primitives;
* the producer of an `async_generator` that runs comes to its next `co_yield` or to its
  end. It may `co_await` something else any number of times, hence strong fairness there
  (the one place): without it a producer that waits for something else for ever would
  refute the property, which says nothing of the generator;
* the consumer of a single-consumer event or of a sequencer runs the loop of the
  library's README, because the question asked is whether that loop makes progress;
* a polling I/O thread keeps calling `poll_events` or its kin; a blocking one need never
  call again. The event threads of an I/O operation keep asking for events, and handle what
  they are told of;
* the clock ticks up to `MaxTime`, and the timer thread and the destructor go on;
* a thread that spins for a lock inside the pool gets it at some time. The mutex of
  the pool is a spin mutex, which does not promise it; with weak fairness on the
  step of each worker this is what is assumed where `EveryOpRuns` and
  `ShutdownCompletes` are checked.

## 5. Proofs

Eight modules hold theorems that TLAPS checks, for every value of the constants. They say
of any number of threads, coroutines, operations and numbers what the runs check for a few.
The end of this section lists the properties of the runs that are not among them.

| theorem | says | in terms of the code |
|---|---|---|
| `TaskProofs!MutexSafety` | `Spec => []MutualExclusion` | one owner; `m_state` is locked exactly while there is one |
| `!NoWaiterLost` | `Spec => []WaitersAreTheSuspended` | the two lists hold the suspended coroutines, once each |
| `!CollectSafety` | `Spec => []CollectFindsWaiter` | the exchange in `unlock` finds a waiter (the assertion in the code) |
| `!FifoRefinement` | `Spec => ImplementsFifoLock` | the mutex is a first-come first-served lock |
| `!TasksAreSafe` | `MCSpec => []TasksSafe` | `shared_task` and `async_scope`; `SharedTaskSafety` and `ScopeSafety` are its two halves |
| `!ForkJoinIsSafe` | `MCSpec => []ForkJoinSafe` | `sync_wait` of `when_all` of any number of tasks |
| `!GeneratorsAreSafe` | `MCSpec => GeneratorsSafe` | both generators, with an action property about the frame |
| `EventProofs!SingleConsumerIsSafe`, `!ManualResetIsSafe`, `!AutoResetIsSafe` | `MCSpec => []...Safe` | the four events and the latch |
| `!AutoResetIsFifo` | `MCSpec => AutoEvent!WaitersAreFifo` | waiters of the auto-reset event are released in order |
| `ContentionProofs!NoOperationRunsTwice`, `!NoOperationIsLost`, `!NoWorkIsOverlooked` | `Spec => []HandedOutOnce`, `NothingLost`, `EmptyAnswerIsRight` | the local queue of a worker |
| `!CancellationIsSafe` | `MCSpec => []CancellationSafe` | callbacks once, none missed, none after a destructor |
| `!WaitsAreOnOneList` | `MCSpec => [](chosen = "multi_producer_sequencer" => Sequencer!OnOneList)` | no wait operation of `multi_producer_sequencer` is lost or resumed twice, for any number of consumers |
| `!MultiProducerIsSafe` | with one consumer, `MCSpec => []MultiSafe` | what it announces is published, what it hands out is free |
| `!LoneWaitReachesTarget` | with one consumer, `MCSpec => [](chosen = "multi_producer_sequencer" => Sequencer!WaitsForTarget)` | a wait ends at or after its target, which two consumers refute (section 3) |
| `AsyncOperationProofs!OperationIsSafe` | `Spec => []OperationSafe` | an I/O operation of the Linux build: true results on any threads, one completion in the sheltered uses |
| `ThreadPoolProofs!OperationsAreAccounted`, `!GlobalQueueOrder` | `Spec => []OpsAccounted`, `Spec => GlobalQueueIsFifo` | the pool |
| `IoProofs!SchedulingIsSafe` | `MCSpec => []ScheduleSafe` | `schedule()`, `stop()` and the counts of `io_service` |
| `!TimersAreSafe` | `MCSpec => []TimersSafe` | `schedule_after()`, its cancellation and the timer thread, with and without failing system calls |
| `SequenceProofs!BarrierIsSafe` | `MCSpec => []BarrierSafe` | `sequence_barrier` |
| `!BarrierStepsAsCursor` | `MCSpec => Cursor!CursorInit /\ [][Cursor!CursorNext]_(Cursor!cursorVars)` | it implements `SequenceCursor`, but for fairness |
| `!SequencerIsSafe` | `MCSpec => []SequencerSafe` | `single_producer_sequencer` |

`MCSpec` is the specification of a harness (section 2). As its components share no state,
a theorem about it is one about each component, with any number of participants.

### The arguments

None of the properties is inductive as it stands. Each part states a stronger invariant
(`...Inv`), proves that it holds initially, that each action keeps it, and that it implies
the property; TLC checked it before, as an invariant of the run's module or over all
type-correct states. What the invariants add:

* **Mutex** (`MutexInv`). Mutual exclusion at a hand-over needs that the head of the list is a
  suspended coroutine (`WaitersAreTheSuspended`); that there is a head at all needs
  `CollectFindsWaiter`; that a push or a resumption does not revive a coroutine in the
  middle of another's `unlock` needs `ResumeNesting` (the chain of nested `unlock` calls: a
  caller is inside `resume()`, has one callee, and no callee is queued). The key lemmas are
  about the queue `Waiting == m_waiters \o Reverse(newWaiters)`: pushing on the stack
  appends to it, collecting does not change it but to take its head, and so does handing
  over. They turn the refinement into one case per action.
* **Scope, fork and join** (`ScopeInv`, `JoinInv`). The atomic count is the number of those
  who have not given up theirs; who brings it to zero knows that nobody else is left. For
  `sync_wait` also: who has brought it to zero is alone between the count, the result and
  the futex word, so that nothing is touched after the word is set.
* **Shared task** (`SharedInv`). The suspended are those on the stack in the promise or on
  the list in the hands of `final_awaiter`; the reference count is the number of handles,
  and a body that has begun has an awaiter that holds one.
* **`async_generator`** (`StreamInv`). For each value of `m_state` and each build, the pairs
  of places that producer and consumer can be in (`StreamControl`), and whose turn the value
  is (`StreamNumbers`). Everything `StateIsTrue` and `ValueIsStable` say is read off it.
* **`recursive_generator`** (`TreeInv`). `m_parentOrLeaf` of what is yielded is the inverse
  of what each yields (`TreeLinks`), also for a leaf that is complete and not left yet, and
  the C++ stack holds those that are being resumed, each called by the one before.
* **Events** (`SignalInv`, `SingleInv`, `LatchInv`, `AutoInv`). Who owes a resume; lists that
  are disjoint and hold nobody twice. For the auto-reset event: the counter word is a lock
  that is held exactly while both counts are positive (`AutoLock`), and the queues are as
  long as the waiter count, those pushed and not yet counted, and those dequeued and not yet
  taken back, say (`AutoCounts`). That is what a dequeue from an empty list would violate.
* **I/O operation** (`OperationInv`). `ResultInv` is for any number of racing threads: who is
  past the perform step, or finds the operation completed, finds it cancelled or with a
  result, and between `m_res = -ECANCELED` and the store of `m_isCancelled` the callback has
  not returned, for which `await_resume` waits. `CourseInv` is for the sheltered uses: at each
  point of `await_suspend` exactly one thing is left that will end the operation (a watched
  handle, a message or the loss of it, or a thread past it), and which state the callback and
  the event thread can find then. A step that leaves the sheltered uses (a request on another
  thread, a regular file) needs no argument; none leads back to them (`ShelteredBefore`).
* **Work queue** (`QueueInv`). Cursors, not slots: the operations that wait are those
  between `Low` and `Top`, one per cursor, where a contested pop or steal counts as not yet
  done; the window is no longer than the buffer, so that different cursors of it have
  different slots (`ModuloDiffers`), also across a copy to a larger buffer.
* **Cancellation** (`CancelInv`). The thread that visits the entries is the only one and is
  not past a registration that is still in its entry and has not seen the request.
* **Thread pool** (`PoolInv`). An operation is in one place: a local queue, the global one
  (list, batch being reversed and stack read as one sequence) or a hand; the batch belongs
  to the holder of the queue's mutex, who found the list empty. Nothing about sleeping is
  needed, nor assumed, for that.
* **I/O service** (`ServiceInv`). A coroutine that waits is in the pipe, on the overflow
  list, or in the hands of one thread; both counters count who is inside and who works.
* **Timers** (`TimersInv`). For each operation (`TimerOperation`), who holds a reference to it
  and who may call back: status and reference count by where `await_suspend` is and whether a
  list has it, and that what is on no list any more is due or cancelled. The five lists that
  share `m_next` (newly queued, taken, heap, fallback, ready to resume) are disjoint
  (`TimerLists`). `TimerLoop`: what `run()` has in its hands at each point, that the fallback
  list ascends, and that the waitable timer is set no later than the earliest timer whenever
  the thread waits. What is due is cut off the front of the fallback list, which is right only
  because it ascends; that the insertion keeps it so is `SelectedOrder`.
* **Barrier** (`BarrierInv`). Numbers are compared by their signed distance to the last one
  published (`Ahead`), which `ApartOnward` and its kin show to behave like an integer as long
  as it stays below half the range; the invariant keeps every number that anybody compares
  within a window of it. `BarrierAttended` says who looks after an operation on the stack
  whose number is published: the publisher before its exchange, or a waiter that is about to
  take the stack or to check for a target that is not later. It needs why operations are on
  private lists (`BarrierListNumbers`): without it a waiter could requeue an operation behind
  the back of a publisher. The refinement maps the result of a wait that is due to `Pending`
  and has one case per action.
* **Sequencer** (`SequencerInv`). The same distances, from the last number all have read:
  claims, what is published and what readers know stand in order within one buffer of it, and
  every number up to the one written next is in its slot (`BufferFilled`). It is proved over
  two `SequenceCursor`s, which `BarrierStepsAsCursor` justifies.

* **Multi-producer sequencer** (`ListsInv`, `NumbersInv`, `TargetsInv`). Who waits is on the stack or on one
  list of one thread, once (`WaitLists`), and a thread has something on a list only where its
  code does (`ClientLocals`): that holds for any number of consumers. The numbers are counted
  from what the barrier announces as consumed (`Offset`). `SlotsHold`: each slot has one of two
  numbers, the one among the next `BufferSize` that belongs there or the one a buffer before
  it, so that a scan which finds a number in its slot cannot be a lap off. `ReaderPlace`: what
  the consumer, or any thread with its operation on a list, takes for published is published,
  from the barrier on, and not before what the consumer has read. `ClaimPlace`: claimed ranges
  are apart, and one whose wait has ended is within the buffer. `ClaimsCover`: every number
  claimed beyond the buffer belongs to a producer that has it claimed now, which is why the
  claims, of at most `MaxClaim` numbers each, never reach half the range ahead (`ClaimsFit`):
  without that a wait for the consumers would end a lap too early. `FilledPlace`: what is
  published has been claimed, and the first number of a range is stored last. The one consumer
  is needed in three steps: taking the list, resuming from it, and announcing what was read.
  For the target of a wait (`TargetsInv`): a thread has the consumer on its list of those to
  resume only while it does nothing else, and what it knows then reaches the target
  (`TargetPlace`); the target is near enough to what is known for the signed differences of
  `publish()` and of `add_awaiter()`, taken in opposite directions, to agree (`DueIs`).

`ListProofs` has the lemmas that all share: pushing, appending, taking the head, reversing
and concatenating lists that hold nobody twice, and `SelectedList`: what selecting from a list
keeps; and the arithmetic of numbers that wrap around (`Onward`, `Past`, `Apart`).
`Selection` defines that selection by the positions of what is kept, because the
recursive `SelectSeq` of the standard module is out of the prover's reach.

### The assumptions

They are named, stand in the module that declares the constants, and TLC evaluates them in the
runs. `AsyncOperation` has none. Most say that different things are different: special values are no addresses of
coroutines (`ConstantsAssumption`, `CoroutinesAssumption`, `TasksAssumption`, `IoAssumption`,
`WorkQueueAssumption`, `ThreadPoolAssumption`), and a thread has one role
(`EventParticipantsAssumption`, `BarrierAssumption`, `SingleProducerAssumption`). Where an
atomic word counts, the set of those counted is finite (`TaskParticipantsAssumption`,
`TasksAssumption`, `EventsAssumption`, `IoParticipantsAssumption`, `CancellationUsers`); where
nothing is counted it need not be (the mutex, nested generators, the waiters of a barrier,
setters).
Counters of the code that only a great number of threads could overflow are natural numbers.
The others have a reason in the code:

* `WindowAssumption`: `2 * Window + MaxAhead` and `MaxStep` are below half the range. What
  is published "must not precede the current last_published() value"
  (`include/sequence_barrier.hpp:107`), and `precedes` is the sign of a difference: it orders
  two numbers only if they are less than half the range apart. `Window` is how far the
  publisher may run past a waiter, the size of the ring buffer where a barrier is the cursor
  of one. A waiter may compare a number it loaded a window ago with the target of another,
  which is `MaxAhead` past what that one has seen, hence twice. For the default 64-bit
  numbers this is no restriction; for narrow types (a template parameter) it is.
* `MultiProducerAssumption` and `SingleProducerAssumption`: the size of the buffer is a power
  of two (`README.md:1182`), and it and one more number fit in half the range, for the same
  reason. For several producers also: they are finitely many, and what all of them may have
  claimed at once is less than half the range, because a producer claims before it waits.
  With 64-bit numbers that takes 2^63 of them.
* One consumer, in `MultiProducerIsSafe` and `LoneWaitReachesTarget`: with two they are false, see
  `multi_producer_sequencer_targets` in section 3.
* `IoParticipantsAssumption`: the pipe has room for one wake-up message per thread. `stop()`
  ignores a wake-up that could not be posted, and a pipe on Linux holds thousands. The
  theorem does not use it; liveness does.
* `WidthAssumption`, `WorkQueueAssumption`, `ThreadPoolAssumption`: at least one bit, one slot
  and one worker.

### What is only model-checked

* Every liveness property, and so the fairness part of `ImplementsCursor`: the prover handles
  neither fairness nor `ENABLED`.
* `TextsSafe`: what a recursive function over texts computes is an induction over data.
* `ClaimsAreCovered`: checked for three workers, not proved for more. With four or more a
  sleeper may be marked and not counted (observation in section 3), which the property, an
  inequality, allows.

## 6. Not modelled, and why

* **Weak memory**, see section 2.
* **Cancellation tables**: how an entry is chosen (hash, approximate free counts) and
  how lists and chunks grow is abstracted to "any free entry".
* **Failures of the environment** in places where the code has no recovery: a thread that
  does not start, a scheduler that throws. Where the code has one (no memory for a timer,
  a full pipe in `schedule()`, a system call of an operation that fails) it is modelled, and
  for an I/O operation also where it has none: a pipe with no room for the message of a
  cancelled operation or of a regular file, and a handle that epoll refuses.
* **What shares the pipe with an I/O operation**: that the pipe is full is a choice of each
  `enqueue_message()`, not a count of messages. Two operations on one descriptor are one and an
  epoll that refuses.
* **Results**: values and exceptions are told apart where their way differs (`task`,
  `when_all`, `sync_wait`, `recursive_generator`), not where both are just stored.
* **Platforms**: an operation and the message queue are those of Linux (epoll), timers
  those of Windows (on Linux a timer is an operation on a descriptor, and modelled as
  one); completion ports and kqueue are not modelled, nor are the blocking events other
  than the futex.
* **`generator`** is the case of a `recursive_generator` that never yields another one;
  its own code is not mapped.
* **Files and sockets** beyond the way their operations start: wrappers of system calls.
  **Addresses** beyond their texts: expressions over bytes.
* **`round_robin_scheduler`** cannot be instantiated (section 3); `inline_scheduler`,
  `schedule_on` and `resume_on` keep no state.
* **Traits, adaptors, platform code**: nothing happens at run time.

`claim_up_to` subtracts in the sequence type, which for a type narrower than `int` is
promoted (`include/single_producer_sequencer.hpp:212`); the models use the arithmetic of
the default 64-bit type.

## 7. Plan

Done, in this order: mutex (with proofs), work queue, thread pool, events, latch,
cancellation, barrier and sequencers, shared task, scope; then I/O operations, the I/O
service and its timers, tasks with `when_all` and `sync_wait`, the generators, the texts of
addresses; then the proofs of section 5.

All safety properties of the runs that are provable here are proved; what is left stays with
TLC (end of section 5).

Worth modelling after that: an abstract scheduler ("each operation scheduled is resumed
once") that `ThreadPool` and `IoService` implement; and `multi_producer_sequencer` with the
comparison of `add_awaiter` put right, to see whether `MultiSafe` then holds with several
consumers.
