CONSTANTS
  Coroutines = {c1, c2, c3, c4}
  NullPtr = NullPtr
  NotLocked = NotLocked
  LockedNoWaiters = LockedNoWaiters
  NoCaller = NoCaller
  TaskCoroutines = {c1, c2, c3}
  Creator = c1
  Worker = Worker
  Work = {w1, w2, w3, w4}
  NotStarted = NotStarted
  Ready = Ready
  MaxTasks = 3
  Generators = {g0, g1, g2}
  Root = g0
  NoGenerator = NoGenerator
  MaxValues = 3
SPECIFICATION MCSpec
INVARIANTS MutualExclusion WaitersAreTheSuspended CollectFindsWaiter TasksSafe ForkJoinSafe
PROPERTIES GeneratorsSafe ImplementsFifoLock LockIsGranted TasksEnd AsyncGeneratorLive
CHECK_DEADLOCK FALSE
