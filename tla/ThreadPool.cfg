CONSTANTS
  ThreadCount = 2
  Submitters = {s1}
  Main = main
  RemoteOps = {r1, r2}
  WorkerOps = {w1}
  NoOp = NoOp
  Destruction = "callsReturned"
SPECIFICATION FairSpec
INVARIANT OpsAccounted
PROPERTIES GlobalQueueIsFifo EveryOpRuns ShutdownCompletes
CHECK_DEADLOCK FALSE
