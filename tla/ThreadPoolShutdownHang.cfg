CONSTANTS
  ThreadCount = 2
  Submitters = {s1}
  Main = main
  RemoteOps = {r1}
  WorkerOps = {w1}
  NoOp = NoOp
  Destruction = "workDone"
SPECIFICATION FairSpec
PROPERTY ShutdownCompletes
CHECK_DEADLOCK FALSE
