CONSTANTS
  MaxOps = 6
  Owner = w0
  Thieves = {w1, w2}
  InitialQueueSize = 2
  MaxLocalQueueSize = 4
  Garbage = Garbage
  Nobody = Nobody
  ThreadCount = 3
  Submitters = {s1}
  Main = main
  RemoteOps = {r1}
  WorkerOps = {}
  NoOp = NoOp
  Destruction = "never"
  Registrations = {g1, g2, g3}
  Cancellers = {q1}
  Entries = 3
  Nothing = Nothing
  Width = 4
  Producers = {p1, p2}
  Consumers = {c1}
  NoResult = NoResult
  BufferSize = 2
  MaxClaim = 2
  MaxReach = 1
  MaxNumber = 5
SPECIFICATION MCSpec
INVARIANTS HandedOutOnce NothingLost EmptyAnswerIsRight ClaimsAreCovered CancellationSafe MultiSafe
CHECK_DEADLOCK FALSE
