CONSTANTS
  Coroutines = {c1, c2, c3}
  AutoCoroutines = {c1, c2}
  Setters = {s1, s2, s3}
  Consumer = Consumer
  ThisEvent = ThisEvent
  NullPtr = NullPtr
  MaxChanges = 2
  InitialCount = 3
  Amounts = {1, 2}
  MaxOverrun = 1
  Registrations = {r1, r2}
  Cancellers = {q1, q2}
  Entries = 2
  Nothing = Nothing
  Threads = {t1, t2, t3}
SPECIFICATION MCSpec
INVARIANTS AutoResetSafe ManualResetSafe SingleConsumerSafe OperationSafe
PROPERTIES AutoResetReleases ManualResetReleases SingleConsumerSees CancellationLive OperationCompletes
CHECK_DEADLOCK FALSE
