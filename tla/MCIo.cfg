CONSTANTS
  Blockers = {b1}
  Pollers = {p1}
  Coroutines = {c1, c2}
  Capacity = 2
  MaxSchedules = 1
  MaxResets = 1
  Owner = Owner
  WakeUp = WakeUp
  NullPtr = NullPtr
  Signals = TRUE
  Operations = {o1, o2}
  MaxTime = 1
  FirstDue = o1
SPECIFICATION MCSpec
INVARIANTS ScheduleSafe TimersSafe TextsSafe
PROPERTIES StopEmptiesTheLoop ScheduledIsResumed TimersLive
CHECK_DEADLOCK FALSE
