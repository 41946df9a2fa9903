CONSTANTS
  Generators = {g0, g1}
  Root = g0
  NoGenerator = NoGenerator
  MaxValues = 2
SPECIFICATION Spec
INVARIANT ExceptionReachesParent
CHECK_DEADLOCK FALSE
