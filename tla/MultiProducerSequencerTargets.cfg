CONSTANTS
  Producers = {p1, p2}
  Consumers = {c1, c2}
  NoResult = NoResult
  Width = 3
  BufferSize = 2
  MaxClaim = 1
  MaxReach = 1
  MaxNumber = 9
SPECIFICATION SafetySpec
INVARIANT WaitsForTarget
