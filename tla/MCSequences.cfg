CONSTANTS
  Waiters = {c1, c2}
  Publisher = Publisher
  Width = 4
  MaxStep = 1
  Window = 1
  MaxAhead = 2
  Pending = Pending
  Readers = {c1, c2}
  Producer = Producer
  MaxSingleClaim = 3
  Producers = {p1, p2}
  Consumers = {c1}
  NoResult = NoResult
  BufferSize = 2
  MaxClaim = 2
  MaxReach = 1
  MaxNumber = 3
SPECIFICATION MCSpec
INVARIANTS BarrierSafe SequencerSafe
PROPERTIES ImplementsCursor SequencerLive MultiLive
CHECK_DEADLOCK FALSE
