SPECIFICATION Spec
CONSTANTS
  Mode = "FROM_OPEN"
  Callers = {k1}
  TickLanes = 1
  SnapshotLanes = 1
  Owners = 1
  SlotsPerLane = 2
  QueueCapacity = 2
  MaxChannels = 2
  MarketShift = 16
  HashChannel <- MCHashChannel
  Messages <- MCMessages
  MaxCallbacks = 1
INVARIANT DrainedAtExit
