SPECIFICATION Spec
CONSTANTS
  Mode = "FROM_OPEN"
  Callers = {k1}
  TickLanes = 2
  SnapshotLanes = 1
  Owners = 1
  SlotsPerLane = 2
  QueueCapacity = 2
  MaxChannels = 3
  MarketShift = 16
  HashChannel <- MCHashChannel
  Messages <- MCMessages
  MaxCallbacks = 3
INVARIANTS
  SessionQuiet
  NativeOrder
  OneStatePerChannel
  OrderlyExit
  BoundedBypass
PROPERTY ShutdownCompletes
