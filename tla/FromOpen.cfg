SPECIFICATION Spec
CONSTANTS
  Channels = {c1}
  Bodies = {a, b}
  CatalogBodies = {a}
  NoBody = NoBody
  Mode = "FROM_OPEN"
  MaxSeq = 4
  MaxU64 = 99
  Entries = 2
  MaxSpan = 2
  InitialHold = 1
  GapWait = 1
  TimerScan = 1
  MaxChannels = 1
  Outcomes = {TRUE, FALSE}
  MaxArrivals = 4
  MaxArrivalTime = 2
  MaxLag = 2
  MaxTime = 3
INVARIANTS
  TableConsistent
  StrictNativeOrder
  FrontierAccounting
  BodyConserved
  HistoryClaim
  GapMetadataDelivered
PROPERTIES
  FrozenIsFinal
  GapNeverHidesABody
