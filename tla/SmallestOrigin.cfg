SPECIFICATION Spec
CONSTANTS
  Channels = {c1}
  Bodies = {a}
  CatalogBodies = {a}
  NoBody = NoBody
  Mode = "PARTIAL"
  MaxSeq = 3
  MaxU64 = 99
  Entries = 2
  MaxSpan = 2
  InitialHold = 1
  GapWait = 1
  TimerScan = 1
  MaxChannels = 1
  Outcomes = {TRUE}
  MaxArrivals = 2
  MaxArrivalTime = 1
  MaxLag = 2
  MaxTime = 2
INVARIANTS
  OriginIsSmallestObserved
