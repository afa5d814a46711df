SPECIFICATION Spec
CONSTANTS
  Channels = {c1, c2}
  Bodies = {a, b}
  CatalogBodies = {a}
  NoBody = NoBody
  Mode = "PARTIAL"
  MaxSeq = 4
  MaxU64 = 99
  Entries = 2
  MaxSpan = 2
  InitialHold = 2
  GapWait = 1
  TimerScan = 1
  MaxChannels = 2
  Outcomes = {TRUE}
  MaxArrivals = 3
  MaxArrivalTime = 2
  MaxLag = 1
  MaxTime = 14
INVARIANTS
  GapsDisjointFromOutput
  BodyConserved
  LateExplained
  TimersArmed
  FlushEmptiesTable
PROPERTIES
  PendingEventuallyDrained
