SPECIFICATION MCSpec
CONSTANTS
  SizeMax = 1023
  U32Max = 255
  MaximumTextBytes = 2
  MaximumDepthItems = 2
  MaximumQueueItems = 2
  Bodies <- MCBodies
  Lengths = {0, 1, 2, 3, 33}
  Counts = {0, 1, 2, 3}
  Starts <- MCStarts
  OrderCounts = {0, 2}
  Max32 <- MCMax32
  Max64 <- MCMax64
  RawTicks <- MCRawTicks
  RawValues <- MCRawValues
  Setups <- MCSetups
  Headers <- MCHeaders
  MaximumIdentityBytes = 3
  DefinitionLists <- MCDefinitionLists
  Hashes <- MCHashes
INVARIANTS
  RangesSound
  OverlapIsOwn
  NothingGuessed
  PositionsAgree
  FindAgrees
  AdmittedFits
