SPECIFICATION Spec
CONSTANTS
  SlotCount = 3
  RingCapacity = 4
  MaxMessages = 7
INVARIANTS
  OneOwner
  ReceivedIntact
PROPERTY RefusedOnlyWhenFull
