SPECIFICATION Spec
CONSTANTS
  Lanes = 1
  ChannelSlots = 4
  WordBits = 3
  Attempts = 1
  MaxEpoch = 4
  MaxGaps = 5
INVARIANT NoLostGap
INVARIANT NoBufferRace
PROPERTY ImplementsNotice
