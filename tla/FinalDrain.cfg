SPECIFICATION Spec
CONSTANTS
  Lanes = 1
  ChannelSlots = 3
  WordBits = 3
  Attempts = 1
  MaxEpoch = 2
  MaxGaps = 6
INVARIANT FinalDrainComplete
