SPECIFICATION Spec
CONSTANTS
  Values = {v1, v2}
  NoValue = NoValue
  Capacity = 4
  Wrap = 8
INVARIANT NoCellRace
PROPERTY ImplementsFifo
