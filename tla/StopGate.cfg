SPECIFICATION Spec
CONSTANTS
  Callers = {k1}
  Slots = 1
  MaxCalls = 1
INVARIANT AcceptedIsDecoded
