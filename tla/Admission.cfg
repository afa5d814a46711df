SPECIFICATION Spec
CONSTANTS
  Callers = {k1, k2}
  Slots = 1
  MaxCalls = 3
INVARIANTS
  SingleProducer
  DiagnosticReady
  UnhealthyAcceptsNothing
  EarlierCallsDecoded
PROPERTIES
  LossIsReported
  StopReturns
