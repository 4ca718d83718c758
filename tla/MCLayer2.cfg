SPECIFICATION L2Spec
CONSTANTS
  Transmissions <- AllTransmissions
  FlipAt <- Everywhere
INVARIANTS
  ReportsWhatWasSent
  CorrectsErrors
CHECK_DEADLOCK FALSE
