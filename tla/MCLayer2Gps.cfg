SPECIFICATION L2Spec
CONSTANTS
  Transmissions <- Clear
  FlipAt <- Everywhere
INVARIANT GpsOnlyFromPositions
CHECK_DEADLOCK FALSE
