SPECIFICATION SlotSpec
CONSTANTS
  MaxSlotBursts = 3
  MaxMissed = 4
INVARIANT SilenceEndsTheCall
CHECK_DEADLOCK FALSE
