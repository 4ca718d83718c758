SPECIFICATION SlotSpec
CONSTANTS
  MaxSlotBursts = 3
  MaxMissed = 1
INVARIANTS
  SlotTypeOK
  StateFromHistory
CHECK_DEADLOCK FALSE
