SPECIFICATION FrameSpec
CONSTANTS
  Half = 2
  SyncLen = 3
  Guard = 1
  MaxErrors = 0
  SyncWords <- TinyWords
  Dibits = {1, 3}
  MaxDibits = 15
  HistLen = 5
INVARIANTS
  SyncTypeOK
  NoSyncMissed
  IsolatedBurstsArrive
  BurstsAreBookedOnce
  SlotStateTellsTheAir
  EventTellsTheAir
PROPERTY ImplementsFramer
CHECK_DEADLOCK FALSE
