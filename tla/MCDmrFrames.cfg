SPECIFICATION DmrSpec
CONSTANTS
  Half = 49
  SyncLen = 24
  Guard = 10
  MaxErrors = 4
  SyncWords <- DmrWords
  Dibits <- DmrDibits
  MaxDibits = 403
  HistLen = 128
INVARIANTS
  FramesArrive
  OverrunCostsWhatItTouches
CHECK_DEADLOCK FALSE
