SPECIFICATION FairSpec
CONSTANTS
  Capacity = 8
  Laps = 2
  WriteLens = {4, 6}
  BlockBytes = 4
  MaxOffered = 28
INVARIANTS
  TypeOK
  NoDataRace
  DeliveredIsPrefix
  NoShortRead
  LossIsCounted
  IQAligned
  FlushedByReset
  IInv
PROPERTIES
  ImplementsFifo
  BlocksAreDelivered
