SPECIFICATION MonSpec
CONSTANTS
  RingBlocks = 3
  TransferBlocks = 2
  MaxOpens = 1
  MaxTransfers = 3
  Channels = 2
  SummaryTicks = 2
  MaxBursts = 2
INVARIANTS
  MonTypeOK
  ResetWhenPaused
  NobodyOutlivesMain
  SummariesAddUp
  OutputsAgree
PROPERTY ShutdownUnlessLost
