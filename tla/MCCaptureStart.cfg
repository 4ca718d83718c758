SPECIFICATION CapSpec
CONSTANTS
  RingBlocks = 3
  TransferBlocks = 2
  MaxOpens = 3
  MaxTransfers = 3
PROPERTY StartLaunchesReader
