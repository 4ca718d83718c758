SPECIFICATION ChainSpec
CONSTANTS
  num_taps = 3
  decimation = 2
  NormEvery = 4
  U = 48
  nominal_sps = 250
  omega_min = 216
  omega_max = 288
  K1 = 1
  K2 = 1
  kHistLen = 8
  init_outer = 4
  EmaInverse = 2
  Amplitudes = {1, 3}
  BlockSizes = {1, 5}
  MidFactors <- Mids
  MaxPairs = 44
INVARIANTS
  ChainTypeOK
  StreamIsSeamless
  SymbolsReadTheStream
  SymbolsKeepTime
  NoSymbolLost
PROPERTY OnceLockedAlwaysRight
CHECK_DEADLOCK FALSE
