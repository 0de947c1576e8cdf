CONSTANTS
  FRAME_LEN = 2
  BUF_SIZE_FRAMES = 4
  kSampMsNb = 1
  FAR_BUF_LEN = 8
  MaxMs = 14
  MsStep = 1
  StableBlocks = 2
  MaxCheckBlocks = 3
  StuffFrames = 2
  HighDiff = 4
  LowDiff = 2
  TargetDiff = 3
  DelayChangeCalls = 2
  ShortRange = 64
  SampFreqs = {8000, 44100}
  BlockSizes = {2, 3}
  MsValues <- MCMsValues
  MaxInits = 2
SPECIFICATION FairSpec
INVARIANTS
  TypeOK
  DecidedInTime
  FedIsDefined
PROPERTIES
  StartsWithBacklog
  EchoCancellerStarts
  KnownDelayDebounced
