CONSTANTS
  FRAME_LEN = 80
  BUF_SIZE_FRAMES = 50
  kSampMsNb = 8
  FAR_BUF_LEN = 1024
  MaxMs = 500
  MsStep = 10
  StableBlocks = 6
  MaxCheckBlocks = 50
  StuffFrames = 10
  HighDiff = 224
  LowDiff = 96
  TargetDiff = 160
  DelayChangeCalls = 25
  ShortRange = 65536
  SampFreqs = {16000}
  BlockSizes = {160}
  MsValues = {0}
  MaxInits = 1
SPECIFICATION Spec
INVARIANT
  FedIsDefined
