SPECIFICATION Spec
CONSTANTS
  NumBits = 2
  FarSpectra = {{}, {1, 2}}
  NearSpectra = {{}, {1, 2}}
  HistorySize = 2
  MaxLookahead = 0
  One = 4
  InitialMean = 5
  kShiftsAtZero = 2
  kShiftsLinearSlope = 8
  kProbabilityOffset = 1
  kProbabilityLowerLimit = 4
  kProbabilityMinSpread = 1
  kHistogramMax = 4
  kLastHistogramMax = 2
  kMinHistogramThreshold = 1
  kMinRequiredHits = 2
  kMaxHitsWhenPossiblyNonCausal = 2
  kMaxHitsWhenPossiblyCausal = 3
  DelayShifts <- OneBlock
  Offsets = {1}
  MaxHits = 4
  MaxProbability = 12
INVARIANTS
  TypeOK
  CandidateExists
  CountsMatch
  DelayInRange
  QualityInRange
PROPERTY RobustChangesAreSpaced
