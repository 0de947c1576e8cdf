CONSTANTS
  kMaxHistoryCapacity = 3
  SeqRange = 5
  kWindowMs = 4
  kMaxIntervalTimeMs = 2
  kMaxQueueLengthMs = 2
  kMinPacketLimitMs = 1
  kMinProbePacketSize = 1
  NumProbes = 1
  PacketBytes = 2
  PaddingBytes = 1
  MinResendMs = 1
  Capacities = {1}
  InitialBitrate = 1
  Bitrates = {0}
  MinBitrate = 1
  FirstSeqs = {3}
  Retransmittable = {TRUE}
  Oversize = {TRUE}
  Probing = {TRUE}
  Refuses = {TRUE}
  MaxPackets = 3
  MaxNacks = 2
  MaxTime = 2
  MaxCalls = 1
SPECIFICATION Spec
INVARIANTS
  TypeOK
  QueueConsistent
  PendingStored
  FindsStored
  SentOncePerRequest
PROPERTIES
  MediaInOrder
  ResendSpaced
