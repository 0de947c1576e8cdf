CONSTANTS
  kMaxHistoryCapacity = 3
  SeqRange = 5
  kWindowMs = 4
  kMaxIntervalTimeMs = 2
  kMaxQueueLengthMs = 2
  kMinPacketLimitMs = 1
  kMinProbePacketSize = 1
  NumProbes = 1
  PacketBytes = 2
  PaddingBytes = 1
  MinResendMs = 1
  Capacities = {1}
  InitialBitrate = 1
  Bitrates = {0}
  MinBitrate = 1
  FirstSeqs = {3}
  Retransmittable = {TRUE}
  Oversize = {FALSE}
  Probing = {FALSE}
  Refuses = {TRUE}
  MaxPackets = 3
  MaxNacks = 0
  MaxTime = 2
  MaxCalls = 0
SPECIFICATION Spec
INVARIANT
  PendingKept
