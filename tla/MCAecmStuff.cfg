CONSTANTS
  FRAME_LEN = 5
  PART_LEN = 16
  FAR_BUF_LEN = 64
  Period = 43
  CleanGiven = {TRUE}
  MaxFails = 0
  MaxFrames = 4
SPECIFICATION Spec
INVARIANT
  StuffedFirstOnly
