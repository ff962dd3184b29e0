\* One node is enough.
SPECIFICATION BaseSpec
CONSTANTS
  SeqSpace = 3
  MaskBits = 1
  NumNodes = 1
  MaxAckFailures = 3
  SilenceFrames = 2
INVARIANTS
  ForcedAckIsDue
