\* Two nodes compete for the pass.  A window has three numbers, so that it slides,
\* jumps and wraps; one failed send opens the breaker, one missed frame is silence.
SPECIFICATION FairBaseSpec
CONSTANTS
  SeqSpace = 3
  MaskBits = 1
  NumNodes = 2
  MaxAckFailures = 1
  SilenceFrames = 0
INVARIANTS
  BaseTypeOK
  NothingForgotten
  BreakerConsistent
PROPERTIES
  DueIsServed
