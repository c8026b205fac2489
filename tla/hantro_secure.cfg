SPECIFICATION Spec
CONSTANTS
  Frame = {f1, f2}
  NoFrame = NoFrame
  Formats = {"AVC"}
  SecureModes = {TRUE}
  TileModes = {TRUE, FALSE}
  ReorderOff = {FALSE}
  Sizes = {1}
  CodecData = {0}
  BufSize = 4
  MaxOwed = 3
  WholeUnits = TRUE
  CallsFail = FALSE
  CountCalls = FALSE
  Obedient = TRUE
SYMMETRY FrameSymmetry
INVARIANT SecureInputKept
