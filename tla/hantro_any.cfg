SPECIFICATION Spec
CONSTANTS
  Frame = {f1, f2}
  NoFrame = NoFrame
  Formats = {"AVC", "VC1_AP"}
  SecureModes = {FALSE}
  TileModes = {FALSE}
  ReorderOff = {TRUE}
  Sizes = {1}
  CodecData = {1}
  BufSize = 4
  MaxOwed = 1
  WholeUnits = FALSE
  CallsFail = TRUE
  CountCalls = FALSE
  Obedient = FALSE
SYMMETRY FrameSymmetry
INVARIANTS HeldProtected EosComplete InputAccounted
