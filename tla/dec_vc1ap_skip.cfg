SPECIFICATION Spec
CONSTANTS
  Frame = {f1, f2}
  NoFrame = NoFrame
  Codecs = {"VC1_AP"}
  Cap = 2
  Delay = 1
  MinUint = 1
  Sizes = {1}
  MinFrames = 2
  Sane = TRUE
  CallsFail = FALSE
  FlushKeepsEnd = TRUE
  Obedient = TRUE
SYMMETRY FrameSymmetry
INVARIANT NeverClearedByWrapper
