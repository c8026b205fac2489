SPECIFICATION Spec
CONSTANTS
  Frame = {f1, f2}
  NoFrame = NoFrame
  Codecs = {"AVC", "VP8"}
  Cap = 1
  Delay = 1
  MinUint = 1
  Sizes = {1}
  MinFrames = 2
  Sane = FALSE
  CallsFail = TRUE
  FlushKeepsEnd = FALSE
  Obedient = FALSE
SYMMETRY FrameSymmetry
INVARIANTS HeldProtected NotOfferedTwice NothingToRelease
PROPERTY ImplementsOwnership
