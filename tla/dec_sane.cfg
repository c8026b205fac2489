SPECIFICATION Spec
CONSTANTS
  Frame = {f1, f2, f3}
  NoFrame = NoFrame
  Codecs = {"AVC", "MPEG4", "VP8", "RV", "VC1_AP"}
  Cap = 3
  Delay = 2
  MinUint = 1
  Sizes = {1, 2}
  MinFrames = 3
  Sane = TRUE
  CallsFail = FALSE
  FlushKeepsEnd = TRUE
  Obedient = TRUE
SYMMETRY FrameSymmetry
INVARIANTS TypeOK FreeMeansUsable NeverLeftRunning NotOfferedTwice DisplayedMeansOwned NoBufMeansUserHolds RepeatMeansHeld CodesMatchState
