SPECIFICATION PlaySpec
CONSTANTS
  Frame = {f1}
  NoFrame = NoFrame
  Codecs = {"AVC"}
  Cap = 2
  Delay = 1
  MinUint = 1
  Sizes = {1, 2}
  MinFrames = 1
  Sane = FALSE
  CallsFail = TRUE
  FlushKeepsEnd = FALSE
  Obedient = FALSE
  Files <- MCFiles
  UnitSize = 2
  FrameLimits = {2}
  UnitLimits = {2, Unlimited}
  Unlimited = Unlimited
  MaxRepeat = 1
  Surplus = {1}
  Changes = 1
  MaxNotUsed = 1
  MaxNullData = 1
  MaxNullRun = 1
  MaxInitLoop = 2
  MaxInitSize = 2
  MaxDecSize = 2
INVARIANTS PlayTypeOK NoCallOutOfSequence LiveFramesBacked EndMeansAll BlamedForOwnSilence
PROPERTIES PlayEnds SessionAdvances
