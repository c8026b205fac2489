SPECIFICATION FairSpec
CONSTANTS
  Frame = {f1, f2}
  NoFrame = NoFrame
  Formats = {"AVC", "VC1"}
  SecureModes = {FALSE}
  TileModes = {TRUE, FALSE}
  ReorderOff = {FALSE}
  Sizes = {2}
  CodecData = {0}
  BufSize = 4
  MaxOwed = 2
  WholeUnits = FALSE
  CallsFail = FALSE
  CountCalls = TRUE
  Obedient = TRUE
PROPERTY EndReached
