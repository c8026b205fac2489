SPECIFICATION FairSpec
CONSTANTS
  Frame = {f1, f2}
  NoFrame = NoFrame
  Formats = {"AVC", "VC1_AP"}
  SecureModes = {TRUE, FALSE}
  TileModes = {TRUE, FALSE}
  ReorderOff = {FALSE}
  Sizes = {1}
  CodecData = {0, 1}
  BufSize = 4
  MaxOwed = 2
  WholeUnits = TRUE
  CallsFail = FALSE
  CountCalls = TRUE
  Obedient = TRUE
INVARIANTS TypeOK OutMeansOwned WaitingIsTold
PROPERTIES ImplementsOwnership EndReached
