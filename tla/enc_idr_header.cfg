SPECIFICATION Spec
CONSTANTS
  Backends = {"vc8000e"}
  Codecs = {"AVC"}
  GopSizes = {0, 2}
  Apps = {"encode_stream", "any"}
  Pictures = 2
  MaxNum = 3
  MaxRepeat = 1
  CallsFail = FALSE
PROPERTY AskedHeaderInEveryIdr
CHECK_DEADLOCK FALSE
