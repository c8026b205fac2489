SPECIFICATION FairSpec
CONSTANTS
  Backends = {"imx6", "h1", "vc8000e"}
  Codecs = {"MPEG4", "H263", "AVC", "MJPG"}
  GopSizes = {0, 2}
  Apps = {"encode_stream", "any"}
  Pictures = 2
  MaxNum = 3
  MaxRepeat = 1
  CallsFail = TRUE
INVARIANTS TypeOK StreamDecodable HeaderOnce PicturesInOrder
PROPERTIES HeaderInEveryIdr EncodeEnds EncodeAdvances
CHECK_DEADLOCK FALSE
