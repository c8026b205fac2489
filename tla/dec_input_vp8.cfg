SPECIFICATION Spec
CONSTANTS
  R = 7
  Sizes = {1, 2}
  Schemes = {"vp8"}
  HeaderLen = 1
  FrmLen = 1
  MinInit = 4
  InitUnit = 1
  MinUint = 2
  Delay = 2
  Resizes = FALSE
  MaxDropB = 2
  MaxConsumed = 20
INVARIANTS AllBytesTold
