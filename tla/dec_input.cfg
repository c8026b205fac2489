SPECIFICATION Spec
CONSTANTS
  R = 4
  Sizes = {1, 2}
  Schemes = {"none", "config"}
  HeaderLen = 1
  FrmLen = 1
  MinInit = 2
  InitUnit = 1
  MinUint = 2
  Delay = 2
  Resizes = TRUE
  MaxDropB = 2
  MaxConsumed = 4
INVARIANTS TypeOK Ledger BackupIsUnreported MosaicUntilKey
