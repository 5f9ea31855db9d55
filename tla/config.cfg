\* Two commands after each other over one file, specs of up to seven tokens.
SPECIFICATION Spec
CONSTANTS
  Sha = "sha256"
  ByteCount <- Sizes
  Utf8Paths = {"f1", "f2", "f3"}
  Lossy = "lossy"
  Inputs <- Lines
  Commands = 2
INVARIANTS ConfigTypeOK WrittenAsSaid ReadsNoMixture
PROPERTIES RefusedTouchesNothing
CHECK_DEADLOCK FALSE
