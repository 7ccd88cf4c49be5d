\* Input switching with output packets that may fail to parse or remux.
CONSTANTS
  UserInputs = {1, 2}
  ScteInputs = {}
  InTimeBase <- MCInTimeBase
  OutTimeBase <- MCOutTimeBase
  InStep = 40
  OutStep = 3600
  MaxCC = 1
  MaxFrames = 2
  MaxOutFrames = 3
  MaxRestarts = 0
  MaxRetry = 1
  Restart = FALSE
  StartInput = 1
  Adjustments = {0}
  MaxCtl = 1
  MinTS <- MCMinTS
  Faults = TRUE

SPECIFICATION Spec
INVARIANT NoCaptionBleed
