\* A frame with two CC payloads of the selected input.
CONSTANTS
  UserInputs = {1}
  ScteInputs = {}
  InTimeBase <- MCInTimeBase
  OutTimeBase <- MCOutTimeBase
  InStep = 40
  OutStep = 3600
  MaxCC = 2
  MaxFrames = 1
  MaxOutFrames = 2
  MaxRestarts = 0
  MaxRetry = 0
  Restart = FALSE
  StartInput = 1
  Adjustments = {0}
  MaxCtl = 1
  MinTS <- MCMinTS
  Faults = FALSE

SPECIFICATION Spec
INVARIANT NoCaptionLost
