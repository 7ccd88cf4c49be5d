\* An input whose first frame has no CC payload.
CONSTANTS
  UserInputs = {1}
  ScteInputs = {}
  InTimeBase <- MCInTimeBase
  OutTimeBase <- MCOutTimeBase
  InStep = 40
  OutStep = 3600
  MaxCC = 1
  MaxFrames = 2
  MaxOutFrames = 1
  MaxRestarts = 0
  MaxRetry = 0
  Restart = FALSE
  StartInput = 1
  Adjustments = {0}
  MaxCtl = 1
  MinTS <- MCMinTS
  Faults = FALSE

SPECIFICATION Spec
INVARIANT CaptionStampedAtFrameTime
