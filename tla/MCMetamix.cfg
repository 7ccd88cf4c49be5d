\* Input switching: two user inputs, one controller request, no faults
\* and no restarts, so every lost reset comes from the code's own steps.
CONSTANTS
  UserInputs = {1, 2}
  ScteInputs = {}
  InTimeBase <- MCInTimeBase
  OutTimeBase <- MCOutTimeBase
  InStep = 40
  OutStep = 3600
  MaxCC = 1
  MaxFrames = 2
  MaxOutFrames = 2
  MaxRestarts = 0
  MaxRetry = 0
  Restart = FALSE
  StartInput = 1
  Adjustments = {0}
  MaxCtl = 1
  MinTS <- MCMinTS
  Faults = FALSE

SPECIFICATION Spec
INVARIANT NoCaptionBleed
INVARIANT NoCaptionAfterExitReset
