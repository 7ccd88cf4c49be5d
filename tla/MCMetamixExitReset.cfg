\* An extractor exiting while the injector keeps writing frames.
CONSTANTS
  UserInputs = {1}
  ScteInputs = {}
  InTimeBase <- MCInTimeBase
  OutTimeBase <- MCOutTimeBase
  InStep = 40
  OutStep = 3600
  MaxCC = 1
  MaxFrames = 1
  MaxOutFrames = 3
  MaxRestarts = 0
  MaxRetry = 0
  Restart = FALSE
  StartInput = 1
  Adjustments = {0}
  MaxCtl = 1
  MinTS <- MCMinTS
  Faults = FALSE

SPECIFICATION Spec
INVARIANT ExitResetNotStale
