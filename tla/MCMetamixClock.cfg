\* An injector restarted once by its supervisor.
CONSTANTS
  UserInputs = {1}
  ScteInputs = {}
  InTimeBase <- MCInTimeBase
  OutTimeBase <- MCOutTimeBase
  InStep = 40
  OutStep = 3600
  MaxCC = 1
  MaxFrames = 1
  MaxOutFrames = 3
  MaxRestarts = 1
  MaxRetry = 0
  Restart = TRUE
  StartInput = 1
  Adjustments = {0}
  MaxCtl = 1
  MinTS <- MCMinTS
  Faults = FALSE

SPECIFICATION Spec
PROPERTY ClockAdvancesByFrame
