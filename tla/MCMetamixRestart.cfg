\* Restarts: one user input with an SCTE-35 stream, one supervisor restart
\* per thread; the restarted injector starts its window at MinTS again.
CONSTANTS
  UserInputs = {1}
  ScteInputs = {1}
  InTimeBase <- MCInTimeBase
  OutTimeBase <- MCOutTimeBase
  InStep = 40
  OutStep = 3600
  MaxCC = 1
  MaxFrames = 2
  MaxOutFrames = 2
  MaxRestarts = 1
  MaxRetry = 0
  Restart = TRUE
  StartInput = 1
  Adjustments = {0}
  MaxCtl = 1
  MinTS <- MCMinTS
  Faults = FALSE

SPECIFICATION Spec
INVARIANT DeliveredAtMostOnce
INVARIANT NoStaleRunRecords
