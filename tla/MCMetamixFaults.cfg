\* Faults: one user input and no SCTE-35 stream, read errors and remux
\* failures retried once, output packets that fail to parse, no restarts;
\* ts_adjustment starts at 0 or two frames and POST /config may change it
\* between two output frames.
CONSTANTS
  UserInputs = {1}
  ScteInputs = {}
  InTimeBase <- MCInTimeBase
  OutTimeBase <- MCOutTimeBase
  InStep = 40
  OutStep = 3600
  MaxCC = 1
  MaxFrames = 2
  MaxOutFrames = 3
  MaxRestarts = 0
  MaxRetry = 1
  Restart = FALSE
  StartInput = 1
  Adjustments = {0, 7200}
  MaxCtl = 1
  MinTS <- MCMinTS
  Faults = TRUE

SPECIFICATION FairSpec
INVARIANT TypeOK
INVARIANT CaptionsInFrameOrder
INVARIANT DeliveredAtMostOnce
PROPERTY RestartHonoured
