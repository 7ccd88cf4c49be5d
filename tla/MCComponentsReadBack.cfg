\* Captions written by the injector, read back by the extractor: conformant
\* source NALUs and caption payloads without zero runs, so that only the
\* layout of the re-emitted SEI NALU is in question.
CONSTANTS
  SourceNalus <- MCSourceNalusStd
  FoundPayloads <- MCFoundNoZeros
  MaxNalus = 2
  MaxFound = 2
  ScteSections <- MCScteSections
  MaxSections = 0
  ArgOrder = "left_to_right"
  Ids = {0}
  Times = {0}
  Orders = {0}
  MaxLen = 1

SPECIFICATION Spec

INVARIANT InjectedCaptionsReadBack
