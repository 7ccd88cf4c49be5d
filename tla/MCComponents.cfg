\* The components checked on their own.  SEI: source packets of up to
\* three NALUs drawn from parameter sets, slices, a NALU with the forbidden
\* bit, conformant SEI NALUs and two malformed ones; up to two found caption
\* payloads, one of them with a run of three zero bytes.  SCTE-35: packets
\* of up to two conformant sections of every command type, with or without
\* a pointer field, parsed by a build that evaluates arguments left to
\* right; one-section packets also with one bit flipped.  Queue: any calls
\* over 2 ids x 3 pts x 2 orders with up to 4 records.
CONSTANTS
  SourceNalus <- MCSourceNalus
  FoundPayloads <- MCFoundPayloads
  MaxNalus = 3
  MaxFound = 2
  ScteSections <- MCScteSections
  MaxSections = 2
  ArgOrder = "left_to_right"
  Ids = {0, 1}
  Times = {0, 1, 2}
  Orders = {0, 1}
  MaxLen = 4

SPECIFICATION Spec

INVARIANT RewriteKeepsVideo
INVARIANT NoStartCodeEmulation
INVARIANT ExtractorReadsConformantSource
INVARIANT ScteExtractorNoMisread
INVARIANT ScteEmittedCrcVerifies
INVARIANT ScteDamageNeverPushed
INVARIANT PopMeetsSpec
