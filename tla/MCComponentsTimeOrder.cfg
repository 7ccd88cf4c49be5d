\* SCTE-35 packets of up to two conformant sections, parsed by a build that
\* evaluates function arguments right to left (GCC on x86-64 does so for
\* the three reads of parse_time_descriptor).  The SEI side is left empty,
\* and the queue takes one record.
CONSTANTS
  SourceNalus <- MCSourceNalusStd
  FoundPayloads <- MCFoundNoZeros
  MaxNalus = 0
  MaxFound = 1
  ScteSections <- MCScteSections
  MaxSections = 2
  ArgOrder = "right_to_left"
  Ids = {0}
  Times = {0}
  Orders = {0}
  MaxLen = 1

SPECIFICATION Spec

INVARIANT ScteExtractorNoMisread
