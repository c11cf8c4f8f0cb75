\* Three frames of a recording of four bytes, cut anywhere; one fault of the
\* storage at most; a reader that follows the file or takes a snapshot of it.
CONSTANTS
  MaxBytes = 4
  MaxFrames = 3
SPECIFICATION Spec
CHECK_DEADLOCK FALSE
PROPERTIES
  ImplementsTailStream
  ReaderTellsTheTruth
