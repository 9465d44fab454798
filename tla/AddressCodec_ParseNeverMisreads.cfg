CONSTANTS
  ByteVals <- MCByteVals
SPECIFICATION Spec
INVARIANT ParseNeverMisreads
CHECK_DEADLOCK FALSE
