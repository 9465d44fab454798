CONSTANTS
  ByteVals <- MCByteVals
SPECIFICATION Spec
INVARIANT JSONRoundTrip
CHECK_DEADLOCK FALSE
