CONSTANTS
  ByteVals <- MCByteVals
SPECIFICATION Spec
INVARIANT RoundTripOnDomain
CHECK_DEADLOCK FALSE
