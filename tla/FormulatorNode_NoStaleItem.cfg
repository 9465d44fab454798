CONSTANTS
  o1 = o1
  o2 = o2
  F = F
  R = R
  Me = Me
  Observers <- MCObservers
  Final <- F
  Rival <- R
  Self <- Me
  Msgs <- MCRelayMsgs
  MaxHeight = 2
  MaxBlocks = 2
  RetryLimit = 2
  MaxAhead = 1
SYMMETRY Symm
SPECIFICATION Spec
INVARIANT NoStaleItem
CHECK_DEADLOCK FALSE
