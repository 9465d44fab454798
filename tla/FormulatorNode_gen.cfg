CONSTANTS
  o1 = o1
  o2 = o2
  F = F
  R = R
  Me = Me
  Observers <- MCObservers
  Final <- F
  Rival <- R
  Self <- F
  Msgs <- MCGenMsgs
  MaxHeight = 2
  MaxBlocks = 2
  RetryLimit = 1
  MaxAhead = 1
SYMMETRY Symm
SPECIFICATION Spec
INVARIANTS TypeOK ChainIsFinal NoReadyItemStranded
CHECK_DEADLOCK FALSE
