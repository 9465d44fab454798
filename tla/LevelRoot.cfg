CONSTANTS
  t1 = t1
  t2 = t2
  empty = empty
  Leaves = {t1, t2}
  EmptyHash <- empty
  HashPerLevel = 2
SPECIFICATION Spec
INVARIANT LevelRootIsTreeRoot
CHECK_DEADLOCK FALSE
