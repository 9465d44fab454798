----------------------------- MODULE MCLevelRoot -------------------------------
EXTENDS LevelRoot

CONSTANTS t1, t2, empty

=============================================================================
