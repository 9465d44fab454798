------------------------------- MODULE MCPile ---------------------------------
EXTENDS Pile, TLC

CONSTANTS v1, v2, none

MCVals == {v1, v2}
=============================================================================
