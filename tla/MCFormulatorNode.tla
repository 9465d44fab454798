--------------------------- MODULE MCFormulatorNode --------------------------
EXTENDS FormulatorNode, TLC

CONSTANTS o1, o2, F, R, Me

MCObservers == {o1, o2}

\* The two observer peers are interchangeable.
Symm == Permutations(MCObservers)

\* Reconciliation only: the observers relay both generators' blocks and
\* the finalisation signatures; no block request reaches this formulator.
MCRelayMsgs == GenMsgs \cup SignMsgs

\* Production: this formulator (Self = F) is asked for height 1 without a
\* timeout and ahead for height 2 after one; a competitor's height-1 block
\* cancels a session, and the observers finalise this formulator's blocks.
MCReqMsgs ==
  {[type |-> "req", h |-> 1, tc |-> 0, top |-> TRUE],
   [type |-> "req", h |-> 2, tc |-> 1, top |-> TRUE]}
MCGenMsgs == MCReqMsgs \cup SignMsgs \cup {[type |-> "gen", blk |-> RivalBlock(1)]}
=============================================================================
