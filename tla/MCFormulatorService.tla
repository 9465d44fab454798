------------------------- MODULE MCFormulatorService --------------------------
EXTENDS FormulatorService

CONSTANTS f1, c1, c2, c3, none

\* One formulator that reconnects twice: three connections of one ID.
MCFormulators == {f1}
MCConns == {c1, c2, c3}
MCConnOf == [c \in MCConns |-> f1]

=============================================================================
