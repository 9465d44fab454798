CONSTANTS
  f1 = f1
  c1 = c1
  c2 = c2
  c3 = c3
  none = none
  Formulators <- MCFormulators
  Conns <- MCConns
  ConnOf <- MCConnOf
  None <- none
SPECIFICATION Spec
INVARIANT OpenServedIsMapped
CHECK_DEADLOCK FALSE
