SPECIFICATION Spec
CONSTANTS
  x1 = x1  x2 = x2  a = a  b = b
  Reload = {x1, x2}
  Signals = x1
  Job = {a, b}
  Single = Single
  MaxVersion = 2
INVARIANTS TypeOK TargetsConsistent RequestsServed
PROPERTIES AllOrNothing ConnectionsKept
SYMMETRY Symmetry
CHECK_DEADLOCK FALSE
