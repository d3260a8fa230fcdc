SPECIFICATION Spec
CONSTANTS
  Procs = {p1, p2}
  Size = 2
  MaxSize = 3
SYMMETRY Symmetry
INVARIANTS
  SizedOrMaking
  GoodComputed
  FaultExplained
PROPERTIES
  GoodKept
