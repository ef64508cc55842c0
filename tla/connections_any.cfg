SPECIFICATION Spec
CONSTANTS
  c1 = c1
  c2 = c2
  c3 = c3
  Nil = Nil
  Conns <- MCConns
SYMMETRY MCSymmetry
INVARIANTS
  TypeOK
  DriftExplained
