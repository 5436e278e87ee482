SPECIFICATION Spec
CONSTANTS
  Values = {p1, p2, p3}
  Inserters = {i1, i2}
  Readers = {r1}
  Erasers = {w1}
  Nobody = Nobody
INVARIANTS
  QuietIsExact
  NothingForgotten
PROPERTY
  ImplementsAtomicSet
SYMMETRY
  Symmetry
CHECK_DEADLOCK FALSE
