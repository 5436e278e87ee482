SPECIFICATION Spec
CONSTANTS
  Values = {p1, p2, p3}
  Inserters = {main}
  Readers = {}
  Erasers = {main, w1}
  Nobody = Nobody
INVARIANT
  EmptyMeansComplete
SYMMETRY Symmetry
\* Every path may have been inserted and erased.
CHECK_DEADLOCK FALSE
