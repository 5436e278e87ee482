SPECIFICATION FairSpec
CONSTANTS
  d1 = d1  d2 = d2  d3 = d3  f1 = f1  f2 = f2  f3 = f3  s1 = s1
  Dirs = {d1, d2, d3}
  Leaves = {f1, f2, f3}
  Others = {s1}
  Root = root
  None = none
  Parent <- MCParent
  MaxFds = 4
  MaxFaults = 2
INVARIANTS
  FdsAreExact
  NothingIsSilent
PROPERTIES
  VisitReturns
  ImplementsTreeWalk
\* Visit returns.
CHECK_DEADLOCK FALSE
