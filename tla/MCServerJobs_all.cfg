SPECIFICATION Spec
CONSTANTS
  Peers = {p, q, x}
  Allow = {p, q, x}
  Deny = {x}
  JobIds = {j1, j2}
  Roots = {good}
  Servable = {good}
  short = short
  long = long
  Entries <- MCEntries
  Junk = junk
  ReadBack <- MCPlain
  Prefixes <- MCPrefixes
  Merged <- MCMerged
  MaxManagers = 2
  GrowsAt <- MCGrowsAt
  MaxTears = 1
  MaxExits = 1
INVARIANTS
  SoundSkipsWereReported
  MemoryMatchesLog
SYMMETRY
  Symmetry
\* Managers end.
CHECK_DEADLOCK FALSE
