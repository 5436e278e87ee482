SPECIFICATION Spec
CONSTANTS
  Parts = 3
  Base = 2
  None = none
  DenyLists <- MCDenyLists
  AllowLists <- MCAllowLists
INVARIANTS
  VerdictIsRight
