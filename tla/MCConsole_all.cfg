SPECIFICATION Spec
CONSTANTS
  Threads = {t1, t2, t3}
  Texts = {full}
  Empty = empty
  Torn = torn
  MaxLogs = 3
SYMMETRY Symmetric
INVARIANTS
  MessagesThenLines
