SPECIFICATION FairSpec
CONSTANTS
  Sizes <- MCSizes
  IntLimit = 8
  LongLimit = 64
  MaxChunk = 4
  wcwidth <- MCWidth
  Items <- MCItems
  Terminals <- MCTerminals
  SizeLimit = 65536
  IntMin <- MCIntMin
INVARIANTS
  HandedOverOrFailedForReason
  LineFits
  LineTellsProgress
PROPERTIES
  TransferEnds
\* The tasks end.
CHECK_DEADLOCK FALSE
