SPECIFICATION FairSpec
CONSTANTS
  o1 = o1  o2 = o2
  Objects = {o1, o2}
  Unreadable = {o2}
  Started = started
  Finished = finished
  Header = 2
  SizeOf <- MCSizeOf
  MaxChunk = 2
INVARIANTS
  FinishedIsLast
PROPERTIES
  ImplementsChannel
  FinishedArrives
\* The client stops reading at the end of the connection.
CHECK_DEADLOCK FALSE
