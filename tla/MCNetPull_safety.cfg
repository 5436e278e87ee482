SPECIFICATION Spec
CONSTANTS
  f1 = f1  f2 = f2  f3 = f3  d1 = d1  d2 = d2
  Root = Root
  Absent = Absent
  ReadOnly <- MCNone
  Files <- MCFiles
  Dirs <- MCDirs
  Parent <- MCParent
  Contents <- MCContents
  Source <- MCSource
  ClientWorkers = 2
  MaxFaults = 2
  MaxEdits = 1
INVARIANTS
  TypeOK
  CompletedIsDelivered
  ResponsesInOrder
  AnnouncedIsReady
  CleanRunIsComplete
PROPERTIES
  CompletedStaysDelivered
  ImplementsPullJob
