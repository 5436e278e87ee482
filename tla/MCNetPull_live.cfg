SPECIFICATION FairSpec
CONSTANTS
  f1 = f1  f2 = f2  f3 = f3  d1 = d1  d2 = d2
  Root = Root
  Absent = Absent
  ReadOnly <- MCClosed
  Files <- MCLiveFiles
  Dirs <- MCLiveDirs
  Parent <- MCParent
  Contents <- MCContents
  Source <- MCSource
  ClientWorkers = 2
  MaxFaults = 1
  MaxEdits = 0
PROPERTIES
  RunsEnd
  ResumingDelivers
