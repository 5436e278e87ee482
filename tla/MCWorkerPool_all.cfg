SPECIFICATION FairSpec
CONSTANTS
  Workers = {w1, w2}
  k1 = k1  k2 = k2  a1 = a1  a2 = a2  b1 = b1  b2 = b2  s1 = s1
  NoKey = NoKey
  NoTask = NoTask
  Tasks <- MCTasks
  Keys <- MCKeys
  KeyOf <- MCKeyOf
  PriorityOf <- MCPriorityOf
  FollowUp <- MCFollowUp
INVARIANTS
  PassedMeansQuiet
  PendingIsExact
  JoinedMeansIdle
PROPERTIES
  ImplementsTaskGroup
  WaitReturns
  QueuedTaskRuns
  ShutdownEnds
\* The pool stops: every thread has been joined and every owner has passed,
\* or waits for tasks that Done dropped.
CHECK_DEADLOCK FALSE
