\* Main and two pthread tasks: enough for two joiners of one thread, for a
\* joiner racing a detacher, and for the reuse of an entry and of a task.
CONSTANTS
  Thread = {e1, e2}
  Child = {c1, c2}
  Main = main
  Value = {v1, v2}
  NoThread = NoThread
  NoTask = NoTask
  NoValue = NoValue
SPECIFICATION FairSpec
INVARIANTS
  TypeOK
  HandlesIdentifyThreads
  JoinerOwnsEntry
  DeleteIsSafe
  NoMutualJoin
  JoinReturnsValue
  NotificationIsMeant
PROPERTIES
  OnlyExitReleasesTls
  JoinReturns
