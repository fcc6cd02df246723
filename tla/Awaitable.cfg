SPECIFICATION FairSpec
CONSTANTS
  AsyncCalls = {c1, c2}
  Tasks = {root, f1, f2}
  Root = root
  Main = main
  None = None
CHECK_DEADLOCK FALSE
INVARIANTS
  OneThreadPerTask
  ResultReady
  StackBounded
  NothingLeftBehind
  NoDanglingFrame
PROPERTIES
  SyncWaitEnds
