SPECIFICATION FairSpec
CONSTANTS
  None = None
  Workers = {w1, w2}
  Controllers = {c1}
  initial_backoff = 1
  max_backoff = 6
  MaxShift = 3
INVARIANTS
  NoDanglingPointer
PROPERTIES
  QuietAfterStop
  LifecycleSpec
  StopReturns
  BreakIsHandled
