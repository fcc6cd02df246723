SPECIFICATION FairSpec
CONSTANTS
  a = a
  b = b
  day = day
  close = close
  Ids = {a, b}
  NoId = NoId
  Params = {day}
  NoParam = NoParam
  Options = {close}
  NoOptions = NoOptions
  NoRequest = NoRequest
  None = None
  Workers = {w1, w2}
  Controllers = {c1, c2}
  Calls <- MCNoCalls
  MaxCalls = 0
  initial_backoff = 1
  max_backoff = 3
  MaxShift = 2
PROPERTIES
  StopReturns
CHECK_DEADLOCK FALSE
