SPECIFICATION FairSpec
CONSTANTS
  a = a
  b = b
  day = day
  close = close
  Ids = {a, b}
  NoId = NoId
  Params = {day}
  NoParam = NoParam
  Options = {close}
  NoOptions = NoOptions
  NoRequest = NoRequest
  None = None
  Workers = {w1}
  Controllers = {c1}
  Calls <- MCFewCalls
  MaxCalls = 3
  initial_backoff = 1
  max_backoff = 3
  MaxShift = 2
PROPERTIES
  StopReturns
  BreakIsHandled
  StaysConnectedGetsSubscribed
