\* One waiting input: a stop that waits while Starting was sent while Starting.
SPECIFICATION Spec
CONSTANTS
  RETRY_BUDGET = 1
  ROUTE_DEBOUNCE = 1
  INTERRUPTION_TIMEOUT = 1
  Scale = {s1}
  NoScale = NoScale
  HeadCommand <- StartStop
  MaxInbox = 1
  MaxGen = 2
INVARIANT StopCancelsStarting
