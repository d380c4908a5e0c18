\* One start; the OS interrupts it and ends the interruption late.
SPECIFICATION HSpec
CONSTANTS
  RETRY_BUDGET = 1
  ROUTE_DEBOUNCE = 1
  INTERRUPTION_TIMEOUT = 1
  Scale = {s1}
  NoScale = NoScale
  HeadCommand <- Starter
  MaxInbox = 1
  MaxGen = 2
INVARIANT NoEndAfterTimeout
