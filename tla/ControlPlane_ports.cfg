\* A session whose stream does not open: what the port list shows afterwards.
SPECIFICATION Spec
CONSTANTS
  RETRY_BUDGET = 1
  ROUTE_DEBOUNCE = 1
  INTERRUPTION_TIMEOUT = 1
  Scale = {s1}
  NoScale = NoScale
  HeadCommand <- Starter
  MaxInbox = 1
  MaxGen = 1
INVARIANT PortsOnlyInSession
