\* A busy head, one waiting input; an open may fail at every generation.
SPECIFICATION Spec
CONSTANTS
  RETRY_BUDGET = 2
  ROUTE_DEBOUNCE = 1
  INTERRUPTION_TIMEOUT = 1
  Scale = {s1}
  NoScale = NoScale
  HeadCommand <- BusyHead
  MaxInbox = 1
  MaxGen = 2
PROPERTIES
  StartingResolves
  StopIsHonoured
  QuitReleasesAll
  DueDeadlineIsServiced
