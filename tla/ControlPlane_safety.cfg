\* Three generations, two waiting inputs, a recovery with one retry, and a timeout
\* longer than the debounce.
SPECIFICATION Spec
CONSTANTS
  RETRY_BUDGET = 2
  ROUTE_DEBOUNCE = 1
  INTERRUPTION_TIMEOUT = 2
  Scale = {s1}
  NoScale = NoScale
  HeadCommand <- Player
  MaxInbox = 2
  MaxGen = 3
INVARIANTS
  TypeOK
  LiveStreamIsHeard
  NothingHeldWhenStopped
  InfoBracketsRunning
  FeaturesOnlyInSession
  ProducerComesBack
  StreamHasWorker
  DeadlinesBelongToSession
  RecoveryHasItsBudget
PROPERTY CoachContract
