\* One command waiting is enough for Escape on a locked Pause screen.
SPECIFICATION Spec
CONSTANTS
  OUTBOUND_QUEUE_CAP = 2
  MAX_COUNT = 1
  MaxInbox = 1
  MaxAsk = 0
PROPERTY
  LockIsObeyed
