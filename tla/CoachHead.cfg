\* Two events between polls, two commands waiting when the player acts.
SPECIFICATION Spec
CONSTANTS
  OUTBOUND_QUEUE_CAP = 2
  MAX_COUNT = 1
  MaxInbox = 2
  MaxAsk = 0
INVARIANTS
  TypeOK
  MicrophoneOffOutsideGame
  GameIsHeard
  PauseIsMarked
  CheckIsAnswered
  RequestIsAnswered
