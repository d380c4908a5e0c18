SPECIFICATION Spec
CONSTANTS
    CHANNEL_CAPACITY = 2
    FLUSH_INTERVAL = 2
    BLOCK_FRAMES = 2
    RING_CAPACITY = 3
    FEATURE_RING_CAPACITY = 1
    MaxSessions = 2
    MaxSamples = 5
CHECK_DEADLOCK FALSE
INVARIANTS
    TypeOK
    ManifestVouches
    KillLosesOneInterval
    DropsAreReported
    HopsInOrder
    OnlyOverflowLosesHops
    LatestIsNotBehind
PROPERTIES
    DiskNeverStallsWorker
    StopReturns
