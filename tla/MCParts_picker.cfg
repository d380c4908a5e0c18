SPECIFICATION MCSpec
CONSTANTS
    Subjects = {"tonality"}
    Scales = {"raga"}
    MaxFrames = 2
    MaxHops = 1
    MaxChanges = 2
    Worlds <- MCWorlds
    Registry <- MCRegistry
    BLOCK_SIZE = 2
    MaxBlocks = 2
    Levels <- MCLevels
    BlockSizes = {1, 3}
    MaxSamples = 7
    frame_samples = 2
    onset_threshold = 1
    min_separation = 2
    min_release = 2
    window_samples = 3
    hop_samples = 2
    Windows <- MCWindows
    sample_rate = 9000
    fmin_hz = 1500
    fmax_hz = 3000
    yin_threshold <- MCThreshold
    Contours <- MCContours
    MinVoiced = 2
    Signals <- MCSignals
    FFT_SIZE = 8
    LOG2_SIZE = 3
    Prime = 17
    Root = 2
    Spectra <- MCSpectra
    Offers <- MCOffers
    Requests <- MCRequests
    WavLengths = {0, 3, 4, 6}
    ChunkFrames = 2
    SleepSteps = 1
    DeviceFrames = 2
    Nothing = Nothing
    Octave = 12
    PITCH_PADDING = 2
    MIN_PITCH_SPAN = 4
    HalfLife = 4
    SNAP_EPSILON = 2
    MAX_EASE_STEP = 1
    history_window = 3
    history_capacity = 3
    vibrato_latency = 1
    CENTER_SMOOTH_WINDOW = 3
    SlotPitches = {0, 7}
    Sounds <- MCSounds
    HopTicks = {0, 2}
    EarlyPainters <- MCEarly
    MaxSessions = 2
    MaxFeatures = 3
    MaxIndex = 3
    MAX_TUNING_SLOTS = 6
    RatioPitches <- MCRatioPitches
    Kinds = {"even", "uneven"}
    References = {5, 40}
    Catalogue <- MCCatalogue
    DefaultScale <- MCDefaultScale
    Pitches <- MCPitches
    SungPitches = {20}
    MaxInputs <- MCInputs
    MaxVisits <- MCVisits
    Threads <- MCThreads
    Keys = {"k"}
    MaxLines = 2
    MaxScopes = 1
    BufferLines = 1
    EnginePorts <- MCEnginePorts
    Picks <- MCPicks
    MaxPicks = 2
    MaxEngines = 2
    MaxTapBlocks = 2
    MaxScreens = 2
    MaxClicks = 3
INVARIANT ShowingMeansOnScreen
CHECK_DEADLOCK FALSE
