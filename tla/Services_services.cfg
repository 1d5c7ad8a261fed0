SPECIFICATION Spec
CONSTANTS
    WAY_SIZE = 2
    MAX_PLACES = 2
    robot1 = robot1
    robot2 = robot2
    Blocks = {b1, b2}
    FirstBlock = b1
    CACHE_SIZE = 2
    MAX_UPDATES = 2
    Probabilities = {0, 1, 100, 254, 255}
    Targets <- MCTargets
    PID_START_DELAY = 4
    TORN = FALSE
    ENC_HALF = 4
    MAX_EDGES = 2
    MAX_VOLT = 600
    SENSDIST_DATA <- MCTable
    Lengths <- MCLengths
    Bots = {robot1, robot2}
    Requesters = {robot1}
    WINDOW = 2
    Sizes = {1, 2, 3}
    MAX_TRANSFERS = 2
    LOSSES = 2
    RETRY = FALSE
CHECK_DEADLOCK FALSE
INVARIANTS
    ServicesTypeOK
    MapIsKept
    DriveEndsAtStart
    
    LinkRecovers
    
    ScriptsAreFollowed
    MotorsObey
    
    RoundsAreKept
PROPERTIES
    SightingsCountTheirWay
    LinesAreFound
