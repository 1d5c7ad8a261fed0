SPECIFICATION Spec
CONSTANTS
    STACK_SIZE = 4
    WatchedSides = {"observe_left"}
CHECK_DEADLOCK FALSE
INVARIANTS
    RoutinesTypeOK
    LinesAreWhole
    
    CarriedBehindDoor
    
    TrialsCount
    RouteIsPassable
