SPECIFICATION Spec
CONSTANTS
    NoBeh = NoBeh
    Unlisted = Unlisted
    save_waypos = save_waypos
    turn = turn
    goto_pos = goto_pos
    drive_stack = drive_stack
    Behaviours = {save_waypos, turn, goto_pos, drive_stack}
    prio <- MCPrio
    FgCalls <- DriveFg
    BgCalls <- DriveBg
    Deactivates <- DriveStops
    Startable = {turn, drive_stack, save_waypos}
    Cancelled = {goto_pos, drive_stack}
INVARIANTS
    TypeOK
    CallsInv
    SleeperIsServed
PROPERTIES
    StopCalleesStops
    
