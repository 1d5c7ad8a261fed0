SPECIFICATION ListSpec
CONSTANTS
    NoBeh = NoBeh
    Unlisted = Unlisted
    save_waypos = save_waypos
    remotecall = remotecall
    goto_pos = goto_pos
    drive_stack = drive_stack
    Behaviours = {remotecall, save_waypos, goto_pos, drive_stack}
    prio <- MCPrio
    FgCalls <- DriveFg
    BgCalls <- DriveBg
    Deactivates <- DriveStops
    Startable = {remotecall, save_waypos}
    Cancelled = {goto_pos, drive_stack}
INVARIANTS
    ListIsByPriority
PROPERTIES
    ImplementsControl
