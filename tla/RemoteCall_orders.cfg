SPECIFICATION RemoteSpec
CONSTANTS
    NoBeh = NoBeh
    Unlisted = Unlisted
    NoFunction = NoFunction
    remotecall = remotecall
    turn = turn
    goto_pos = goto_pos
    abl = abl
    push_actpos = push_actpos
    Behaviours = {remotecall, turn, goto_pos, abl}
    prio <- MCPrio
    FgCalls <- MCFg
    BgCalls = {}
    Deactivates = {}
    Startable = {goto_pos}
    Cancelled = {}
    Functions = {turn, goto_pos, push_actpos}
    Overlap = FALSE
    EarlyStop = FALSE
INVARIANTS
    RemoteInv
    AnswerGoesToClient
PROPERTIES
    OrderIsAnswered
