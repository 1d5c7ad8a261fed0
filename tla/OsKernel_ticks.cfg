SPECIFICATION KernelSpec
CONSTANTS
    Dummy = Dummy
    ThreadCount = 3
    OS_MAX_THREADS = 4
    Signals = {rx}
    RxSignals = {rx}
    \* not in critical sections, nor between the choice of a thread and the
    \* end of the switch to it
    Interruptible = {"user", "blocked", "leave", "enter", "yield", "defer", "begin", "scan", "release"}
INVARIANTS
    KernelInv
    CsIsProtected
PROPERTIES
    
    HighestRuns
