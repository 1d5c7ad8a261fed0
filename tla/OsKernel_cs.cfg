SPECIFICATION KernelSpec
CONSTANTS
    Dummy = Dummy
    ThreadCount = 3
    OS_MAX_THREADS = 4
    Signals = {rx}
    RxSignals = {rx}
    \* in critical sections, too
    Interruptible = {"user", "blocked", "leave", "enter", "yield", "defer", "begin", "scan", "release", "cs"}
INVARIANTS
    CsIsProtected
