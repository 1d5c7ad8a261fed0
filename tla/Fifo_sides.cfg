SPECIFICATION FifoSpec
CONSTANTS
    Size = 3
    Values = {a, b}
    Lengths = {1, 2}
    PcCalls = {"data"}
INVARIANTS
    FifoInv
PROPERTIES
    ImplementsQueue
    NewsWakeConsumer
