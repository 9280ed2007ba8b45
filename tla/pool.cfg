CONSTANTS
    None = None
    Workers = {w1, w2, w3}
    Cap = 1
    FaultModes = {FALSE, TRUE}
    Paths <- MCPaths
    Streams <- MCStreams
SPECIFICATION Spec
INVARIANTS
    PoolInv
    SerialResult
    NoFalseAlarm
    BarrierHolds
    PendingExact
    BufferOwned
PROPERTIES
    ImplementsAtomic
    QuietAfterReturn
    Returns
