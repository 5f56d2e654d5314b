SPECIFICATION RouterSpec
CONSTANTS
    Emitters = {c1, c2}
    Workers = {w1, w2}
    Transports <- TwoTransports
    QueueSize = 2
    BatchSize = 2
    min_level = 1
    MaxEvents = 3
INVARIANTS RouterInv FlushLeavesLittle
PROPERTIES EveryEventHandled
CHECK_DEADLOCK FALSE
