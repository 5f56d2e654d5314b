SPECIFICATION ReceiverSpec
CONSTANTS
    Nonces = {n1}
    Processes = {p1}
    Handlers = {h1, h2}
    TIMESTAMP_TOLERANCE = 2
    TicksPerSecond = 2
    SenderSkews = {0, 2, 5}
    MaxClock = 7
    MaxCopies = 4
    MaxRestarts = 1
SYMMETRY Symmetry
INVARIANTS ReceiverInv RefusalsHaveACause
CHECK_DEADLOCK FALSE
