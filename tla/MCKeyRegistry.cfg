SPECIFICATION Spec
CONSTANTS
    Workers = {w1, w2}
    NoWorker = NoWorker
    Keys = {k1, k2}
    NoKey = NoKey
    MaxClock = 2
    MaxCalls = 3
SYMMETRY Symmetry
INVARIANTS RegistryInv RotationsComplete HistoryIsRight
PROPERTY PastIsSettled
