SPECIFICATION Spec
CONSTANTS
    AnchorWorkers = {w1, w2}
    NoWorker = NoWorker
    Instances = {i1, i2}
    Environments = {prod, staging}
    NoEnv = NoEnv
    MaxClock = 2
    MaxRequests = 3
    MaxInputs = 4
SYMMETRY Symmetry
INVARIANTS TrailInv ClaimsAreNotEarly BaselineIsNewest DriftIsExact
