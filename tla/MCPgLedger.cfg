SPECIFICATION Spec
CONSTANTS
    Clients = {c1, c2, c3}
    Instances = {i1}
    LockKeys = {x1, x2}
    Decisions = {d1, d2}
    Models = {m1}
    Agents = {a1}
    Policies = {p1}
    Keys = {key1}
    Key = key1
    NoDecision = NoDecision
    DeterminismInputs <- OneDeterminism
    RetryMax = 2
    MaxCalls = 3
    MaxFaults = 1
SYMMETRY Symmetry
INVARIANTS PgInv AnswersAreTrue
PROPERTIES ImplementsHashChain
CHECK_DEADLOCK FALSE
