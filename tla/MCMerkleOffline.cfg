SPECIFICATION BatchSpec
CONSTANTS
    Instances = {i1, i2}
    Contents = {1, 2}
    NoDate = NoDate
    MaxTime = 1
    MaxDecisions = 2
INVARIANT DeliveredBatchesVerifyOffline
CHECK_DEADLOCK FALSE
