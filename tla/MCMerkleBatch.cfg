SPECIFICATION BatchSpec
CONSTANTS
    Instances = {i1, i2}
    Contents = {1, 2}
    NoDate = NoDate
    MaxTime = 1
    MaxDecisions = 5
INVARIANTS BatchInv DeliveredBatchesVerify ValidBatchesHoldDeliveredIds PathsProveOneProof
CHECK_DEADLOCK FALSE
