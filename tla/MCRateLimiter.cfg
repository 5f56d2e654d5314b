SPECIFICATION LimiterSpec
CONSTANTS
    Tenants = {t1}
    NoTenant = NoTenant
    Threads = {th1, th2}
    NoThread = NoThread
    global_rpm = 2
    tenant_rpm = 1
    decision_rpm = 1
    Window = 3
    TicksPerSecond = 2
    MaxDelay = 1
    MaxClock = 4
    MaxRequests = 3
SYMMETRY Symmetry
INVARIANTS LimiterInv RetryAfterSuffices
CHECK_DEADLOCK FALSE
