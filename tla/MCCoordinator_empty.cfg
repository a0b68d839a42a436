SPECIFICATION FairSpec
CONSTANTS
    w1 = w1
    w2 = w2
    t1 = t1
    t2 = t2
    Workers = {w1, w2}
    Tenants = {t1, t2}
    Home <- HomeSkewed
    DropoutTimeout = 1
    Stale = {}
    Faults = {}
PROPERTY PollReturns
CHECK_DEADLOCK FALSE
