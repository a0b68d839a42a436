SPECIFICATION FairSpec
CONSTANTS
    w1 = w1
    w2 = w2
    t1 = t1
    t2 = t2
    Workers = {w1, w2}
    Tenants = {t1, t2}
    Home <- HomeSpread
    DropoutTimeout = 0
    Stale = {}
    Faults = {"assign", "poll", "crash", "restart"}
PROPERTY PollTerminates
CHECK_DEADLOCK FALSE
