SPECIFICATION Spec
CONSTANTS
    Plans <- MCPlans
    Jitter = 1
    MaxClock = 4
    Callers = {c1, c2}
    Requests <- MCRequests
    Services <- MCServices
    AudienceRules <- MCRules
    Configs <- MCConfigs
    Second = 2
    TokenTTL = 2
    RefreshMargin = 1
    maxCachedTokens = 2
    MaxRetries = 1
    MaxWait = 1
    MaxFlight = 1
    MaxTime = 6
    Snaps <- MCSnaps
    AnomalyWindow = 3
    MaxSnapshots = 5
    UnitScale = 4
    MaxUnits = 1000
    Worlds <- NegativeWorlds
    MaxProbes = 2
    Deltas <- MCDeltas
    Jobs <- MCJobs
    Bodies <- MCBodies
    AdminToken = "admin"
    Lags = {0, 6}
INVARIANT RejectionsSeen
CHECK_DEADLOCK FALSE
