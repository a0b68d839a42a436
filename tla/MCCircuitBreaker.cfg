SPECIFICATION Spec
CONSTANTS
    Workers = {w1, w2}
    Window = 2
    OpenDuration = 2
    HalfOpenProbes = 2
    MinSamples = 2
    ErrNum = 1
    ErrDen = 2
    MaxTime = 4
    MaxEvents = 5
    MaxSkew = 1
SYMMETRY WorkerSymmetry
INVARIANTS TypeOK RollingWindow
PROPERTIES ClosesAfterProbes 
CHECK_DEADLOCK FALSE
