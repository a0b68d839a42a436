SPECIFICATION ThrottleSpec
CONSTANTS
  w1 = w1
  w2 = w2
  Workers = {w1, w2}
  Window = 2
  RecoverDelay = 2
  MinSamples = 1
  ErrNum = 1
  ErrDen = 2
  MaxTime = 5
  MaxEvents = 6
SYMMETRY Symmetry
INVARIANTS ThrottleSound
PROPERTY ReleasesAfterDelay
CHECK_DEADLOCK FALSE
