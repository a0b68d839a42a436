SPECIFICATION FairSpec
CONSTANTS
    r1 = r1
    r2 = r2
    Runs = {r1, r2}
    Flaky = {r1}
    Hanging = {r2}
    Unwanted = {r1}
INVARIANTS TypeOK WatchedAreFlushed StoppedIsCancelled
PROPERTIES FinalIsFinal RunsAndShutdownEnd
CHECK_DEADLOCK FALSE
