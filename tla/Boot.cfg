SPECIFICATION Spec
CONSTANTS
    Daemons = {d1, d2, d3}
    Tries = 2
    Failures = 2
    Overlap = FALSE
    MaxRuns = 5
    MaxBytes = 5
    Sizes = {1, 3, 6}
    None = None
CHECK_DEADLOCK FALSE
INVARIANT OneDaemon
INVARIANT PidTruth
INVARIANT NeverAlone
INVARIANT LogRotated
