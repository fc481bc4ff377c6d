SPECIFICATION Spec
CONSTANTS
    MaxRuns = 1
    MaxOutput = 1
    Codes <- MCCodes
    Daemon = TRUE
INVARIANTS
    ExitedMeansExited
CHECK_DEADLOCK FALSE
