SPECIFICATION FairSpec
CONSTANTS
    MaxRuns = 3
    MaxOutput = 2
    Codes <- MCCodes
    Daemon = FALSE
INVARIANTS
    TypeOK
    ExitedMeansExited
    NoStraySources
PROPERTIES
    OutputBeforeExit
    EventuallyReported
CHECK_DEADLOCK FALSE
