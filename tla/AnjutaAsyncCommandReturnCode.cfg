SPECIFICATION FairSpec
CONSTANTS
    MaxItems = 2
    MaxProgress = 2
    Codes <- MCCodes
CHECK_DEADLOCK FALSE
INVARIANT
    FinishedWithReturnCode
