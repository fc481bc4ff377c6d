SPECIFICATION FairSpec
CONSTANTS
    MaxItems = 2
    MaxProgress = 2
    Codes <- MCCodes
\* A finished command stays finished.
CHECK_DEADLOCK FALSE
INVARIANTS
    TypeOK
    NoUseAfterFree
    OutputExclusive
    FinishedAfterRun
    ItemsInOrder
PROPERTIES
    NothingAfterFinished
    EventuallyFreed
