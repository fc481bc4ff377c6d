SPECIFICATION FairSpec
CONSTANTS
    c1 = c1
    c2 = c2
    c3 = c3
    c4 = c4
    Command = {c1, c2, c3, c4}
    Mode <- MCMode
    none = none
\* The clients may have pushed everything and seen it finish.
CHECK_DEADLOCK FALSE
INVARIANTS
    TypeOK
    NoUseAfterFree
    BusyIffWorking
    FinishedMeansAllDone
PROPERTIES
    SerialExecution
    AllPushedRun
