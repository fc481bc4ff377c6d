SPECIFICATION Spec
CONSTANTS
    j1 = j1
    j2 = j2
    j3 = j3
    Job <- MCJob
    Pinning <- MCPinning
    none = none
    exit = exit
\* All the jobs may be done, or the project gone.
CHECK_DEADLOCK FALSE
INVARIANT
    WorkHasProject
