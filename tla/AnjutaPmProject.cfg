SPECIFICATION FairSpec
CONSTANTS
    A = A
    B = B
    Project = {A, B}
    p1 = p1
    p2 = p2
    Name = {p1, p2}
    Contents = {{}, {p1}, {p1, p2}}
    none = none
    MaxGen = 1
    MaxEdits = 1
    MaxFailures = 1
CHECK_DEADLOCK FALSE
INVARIANTS
    TypeOK
    NothingForgotten
PROPERTIES
    LoadAnnounced
