SPECIFICATION Spec
CONSTANTS
    c1 = c1
    c2 = c2
    c3 = c3
    Command = {c1, c2, c3}
    Used <- MCUsed
    none = none
    orphan = orphan
    DiesIdle = FALSE
    AbortsLoad = TRUE
    QuitsAgain = FALSE
PROPERTY
    AbortIsSent
