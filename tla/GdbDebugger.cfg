SPECIFICATION FairSpec
CONSTANT Used <- MCUsed
INVARIANTS
    TypeOK
    BusyCountsPrompts
    OwnAnswer
    StateAsReported
PROPERTIES
    ImplementsBackend
