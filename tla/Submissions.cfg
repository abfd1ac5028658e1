SPECIFICATION Spec
CONSTANTS
    Client = {c1, c2}
    MaxAttempts = 2
    Type = {t1}
    Body <- Bodies
SYMMETRY Interchangeable
CHECK_DEADLOCK FALSE
INVARIANTS
    AckedExactlyOnce
    RefusedLeavesNothing
    DuplicateOnlyAfterFailure
    StoredFits
PROPERTIES
    RegisterSpec
