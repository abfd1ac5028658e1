SPECIFICATION Spec
CONSTANTS
    Client = {c1}
    MaxAttempts = 1
    Type = {t1}
    Body <- OddBodies
CHECK_DEADLOCK FALSE
INVARIANTS
    ExceedsMeansTooLong
