SPECIFICATION SeedSpec
CONSTANTS
    Boot = {b1, b2, b3}
    Enabled = {b1, b2}
    Password = {"admin123", "user123"}
    MaxEdits = 2
SYMMETRY Interchangeable
CHECK_DEADLOCK FALSE
INVARIANTS
    DemotedStaysDown
    SeededUnlessEdited
    AloneSeedGetsThrough
PROPERTIES
    SeedKeepsTheRest
