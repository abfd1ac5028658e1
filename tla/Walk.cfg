SPECIFICATION Spec
CONSTANTS
    AppId = {a1, a2, a3}
    Stamp <- Stamps
    Verdict = {"ACCEPTED"}
    Criteria = {"everything", "noSuchType"}
    Matching <- Fits
    UnknownType = {"noSuchType"}
    LimitInput <- OddLimits
    OffsetInput <- OddOffsets
    SortInput = {"ASC", "other", Unset}
    Unset = Unset
    Malformed = Malformed
    DefaultLimit = 1
    MaxLimit = 2
    Word = 16
SYMMETRY Interchangeable
CHECK_DEADLOCK FALSE
INVARIANTS
    WalkMissesOnlyAfterDeparture
    WalkRepeatsOnlyAfterArrival
    DecidedWalkMissesNothing
    StatementInRange
    CountAgreesUnlessWritten
