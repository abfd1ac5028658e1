SPECIFICATION Spec
CONSTANTS
    AppId = {a1, a2}
    Stamp = {1, 2}
    Verdict = {"ACCEPTED", "REJECTED"}
    Criteria = {"everything"}
    Matching <- Fits
    UnknownType = {}
    LimitInput = {1, 2}
    OffsetInput = {Unset}
    SortInput = {Unset}
    Unset = Unset
    Malformed = Malformed
    DefaultLimit = 1
    MaxLimit = 2
    Word = 16
CHECK_DEADLOCK FALSE
INVARIANT
    CountCoversPage
