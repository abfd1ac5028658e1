SPECIFICATION Spec
CONSTANTS
    Request = {r1, r2}
    NoRequest = NoRequest
    Instance = {i1, i2}
    Home <- EachInstance
    User = {u1}
    NoUser = NoUser
    Token = {u1, NoUser}
    AppId = {a1}
    PathId = {a1, "nonPositive", "unparsable"}
    Body = {"reason", "padded", "spaces", "tabs", "long", "nul", "malformed", "oversize"}
    MaxConns = 1
SYMMETRY Anyone
CHECK_DEADLOCK FALSE
INVARIANTS
    DecisionHasAuthor
    ConstraintNeverFires
    RejectionExplained
PROPERTIES
    RegisterSpec
