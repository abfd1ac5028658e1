SPECIFICATION Spec
CONSTANTS
    Request = {r1, r2, r3}
    NoRequest = NoRequest
    Instance = {i1}
    Home <- OneInstance
    User = {u1}
    NoUser = NoUser
    Token = {u1}
    AppId = {a1}
    PathId = {a1}
    Body = {"reason"}
    MaxConns = 2
SYMMETRY Anyone
CHECK_DEADLOCK FALSE
INVARIANTS
    AckedDecisionStands
    SingleDecision
    RefusalMeansDecided
    FailureIsClean
