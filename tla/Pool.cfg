SPECIFICATION FairSpec
CONSTANTS
    Request = {r1, r2}
    NoRequest = NoRequest
    Instance = {i1}
    Home <- OneInstance
    User = {u1}
    NoUser = NoUser
    Token = {u1}
    AppId = {a1}
    PathId = {a1}
    Body = {"reason"}
    MaxConns = 1
CHECK_DEADLOCK FALSE
PROPERTIES
    EveryRequestAnswered
    LocksReleased
