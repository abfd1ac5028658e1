SPECIFICATION FairSpec
CONSTANTS
    Copy = {p1, p2}
    NoCopy = NoCopy
    Request = {r1, r2}
    Environment <- Environments
    ReadHeaderTimeout = 1
    WriteTimeout = 2
    ShutdownTimeout = 2
CHECK_DEADLOCK FALSE
INVARIANTS
    GracefulLosesNothing
    ServesOnlyWhenReady
PROPERTIES
    DrainCutsNoDeliverableAnswer
    SignalEnds
    EitherServesOrEnds
