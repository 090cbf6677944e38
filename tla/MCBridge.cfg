SPECIFICATION Spec
CONSTANTS
    Calls = {c1, c2}
    Sockets = {s1, s2}
    None = None
    Hosts = {"async", "unavailable"}
    HistoryLimit = 1
    MaxRestarts = 1
    HeartbeatRoom = 0
SYMMETRY Symmetry
CHECK_DEADLOCK FALSE
INVARIANTS
    TypeOK
    RetryIsSafe
    EvidenceIsTrue
    RightResult
    OneInFlight
    NoHangingFuture
PROPERTIES
    PromiseKept
    EvidenceKept
