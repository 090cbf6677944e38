SPECIFICATION FairSpec
CONSTANTS
    Sockets = {s1, s2}
    Processes = {p1, p2}
    Ports = {8081, 9000}
    None = None
    MaxAttempts = 3
CHECK_DEADLOCK FALSE
INVARIANTS
    TypeOK
    NeverGivesUpSilently
PROPERTIES
    NoStorm
    Reattaches
