SPECIFICATION Spec
CONSTANTS
    Sockets = {s1, s2, s3}
    Processes = {p1}
    Ports = {8081}
    None = None
    MaxAttempts = 3
CHECK_DEADLOCK FALSE
SYMMETRY Symmetry
INVARIANT OneClient
