SPECIFICATION FairSpec
CONSTANTS
    Calls = {c1}
    Sockets = {s1, s2}
    None = None
    Hosts = {"blocking", "async", "unavailable"}
    HistoryLimit = 1
    MaxRestarts = 0
    HeartbeatRoom = 1
CHECK_DEADLOCK FALSE
PROPERTIES
    EveryCallAnswered
    
