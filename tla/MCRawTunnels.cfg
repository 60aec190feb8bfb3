\* Two sessions of a port, one after the other or at once.
SPECIFICATION RawFairSpec
CONSTANTS
    s1 = s1  s2 = s2  v1 = v1  v2 = v2  v3 = v3  None = None
    Sessions = {s1, s2}
    Ports = {1}
    PortOf <- OnePort
    Verifications = {v1, v2, v3}
    SessionOf <- Twice
    UDPSessions = {s2}
CHECK_DEADLOCK FALSE
INVARIANTS RawTypeOK RegisteredAlive SocketOwned 
PROPERTIES TakenEnds
