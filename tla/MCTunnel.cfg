\* Two tunnels of one client on one key, two visitors, one slot in a pipe.
SPECIFICATION FairSpec
CONSTANTS
    t1 = t1  t2 = t2  p1 = p1  p2 = p2  v1 = v1  v2 = v2  k1 = k1  None = None
    Tunnels = {t1, t2}
    Proxies = {p1, p2}
    Visitors = {v1, v2}
    Keys = {k1}
    TunnelOf <- OneEach
    KeyOf <- SameKey
    Cap = 1
CHECK_DEADLOCK FALSE
CONSTRAINT InOrder
INVARIANTS TunnelTypeOK GateSound RegistryLive
PROPERTIES ImplementsPipes TunnelUnwinds VisitorAnswered
