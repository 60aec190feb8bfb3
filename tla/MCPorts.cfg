\* Three ports for two sessions, and a restart.
SPECIFICATION FrontSpec
CONSTANTS
    t1 = t1  t2 = t2  alice = alice  bob = bob  k1 = k1  n1 = n1  n2 = n2
    r1 = r1  r2 = r2  c1 = c1  c2 = c2  x1 = x1  x2 = x2  None = None
    SetupTokens = {t1, t2}
    Subdomains = {alice, bob}
    Keys = {k1}
    Wire <- OneKey
    Ports <- ThreePorts
    Nonces = {n1, n2}
    Modes = {"http"}
    TTLs = {1}
    Horizon = 1
    Clients = {x1}
    Requests = {r1}
    Cleaners = {c1}
    MaxSessions = 2
    Grace = 1
    NonceTTL = 0
    Permissions <- Fixed
    Prompt = TRUE
    MaxRestarts = 1
INVARIANTS PortsUnique
