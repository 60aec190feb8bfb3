\* Liveness: both cleaners, configurations that change, slow handlers.
SPECIFICATION FairSpec
CONSTANTS
    t1 = t1  t2 = t2  alice = alice  bob = bob  k1 = k1  n1 = n1  n2 = n2
    r1 = r1  r2 = r2  c1 = c1  c2 = c2  x1 = x1  x2 = x2  None = None
    SetupTokens = {t1, t2}
    Subdomains = {alice}
    Keys = {k1}
    Wire <- OneKey
    Ports <- OnePort
    Nonces = {n1, n2}
    Modes = {"http"}
    TTLs = {1}
    Horizon = 1
    Clients = {x1}
    Requests = {r1}
    Cleaners = {c1, c2}
    MaxSessions = 1
    Grace = 1
    NonceTTL = 0
    Permissions <- Changing
    Prompt = FALSE
    MaxRestarts = 1
PROPERTIES ServiceKept ExpiredReaped LostReaped
