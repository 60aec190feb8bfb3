\* Three sessions, two names, two keys in either case of hex.
SPECIFICATION StoreSpec
CONSTANTS
    t1 = t1  t2 = t2  t3 = t3  alice = alice  bob = bob  k1 = k1  k2 = k2  n1 = n1
    None = None
    SetupTokens = {t1, t2, t3}
    Subdomains = {alice, bob}
    Keys = {k1, k2}
    Ports = {1}
    Nonces = {n1}
    Modes = {"http"}
    TTLs <- GrantedTTLs
    Horizon = 1
INVARIANTS StoreTypeOK SubIndexExact KeyLeadsToOwner
PROPERTIES SessionIdentityStable DeletedForever ImplementsRegistry
