\* One name taken twice, and a regeneration begun before.
SPECIFICATION RecoveryFairSpec
CONSTANTS
    alice = alice  bob = bob
    k1 = k1  k2 = k2  k3 = k3
    s1 = s1  s2 = s2
    h1 = h1  h2 = h2
    ip1 = ip1
    None = None
    Usernames = {alice}
    Tokens = {k1, k2, k3}
    Seeds = {s1, s2}
    Handlers = {h1, h2}
    Lifetimes <- MCLifetimes
    IPs = {ip1}
    RateLimits <- MCRateLimits
    Oldest = 2
    Numbers = {1, 2, 3}
PROPERTIES RenewedByOwner
