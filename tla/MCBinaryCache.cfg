\* Two platforms, two releases, the ticker's update and one by hand, a crash.
SPECIFICATION CacheFairSpec
CONSTANTS
    ticker = ticker  admin = admin
    None = None  Torn = Torn
    NPlatforms = 2
    MaxRelease = 2
    Updates = {ticker, admin}
    Ticker = ticker
    MaxCrashes = 1
INVARIANTS CacheTypeOK VisibleUnmixed
PROPERTIES Available Converges
