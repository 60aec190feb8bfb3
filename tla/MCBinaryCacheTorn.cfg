\* One update with a copy that is cut short, next to one that is not.
SPECIFICATION CacheSpec
CONSTANTS
    ticker = ticker  admin = admin
    None = None  Torn = Torn
    NPlatforms = 2
    MaxRelease = 1
    Updates = {ticker}
    Ticker = ticker
    MaxCrashes = 0
INVARIANTS VisibleVerified
