\* The same two updates with nothing failing: the smallest history in which
\* one publishes a directory without a platform.
SPECIFICATION CalmSpec
CONSTANTS
    ticker = ticker  admin = admin
    None = None  Torn = Torn
    NPlatforms = 2
    MaxRelease = 1
    Updates = {ticker, admin}
    Ticker = ticker
    MaxCrashes = 0
INVARIANTS AllPlatforms
