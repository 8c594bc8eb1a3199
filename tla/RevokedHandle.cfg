\* A polled handle that an edited boundary revoked.
SPECIFICATION Spec
CONSTANTS
    None = None
    db = db
    api = api
    Apps = {a1}
    Paths = {db, api}
    Keys = {k1}
    Requests = {r1, r2}
    Handlers = {h1}
    Boundaries <- TwoBoundaries
    Asks <- TwoAsks
    MaxChange = 1
    MaxClock = 0
PROPERTIES RevokedHandleSaysRevoked
