\* Two handlers wait for each other's row lock, with narrow and wide
\* boundaries, named and configured paths under one key in combination.  No
\* symmetry: liveness is checked.
SPECIFICATION FairSpec
CONSTANTS
    None = None
    db = db
    api = api
    Apps = {a1}
    Paths = {db, api}
    Keys = {k1}
    Requests = {r1, r2}
    Handlers = {h1, h2}
    Boundaries <- TwoBoundaries
    Asks <- TwoAsks
    MaxChange = 0
    MaxClock = 0
INVARIANTS HandleIsExact
PROPERTIES EveryCallAnswered
