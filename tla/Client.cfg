\* One process after another, with its broken connections and one change.
SPECIFICATION ClientSpec
CONSTANTS
    None = None
    db = db
    api = api
    Apps = {a1}
    Paths = {db, api}
    Keys = {k1, k2}
    Requests = {r1, r2, r3}
    Handlers = {h1}
    Clients = {c1}
    Boundaries <- WholeBoundary
    Asks <- OneOrAll
    MaxChange = 1
    MaxClock = 0
INVARIANTS StartsWithItsOwn NoSelfConflict
PROPERTIES EveryAttemptEnds ImplementsPolicy
