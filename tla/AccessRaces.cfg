\* Two handlers and an administrator on one application with one path, inside
\* its boundary or not; a grant runs out, perhaps while they are at work.
SPECIFICATION Spec
CONSTANTS
    None = None
    db = db
    api = api
    Apps = {a1}
    Paths = {db}
    Keys = {k1}
    Requests = {r1, r2, r3}
    Handlers = {h1, h2}
    Boundaries <- InOrOut
    Asks <- TokenOnly
    MaxChange = 1
    MaxClock = 1
CONSTRAINT IssuedTokens
SYMMETRY Symmetry
INVARIANTS TypeOK FreshApproval OneDecision TrailFaithful
PROPERTIES DeliveryAuthorized DecisionsFinal
