\* Two peers, a map with room for one, one slot.
SPECIFICATION FairSpec
CONSTANTS
    Handlers = {h1, h2}
    Peers = {a, b}
    None = None
    Limit = 2
    Window = 2
    Cap = 1
    Slots = 1
INVARIANTS
    TypeOK
    AtMostTwiceTheLimit
    SlotsAreReturned
PROPERTIES
    LockoutEnds
