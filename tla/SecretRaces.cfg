\* Two administrators on one path, and the history it implements.
SPECIFICATION FairSpec
CONSTANTS
    Paths = {web}
    Values = {x, y}
    Writers = {w1, w2}
    None = None
    MaxEvent = 5
INVARIANTS
    TypeOK
    NoVersionConflict
    TrailAgrees
PROPERTIES
    ImplementsHistory
    EveryRequestEnds
CHECK_DEADLOCK FALSE
