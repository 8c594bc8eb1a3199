\* Two processes of two releases, one loss of the key row.
SPECIFICATION FairSpec
CONSTANTS
    Processes = {p1, p2}
    Releases = {2, 3}
    KeyTable = 2
    Generated = {k1, k2, k3}
    Files = {f1}
    None = None
    MaxLoss = 1
INVARIANTS
    TypeOK
    NoClash
    ServesOnWholeSchema
    OneKeyOpensAll
PROPERTIES
    StartEnds
