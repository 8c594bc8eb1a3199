SPECIFICATION Spec
CONSTANTS
    Processes = {p1, p2}
    Releases = {2}
    KeyTable = 2
    Generated = {k1}
    Files = {k1}
    None = None
    MaxLoss = 1
INVARIANTS
    ImportedKeyOpens
CHECK_DEADLOCK FALSE
