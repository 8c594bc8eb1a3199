SPECIFICATION FairSpec
CONSTANTS
    Queues = {q0, q1, q2}
    None = None
    MaxChange = 2
    MaxDrop = 0
PROPERTIES
    NewRequestsAppear
CHECK_DEADLOCK FALSE
