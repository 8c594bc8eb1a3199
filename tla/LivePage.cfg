\* A page, its stream and another handler through two stops or crashes.
SPECIFICATION ShutdownSpec
CONSTANTS
    Queues = {q0, q1, q2}
    None = None
    MaxChange = 3
    MaxDrop = 1
    MaxStop = 2
INVARIANTS ShutdownTypeOK OrderlyEnd
PROPERTIES
    RestartedPageFollows
    ReloadsSettle
    StreamEndsWithSession
    ShutdownEnds
