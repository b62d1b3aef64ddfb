SPECIFICATION FairSpec
CONSTANTS
    Messages = {m1, m2, m3}
    Invocations = {i1, i2}
    MaxBatch = 2
    Handlers <- OneHandler
    Degrading = {i1, i2}
    HasDeadLetterQueue = TRUE
    Throwing = {m1}
    Undecodable = {m3}
    Malformed = {}
    Faults = {"publish"}
    NoMessage = NoMessage
\* the system stops when the queue is empty
CHECK_DEADLOCK FALSE
INVARIANTS
    OnlyFailedIsLost
PROPERTIES
    EveryMessageSettles
