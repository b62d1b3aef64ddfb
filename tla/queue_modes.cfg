SPECIFICATION Spec
CONSTANTS
    Messages = {m1, m2, m3}
    Invocations = {i1, i2}
    MaxBatch = 2
    Handlers <- TwoHandlers
    Degrading = {i2}
    HasDeadLetterQueue = TRUE
    Throwing = {m1, m2}
    Undecodable = {}
    Malformed = {m3}
    Faults = {"resolve", "crash"}
    NoMessage = NoMessage
\* the system stops when the queue is empty
CHECK_DEADLOCK FALSE
INVARIANTS
    InOrder
PROPERTIES
    DeliveryPromise
