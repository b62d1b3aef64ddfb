SPECIFICATION FairSpec
CONSTANTS
    NumLayers = 4
    Matching = {1, 2, 4}
    AsyncLayers = {1, 4}
    CallbackLayers = {2}
    Misuse = {"throwAfterNext", "silent", "nextTwice", "respondAgain"}
INVARIANTS
    SerializesLast
    LayersInTurn
PROPERTIES
    AnswerStays
    DispatchEnds
\* a dispatch ends
CHECK_DEADLOCK FALSE
