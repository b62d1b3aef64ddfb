SPECIFICATION FairSpec
CONSTANTS
    Invocations = {i1, i2}
    Apps = {a1, a2, a3}
    Closers = {c1, c2}
    NoApp = NoApp
INVARIANTS
    SharedColdStart
PROPERTIES
    StartsOnReadyApplication
    FreshAfterClose
    CallsSettle
