SPECIFICATION Spec
CONSTANTS
    Apps = {a, b}
    Versions = {v1}
    Commands = {"materialize", "plan", "apply", "destroy"}
    Answers = {"y", "n"}
    MaxEdits = 1
    MaxInterrupts = 1
    AllApps = AllApps
    None = None
    Torn = Torn
    NoChild = NoChild
\* a confirmed destroy waits for ever when nothing interrupts it
CHECK_DEADLOCK FALSE
INVARIANTS
    NoOrphan
