SPECIFICATION ServerFairSpec
CONSTANTS
  Connections = {c1, c2}
  Requests = {r1, r2}
  Stoppers = {s1, s2}
INVARIANTS
    DrainsBeforeClose
PROPERTIES
    NoCallAfterClose
    StopEnds
CHECK_DEADLOCK FALSE
