SPECIFICATION Spec
CONSTANTS
    Apps <- TwoApps
    DependsOn <- DependsTwo
    Order <- OrderTwo
    Source <- SourceTwo
    Versions = {v1, v2}
    Symlinked = {}
    HashedNames = {}
    Targets = {AllApps, "lib", "api"}
    NoCacheFlags = {TRUE, FALSE}
    Faults = {"crash", "purge"}
    MaxDisturbances = 3
    AllApps = AllApps
    Absent = Absent
    Torn = Torn
SYMMETRY VersionSymmetry
INVARIANTS
    FreshArtifacts
    ResultsPersisted
    NothingToBuild
PROPERTIES
    OtherEntriesKept
    BuildsAsUncached
