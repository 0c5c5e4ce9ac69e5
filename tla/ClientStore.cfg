SPECIFICATION RunSpec
CONSTANTS
    a = a
    b = b
    NoPath = NoPath
    MaxVersion = 3
    MaxFaults = 1
    MaxJournalFaults = 1
    MaxCrashes = 1
    NoTree = NoTree
    Path = {1, 2, 3}
    LeafName = {"x", "y"}
    LeafOf <- SharedLeaf
    Row = {0, 1}
    Absent = 0
    MaxPushes = 2
    MaxPulls = 1
    MaxRemote = 1
    MaxRebuilds = 1
INVARIANTS
    StoreRecovers
    JournalIsTrue
    EditsRemembered
    RebuildIsCanonical
    ChargesAreExact
    SettlementExact
    PlanIsComplete
    FreshSuffices
PROPERTIES
    PullKeepsEdits
    MutationMatchesUpdate
    ExportIsWhole
    PagesReachTarget
CHECK_DEADLOCK FALSE
