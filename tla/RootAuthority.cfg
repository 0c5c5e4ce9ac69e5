CONSTANTS
    Device = {d1, d2}
    Root = {r1, r2}
    Mutation = {m1}
    None = None
    Torn = Torn
    Cancelled = Cancelled
    MaxSequence = 2
    MaxDevices = 2
    MaxFaults = 2
    Client = {c1, c2}
    Nothing = Nothing
    Path = {p1, p2}
    PrefixOf <- OneDirectory
    MTime = {0}
    Hash = {h1, h2}
    Mixed = Mixed
    Absent = Absent
    Slot = {s1, s2}
    GuardMode = "enforce"
    RegressionMax = 0
    SkewMs = 0
    BlastPct = 25
    BlastMin = 0
    SequenceLimit = 2
    ReceiptLimit = 2
    MaxRequests = 3
    MaxGrants = 1
SPECIFICATION RunSpec
SYMMETRY Symmetry
INVARIANTS TypeOK AnsweredReceiptSurvives SelectedRootSurvives
PROPERTIES NoLostUpdate PushesAccounted
CHECK_DEADLOCK FALSE
