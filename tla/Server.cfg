SPECIFICATION RunSpec
CONSTANTS
    Device = {d1}
    Claimer = {c1, c2}
    Session = {s1, s2}
    NoDevice = NoDevice
    MaxRestarts = 2
    MaxFailures = 2
    Key = {"k1", "k2"}
    Reader = {"r1", "r2"}
    SegmentTarget = 2
    MaxSegments = 3
    MaxCrashes = 1
    MaxPowerLosses = 1
    MaxRot = 1
    MaxErrors = 1
    MaxFaults = 2
    Absent = Absent
    Request = {r1, r2}
    Window = 3
    Block = 4
    MaxSeq = 9
    MaxLines = 3
INVARIANTS
    AcceptedOnce
    CredentialsHold
    StoreSurvives
    ReplaceMergesExactly
    MergesKeepChanges
PROPERTY
    LaneIsExact
CHECK_DEADLOCK FALSE
