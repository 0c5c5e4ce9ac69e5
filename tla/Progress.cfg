SPECIFICATION RunSpec
CONSTANTS
    r1 = r1
    r2 = r2
    a = a
    b = b
    importer = importer
    c1 = c1
    b1 = b1
    Request = {r1, r2}
    Idempotent = {r2}
    Window = 2
    Block = 3
    MaxSeq = 21
    MaxFaults = 1
INVARIANTS
    CallsRunOnce
    ChargeCoversNative
PROPERTIES
    EveryMessageAnswered
    RequestsSettle
    CircuitRecovers
    CallsReturn
    Converges
    CleanupCompletes
CHECK_DEADLOCK FALSE
