SPECIFICATION RunSpec
CONSTANTS
    MaxEdits = 2
    MaxSequence = 5
    MaxFaults = 3
INVARIANTS
    EditsAppliedOnce
    ConflictsPreserved
PROPERTIES
    ImplementsDelivery
    EditsDelivered
    Drains
CHECK_DEADLOCK FALSE
