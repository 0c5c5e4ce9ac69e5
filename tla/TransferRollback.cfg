SPECIFICATION RunSpec
CONSTANTS
    Order <- MCOrder
    Content <- MCContent
    Hinted <- MCHinted
    Chunks <- MCChunks
    Need <- MCNeed
    Links <- MCLinks
    MaxFiles = 2
    Boundary = 1
    Capacities <- MCCapacities
    MaxConfirmed = 3
    MaxFaults = 1
    MaxLosses = 1
    MaxResizes = 1
    MaxDisturbances = 1
    MaxUrgent = 2
    Parts = {"pull"}
    Ignored = {}
    MaxMoves = 2
    NoRoot = NoRoot
    Path = {1, 2, 3, 4}
    Root <- MCRoots
    ContentOf <- MCContentOf
    Mine = {"m1"}
    Big = {3}
    PageSize = 2
    Starts <- MCStarts
    Modes = {TRUE, FALSE}
    MaxEdits = 1
    MaxCrashes = 1
    MaxStamp = 13
PROPERTY NextPullConverges
CHECK_DEADLOCK FALSE
