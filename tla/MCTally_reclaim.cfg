CONSTANTS
    root = root
    p = p
    q = q
    r = r
    c = c
    d = d
    m = m
    f1 = f1
    g = g
    u = u
    t = t
    k = k
    z = z
    Unset = Unset
    Root = root
    Dirs <- MCDirs
    Files <- MCFiles
    Parent <- MCParent
    Attr <- MCAttr
    Watched <- MCWatched
    Unstatable <- MCUnstatable
    Unopenable <- MCUnopenable
    Vanishing <- MCVanishing
    Requests <- MCRequests
    Modes <- MCModes
    WatchedCap = 2
    MinWatchedPerWorker = 2
    SampleCap = 2
    UnreadableCap = 1
    MinAllocUnit = 4
    DefaultThreads = 2
    MaxThreads = 2
    LocalThreads = 1
    Waits <- MCWaits
    MinGap = 5
    MaxChanges = 2
    Place <- MCPlace
    Tops <- MCTops
    FloorInodes = 2
    FloorShare = 4
    Pattern <- MCPattern
    MaterialFiles = 3
    MaterialShare = 4
    MaterialBytes = 42
SPECIFICATION Spec
CHECK_DEADLOCK FALSE
INVARIANTS
    ReclaimableCountsOnce
