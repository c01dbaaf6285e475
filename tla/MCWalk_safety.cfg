CONSTANTS
    root = root
    a = a
    a1 = a1
    a2 = a2
    f = f
    b = b
    g = g
    m = m
    k = k
    h = h
    Root = root
    Dirs <- MCDirs
    Files <- MCFiles
    Parent <- MCParent
    Top <- MCTop
    Inode <- MCInode
    Linked <- MCLinked
    Foreign <- MCForeign
    Unstatable <- MCUnstatable
    Unopenable <- MCUnopenable
    Hanging <- MCHanging
    Workers = {w1, w2, w3}
    CountOnly = FALSE
    OneFileSystem = TRUE
    RateLimited = FALSE
    SetupMayRaise = TRUE
SYMMETRY MCSymmetry
SPECIFICATION Spec
INVARIANTS
    TypeOK
    CountersExact
    FinishedStaysClosed
    QuitsWhenExhausted
    CountedOnce
    FinishedTopsExact
    CompleteIsWhole
PROPERTIES
    SnapshotFrozen
    InflightFinalOnceRead
    KeepsContract
