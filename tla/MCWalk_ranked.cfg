CONSTANTS
    root = root
    a = a
    a1 = a1
    a2 = a2
    f = f
    b = b
    g = g
    m = m
    k = k
    h = h
    Root = root
    Dirs <- MCDirs
    Files <- MCFiles
    Parent <- MCParent
    Top <- MCTop
    Inode <- MCInode
    Linked <- MCLinked
    Foreign <- MCForeign
    Unstatable <- MCUnstatable
    Unopenable <- MCUnopenable
    Hanging <- MCHanging
    Workers = {w1, w2}
    CountOnly = FALSE
    OneFileSystem = TRUE
    RateLimited = FALSE
    SetupMayRaise = FALSE
SPECIFICATION Spec
INVARIANTS
    RankedIsExact
