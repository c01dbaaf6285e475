CONSTANTS
    root = root
    a = a
    b = b
    c = c
    me = me
    you = you
    g1 = g1
    g2 = g2
    fs1 = fs1
    fs2 = fs2
    dev = dev
    Unset = Unset
    Me = me
    Root = root
    Inodes <- MCInodes
    Attr <- MCAttr
    Unreached <- MCUnreached
    OtherDevice <- MCOtherDevice
    Fresh <- MCFresh
    MayBeOpen <- MCMayBeOpen
    Hidden <- MCHidden
    RowLists <- MCRowLists
    Names <- MCNames
    Elsewhere <- MCElsewhere
    OddSets <- MCOddSets
    MaxAge = 5
    Ages <- MCAges
    Walks <- MCWalks
    Fraction = 50
    MinBlocks = 3
    MinFiles = 2
    Share = 10
SPECIFICATION Spec
CHECK_DEADLOCK FALSE
INVARIANTS
    PopulationsMatch
    GapIsExact
    CloseIsSound
