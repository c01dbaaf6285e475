CONSTANTS
    p1 = p1
    p2 = p2
    other = other
    del = del
    gone = gone
    nfs = nfs
    named = named
    hung = hung
    memfd = memfd
    far = far
    Procs <- MCProcs
    Inodes <- MCInodes
    Fds <- MCHolds
    Owner <- MCOwner
    Inode <- MCInode
    Foreign <- MCForeign
    Hidden <- MCHidden
    Outside <- MCOutside
    Silly <- MCSilly
    Lookalikes <- MCLookalikes
    Objects <- MCObjects
    DeletedBefore <- MCDeletedBefore
    Unstatable <- MCUnstatable
    ListMayRaise = TRUE
SPECIFICATION FairSpec
INVARIANTS
    TypeOK
    CompleteFindsAll
    EachInodeOnce
    FindingsAreProven
PROPERTIES
    ScanReturns
