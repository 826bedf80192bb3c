CONSTANTS
    parent = parent
    peer = peer
    child = child
    t1 = t1
    t2 = t2
    t3 = t3
    t4 = t4
    Process = {parent, peer, child}
    First = {parent, peer}
    Thread = {t1, t2, t3, t4}
    Owner <- MCOwner
    Capacity = 1
    ReadSizes = {0, 1}
    WriteSizes = {2}
    Creators = {parent}
    CloneArgs <- CarefulCopies
    MaxPipes = 1
    MaxFd = 4
SPECIFICATION FairSpec
INVARIANTS TypeOK ReferencesMatch
PROPERTIES ErrorMeansAlone BlockedCallsEnd
CHECK_DEADLOCK FALSE
