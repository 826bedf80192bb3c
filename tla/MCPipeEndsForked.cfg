CONSTANTS
    parent = parent
    peer = peer
    child = child
    t1 = t1
    t2 = t2
    t3 = t3
    t4 = t4
    Process = {parent, child}
    First = {parent}
    Thread = {t1, t4}
    Owner <- OwnerOfTwo
    Capacity = 1
    ReadSizes = {1}
    WriteSizes = {2}
    Creators = {parent, child}
    CloneArgs = {}
    MaxPipes = 2
    MaxFd = 4
SPECIFICATION FairSpec
PROPERTY BlockedCallsEnd
CHECK_DEADLOCK FALSE
