SPECIFICATION Spec
CONSTANTS
    p1 = p1
    p2 = p2
    p3 = p3
    Process = {p1, p2, p3}
    Frame <- MCFrame
    Home <- MCHome
    Value = {old, new}
    Old = old
    Stored = {new}
    Accessed <- MCAccessed
    Spawned = {p1}
    ImagePages = 1
    HeapPages = 1
    Reserved = 2
    PageSize = 2
    Amounts <- MCAmounts
    LowestBreak = 1
    SyscallPages <- MCSyscallPages
INVARIANTS TypeOK MappedAsAsked CountsMatch FreeMeansUnmapped WritableMeansAlone 
SYMMETRY Forked
 
CHECK_DEADLOCK FALSE
