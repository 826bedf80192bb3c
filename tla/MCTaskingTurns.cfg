SPECIFICATION FairSpec
CONSTANTS
    Core = {1}
    Thread = {t1, t2}
    FirstThreads = {t1}
    Irq = {}
    Signal = {11}
    SIGSEGV = 11
    MaxSleep = 1
    Ops = {"yield", "exitThread", "createThread", "kill", "sleep", "exit", "join", "fork", "callVm86", "generalProtection", "invalidOpcode", "pageFault", "divideError", "query", "unknown"}
INVARIANT IInv
PROPERTIES   SleepEnds JoinEnds
