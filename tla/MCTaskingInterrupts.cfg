SPECIFICATION Spec
CONSTANTS
    Core = {1, 2}
    Thread = {t1, t2}
    FirstThreads = {t1, t2}
    Irq = {5}
    Signal = {11}
    SIGSEGV = 11
    MaxSleep = 0
    Ops = {"irq", "registerIrqHandler", "waitForIrq", "restoreInterruptedState", "divideError"}
INVARIANTS SavedWhereItBelongs ReadyMeansReady
SYMMETRY Symmetry
CHECK_DEADLOCK FALSE
