SPECIFICATION Spec
CONSTANTS
    Core = {1, 2}
    Thread = {t1, t2}
    FirstThreads = {t1, t2}
    Irq = {5}
    Signal = {11}
    SIGSEGV = 11
    MaxSleep = 0
    Ops = {"raiseSignal", "registerSignalHandler", "restoreInterruptedState", "waitForIrq"}
INVARIANT PanicNeedsRemoval
PROPERTY WaitsAreKept
SYMMETRY Symmetry
