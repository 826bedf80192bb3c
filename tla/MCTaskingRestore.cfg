SPECIFICATION FairSpec
CONSTANTS
    Core = {1}
    Thread = {t1, t2}
    FirstThreads = {t1}
    Irq = {5}
    Signal = {11}
    SIGSEGV = 11
    MaxSleep = 0
    Ops = {"registerIrqHandler", "irq", "restoreInterruptedState"}
PROPERTY RestoreResumes
