SPECIFICATION Spec
CONSTANTS
    Core = {1, 2}
    Thread = {t1, t2, t3}
    FirstThreads = {t1, t2}
    Irq = {}
    Signal = {11}
    SIGSEGV = 11
    MaxSleep = 0
    Ops = {"exit", "join", "createThread"}
INVARIANTS QueueDiscipline 
PROPERTY RemovedStaysRemoved
SYMMETRY Symmetry
