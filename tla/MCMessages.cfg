CONSTANTS
    Alice = Alice
    Bob = Bob
    Thread = {Alice, Bob}
    Length = {12}
    Transaction = {1}
    Maximum = {31, 8191}
    PoolSize = {32, 64, 256, 2048, 4096, 8192}
    Breakable = {FALSE}
    HeaderSize = 20
    MaximumLength = 8192
    MaximumQueueContent = 24
    Refill = 2
    Blocks = 4
    MaxSends = 2
SPECIFICATION Spec
INVARIANTS TypeOK  BlocksAreKept InOrder
PROPERTY IsMailbox
SYMMETRY Symmetry
CHECK_DEADLOCK FALSE
