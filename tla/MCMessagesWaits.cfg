CONSTANTS
    Alice = Alice
    Bob = Bob
    Thread = {Alice, Bob}
    Length = {12, 8171, 8172, 8193}
    Transaction = {1}
    Maximum = {31, 8191}
    PoolSize = {32, 64, 256, 2048, 4096, 8192}
    Breakable = {FALSE, TRUE}
    HeaderSize = 20
    MaximumLength = 8192
    MaximumQueueContent = 8182
    Refill = 2
    Blocks = 4
    MaxSends = 1
SPECIFICATION FairSpec
PROPERTIES ReceiverWakes
CHECK_DEADLOCK FALSE
