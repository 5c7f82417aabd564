CONSTANTS
    Task = {1}
    Producer = {p1}
    threadNum = 2
    queueLength = 1
    batchSize = 1
    MaxSubmit = 1
    INDEX_RANGE = 2
SPECIFICATION ExitSpec
INVARIANTS EarlyDrained
