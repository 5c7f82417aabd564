CONSTANTS
    Task = {1, 2, 3}
    Producer = {p1}
    threadNum = 2
    queueLength = 2
    batchSize = 2
    MaxSubmit = 2
    INDEX_RANGE = 2
SPECIFICATION ExitSpec
INVARIANTS EarlyDrained
PROPERTIES ImplementsTaskPool AcceptedIsTaken ExitReturns
