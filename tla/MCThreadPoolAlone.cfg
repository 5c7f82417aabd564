CONSTANTS
    Task = {1, 2, 3}
    Producer = {p1, p2}
    threadNum = 1
    queueLength = 2
    batchSize = 1
    MaxSubmit = 2
    INDEX_RANGE = 2
SPECIFICATION ExitSpec
INVARIANTS TypeOK EarlyDrained
PROPERTIES PushIsSubmit AcceptedIsTaken ExitReturns
