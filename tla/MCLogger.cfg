SPECIFICATION Spec
CONSTANTS
    c1 = c1
    c2 = c2
    Clients <- MCClients
    MaxLogs <- MCLogs
    MaxReads <- MCReads
INVARIANTS
    TypeOK
    QueueIsAcknowledged
    FileIsQueue
    ClosedAfterWorker
PROPERTIES
    KeepsLogPromise
    EveryCallReturns
\* An undisciplined call made after Close waits for ever: clients may be stuck.
CHECK_DEADLOCK FALSE
