SPECIFICATION Spec
CONSTANTS
    Workers = {w1, w2, w3}
    MaxRequests = 4
    WorkerLogger = FALSE
INVARIANT WorkersStart
