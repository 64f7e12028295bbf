SPECIFICATION InfraSafeSpec
CONSTANTS
    w1 = w1
    w2 = w2
    Workers <- MCWorkers
    Tokens <- MCTokens
    NoToken = 0
    NoConnection = NoConnection
    MaxEvents = 2
    ClaimBatch = 1
    MaxRetries = 2
    MaxFaults = 1
PROPERTIES
    EverythingSettles
    EveryRequestArrives
CHECK_DEADLOCK FALSE
