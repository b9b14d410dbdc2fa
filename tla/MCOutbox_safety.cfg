SPECIFICATION Spec
CONSTANTS
    r1 = r1
    r2 = r2
    h1 = h1
    h2 = h2
    Relay = {r1, r2}
    MaxEvent = 2
    Handler = {h1, h2}
    Subscribers <- MCSubscribers
    BatchSize = 2
    MaxRetries = 2
    PurgeBatchSize = 1
    PurgeMaxBatches = 2
    MaxFaults = 2
SYMMETRY RelaySymmetry
INVARIANTS TypeOK AttemptsAccounted
PROPERTY AtLeastOnce
