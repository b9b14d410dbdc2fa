SPECIFICATION FairSpec
CONSTANTS
    r1 = r1
    r2 = r2
    h1 = h1
    h2 = h2
    Relay = {r1, r2}
    MaxEvent = 2
    Handler = {h1, h2}
    Subscribers <- MCFirstSubscribed
    BatchSize = 1
    MaxRetries = 2
    PurgeBatchSize = 1
    PurgeMaxBatches = 1
    MaxFaults = 1
PROPERTIES EventuallySettled StopReturns
