SPECIFICATION OutageSpec
CONSTANTS
    r1 = r1
    h1 = h1
    Relay = {r1}
    MaxEvent = 2
    Handler = {h1}
    Subscribers <- MCOneSubscriber
    BatchSize = 2
    MaxRetries = 3
    PurgeBatchSize = 1
    PurgeMaxBatches = 1
    MaxFaults = 0
INVARIANT SurvivesOutage
