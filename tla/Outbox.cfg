SPECIFICATION FairSpec
CONSTANTS
    MessageCount = 3
    BatchSize = 2
    MaxTrouble = 2
    a = a
    b = b
    Dispatchers <- MCDispatchers
    DispatcherId <- MCSharedId
    Nobody = Nobody
CHECK_DEADLOCK FALSE
PROPERTIES KeepsPromise OutboxDelivers
