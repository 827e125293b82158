SPECIFICATION FairSpec
CONSTANTS
    MaxAttempts = 2
    MaxTries = 2
    MaxProgress = 0
    d1 = d1
    d2 = d2
    Results <- MCOneResult
    NoResult = NoResult
    Adopting = {FALSE}
    WorkerShutdowns = FALSE
PROPERTIES WorkflowCloses CancellationEnds
CHECK_DEADLOCK FALSE
