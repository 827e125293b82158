SPECIFICATION Spec
CONSTANTS
    MaxAttempts = 2
    MaxTries = 1
    MaxProgress = 1
    d1 = d1
    d2 = d2
    Results <- MCResults
    NoResult = NoResult
    Adopting = {TRUE, FALSE}
    WorkerShutdowns = TRUE
SYMMETRY Symmetry
CHECK_DEADLOCK FALSE
INVARIANT OutcomeSound
PROPERTY ImplementsLifecycle
