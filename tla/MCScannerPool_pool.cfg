\* Two workers that may panic, two callers of two calls each.
CONSTANTS
    w1 = w1
    w2 = w2
    c1 = c1
    c2 = c2
    Workers <- MCWorkers
    Callers <- MCCallers
    Outcomes <- MCOutcomes
    Shutdown = Shutdown
    None = None
    MaxCalls = 2
    MaxPanics = 2
SPECIFICATION TimerSpec
INVARIANTS
    TypeOK
    OpenMeansPending
    AnswerIsOwn
    ErrorOnlyWhenLost
    LockHolderIdle
    EndDrains
PROPERTIES
    ServiceSpec
    CallReturns
    JobsReleased
    EndReached
