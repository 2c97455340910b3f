CONSTANTS
    MaxConnects = 2
    MaxCalls = 3
    MaxGrants = 1
    MaxRequests = 2
    Deadlines = TRUE
    IdleTimeout = TRUE
    FenceOnDisconnect = TRUE
SPECIFICATION Spec
INVARIANTS
    SuccessIsOwnReply
    PerformedAtMostOnce
    SessionOfThisConnection
    
PROPERTIES
    CallsReturn
