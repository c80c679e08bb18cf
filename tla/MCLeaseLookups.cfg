SPECIFICATION Spec
CONSTANTS
    r1 = r1
    r2 = r2
    r3 = r3
    r4 = r4
    destD = destD
    destE = destE
    keyK = keyK
    NoLookup = NoLookup
    NoDestination = NoDestination
    NoRecord = NoRecord
    Resolvers = {r1, r2, r3, r4}
    TargetOf <- MCTargetOf
    Publishers = {p1}
    Floodfills = {f1}
    Replies <- MCReplies
    MaxPending = 2
    MaxPublications = 1
    MaxAttempts = 2
    MaxRetries = 1
    LookupDeadline = 1
    MaxRecords = 2
    MaxBytes = 2
    Supervised = TRUE
    MaxRequests = 3
    MaxNow = 1
INVARIANTS EngineHasOwner AnswerBinds CacheExact SlotsHeldByLive
PROPERTIES InstallsAdvance
SYMMETRY Interchangeable
CHECK_DEADLOCK FALSE
