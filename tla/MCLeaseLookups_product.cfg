SPECIFICATION Spec
CONSTANTS
    r1 = r1
    r2 = r2
    r3 = r3
    r4 = r4
    destD = destD
    destE = destE
    keyK = keyK
    NoLookup = NoLookup
    NoDestination = NoDestination
    NoRecord = NoRecord
    Resolvers = {r1, r2, r3, r4}
    TargetOf <- MCTargetOf
    Publishers = {p1}
    Floodfills = {f1}
    Replies <- MCReplies
    MaxPending = 2
    MaxPublications = 1
    MaxAttempts = 2
    MaxRetries = 1
    LookupDeadline = 1
    MaxRecords = 2
    MaxBytes = 3
    Supervised = FALSE
    MaxRequests = 3
    MaxNow = 2
INVARIANT ExhaustedReleasesEngine
CHECK_DEADLOCK FALSE
