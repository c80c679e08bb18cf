\* No file operation fails.
CONSTANTS
    nameN = nameN
    urlA = urlA
    urlB = urlB
    contentC = contentC
    Names <- OneName
    Edited <- RouterOnly
    SubscriptionSets <- Overlapping
    Contents <- OneContent
    MaxEntries = 1
    None = None
    Invalid = Invalid
    MaxRevision = 5
    MaxFaults = 0
    MaxCrashes = 1
SPECIFICATION Spec
INVARIANT OnlyCorruptionDeactivates
CHECK_DEADLOCK FALSE
