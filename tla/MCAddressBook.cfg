\* One operation fails and the process crashes once.
CONSTANTS
    nameN = nameN
    urlA = urlA
    urlB = urlB
    contentC = contentC
    Names <- OneName
    Edited <- RouterOnly
    SubscriptionSets <- Overlapping
    Contents <- OneContent
    MaxEntries = 1
    None = None
    Invalid = Invalid
    MaxRevision = 3
    MaxFaults = 1
    MaxCrashes = 1
SPECIFICATION Spec
INVARIANTS SourcesConfigured AcknowledgedSurvives ViewsFollowCommits
PROPERTY RefreshServed
CHECK_DEADLOCK FALSE
