CONSTANTS
    old = old
    new = new
    Versions <- MCVersions
    Size <- MCSize
    RetryCount = 2
    MaxCalls = 2
SPECIFICATION FairSpec
INVARIANTS TypeOK AcceptedFile AlignedBytes Heals
PROPERTY CancelReturns
