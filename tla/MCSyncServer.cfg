CONSTANTS
    o1 = o1
    o2 = o2
    c1 = c1
    None = None
    Ops <- MCOps
    Clients <- MCClients
    MaxPasses = 2
    MaxPolls = 2
SPECIFICATION FairSpec
INVARIANTS TypeOK OneOperation OwnTrackerShown
PROPERTIES NoStaleDone StreamsEnd CancelFrees
