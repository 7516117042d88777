CONSTANTS
    Images <- MCImages
    Pinned <- MCPinned
    Roots <- MCRoots
    Manifests <- MCManifests
    Blobs <- MCBlobs
    Children <- MCChildren
    Refs <- MCRefs
    Indexes <- MCIndexes
    Unparsed <- MCUnparsed
    Unchecked <- MCUnchecked
    Unlisted = "none"
    Workers = 1
    MaxFaults = 1
    MaxSyncs = 3
    MaxPushes = 1
SPECIFICATION Spec
INVARIANTS TypeOK CleanSyncIsWhole PushedIsTheImage
