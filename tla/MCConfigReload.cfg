CONSTANTS
    h1 = h1
    h2 = h2
    p1 = p1
    Handlers <- MCHandlers
    Passes <- MCPasses
    Inputs <- MCInputs
    YamlFiles <- MCYamlFiles
    NumNames = 2
    MaxCrashes = 1
SPECIFICATION Spec
INVARIANTS TypeOK SyncKeepsProvider LoadedFollowsTable
PROPERTY ReloadHappens
