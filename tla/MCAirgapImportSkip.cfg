CONSTANTS
    i1 = i1
    i2 = i2
    Imports <- MCImports
    NumArchives = 2
    MaxEditions = 2
    MaxDamage = 1
SYMMETRY Symmetric
SPECIFICATION Spec
INVARIANT SkippedWasCompleted
