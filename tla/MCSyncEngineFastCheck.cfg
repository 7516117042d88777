CONSTANTS
    f1 = f1
    f2 = f2
    Configs <- EpelOnly
    MaxOps = 3
    MaxChanges = 1
SYMMETRY Symmetric
SPECIFICATION Spec
INVARIANT SkippedIsComplete
