CONSTANTS
    f1 = f1
    f2 = f2
    Configs <- VersionsOnly
    MaxOps = 3
    MaxChanges = 1
SYMMETRY Symmetric
SPECIFICATION Spec
PROPERTY RetriedIsRecorded
