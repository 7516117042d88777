CONSTANTS
    f1 = f1
    f2 = f2
    Configs <- MCConfigs
    MaxOps = 4
    MaxChanges = 1
SYMMETRY Symmetric
SPECIFICATION Spec
INVARIANTS TypeOK OneLetterPerFile TallyAddsUp
PROPERTIES SuccessMeansMirrored NothingForgotten RetryResolves GoodFileKept
