CONSTANTS
    e1 = e1
    e2 = e2
    Exports <- MCExports
    Requested <- MCRequested
    Files <- MCFiles
    Owner <- MCOwner
    Layouts <- MCLayouts
    ScanRoot <- MCScanRoot
    Size <- MCSize
    SplitSize = 2
    MaxChanges = 3
SYMMETRY Symmetric
SPECIFICATION Spec
INVARIANTS TypeOK ValidatedIsWhole SplitRespected ExportIsComplete
