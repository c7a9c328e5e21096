CONSTANTS
    Kinds = {"memory", "file", "mapped"}
    Bytes = {0, 1}
    Sources <- MCSources
    Counts = {0, 1, 3}
    MaxSize = 4
    BufferSize = 2
    LargeCopies = FALSE
    Page = 2
    MinView = 1
    Limits = {3}
    Faults = {"open", "mmap", "msync", "ftruncate"}
    Unhandled = FALSE
    ShortSources = FALSE
    Careless = FALSE
SPECIFICATION Spec
INVARIANTS TypeOK InStep AccessInView ViewInFile
PROPERTIES ImplementsStream CallReturns
CHECK_DEADLOCK FALSE
