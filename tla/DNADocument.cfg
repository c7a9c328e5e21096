CONSTANTS
    Rows = {0, 1}
    LODs = {0, 1}
    IndexLists <- MCIndexLists
    Keys = {"a", "b"}
    ArrayValues <- MCArrayValues
    ScalarValues = {2}
    Versions = {20, 21, 22, 23, 24, 25, 26, 27, 28, 29}
    Writers <- MCWriters
    Kinds <- MCKinds
    Files <- MCFiles
    Masks <- MCMasks
    Policies <- MCPolicies
    MaxCalls = 1
    MaxSteps = 4
SPECIFICATION Spec
INVARIANTS TypeOK
PROPERTIES ReadShowsWritten UnloadTakesDependents CopyShowsSource RawCopyKeepsLayers RawCopyAddsNothing
CHECK_DEADLOCK FALSE
