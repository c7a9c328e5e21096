CONSTANTS
    Requests <- MCRequests
    ChannelsAreOrdered = TRUE
SPECIFICATION Spec
INVARIANTS NothingThrown LODsKeepElements RowsKeepElements MeshesKeepElements SkinSumsToOne JointsKeepElements OperationsKeepDependencies
CHECK_DEADLOCK FALSE
