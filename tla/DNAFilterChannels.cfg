CONSTANTS
    Requests <- MCRequests
    ChannelsAreOrdered = FALSE
SPECIFICATION Spec
INVARIANT TargetsMatchChannels
CHECK_DEADLOCK FALSE
