SPECIFICATION FairSpec
CONSTANTS
    InitialSize = 8
    RegionSize = 4
    Growth <- MCGrowth
    MaxAlign = 4
    Sizes = {0, 1, 3, 7}
    Alignments = {1, 4}
    Addresses <- MCAddresses
    MaxBlocks = 3
INVARIANTS TypeOK BlocksApart RegionsReturned
PROPERTIES AllocationReturns
CHECK_DEADLOCK FALSE
