CONSTANTS
    Lanes128 = 2
    Width = 256
    Lanes = 2
    PruningThreshold <- NoPruning
    RawValues = {1}
    MaskValues = {0, 1}
    MaxCalls = 1
    MaxChanges = 2
SPECIFICATION Spec
PROPERTIES EvaluatesGraph OwnBufferOnly JointGroupsMultiply
