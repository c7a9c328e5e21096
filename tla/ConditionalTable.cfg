CONSTANTS
    Inputs = {1, 2}
    Outputs = {"o1", "o2"}
    Segments <- MCSegments
    InputValues <- MCInputValues
    MaxRows = 3
SPECIFICATION Spec
INVARIANTS ForwardIsSumOfCurves ReverseInverts
CHECK_DEADLOCK FALSE
