CONSTANTS
    Gui = {}
    Raw <- MCRaw
    Psd <- MCPsd
    Ml <- MCMl
    Rbf <- MCRbf
    UnitControls <- MCUnitControls
    LODCount = 2
    GuiTable <- NoTable
    MlOps = {"o"}
    OpInputs <- MCOpInputs
    OpOutputs <- MCOpOutputs
    OpDefaults <- MCOpDefaults
    OpMask <- MCOpMask
    OpLODs <- MCOpLODs
    OpOutputCount <- MCOpOutputCount
    Regions = {"cheek"}
    NoMask = "none"
    Infer <- MCInfer
    Solvers = {"s1", "s2"}
    SolverInputs <- MCSolverInputs
    SolverOutputs <- MCSolverOutputs
    SolverLODs <- MCSolverLODs
    Solve <- MCSolve
    PsdInputs <- MCPsdInputs
    PsdWeight <- MCPsdWeight
    Groups <- MCGroups
    GroupRows <- MCGroupRows
    GroupColumns <- MCGroupColumns
    Joints <- MCJoints
    Linear <- MCLinear
    QuaternionOutput = TRUE
    ToQuaternion <- MCToQuaternion
    TwistAttributes <- NoTwist
    Twist <- MCTwist
    MlJointSource <- NoMlJoints
    Combine <- MCCombine
    Transformed <- NotTransformed
    Transform <- MCTransform
    BlendShapes = {}
    BlendShapeRows <- NoTable
    BlendShapeLODs <- NoRows
    AnimatedMaps = {}
    AnimatedMapTable <- NoTable
    AnimatedMapLODs <- NoRows
    Value <- MCValue
    InputValues = {0, 1}
    Levels = {0, 1, 2}
    CallsFollowLOD = TRUE
SPECIFICATION Spec
PROPERTIES GroupMatchesStage
