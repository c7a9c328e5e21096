CONSTANTS
    Gui <- MCGui
    Raw <- MCRaw
    Psd <- MCPsd
    Ml <- MCMl
    Rbf <- MCRbf
    UnitControls <- MCUnitControls
    LODCount = 2
    GuiTable <- MCGuiTable
    MlOps = {"o"}
    OpInputs <- MCOpInputs
    OpOutputs <- MCOpOutputs
    OpDefaults <- MCOpDefaults
    OpMask <- MCOpMask
    OpLODs <- MCOpLODs
    OpOutputCount <- MCOpOutputCount
    Regions = {"cheek"}
    NoMask = "none"
    Infer <- MCInfer
    Solvers = {"s1", "s2"}
    SolverInputs <- MCSolverInputs
    SolverOutputs <- MCSolverOutputs
    SolverLODs <- MCSolverLODs
    Solve <- MCSolve
    PsdInputs <- MCPsdInputs
    PsdWeight <- MCPsdWeight
    Groups = {}
    GroupRows <- MCGroupRows
    GroupColumns <- MCGroupColumns
    Joints = {}
    Linear <- MCLinear
    QuaternionOutput = FALSE
    ToQuaternion <- MCToQuaternion
    TwistAttributes = {}
    Twist <- MCTwist
    MlJointSource <- NoMlJoints
    Combine <- MCCombine
    Transformed <- NotTransformed
    Transform <- MCTransform
    BlendShapes <- MCBlendShapes
    BlendShapeRows <- MCBlendShapeRows
    BlendShapeLODs <- MCBlendShapeLODs
    AnimatedMaps <- MCAnimatedMaps
    AnimatedMapTable <- MCAnimatedMapTable
    AnimatedMapLODs <- MCAnimatedMapLODs
    Value <- MCValue
    InputValues = {0, 1}
    Levels = {0, 1, 2}
    CallsFollowLOD = TRUE
SPECIFICATION Spec
INVARIANTS TypeOK AtRest
PROPERTIES CalculateIsComplete
