---------------------------- MODULE RigPipeline ----------------------------
(***************************************************************************)
(* One RigInstance driven by one RigLogic: the control buffers, the level   *)
(* of detail (LOD), and the evaluation stages                               *)
(*     ML -> RBF -> PSD -> joints -> blend shapes -> animated maps          *)
(* which a caller runs at once (calculate) or one by one.                   *)
(*                                                                         *)
(* Values are integers: 1 stands for 1.0f, and clamping to [0, 1] yields 0  *)
(* or 1.  What a network, a solver, a joint group or a rotation conversion  *)
(* computes is a constant operator; which controls it reads and writes, and *)
(* in which buffer, is modelled.                                            *)
(***************************************************************************)
EXTENDS ConditionalTable

CONSTANTS
    Gui,                \* GUI controls
    Raw, Psd, Ml, Rbf,  \* the four regions of the input buffer
    UnitControls,       \* controls initialised to 1: names ending in .w or .qw
    LODCount,
    GuiTable,           \* conditional table from GUI controls to raw controls
    MlOps,              \* ML operations that write ML controls
    OpInputs, OpOutputs, OpDefaults, OpMask, OpLODs, OpOutputCount,
    Regions, NoMask,    \* mask regions, and the mask index of unmasked ones
    Infer(_, _, _),     \* network: operation, control, inputs -> value
    Solvers, SolverInputs, SolverOutputs, SolverLODs,
    Solve(_, _, _),     \* RBF solver: solver, control, inputs -> value
    PsdInputs, PsdWeight,
    Groups, GroupRows, GroupColumns,  \* joint groups; rows are attributes
    Joints,
    Linear(_, _, _),    \* joint group: group, attribute, inputs -> value
    QuaternionOutput,   \* Configuration::rotationType = Quaternions
    ToQuaternion(_, _), \* Euler triple, component -> value
    TwistAttributes, Twist(_, _),
    MlJointSource,      \* [LOD -> [attribute -> its ML controls]]
    Combine(_, _, _),   \* attribute, its joint's attributes, inputs -> value
    Transformed,        \* [LOD -> ML controls the ML joints stage converts]
    Transform(_, _),    \* change of coordinate system of one control
    BlendShapes, BlendShapeRows, BlendShapeLODs,
    AnimatedMaps, AnimatedMapTable, AnimatedMapLODs,
    Value,              \* values a control takes
    InputValues,        \* values a caller stores (bound)
    Levels,             \* levels a caller passes to setLOD (bound)
    CallsFollowLOD      \* callers only name operations and solvers of the LOD

VARIABLES
    gui, input,   \* ControlsInputInstance
    clamp,        \* PSDNetOutputInstance
    masks,        \* MachineLearnedBehaviorOutputInstance
    lod,          \* RigInstance
    joints, blendShapes, animatedMaps  \* output buffers

vars == <<gui, input, clamp, masks, lod, joints, blendShapes, animatedMaps>>
outputs == <<joints, blendShapes, animatedMaps>>

Control == Raw \cup Psd \cup Ml \cup Rbf
LOD == 0 .. LODCount - 1

Axes == {"x", "y", "z"}
Rotation == Axes \cup {"w"}
Attribute == Joints \X (Rotation \cup {"t"})  \* t: translation and scale

Restriction(f, S) == [c \in S |-> f[c]]
-----------------------------------------------------------------------------
(* Controls that a LOD uses, as the factories register them                 *)

BlendShapeInputs(l) == {BlendShapeRows[i].in : i \in 1 .. BlendShapeLODs[l]}
AnimatedMapInputs(l) == {AnimatedMapTable[i].in : i \in 1 .. AnimatedMapLODs[l]}
GroupInputs(l) == UNION {GroupColumns[g][l] : g \in Groups}
MlJointInputs(l) == UNION {MlJointSource[l][a] : a \in DOMAIN MlJointSource[l]}

Registered(l) ==
    GroupInputs(l) \cup MlJointInputs(l)
        \cup BlendShapeInputs(l) \cup AnimatedMapInputs(l)

PsdOutputsAt(l) == Registered(l) \cap Psd
PsdInputsAt(l) == UNION {PsdInputs[p] : p \in PsdOutputsAt(l)}

OpsAt(l) == {o \in MlOps : l \in OpLODs[o]}
SolversAt(l) == {s \in Solvers : l \in SolverLODs[s]}
-----------------------------------------------------------------------------
(* Stages.  Each returns the buffer it writes.                              *)

MaskedOff(o, m) == OpMask[o] # NoMask /\ m[OpMask[o]] = 0

\* A masked operation stores its defaults, whatever the LOD; an evaluated one
\* scatters the outputs its last layer has at this LOD.
Positions(o, m, l) ==
    {i \in 1 .. Len(OpOutputs[o]) :
        i <= IF MaskedOff(o, m) THEN Len(OpDefaults[o]) ELSE OpOutputCount[o][l]}

OpWrites(o, m, l) == {OpOutputs[o][i] : i \in Positions(o, m, l)}

OpValue(o, c, in, m) ==
    IF MaskedOff(o, m)
    THEN OpDefaults[o][CHOOSE i \in 1 .. Len(OpOutputs[o]) : OpOutputs[o][i] = c]
    ELSE Infer(o, c, Restriction(in, OpInputs[o]))

\* Operations have disjoint outputs and none reads another's, so that their
\* order does not matter.
MLStage(in, ops, m, l) ==
    [c \in Control |->
        IF \E o \in ops : c \in OpWrites(o, m, l)
        THEN OpValue(CHOOSE o \in ops : c \in OpWrites(o, m, l), c, in, m)
        ELSE in[c]]

RBFStage(in, solvers) ==
    [c \in Control |->
        IF \E s \in solvers : c \in SolverOutputs[s]
        THEN LET s == CHOOSE s \in solvers : c \in SolverOutputs[s]
             IN  Solve(s, c, Restriction(in, SolverInputs[s]))
        ELSE in[c]]

ClampStage(in, buffer, l) ==
    [c \in Control |-> IF c \in PsdInputsAt(l) THEN Clamp01(in[c]) ELSE buffer[c]]

\* weight times the product of the clamped inputs, at most 1
PSDStage(in, buffer, l) ==
    [c \in Control |->
        IF c \in PsdOutputsAt(l)
        THEN IF \E x \in PsdInputs[c] : buffer[x] = 0 THEN 0
             ELSE IF PsdWeight[c] < 1 THEN PsdWeight[c] ELSE 1
        ELSE in[c]]

\* A reset joint buffer holds identity rotations: w is 1 with quaternions.
NeutralJoints ==
    [a \in Attribute |-> IF QuaternionOutput /\ a[2] = "w" THEN 1 ELSE 0]

RotationJoints(g, l) == {j \in Joints : \E x \in Axes : <<j, x>> \in GroupRows[g][l]}

GroupWrites(g, l) ==
    GroupRows[g][l] \cup
        (IF QuaternionOutput THEN RotationJoints(g, l) \X Rotation ELSE {})

\* Faulty variant of GroupStage: rows are added to what the buffer holds.
GroupStageAccumulating(in, out, g, l) ==
    [a \in Attribute |->
        IF a \in GroupRows[g][l]
        THEN out[a] + Linear(g, a, Restriction(in, GroupColumns[g][l]))
        ELSE out[a]]

\* The rows of a group, and then, with quaternions, the conversion in place of
\* the Euler triples of its joints, rows it lacks included.
GroupStage(in, out, g, l) ==
    LET rows == [a \in Attribute |->
                    IF a \in GroupRows[g][l]
                    THEN Linear(g, a, Restriction(in, GroupColumns[g][l]))
                    ELSE out[a]]
        Euler(j) == [x \in Axes |-> rows[<<j, x>>]]
    IN  [a \in Attribute |->
            IF QuaternionOutput /\ a[2] \in Rotation /\ a[1] \in RotationJoints(g, l)
            THEN ToQuaternion(Euler(a[1]), a[2])
            ELSE rows[a]]

GroupsStage(in, l) ==
    [a \in Attribute |->
        IF \E g \in Groups : a \in GroupWrites(g, l)
        THEN LET g == CHOOSE g \in Groups : a \in GroupWrites(g, l)
             IN  GroupStage(in, NeutralJoints, g, l)[a]
        ELSE NeutralJoints[a]]

TwistStage(in, out) ==
    [a \in Attribute |->
        IF a \in TwistAttributes THEN Twist(a, Restriction(in, Raw)) ELSE out[a]]

\* The ML joints stage converts its inputs in place, in the input buffer ...
TransformStage(in, l) ==
    [c \in Control |-> IF c \in Transformed[l] THEN Transform(c, in[c]) ELSE in[c]]

\* ... and adds them to translation and scale, and to Euler angles or, as
\* quaternions, composes them with the rotation of the joint.
MlJointStage(in, out, l) ==
    LET JointOf(a) == {a[1]} \X (Rotation \cup {"t"})
    IN  [a \in Attribute |->
            IF a \in DOMAIN MlJointSource[l]
            THEN Combine(a, Restriction(out, JointOf(a)), Restriction(in, MlJointSource[l][a]))
            ELSE out[a]]

JointsStage(in, l) ==
    MlJointStage(TransformStage(in, l), TwistStage(in, GroupsStage(in, l)), l)

BlendShapeStage(in, l) ==
    LET inputs == Restriction(in, BlendShapeInputs(l))
        Rows(b) == {i \in 1 .. BlendShapeLODs[l] : BlendShapeRows[i].out = b}
    IN  [b \in BlendShapes |->
            IF Rows(b) = {} THEN 0 ELSE inputs[BlendShapeRows[Max(Rows(b))].in]]

AnimatedMapStage(in, l) ==
    CalculateForward(AnimatedMapTable, AnimatedMapLODs[l],
                     Restriction(in, AnimatedMapInputs(l)), AnimatedMaps)
-----------------------------------------------------------------------------
InitialInput == [c \in Control |-> IF c \in UnitControls THEN 1 ELSE 0]
NoClamp == [c \in Control |-> 0]

\* Faulty variant of ResetInput: computed controls are not reset.
ResetUnitControls(in) ==
    [c \in Control |-> IF c \in UnitControls THEN 1 ELSE in[c]]

ResetInput(in) ==
    [c \in Control |-> IF c \in Raw \ UnitControls THEN in[c] ELSE InitialInput[c]]

Init ==
    /\ gui = [c \in Gui |-> 0]
    /\ input = InitialInput
    /\ clamp = NoClamp
    /\ masks = [r \in Regions |-> 1]
    /\ lod = 0
    /\ joints = NeutralJoints
    /\ blendShapes = [b \in BlendShapes |-> 0]
    /\ animatedMaps = [m \in AnimatedMaps |-> 0]

SetGUIControl(c, v) ==
    /\ gui' = [gui EXCEPT ![c] = v]
    /\ UNCHANGED <<input, clamp, masks, lod, outputs>>

SetRawControl(c, v) ==
    /\ input' = [input EXCEPT ![c] = v]
    /\ UNCHANGED <<gui, clamp, masks, lod, outputs>>

\* through the view that getMLMaskValues returns
SetMask(r, v) ==
    /\ masks' = [masks EXCEPT ![r] = v]
    /\ UNCHANGED <<gui, input, clamp, lod, outputs>>

\* All raw controls are overwritten, those no GUI control drives with 0.
MapGUIToRaw ==
    /\ LET raw == CalculateForward(GuiTable, Len(GuiTable), gui, Raw)
       IN  input' = [c \in Control |-> IF c \in Raw THEN raw[c] ELSE input[c]]
    /\ UNCHANGED <<gui, clamp, masks, lod, outputs>>

MapRawToGUI ==
    /\ gui' = CalculateReverse(GuiTable, Len(GuiTable), input, Gui)
    /\ UNCHANGED <<input, clamp, masks, lod, outputs>>

\* Faulty variants of SetLOD: the level is not clamped, the input buffer is not
\* reset, the output buffers are not reset.
SetLODUnclamped(level) ==
    /\ input' = IF level # lod THEN ResetInput(input) ELSE input
    /\ lod' = level
    /\ UNCHANGED <<gui, clamp, masks, outputs>>

SetLODKeepingInput(level) ==
    /\ lod' = IF level < LODCount THEN level ELSE LODCount - 1
    /\ IF level # lod
       THEN /\ joints' = NeutralJoints
            /\ blendShapes' = [b \in BlendShapes |-> 0]
            /\ animatedMaps' = [m \in AnimatedMaps |-> 0]
       ELSE UNCHANGED outputs
    /\ UNCHANGED <<gui, input, clamp, masks>>

SetLODKeepingOutputs(level) ==
    /\ IF level # lod
       THEN input' = ResetInput(input) /\ clamp' = NoClamp
       ELSE UNCHANGED <<input, clamp>>
    /\ lod' = IF level < LODCount THEN level ELSE LODCount - 1
    /\ UNCHANGED <<gui, masks, outputs>>

\* The level is compared before it is clamped to the LODs of the rig.
SetLOD(level) ==
    /\ IF level # lod
       THEN /\ input' = ResetInput(input)
            /\ clamp' = NoClamp
            /\ joints' = NeutralJoints
            /\ blendShapes' = [b \in BlendShapes |-> 0]
            /\ animatedMaps' = [m \in AnimatedMaps |-> 0]
       ELSE UNCHANGED <<input, clamp, outputs>>
    /\ lod' = IF level < LODCount THEN level ELSE LODCount - 1
    /\ UNCHANGED <<gui, masks>>

CalculateMLControls ==
    /\ input' = MLStage(input, OpsAt(lod), masks, lod)
    /\ UNCHANGED <<gui, clamp, masks, lod, outputs>>

CalculateMLOperation(o) ==
    /\ CallsFollowLOD => o \in OpsAt(lod)
    /\ input' = MLStage(input, {o}, masks, lod)
    /\ UNCHANGED <<gui, clamp, masks, lod, outputs>>

CalculateRBFControls ==
    /\ input' = RBFStage(input, SolversAt(lod))
    /\ UNCHANGED <<gui, clamp, masks, lod, outputs>>

CalculateRBFSolver(s) ==
    /\ CallsFollowLOD => s \in SolversAt(lod)
    /\ input' = RBFStage(input, {s})
    /\ UNCHANGED <<gui, clamp, masks, lod, outputs>>

CalculatePSDControls ==
    /\ clamp' = ClampStage(input, clamp, lod)
    /\ input' = PSDStage(input, clamp', lod)
    /\ UNCHANGED <<gui, masks, lod, outputs>>

CalculateJoints ==
    /\ joints' = JointsStage(input, lod)
    /\ input' = TransformStage(input, lod)
    /\ UNCHANGED <<gui, clamp, masks, lod, blendShapes, animatedMaps>>

\* One group only: the buffer is not reset, and neither twist and swing nor ML
\* joints are evaluated.
CalculateJointGroup(g) ==
    /\ joints' = GroupStage(input, joints, g, lod)
    /\ UNCHANGED <<gui, input, clamp, masks, lod, blendShapes, animatedMaps>>

CalculateBlendShapes ==
    /\ blendShapes' = BlendShapeStage(input, lod)
    /\ UNCHANGED <<gui, input, clamp, masks, lod, joints, animatedMaps>>

CalculateAnimatedMaps ==
    /\ animatedMaps' = AnimatedMapStage(input, lod)
    /\ UNCHANGED <<gui, input, clamp, masks, lod, joints, blendShapes>>

Computed(in, m, l) == RBFStage(MLStage(in, OpsAt(l), m, l), SolversAt(l))

\* Faulty variant of Calculate: PSDs are evaluated before the RBF solvers.
CalculatePSDFirst ==
    LET inferred == MLStage(input, OpsAt(lod), masks, lod)
        driven == RBFStage(PSDStage(inferred, clamp', lod), SolversAt(lod))
    IN  /\ clamp' = ClampStage(inferred, clamp, lod)
        /\ input' = TransformStage(driven, lod)
        /\ joints' = JointsStage(driven, lod)
        /\ blendShapes' = BlendShapeStage(input', lod)
        /\ animatedMaps' = AnimatedMapStage(input', lod)
        /\ UNCHANGED <<gui, masks, lod>>

Calculate ==
    LET computed == Computed(input, masks, lod)
        driven == PSDStage(computed, clamp', lod)
    IN  /\ clamp' = ClampStage(computed, clamp, lod)
        /\ input' = TransformStage(driven, lod)
        /\ joints' = JointsStage(driven, lod)
        /\ blendShapes' = BlendShapeStage(input', lod)
        /\ animatedMaps' = AnimatedMapStage(input', lod)
        /\ UNCHANGED <<gui, masks, lod>>

Next ==
    \/ \E c \in Gui, v \in InputValues : SetGUIControl(c, v)
    \/ \E c \in Raw, v \in InputValues : SetRawControl(c, v)
    \/ \E r \in Regions, v \in {0, 1} : SetMask(r, v)
    \/ MapGUIToRaw
    \/ MapRawToGUI
    \/ \E level \in Levels : SetLOD(level)
    \/ CalculateMLControls
    \/ \E o \in MlOps : CalculateMLOperation(o)
    \/ CalculateRBFControls
    \/ \E s \in Solvers : CalculateRBFSolver(s)
    \/ CalculatePSDControls
    \/ CalculateJoints
    \/ \E g \in Groups : CalculateJointGroup(g)
    \/ CalculateBlendShapes
    \/ CalculateAnimatedMaps
    \/ Calculate

Spec == Init /\ [][Next]_vars
-----------------------------------------------------------------------------
(* What the DNA and the factories guarantee of a rig                        *)

ASSUME RegionsAssumption ==
    /\ Raw \cap (Psd \cup Ml \cup Rbf) = {}
    /\ Psd \cap (Ml \cup Rbf) = {}
    /\ Ml \cap Rbf = {}
    /\ UnitControls \subseteq Raw \cup Ml
    /\ {0, 1} \subseteq Value
    /\ InputValues \subseteq Value
    /\ LODCount \in Nat \ {0}
    /\ Levels \subseteq Nat

\* Networks read raw controls and write ML controls of their own.
ASSUME MLAssumption ==
    /\ OpOutputs \in [MlOps -> Seq(Ml)]
    /\ OpDefaults \in [MlOps -> Seq(Value)]
    /\ OpMask \in [MlOps -> Regions \cup {NoMask}]
    /\ \A o \in MlOps :
           /\ OpInputs[o] \subseteq Raw
           /\ Len(OpDefaults[o]) <= Len(OpOutputs[o])
           /\ \A i, j \in 1 .. Len(OpOutputs[o]) :
                 OpOutputs[o][i] = OpOutputs[o][j] => i = j
           /\ \A p \in MlOps \ {o} :
                 \A i \in 1 .. Len(OpOutputs[o]), j \in 1 .. Len(OpOutputs[p]) :
                     OpOutputs[o][i] # OpOutputs[p][j]
           /\ \A c \in Ml, f \in [OpInputs[o] -> Value] : Infer(o, c, f) \in Value

\* Solvers read raw controls and write RBF controls of their own.
ASSUME RBFAssumption ==
    \A s \in Solvers :
        /\ SolverInputs[s] \subseteq Raw
        /\ SolverOutputs[s] \subseteq Rbf
        /\ \A t \in Solvers \ {s} : SolverOutputs[s] \cap SolverOutputs[t] = {}
        /\ \A c \in Rbf, f \in [SolverInputs[s] -> Value] : Solve(s, c, f) \in Value

\* PSDs read anything but PSDs.
ASSUME PSDAssumption ==
    \A p \in Psd : PsdWeight[p] \in Value /\ PsdInputs[p] \subseteq Control \ Psd

\* Joint groups own their joints, and what the ML joints stage converts are ML
\* controls whose resting value is a fixed point of the conversion.
ASSUME JointsAssumption ==
    \A l \in LOD :
        /\ \A g \in Groups :
              /\ GroupRows[g][l] \subseteq Attribute
              /\ GroupColumns[g][l] \subseteq Control
              /\ \A h \in Groups \ {g} : GroupWrites(g, l) \cap GroupWrites(h, l) = {}
        /\ DOMAIN MlJointSource[l] \subseteq Attribute
        /\ MlJointInputs(l) \subseteq Ml
        /\ Transformed[l] \subseteq Ml
        /\ \A c \in Transformed[l] :
              /\ Transform(c, InitialInput[c]) = InitialInput[c]
              /\ \A v \in Value : Transform(c, v) \in Value

ASSUME OutputsAssumption ==
    \A l \in LOD :
        /\ BlendShapeInputs(l) \subseteq Control
        /\ AnimatedMapInputs(l) \subseteq Control

(***************************************************************************)
(* LODs are consistent: an ML control that a LOD registers, or that feeds   *)
(* one of its PSDs, is written by every evaluation of the LOD's operations, *)
(* masked or not, or by none of them.                                       *)
(***************************************************************************)
MaybeWritten(l) ==
    UNION {{OpOutputs[o][i] : i \in 1 .. Len(OpOutputs[o])} : o \in OpsAt(l)}

AlwaysWritten(l) ==
    UNION {{OpOutputs[o][i] : i \in {k \in 1 .. Len(OpOutputs[o]) :
                k <= OpOutputCount[o][l] /\ (OpMask[o] # NoMask => k <= Len(OpDefaults[o]))}} :
           o \in OpsAt(l)}

ASSUME LODAssumption ==
    \A l \in LOD :
        (Registered(l) \cup PsdInputsAt(l)) \cap MaybeWritten(l) \subseteq AlwaysWritten(l)
-----------------------------------------------------------------------------
(* Properties                                                               *)

\* Every buffer keeps its layout, and the LOD stays among those of the rig.
TypeOK ==
    /\ DOMAIN gui = Gui
    /\ input \in [Control -> Value]
    /\ clamp \in [Control -> {0, 1}]
    /\ masks \in [Regions -> {0, 1}]
    /\ lod \in LOD
    /\ DOMAIN joints = Attribute
    /\ DOMAIN blendShapes = BlendShapes
    /\ DOMAIN animatedMaps = AnimatedMaps

\* Computed controls the stages of LOD l may write
Solved(l) == UNION {SolverOutputs[s] : s \in SolversAt(l)}
Driven(l) == MaybeWritten(l) \cup Solved(l) \cup PsdOutputsAt(l)

\* Computed controls that the current LOD does not drive are at rest: no stage
\* of an earlier LOD leaves a value behind for a joint group or a blend shape of
\* the current one to read.
AtRest == \A c \in (Psd \cup Ml \cup Rbf) \ Driven(lod) : input[c] = InitialInput[c]

JointWrites(l) ==
    TwistAttributes \cup DOMAIN MlJointSource[l] \cup UNION {GroupWrites(g, l) : g \in Groups}

\* Outputs that the current LOD does not compute are neutral, whichever stages
\* ran before and at whichever LOD: a reader of the whole output buffers never
\* sees the pose of another LOD.
OffLODOutputsNeutral ==
    /\ \A a \in Attribute \ JointWrites(lod) : joints[a] = NeutralJoints[a]
    /\ \A b \in BlendShapes \ {BlendShapeRows[i].out : i \in 1 .. BlendShapeLODs[lod]} :
          blendShapes[b] = 0
    /\ \A m \in AnimatedMaps \ {AnimatedMapTable[i].out : i \in 1 .. AnimatedMapLODs[lod]} :
          animatedMaps[m] = 0

\* What calculate() yields on a new instance given the same raw controls
FreshInput == [c \in Control |-> IF c \in Raw THEN input[c] ELSE InitialInput[c]]
FreshDriven ==
    LET computed == Computed(FreshInput, masks, lod)
    IN  PSDStage(computed, ClampStage(computed, NoClamp, lod), lod)
FreshOutputs ==
    LET converted == TransformStage(FreshDriven, lod)
    IN  <<JointsStage(FreshDriven, lod),
          BlendShapeStage(converted, lod), AnimatedMapStage(converted, lod)>>

\* calculate() is a complete evaluation: the outputs depend on the raw controls,
\* the masks and the LOD alone, not on the stages, LODs and masks that came
\* before.
CalculateIsComplete == [][Calculate => outputs' = FreshOutputs]_vars

\* Calculating a joint group on its own yields what calculating all the joints
\* at once yields for the attributes of that group.
GroupMatchesStage ==
    [][\A g \in Groups : CalculateJointGroup(g) =>
          \A a \in GroupWrites(g, lod) : joints'[a] = JointsStage(input, lod)[a]]_vars
=============================================================================
