------------------------- MODULE RigPipelineProofs -------------------------
(***************************************************************************)
(* Theorems about RigPipeline, for every rig that satisfies its assumptions *)
(***************************************************************************)
EXTENDS RigPipeline, TLAPS

LEMMA ClampType == \A x : Clamp01(x) \in {0, 1}
  BY DEF Clamp01

\* A conditional table yields 0 or 1 for each of its outputs.
LEMMA ForwardType ==
  ASSUME NEW table, NEW n, NEW inputs, NEW Outs
  PROVE  CalculateForward(table, n, inputs, Outs) \in [Outs -> {0, 1}]
  BY ClampType DEF CalculateForward

LEMMA RestrictionType ==
  ASSUME NEW S, S \subseteq Control, NEW f \in [Control -> Value]
  PROVE  Restriction(f, S) \in [S -> Value]
  BY DEF Restriction

\* What an operation stores is a value, be it a default or a network output.
LEMMA OpValueType ==
  ASSUME NEW o \in MlOps, NEW m, NEW l \in LOD, NEW in \in [Control -> Value],
         NEW c \in OpWrites(o, m, l)
  PROVE  OpValue(o, c, in, m) \in Value /\ c \in Ml
<1>1. PICK i \in Positions(o, m, l) : c = OpOutputs[o][i]
  BY DEF OpWrites
<1>2. i \in 1 .. Len(OpOutputs[o]) /\ OpOutputs[o] \in Seq(Ml) /\ OpDefaults[o] \in Seq(Value)
  BY <1>1, MLAssumption DEF Positions
<1>3. c \in Ml
  BY <1>1, <1>2
<1>4. CASE MaskedOff(o, m)
  <2>1. i <= Len(OpDefaults[o])
    BY <1>1, <1>4 DEF Positions
  <2>2. i = CHOOSE k \in 1 .. Len(OpOutputs[o]) : OpOutputs[o][k] = c
    BY <1>1, <1>2, MLAssumption
  <2>3. OpValue(o, c, in, m) = OpDefaults[o][i]
    BY <2>2, <1>4 DEF OpValue
  <2> QED BY <1>2, <1>3, <2>1, <2>3
<1>5. CASE ~MaskedOff(o, m)
  <2>1. Restriction(in, OpInputs[o]) \in [OpInputs[o] -> Value]
    BY RestrictionType, MLAssumption DEF Control
  <2>2. OpValue(o, c, in, m) = Infer(o, c, Restriction(in, OpInputs[o]))
    BY <1>5 DEF OpValue
  <2> QED BY <1>3, <2>1, <2>2, MLAssumption
<1> QED BY <1>4, <1>5

LEMMA MLStageType ==
  ASSUME NEW in \in [Control -> Value], NEW ops \in SUBSET MlOps, NEW m, NEW l \in LOD
  PROVE  MLStage(in, ops, m, l) \in [Control -> Value]
<1> SUFFICES ASSUME NEW c \in Control
             PROVE  MLStage(in, ops, m, l)[c] \in Value
  BY DEF MLStage
<1>1. CASE \E o \in ops : c \in OpWrites(o, m, l)
  <2> DEFINE o == CHOOSE o \in ops : c \in OpWrites(o, m, l)
  <2>1. o \in MlOps /\ c \in OpWrites(o, m, l)
    BY <1>1
  <2>2. MLStage(in, ops, m, l)[c] = OpValue(o, c, in, m)
    BY <1>1 DEF MLStage
  <2> HIDE DEF o
  <2> QED BY <2>1, <2>2, OpValueType
<1>2. CASE ~\E o \in ops : c \in OpWrites(o, m, l)
  BY <1>2 DEF MLStage
<1> QED BY <1>1, <1>2

LEMMA RBFStageType ==
  ASSUME NEW in \in [Control -> Value], NEW solvers \in SUBSET Solvers
  PROVE  RBFStage(in, solvers) \in [Control -> Value]
<1> SUFFICES ASSUME NEW c \in Control
             PROVE  RBFStage(in, solvers)[c] \in Value
  BY DEF RBFStage
<1>1. CASE \E s \in solvers : c \in SolverOutputs[s]
  <2> DEFINE s == CHOOSE s \in solvers : c \in SolverOutputs[s]
  <2>1. s \in Solvers /\ c \in SolverOutputs[s]
    BY <1>1
  <2>2. RBFStage(in, solvers)[c] = Solve(s, c, Restriction(in, SolverInputs[s]))
    BY <1>1 DEF RBFStage
  <2> HIDE DEF s
  <2>3. Restriction(in, SolverInputs[s]) \in [SolverInputs[s] -> Value]
    BY <2>1, RestrictionType, RBFAssumption DEF Control
  <2> QED BY <2>1, <2>2, <2>3, RBFAssumption
<1>2. CASE ~\E s \in solvers : c \in SolverOutputs[s]
  BY <1>2 DEF RBFStage
<1> QED BY <1>1, <1>2

LEMMA ClampStageType ==
  ASSUME NEW in, NEW buffer \in [Control -> {0, 1}], NEW l
  PROVE  ClampStage(in, buffer, l) \in [Control -> {0, 1}]
  BY ClampType DEF ClampStage

LEMMA PSDStageType ==
  ASSUME NEW in \in [Control -> Value], NEW buffer, NEW l
  PROVE  PSDStage(in, buffer, l) \in [Control -> Value]
  BY PSDAssumption, RegionsAssumption DEF PSDStage, PsdOutputsAt

LEMMA TransformStageType ==
  ASSUME NEW in \in [Control -> Value], NEW l \in LOD
  PROVE  TransformStage(in, l) \in [Control -> Value]
  BY JointsAssumption DEF TransformStage

LEMMA InitialType == InitialInput \in [Control -> Value] /\ NoClamp \in [Control -> {0, 1}]
  BY RegionsAssumption DEF InitialInput, NoClamp

LEMMA SubsetsAt == \A l : OpsAt(l) \subseteq MlOps /\ SolversAt(l) \subseteq Solvers
  BY DEF OpsAt, SolversAt

LEMMA OutputDomains ==
  /\ DOMAIN NeutralJoints = Attribute
  /\ \A in, l : /\ DOMAIN JointsStage(in, l) = Attribute
                /\ DOMAIN BlendShapeStage(in, l) = BlendShapes
                /\ DOMAIN AnimatedMapStage(in, l) = AnimatedMaps
  /\ \A in, out, g, l : DOMAIN GroupStage(in, out, g, l) = Attribute
  BY DEF NeutralJoints, JointsStage, MlJointStage, BlendShapeStage, AnimatedMapStage,
         CalculateForward, GroupStage

\* Every buffer keeps its layout and its values, and the LOD stays in range.
THEOREM TypeCorrect == Spec => []TypeOK
<1>1. Init => TypeOK
  BY InitialType, OutputDomains, RegionsAssumption DEF Init, TypeOK, LOD
<1>2. TypeOK /\ [Next]_vars => TypeOK'
  <2> SUFFICES ASSUME TypeOK, [Next]_vars
               PROVE  TypeOK'
    OBVIOUS
  <2> USE DEF TypeOK, outputs
  <2>1. ASSUME NEW c \in Gui, NEW v \in InputValues, SetGUIControl(c, v)
        PROVE  TypeOK'
    BY <2>1 DEF SetGUIControl
  <2>2. ASSUME NEW c \in Raw, NEW v \in InputValues, SetRawControl(c, v)
        PROVE  TypeOK'
    BY <2>2, RegionsAssumption DEF SetRawControl
  <2>3. ASSUME NEW r \in Regions, NEW v \in {0, 1}, SetMask(r, v)
        PROVE  TypeOK'
    BY <2>3 DEF SetMask
  <2>4. ASSUME MapGUIToRaw
        PROVE  TypeOK'
    <3> DEFINE raw == CalculateForward(GuiTable, Len(GuiTable), gui, Raw)
    <3>1. raw \in [Raw -> {0, 1}]
      BY ForwardType
    <3>2. input' = [c \in Control |-> IF c \in Raw THEN raw[c] ELSE input[c]]
      BY <2>4 DEF MapGUIToRaw
    <3> HIDE DEF raw
    <3>3. input' \in [Control -> Value]
      BY <3>1, <3>2, RegionsAssumption
    <3> QED BY <2>4, <3>3 DEF MapGUIToRaw
  <2>5. ASSUME MapRawToGUI
        PROVE  TypeOK'
    BY <2>5 DEF MapRawToGUI, CalculateReverse
  <2>6. ASSUME NEW level \in Levels, SetLOD(level)
        PROVE  TypeOK'
    <3>1. lod' \in LOD
      BY <2>6, RegionsAssumption DEF SetLOD, LOD
    <3>2. ResetInput(input) \in [Control -> Value]
      BY InitialType DEF ResetInput
    <3>3. CASE level # lod
      BY <2>6, <3>1, <3>2, <3>3, InitialType, OutputDomains DEF SetLOD
    <3>4. CASE level = lod
      BY <2>6, <3>1, <3>4 DEF SetLOD
    <3> QED BY <3>3, <3>4
  <2>7. ASSUME CalculateMLControls
        PROVE  TypeOK'
    BY <2>7, MLStageType, SubsetsAt DEF CalculateMLControls
  <2>8. ASSUME NEW o \in MlOps, CalculateMLOperation(o)
        PROVE  TypeOK'
    BY <2>8, MLStageType DEF CalculateMLOperation
  <2>9. ASSUME CalculateRBFControls
        PROVE  TypeOK'
    BY <2>9, RBFStageType, SubsetsAt DEF CalculateRBFControls
  <2>10. ASSUME NEW s \in Solvers, CalculateRBFSolver(s)
         PROVE  TypeOK'
    BY <2>10, RBFStageType DEF CalculateRBFSolver
  <2>11. ASSUME CalculatePSDControls
         PROVE  TypeOK'
    BY <2>11, ClampStageType, PSDStageType DEF CalculatePSDControls
  <2>12. ASSUME CalculateJoints
         PROVE  TypeOK'
    BY <2>12, TransformStageType, OutputDomains DEF CalculateJoints
  <2>13. ASSUME NEW g \in Groups, CalculateJointGroup(g)
         PROVE  TypeOK'
    BY <2>13, OutputDomains DEF CalculateJointGroup
  <2>14. ASSUME CalculateBlendShapes
         PROVE  TypeOK'
    BY <2>14, OutputDomains DEF CalculateBlendShapes
  <2>15. ASSUME CalculateAnimatedMaps
         PROVE  TypeOK'
    BY <2>15, OutputDomains DEF CalculateAnimatedMaps
  <2>16. ASSUME Calculate
         PROVE  TypeOK'
    <3> DEFINE computed == Computed(input, masks, lod)
               driven == PSDStage(computed, clamp', lod)
    <3>1. computed \in [Control -> Value]
      BY MLStageType, RBFStageType, SubsetsAt DEF Computed
    <3>2. driven \in [Control -> Value]
      BY <3>1, PSDStageType
    <3>3. /\ clamp' = ClampStage(computed, clamp, lod)
          /\ input' = TransformStage(driven, lod)
          /\ joints' = JointsStage(driven, lod)
          /\ blendShapes' = BlendShapeStage(input', lod)
          /\ animatedMaps' = AnimatedMapStage(input', lod)
          /\ UNCHANGED <<gui, masks, lod>>
      BY <2>16 DEF Calculate
    <3> HIDE DEF computed, driven
    <3> QED BY <3>1, <3>2, <3>3, ClampStageType, TransformStageType, OutputDomains
  <2>17. ASSUME UNCHANGED vars
         PROVE  TypeOK'
    BY <2>17 DEF vars
  <2> QED
    BY <2>1, <2>2, <2>3, <2>4, <2>5, <2>6, <2>7, <2>8, <2>9, <2>10, <2>11, <2>12,
       <2>13, <2>14, <2>15, <2>16, <2>17 DEF Next
<1> QED BY <1>1, <1>2, PTL DEF Spec
-----------------------------------------------------------------------------
(* Controls at rest: no stage of a LOD touches a computed control that the   *)
(* LOD does not drive.                                                       *)

Rested(in, l) == \A c \in (Psd \cup Ml \cup Rbf) \ Driven(l) : in[c] = InitialInput[c]

LEMMA DrivenBy ==
  ASSUME NEW l, NEW c
  PROVE  c \in Driven(l) <=> \/ c \in MaybeWritten(l)
                             \/ \E s \in SolversAt(l) : c \in SolverOutputs[s]
                             \/ c \in PsdOutputsAt(l)
<1>1. c \in Solved(l) <=> \E s \in SolversAt(l) : c \in SolverOutputs[s]
  BY DEF Solved
<1> QED BY <1>1 DEF Driven

LEMMA MLStageRests ==
  ASSUME NEW in, NEW l, Rested(in, l), NEW ops \in SUBSET OpsAt(l), NEW m
  PROVE  Rested(MLStage(in, ops, m, l), l)
<1> SUFFICES ASSUME NEW c \in (Psd \cup Ml \cup Rbf) \ Driven(l)
             PROVE  MLStage(in, ops, m, l)[c] = InitialInput[c]
  BY DEF Rested
<1>1. ASSUME NEW o \in ops PROVE c \notin OpWrites(o, m, l)
  BY DEF Driven, MaybeWritten, OpWrites, Positions
<1> QED BY <1>1 DEF MLStage, Rested, Control

LEMMA RBFStageRests ==
  ASSUME NEW in, NEW l, Rested(in, l), NEW solvers \in SUBSET SolversAt(l)
  PROVE  Rested(RBFStage(in, solvers), l)
<1> SUFFICES ASSUME NEW c \in (Psd \cup Ml \cup Rbf) \ Driven(l)
             PROVE  RBFStage(in, solvers)[c] = InitialInput[c]
  BY DEF Rested
<1>1. ASSUME NEW s \in solvers PROVE c \notin SolverOutputs[s]
  BY DrivenBy
<1> QED BY <1>1 DEF RBFStage, Rested, Control

LEMMA PSDStageRests ==
  ASSUME NEW in, NEW l, Rested(in, l), NEW buffer
  PROVE  Rested(PSDStage(in, buffer, l), l)
<1> SUFFICES ASSUME NEW c \in (Psd \cup Ml \cup Rbf) \ Driven(l)
             PROVE  PSDStage(in, buffer, l)[c] = InitialInput[c]
  BY DEF Rested
<1>1. c \notin PsdOutputsAt(l) /\ c \in Control
  BY DrivenBy DEF Control
<1>2. PSDStage(in, buffer, l)[c] = in[c]
  BY <1>1 DEF PSDStage
<1> QED BY <1>2 DEF Rested

LEMMA TransformStageRests ==
  ASSUME NEW in, NEW l \in LOD, Rested(in, l)
  PROVE  Rested(TransformStage(in, l), l)
  BY JointsAssumption DEF Rested, TransformStage, Control

LEMMA RawIsApart ==
  /\ \A c \in Psd \cup Ml \cup Rbf : c \in Control \ Raw
  /\ \A l : OpsAt(l) \in SUBSET OpsAt(l) /\ SolversAt(l) \in SUBSET SolversAt(l)
  BY RegionsAssumption DEF Control

\* Computed controls that the LOD does not drive rest at their initial value,
\* provided that callers run only operations and solvers of the current LOD.
THEOREM DrivenAtRest ==
  ASSUME CallsFollowLOD
  PROVE  Spec => []AtRest
<1>1. Init => AtRest
  BY DEF Init, AtRest
<1>2. TypeOK /\ AtRest /\ [Next]_vars => AtRest'
  <2> SUFFICES ASSUME TypeOK, AtRest, [Next]_vars
               PROVE  AtRest'
    OBVIOUS
  <2>1. Rested(input, lod) /\ lod \in LOD
    BY DEF AtRest, Rested, TypeOK
  <2>2. Rested(input', lod') => AtRest'
    BY DEF AtRest, Rested
  <2>3. ASSUME UNCHANGED <<input, lod>>
        PROVE  AtRest'
    BY <2>3 DEF AtRest
  <2>4. ASSUME NEW c \in Raw, NEW v \in InputValues, SetRawControl(c, v)
        PROVE  AtRest'
    BY <2>4, RawIsApart DEF SetRawControl, AtRest, TypeOK
  <2>5. ASSUME MapGUIToRaw
        PROVE  AtRest'
    <3>1. \A c \in Control \ Raw : input'[c] = input[c]
      BY <2>5 DEF MapGUIToRaw
    <3> QED BY <2>5, <3>1, RawIsApart DEF MapGUIToRaw, AtRest
  <2>6. ASSUME NEW level \in Levels, SetLOD(level)
        PROVE  AtRest'
    <3>1. CASE level # lod
      BY <2>6, <3>1, RawIsApart DEF SetLOD, ResetInput, AtRest
    <3>2. CASE level = lod
      BY <2>1, <2>6, <3>2, RegionsAssumption DEF SetLOD, AtRest, LOD
    <3> QED BY <3>1, <3>2
  <2>7. ASSUME CalculateMLControls
        PROVE  AtRest'
    BY <2>1, <2>2, <2>7, MLStageRests, RawIsApart DEF CalculateMLControls
  <2>8. ASSUME NEW o \in MlOps, CalculateMLOperation(o)
        PROVE  AtRest'
    BY <2>1, <2>2, <2>8, MLStageRests, CallsFollowLOD DEF CalculateMLOperation
  <2>9. ASSUME CalculateRBFControls
        PROVE  AtRest'
    BY <2>1, <2>2, <2>9, RBFStageRests, RawIsApart DEF CalculateRBFControls
  <2>10. ASSUME NEW s \in Solvers, CalculateRBFSolver(s)
         PROVE  AtRest'
    BY <2>1, <2>2, <2>10, RBFStageRests, CallsFollowLOD DEF CalculateRBFSolver
  <2>11. ASSUME CalculatePSDControls
         PROVE  AtRest'
    BY <2>1, <2>2, <2>11, PSDStageRests DEF CalculatePSDControls
  <2>12. ASSUME CalculateJoints
         PROVE  AtRest'
    BY <2>1, <2>2, <2>12, TransformStageRests DEF CalculateJoints
  <2>13. ASSUME Calculate
         PROVE  AtRest'
    <3>1. Rested(Computed(input, masks, lod), lod)
      BY <2>1, MLStageRests, RBFStageRests, RawIsApart DEF Computed
    <3>2. Rested(PSDStage(Computed(input, masks, lod), clamp', lod), lod)
      BY <3>1, PSDStageRests
    <3>3. input' = TransformStage(PSDStage(Computed(input, masks, lod), clamp', lod), lod)
          /\ lod' = lod
      BY <2>13 DEF Calculate
    <3> QED BY <2>1, <2>2, <3>2, <3>3, TransformStageRests
  <2> QED
    BY <2>3, <2>4, <2>5, <2>6, <2>7, <2>8, <2>9, <2>10, <2>11, <2>12, <2>13
    DEF Next, vars, SetGUIControl, SetMask, MapRawToGUI, CalculateJointGroup,
        CalculateBlendShapes, CalculateAnimatedMaps
<1> QED BY <1>1, <1>2, TypeCorrect, PTL DEF Spec
-----------------------------------------------------------------------------
(* Two input buffers with the same raw controls and the other controls of    *)
(* the LOD at rest lead to the same outputs.                                 *)

Agree(f, g, S) == \A c \in S : f[c] = g[c]

\* ML controls on which the evaluation of a LOD depends
MlNeeded(l) == Ml \cap (Registered(l) \cup PsdInputsAt(l))

LEMMA SameRestriction ==
  ASSUME NEW f, NEW g, NEW S, Agree(f, g, S)
  PROVE  Restriction(f, S) = Restriction(g, S)
  BY DEF Agree, Restriction

LEMMA OpWritesMl ==
  \A o \in MlOps : \A m, l : OpWrites(o, m, l) \subseteq Ml
  BY MLAssumption DEF OpWrites, Positions

\* A control that every evaluation writes is written, masked or not.
LEMMA AlwaysWrittenIsWritten ==
  ASSUME NEW l, NEW m, NEW c \in AlwaysWritten(l)
  PROVE  \E o \in OpsAt(l) : c \in OpWrites(o, m, l)
  BY DEF AlwaysWritten, OpWrites, Positions, MaskedOff

LEMMA MLStageAgrees ==
  ASSUME NEW l \in LOD, NEW f, NEW g, Agree(f, g, Raw), Rested(f, l), Rested(g, l), NEW m
  PROVE  Agree(MLStage(f, OpsAt(l), m, l), MLStage(g, OpsAt(l), m, l), Raw \cup MlNeeded(l))
<1> DEFINE F == MLStage(f, OpsAt(l), m, l)
           G == MLStage(g, OpsAt(l), m, l)
<1> SUFFICES ASSUME NEW c \in Raw \cup MlNeeded(l)
             PROVE  F[c] = G[c]
  BY DEF Agree
<1>1. c \in Control
  BY DEF MlNeeded, Control
<1>2. CASE \E o \in OpsAt(l) : c \in OpWrites(o, m, l)
  <2> DEFINE o == CHOOSE o \in OpsAt(l) : c \in OpWrites(o, m, l)
  <2>1. o \in MlOps
    BY <1>2, SubsetsAt
  <2>2. F[c] = OpValue(o, c, f, m) /\ G[c] = OpValue(o, c, g, m)
    BY <1>1, <1>2 DEF MLStage
  <2> HIDE DEF o, F, G
  <2>3. Restriction(f, OpInputs[o]) = Restriction(g, OpInputs[o])
    BY <2>1, SameRestriction, MLAssumption DEF Agree
  <2> QED BY <2>2, <2>3 DEF OpValue
<1>3. CASE ~\E o \in OpsAt(l) : c \in OpWrites(o, m, l)
  <2>1. F[c] = f[c] /\ G[c] = g[c]
    BY <1>1, <1>3 DEF MLStage
  <2>2. CASE c \in Raw
    BY <2>1, <2>2 DEF Agree
  <2>3. CASE c \in MlNeeded(l)
    <3>1. c \notin MaybeWritten(l)
      BY <1>3, <2>3, AlwaysWrittenIsWritten, LODAssumption DEF MlNeeded
    <3>2. c \in Ml /\ c \notin Driven(l)
      BY <2>3, <3>1, DrivenBy, RegionsAssumption, RBFAssumption, SubsetsAt
      DEF MlNeeded, PsdOutputsAt
    <3> QED BY <2>1, <3>2 DEF Rested
  <2> QED BY <2>2, <2>3
<1> QED BY <1>2, <1>3

LEMMA RBFStageAgrees ==
  ASSUME NEW l \in LOD, NEW f, NEW g, Agree(f, g, Raw \cup MlNeeded(l)),
         Rested(f, l), Rested(g, l)
  PROVE  Agree(RBFStage(f, SolversAt(l)), RBFStage(g, SolversAt(l)),
               Raw \cup MlNeeded(l) \cup Rbf)
<1> DEFINE F == RBFStage(f, SolversAt(l))
           G == RBFStage(g, SolversAt(l))
<1> SUFFICES ASSUME NEW c \in Raw \cup MlNeeded(l) \cup Rbf
             PROVE  F[c] = G[c]
  BY DEF Agree
<1>1. c \in Control
  BY DEF MlNeeded, Control
<1>2. CASE \E s \in SolversAt(l) : c \in SolverOutputs[s]
  <2> DEFINE s == CHOOSE s \in SolversAt(l) : c \in SolverOutputs[s]
  <2>1. s \in Solvers
    BY <1>2, SubsetsAt
  <2>2. /\ F[c] = Solve(s, c, Restriction(f, SolverInputs[s]))
        /\ G[c] = Solve(s, c, Restriction(g, SolverInputs[s]))
    BY <1>1, <1>2 DEF RBFStage
  <2> HIDE DEF s, F, G
  <2>3. Restriction(f, SolverInputs[s]) = Restriction(g, SolverInputs[s])
    BY <2>1, SameRestriction, RBFAssumption DEF Agree
  <2> QED BY <2>2, <2>3
<1>3. CASE ~\E s \in SolversAt(l) : c \in SolverOutputs[s]
  <2>1. F[c] = f[c] /\ G[c] = g[c]
    BY <1>1, <1>3 DEF RBFStage
  <2>2. CASE c \in Raw \cup MlNeeded(l)
    BY <2>1, <2>2 DEF Agree
  <2>3. CASE c \in Rbf
    <3>1. c \notin MaybeWritten(l)
      BY <2>3, RegionsAssumption, MLAssumption, SubsetsAt DEF MaybeWritten
    <3>2. c \notin Driven(l)
      BY <1>3, <2>3, <3>1, DrivenBy, RegionsAssumption DEF PsdOutputsAt
    <3> QED BY <2>1, <2>3, <3>2 DEF Rested
  <2> QED BY <2>2, <2>3
<1> QED BY <1>2, <1>3

LEMMA PSDStageAgrees ==
  ASSUME NEW l \in LOD, NEW f, NEW g, Agree(f, g, Raw \cup MlNeeded(l) \cup Rbf),
         NEW b, NEW d
  PROVE  Agree(PSDStage(f, ClampStage(f, b, l), l), PSDStage(g, ClampStage(g, d, l), l),
               Raw \cup (Registered(l) \cap Control))
<1> DEFINE F == ClampStage(f, b, l)
           G == ClampStage(g, d, l)
<1>1. ASSUME NEW p \in PsdOutputsAt(l), NEW x \in PsdInputs[p]
      PROVE  F[x] = G[x]
  <2>1. x \in PsdInputsAt(l) /\ x \in Control \ Psd
    BY PSDAssumption DEF PsdInputsAt, PsdOutputsAt
  <2>2. f[x] = g[x]
    BY <2>1 DEF Agree, MlNeeded, Control
  <2> QED BY <2>1, <2>2 DEF ClampStage
<1> HIDE DEF F, G
<1> SUFFICES ASSUME NEW c \in Raw \cup (Registered(l) \cap Control)
             PROVE  PSDStage(f, F, l)[c] = PSDStage(g, G, l)[c]
  BY DEF Agree, F, G
<1>2. c \in Control
  BY DEF Control
<1>3. CASE c \in PsdOutputsAt(l)
  BY <1>1, <1>2, <1>3 DEF PSDStage
<1>4. CASE c \notin PsdOutputsAt(l)
  <2>1. f[c] = g[c]
    BY <1>2, <1>4 DEF Agree, MlNeeded, PsdOutputsAt, Control
  <2> QED BY <1>2, <1>4, <2>1 DEF PSDStage
<1> QED BY <1>3, <1>4

LEMMA TransformStageAgrees ==
  ASSUME NEW l, NEW S \in SUBSET Control, NEW f, NEW g, Agree(f, g, S)
  PROVE  Agree(TransformStage(f, l), TransformStage(g, l), S)
  BY DEF Agree, TransformStage

\* What the stages after the controls read
Read(l) == Raw \cup Registered(l)

LEMMA ReadIsControl == \A l \in LOD : Read(l) \in SUBSET Control
<1> SUFFICES ASSUME NEW l \in LOD
             PROVE  Read(l) \subseteq Control
  OBVIOUS
<1>1. GroupInputs(l) \subseteq Control
  BY JointsAssumption DEF GroupInputs
<1>2. MlJointInputs(l) \subseteq Control
  BY JointsAssumption DEF Control
<1>3. BlendShapeInputs(l) \cup AnimatedMapInputs(l) \subseteq Control
  BY OutputsAssumption
<1> QED BY <1>1, <1>2, <1>3 DEF Read, Registered, Control

LEMMA GroupsStageAgrees ==
  ASSUME NEW l \in LOD, NEW f, NEW g, Agree(f, g, GroupInputs(l))
  PROVE  GroupsStage(f, l) = GroupsStage(g, l)
<1>1. ASSUME NEW h \in Groups, NEW out
      PROVE  GroupStage(f, out, h, l) = GroupStage(g, out, h, l)
  <2>1. Agree(f, g, GroupColumns[h][l])
    BY DEF Agree, GroupInputs
  <2>2. Restriction(f, GroupColumns[h][l]) = Restriction(g, GroupColumns[h][l])
    BY <2>1, SameRestriction
  <2> QED BY <2>2 DEF GroupStage
<1> SUFFICES ASSUME NEW a \in Attribute
             PROVE  GroupsStage(f, l)[a] = GroupsStage(g, l)[a]
  BY DEF GroupsStage
<1>2. CASE \E h \in Groups : a \in GroupWrites(h, l)
  <2> DEFINE h == CHOOSE h \in Groups : a \in GroupWrites(h, l)
  <2>1. h \in Groups
    BY <1>2
  <2>2. /\ GroupsStage(f, l)[a] = GroupStage(f, NeutralJoints, h, l)[a]
        /\ GroupsStage(g, l)[a] = GroupStage(g, NeutralJoints, h, l)[a]
    BY <1>2 DEF GroupsStage
  <2> HIDE DEF h
  <2> QED BY <1>1, <2>1, <2>2
<1>3. CASE ~\E h \in Groups : a \in GroupWrites(h, l)
  BY <1>3 DEF GroupsStage
<1> QED BY <1>2, <1>3

LEMMA JointsStageAgrees ==
  ASSUME NEW l \in LOD, NEW f, NEW g, Agree(f, g, Read(l))
  PROVE  JointsStage(f, l) = JointsStage(g, l)
<1>1. GroupsStage(f, l) = GroupsStage(g, l)
  BY GroupsStageAgrees DEF Agree, Read, Registered
<1>2. Restriction(f, Raw) = Restriction(g, Raw)
  BY SameRestriction DEF Agree, Read
<1>3. \A out : TwistStage(f, out) = TwistStage(g, out)
  BY <1>2 DEF TwistStage
<1> DEFINE F == TransformStage(f, l)
           G == TransformStage(g, l)
<1>4. Agree(F, G, Read(l))
  BY TransformStageAgrees, ReadIsControl
<1> HIDE DEF F, G
<1>5. ASSUME NEW a \in DOMAIN MlJointSource[l]
      PROVE  Restriction(F, MlJointSource[l][a]) = Restriction(G, MlJointSource[l][a])
  <2>1. MlJointSource[l][a] \subseteq Read(l)
    BY DEF Read, Registered, MlJointInputs
  <2> QED BY <1>4, <2>1, SameRestriction DEF Agree
<1>6. \A out : MlJointStage(F, out, l) = MlJointStage(G, out, l)
  BY <1>5 DEF MlJointStage
<1> QED BY <1>1, <1>3, <1>6 DEF JointsStage, F, G

LEMMA OutputStagesAgree ==
  ASSUME NEW l \in LOD, NEW f, NEW g, Agree(f, g, Read(l))
  PROVE  /\ BlendShapeStage(f, l) = BlendShapeStage(g, l)
         /\ AnimatedMapStage(f, l) = AnimatedMapStage(g, l)
<1>1. /\ Restriction(f, AnimatedMapInputs(l)) = Restriction(g, AnimatedMapInputs(l))
      /\ Restriction(f, BlendShapeInputs(l)) = Restriction(g, BlendShapeInputs(l))
  BY SameRestriction DEF Agree, Read, Registered
<1> QED BY <1>1 DEF AnimatedMapStage, BlendShapeStage

\* calculate() is a complete evaluation of the raw controls, the masks and the
\* LOD, provided that callers run only operations and solvers of the LOD.
THEOREM CompleteEvaluation ==
  ASSUME CallsFollowLOD
  PROVE  Spec => CalculateIsComplete
<1>1. TypeOK /\ AtRest /\ [Next]_vars => [Calculate => outputs' = FreshOutputs]_vars
  <2> SUFFICES ASSUME TypeOK, AtRest, Calculate
               PROVE  outputs' = FreshOutputs
    BY DEF vars
  <2> DEFINE computed == Computed(input, masks, lod)
             fresh == Computed(FreshInput, masks, lod)
             driven == PSDStage(computed, clamp', lod)
  <2>1. /\ lod \in LOD
        /\ Rested(input, lod)
        /\ Rested(FreshInput, lod)
        /\ Agree(input, FreshInput, Raw)
    BY RawIsApart DEF TypeOK, AtRest, Rested, FreshInput, Agree, Control
  <2> DEFINE F == MLStage(input, OpsAt(lod), masks, lod)
             G == MLStage(FreshInput, OpsAt(lod), masks, lod)
  <2>2. Rested(F, lod) /\ Rested(G, lod) /\ Agree(F, G, Raw \cup MlNeeded(lod))
    BY <2>1, MLStageRests, MLStageAgrees, RawIsApart
  <2>3. computed = RBFStage(F, SolversAt(lod)) /\ fresh = RBFStage(G, SolversAt(lod))
    BY DEF Computed
  <2> HIDE DEF F, G, computed, fresh
  <2>4. Agree(computed, fresh, Raw \cup MlNeeded(lod) \cup Rbf)
    BY <2>1, <2>2, <2>3, RBFStageAgrees
  <2>5. driven = PSDStage(computed, ClampStage(computed, clamp, lod), lod)
    BY DEF Calculate, computed
  <2>6. FreshDriven = PSDStage(fresh, ClampStage(fresh, NoClamp, lod), lod)
    BY DEF FreshDriven, fresh
  <2> HIDE DEF driven
  <2>7. Agree(driven, FreshDriven, Raw \cup (Registered(lod) \cap Control))
    BY <2>1, <2>4, <2>5, <2>6, PSDStageAgrees
  <2>8. Agree(driven, FreshDriven, Read(lod))
    BY <2>1, <2>7, ReadIsControl DEF Agree, Read
  <2>9. Agree(TransformStage(driven, lod), TransformStage(FreshDriven, lod), Read(lod))
    BY <2>1, <2>8, TransformStageAgrees, ReadIsControl
  <2>10. /\ joints' = JointsStage(driven, lod)
         /\ blendShapes' = BlendShapeStage(TransformStage(driven, lod), lod)
         /\ animatedMaps' = AnimatedMapStage(TransformStage(driven, lod), lod)
    BY DEF Calculate, driven, computed
  <2>11. JointsStage(driven, lod) = JointsStage(FreshDriven, lod)
    BY <2>1, <2>8, JointsStageAgrees
  <2>12. outputs' = FreshOutputs
    BY <2>1, <2>9, <2>10, <2>11, OutputStagesAgree DEF outputs, FreshOutputs
  <2> QED BY <2>12
<1> QED BY <1>1, TypeCorrect, DrivenAtRest, PTL DEF Spec, CalculateIsComplete
-----------------------------------------------------------------------------
(* Outputs that a LOD does not compute                                       *)

LEMMA GroupStageKeeps ==
  ASSUME NEW in, NEW out, NEW g, NEW l, NEW a \in Attribute \ GroupWrites(g, l)
  PROVE  GroupStage(in, out, g, l)[a] = out[a]
<1>1. a \notin GroupRows[g][l]
  BY DEF GroupWrites
<1>2. ~(QuaternionOutput /\ a[2] \in Rotation /\ a[1] \in RotationJoints(g, l))
  BY DEF GroupWrites, Attribute
<1> QED BY <1>1, <1>2 DEF GroupStage

LEMMA JointsStageKeeps ==
  ASSUME NEW in, NEW l, NEW a \in Attribute \ JointWrites(l)
  PROVE  JointsStage(in, l)[a] = NeutralJoints[a]
<1>1. /\ a \notin TwistAttributes
      /\ a \notin DOMAIN MlJointSource[l]
      /\ \A g \in Groups : a \notin GroupWrites(g, l)
  BY DEF JointWrites
<1>2. GroupsStage(in, l)[a] = NeutralJoints[a]
  BY <1>1 DEF GroupsStage
<1>3. TwistStage(in, GroupsStage(in, l))[a] = NeutralJoints[a]
  BY <1>1, <1>2 DEF TwistStage
<1> QED BY <1>1, <1>3 DEF JointsStage, MlJointStage

LEMMA BlendShapeStageKeeps ==
  ASSUME NEW in, NEW l,
         NEW b \in BlendShapes \ {BlendShapeRows[i].out : i \in 1 .. BlendShapeLODs[l]}
  PROVE  BlendShapeStage(in, l)[b] = 0
  BY DEF BlendShapeStage

LEMMA AnimatedMapStageKeeps ==
  ASSUME NEW in, NEW l,
         NEW m \in AnimatedMaps \ {AnimatedMapTable[i].out : i \in 1 .. AnimatedMapLODs[l]}
  PROVE  AnimatedMapStage(in, l)[m] = 0
<1> DEFINE inputs == Restriction(in, AnimatedMapInputs(l))
           rows == Contributing(AnimatedMapTable, AnimatedMapLODs[l], inputs)
           summed == {i \in rows : AnimatedMapTable[i].out = m}
           total == SumOfRows(AnimatedMapTable, summed, inputs)
<1>1. summed = {}
  BY DEF Contributing
<1>2. AnimatedMapStage(in, l)[m] = Clamp01(total)
  BY DEF AnimatedMapStage, CalculateForward
<1>3. total = 0
  BY <1>1 DEF SumOfRows, MapThenSumSet, MapThenFoldSet
<1> HIDE DEF total
<1> QED BY <1>2, <1>3 DEF Clamp01

\* Outputs that the current LOD does not compute are neutral.
THEOREM OffLODNeutral == Spec => []OffLODOutputsNeutral
<1>1. Init => OffLODOutputsNeutral
  BY DEF Init, OffLODOutputsNeutral
<1>2. TypeOK /\ OffLODOutputsNeutral /\ [Next]_vars => OffLODOutputsNeutral'
  <2> SUFFICES ASSUME TypeOK, OffLODOutputsNeutral, [Next]_vars
               PROVE  OffLODOutputsNeutral'
    OBVIOUS
  <2> USE DEF OffLODOutputsNeutral, outputs
  <2>1. ASSUME UNCHANGED <<lod, outputs>>
        PROVE  OffLODOutputsNeutral'
    BY <2>1
  <2>2. ASSUME NEW level \in Levels, SetLOD(level)
        PROVE  OffLODOutputsNeutral'
    <3>1. CASE level # lod
      BY <2>2, <3>1 DEF SetLOD
    <3>2. CASE level = lod
      BY <2>2, <3>2, RegionsAssumption DEF SetLOD, TypeOK, LOD
    <3> QED BY <3>1, <3>2
  <2>3. ASSUME CalculateJoints
        PROVE  OffLODOutputsNeutral'
    BY <2>3, JointsStageKeeps DEF CalculateJoints
  <2>4. ASSUME NEW g \in Groups, CalculateJointGroup(g)
        PROVE  OffLODOutputsNeutral'
    <3>1. ASSUME NEW a \in Attribute \ JointWrites(lod)
          PROVE  joints'[a] = NeutralJoints[a]
      <4>1. a \notin GroupWrites(g, lod)
        BY <3>1 DEF JointWrites
      <4> QED BY <2>4, <4>1, GroupStageKeeps DEF CalculateJointGroup
    <3> QED BY <2>4, <3>1 DEF CalculateJointGroup
  <2>5. ASSUME CalculateBlendShapes
        PROVE  OffLODOutputsNeutral'
    BY <2>5, BlendShapeStageKeeps DEF CalculateBlendShapes
  <2>6. ASSUME CalculateAnimatedMaps
        PROVE  OffLODOutputsNeutral'
    BY <2>6, AnimatedMapStageKeeps DEF CalculateAnimatedMaps
  <2>7. ASSUME Calculate
        PROVE  OffLODOutputsNeutral'
    BY <2>7, JointsStageKeeps, BlendShapeStageKeeps, AnimatedMapStageKeeps DEF Calculate
  <2> QED
    BY <2>1, <2>2, <2>3, <2>4, <2>5, <2>6, <2>7
    DEF Next, vars, SetGUIControl, SetRawControl, SetMask, MapGUIToRaw, MapRawToGUI,
        CalculateMLControls, CalculateMLOperation, CalculateRBFControls,
        CalculateRBFSolver, CalculatePSDControls
<1> QED BY <1>1, <1>2, TypeCorrect, PTL DEF Spec

\* With Euler angles, and joints of their own for the twist and swing and the ML
\* joints stages, calculating the groups one by one gives what calculating all
\* the joints gives.  (Quaternions refute it: see RigPipelineQuaternions.cfg.)
THEOREM GroupsAloneSuffice ==
  ASSUME ~QuaternionOutput,
         \A g \in Groups, l \in LOD :
             GroupRows[g][l] \cap (TwistAttributes \cup DOMAIN MlJointSource[l]) = {}
  PROVE  Spec => GroupMatchesStage
<1>1. TypeOK /\ [Next]_vars =>
        [\A g \in Groups : CalculateJointGroup(g) =>
            \A a \in GroupWrites(g, lod) : joints'[a] = JointsStage(input, lod)[a]]_vars
  <2> SUFFICES ASSUME TypeOK, NEW g \in Groups, CalculateJointGroup(g),
                      NEW a \in GroupWrites(g, lod)
               PROVE  joints'[a] = JointsStage(input, lod)[a]
    OBVIOUS
  <2> DEFINE value == Linear(g, a, Restriction(input, GroupColumns[g][lod]))
  <2>1. lod \in LOD /\ a \in GroupRows[g][lod] /\ a \in Attribute
    BY JointsAssumption DEF TypeOK, GroupWrites
  <2>2. \A out : GroupStage(input, out, g, lod)[a] = value
    BY <2>1 DEF GroupStage
  <2>3. joints'[a] = value
    BY <2>2 DEF CalculateJointGroup
  <2>4. \A h \in Groups : a \in GroupWrites(h, lod) => h = g
    BY <2>1, JointsAssumption
  <2>5. GroupsStage(input, lod)[a] = value
    BY <2>1, <2>2, <2>4 DEF GroupsStage
  <2> HIDE DEF value
  <2>6. TwistStage(input, GroupsStage(input, lod))[a] = value
    BY <2>1, <2>5 DEF TwistStage
  <2>7. JointsStage(input, lod)[a] = value
    BY <2>1, <2>6 DEF JointsStage, MlJointStage
  <2> QED BY <2>3, <2>7
<1> QED BY <1>1, TypeCorrect, PTL DEF Spec, GroupMatchesStage
=============================================================================
