------------------------------ MODULE DNALayers ------------------------------
(***************************************************************************)
(* The layers of a DNA document: what each holds, what one call of a writer *)
(* can make of it, what the getters of a reader show of it, how Writer      *)
(* copies it getter by getter, and how an archive loads it.                 *)
(*                                                                         *)
(* A field is an array (of numbers or characters, <<>> when it is empty), a *)
(* scalar, a list of arrays, a table of rows, or a LOD mapping.             *)
(***************************************************************************)
EXTENDS LODMapping

CONSTANTS
    Rows,           \* the subscripts that calls use
    LODs,           \* the LODs that calls use
    IndexLists,     \* the index lists that calls pass
    Keys,           \* of the meta data
    ArrayValues,    \* what calls assign to an array, <<>> included
    ScalarValues    \* what calls assign to a scalar

ASSUME CallAssumption ==
    /\ Rows \subseteq Nat /\ LODs \subseteq Nat
    /\ IndexLists \subseteq Seq(Nat) /\ <<>> \in ArrayValues

\* f, and g where f is not defined
f ++ g == [x \in DOMAIN f \cup DOMAIN g |-> IF x \in DOMAIN f THEN f[x] ELSE g[x]]

\* A record of the given fields
HasFields(r, fields) == r = [f \in fields |-> r[f]]
IsMapping(m) == HasFields(m, {"lods", "indices"})

Fresh(arrays, scalars) == [f \in arrays |-> <<>>] ++ [f \in scalars |-> 0]

\* target[index] of a container that is grown when it is too short
GetAt(s, i, new) == Nth(Grown(s, i + 1, new), i)
SetAt(s, i, x, new) == [Grown(s, i + 1, new) EXCEPT ![i + 1] = x]

\* What a getter shows of element i: new when there is none.
ShownAt(s, i, new) == IF i < Len(s) THEN s[i + 1] ELSE new
ShownEach(s, shown(_, _)) == [i \in 1 .. Len(s) |-> shown(s, i - 1)]

\* The first n elements of s, as a getter shows them: new for those it lacks.
Padded(s, n, new) == [i \in 1 .. n |-> IF i <= Len(s) THEN s[i] ELSE new]

\* s over t, element by element
SetEach(t, s) == [i \in 1 .. (IF Len(s) > Len(t) THEN Len(s) ELSE Len(t)) |->
                     IF i <= Len(s) THEN s[i] ELSE t[i]]

\* s without the elements new at its end
Trimmed(s, new) ==
    SubSeq(s, 1, Cardinality({i \in 1 .. Len(s) : \E j \in i .. Len(s) : s[j] # new}))

Deleted(rows, i) == KeepPositions(rows, Positions(rows) \ {i})
-----------------------------------------------------------------------------
(* What one call makes of a field: each is the set of the results.          *)

In(record, field, results) == {[record EXCEPT ![field] = x] : x \in results}

Assigned(record, arrays, scalars) ==
    (UNION {In(record, f, ArrayValues) : f \in arrays})
        \cup (UNION {In(record, f, ScalarValues) : f \in scalars})

ListCalls(list) == {<<>>} \cup {SetAt(list, i, x, <<>>) : i \in Rows, x \in ArrayValues}

RowCalls(rows, new, arrays, scalars) ==
    {<<>>} \cup UNION {{SetAt(rows, i, r, new) :
                           r \in Assigned(GetAt(rows, i, new), arrays, scalars)} : i \in Rows}

MappingCalls(m) ==
    {[m EXCEPT !.indices = <<>>], [m EXCEPT !.lods = <<>>]}
        \cup {AddIndices(ClearIndices(m, i), i, s) : i \in Rows, s \in IndexLists}
        \cup {AssociateLODWithIndices(m, l, i) : l \in LODs, i \in Rows}
-----------------------------------------------------------------------------
(* How an archive loads an array: an empty one leaves what is there.        *)

Loaded(old, new, arrays) ==
    [f \in DOMAIN new |-> IF f \in arrays /\ new[f] = <<>> THEN old[f] ELSE new[f]]

LoadedMapping(old, new) == Loaded(old, new, {"lods"})

LoadedMappings(old, new, mappings) ==
    [f \in mappings |-> LoadedMapping(old[f], new[f])] ++ new

\* The lists that the LODs of a document have; equal lists are written once.
IndicesByLOD(m, lodCount) == [l \in 1 .. lodCount |-> GetIndices(m, l - 1)]

\* Mutant: every LOD gets the list of its own number.
CopyLODIndicesUnshared(m, lists) ==
    FoldLeft(LAMBDA n, l : AssociateLODWithIndices(n, l - 1, l - 1),
             FoldLeft(LAMBDA n, i : IF \E j \in 1 .. i - 1 : lists[j] = lists[i] THEN n
                                    ELSE AddIndices(ClearIndices(n, i - 1), i - 1, lists[i]),
                      m, [i \in 1 .. Len(lists) |-> i]),
             [l \in 1 .. Len(lists) |-> l])

CopyLODIndices(m, lists) ==
    LET distinct == FoldLeft(LAMBDA d, s : IF Contains(d, s) THEN d ELSE Append(d, s), <<>>, lists)
        added == FoldLeft(LAMBDA n, i : AddIndices(ClearIndices(n, i - 1), i - 1, distinct[i]),
                          m, [i \in 1 .. Len(distinct) |-> i])
        number(list) == (CHOOSE i \in 1 .. Len(distinct) : distinct[i] = list) - 1
    IN  FoldLeft(LAMBDA n, l : AssociateLODWithIndices(n, l - 1, number(lists[l])),
                 added, [l \in 1 .. Len(lists) |-> l])

CanShow(m, lodCount) == \A l \in 0 .. lodCount - 1 : l < Len(m.lods) => InTable(m, l)
-----------------------------------------------------------------------------
(* desc and dsce                                                            *)

DescriptorArrays == {"name", "complexity", "dbName"}
DescriptorScalars == {"archetype", "gender", "age", "translationUnit", "rotationUnit",
                      "coordinateSystem", "maxLOD"}

EmptyDescriptor ==
    Fresh(DescriptorArrays \cup {"metaData"}, DescriptorScalars \cup {"lodCount"})

\* An empty value stands for the null pointer, which removes the key.
SetMetaData(data, key, value) ==
    IF value = <<>> THEN SelectSeq(data, LAMBDA d : d.key # key)
    ELSE IF \E i \in 1 .. Len(data) : data[i].key = key
         THEN [i \in 1 .. Len(data) |->
                  IF data[i].key = key THEN [key |-> key, value |-> value] ELSE data[i]]
         ELSE Append(data, [key |-> key, value |-> value])

DescriptorCalls(desc) ==
    Assigned(desc, DescriptorArrays, DescriptorScalars)
        \cup In(desc, "metaData", {<<>>} \cup {SetMetaData(desc.metaData, k, v) :
                                                  k \in Keys, v \in ArrayValues})
        \cup In(desc, "lodCount", {l + 1 : l \in LODs} \cup {0})

\* Keys are shown by number, values by key.
MetaDataValue(data, key) ==
    LET with == SelectSeq(data, LAMBDA d : d.key = key)
    IN  IF with = <<>> THEN <<>> ELSE with[1].value

ShownDescriptor(desc) ==
    [desc EXCEPT !.metaData =
        [i \in 1 .. Len(@) |-> [key |-> @[i].key, value |-> MetaDataValue(@, @[i].key)]]]

CopyDescriptor(old, desc) ==
    [desc EXCEPT !.metaData =
        FoldLeft(LAMBDA data, d : SetMetaData(data, d.key, d.value), <<>>, ShownDescriptor(desc).metaData)]

DescriptorExtScalars == {"rotationSequence", "rotationSign", "faceWindingOrder"}
EmptyDescriptorExt == Fresh({}, DescriptorExtScalars)
DescriptorExtCalls(dsce) == Assigned(dsce, {}, DescriptorExtScalars)

\* The winding order is part of the layer from version 2.8 on.
LoadedDescriptorExt(old, new, version) ==
    IF version \in 21 .. 27 THEN [new EXCEPT !.faceWindingOrder = old.faceWindingOrder] ELSE new
-----------------------------------------------------------------------------
(* defn                                                                     *)

NameLists == {"guiControlNames", "rawControlNames", "jointNames", "blendShapeChannelNames",
              "animatedMapNames", "meshNames"}
DefinitionMappings == {"lodJointMapping", "lodBlendShapeMapping", "lodAnimatedMapMapping",
                       "lodMeshMapping"}
JointArrays == {"jointHierarchy", "neutralJointTranslations", "neutralJointRotations"}
DefinitionArrays == JointArrays \cup {"meshBlendShapeChannelMapping"}
NoParent == 65535

EmptyDefinition ==
    Fresh(NameLists \cup DefinitionArrays, {}) ++ [f \in DefinitionMappings |-> EmptyMapping]

DefinitionCalls(defn) ==
    Assigned(defn, JointArrays, {})
        \cup (UNION {In(defn, f, ListCalls(defn[f])) : f \in NameLists})
        \cup (UNION {In(defn, f, MappingCalls(defn[f])) : f \in DefinitionMappings})
        \cup In(defn, "meshBlendShapeChannelMapping",
                {<<>>} \cup {SetAt(defn.meshBlendShapeChannelMapping, i, x, 0) :
                                i \in Rows, x \in ScalarValues})

ShownJoints(defn) ==
    [f \in JointArrays |-> Padded(defn[f], Len(defn.jointNames),
                                  IF f = "jointHierarchy" THEN NoParent ELSE 0)]

ShownDefinition(defn, lodCount) ==
    ShownJoints(defn) ++ [f \in DefinitionMappings |-> IndicesByLOD(defn[f], lodCount)] ++ defn

CopyDefinition(old, defn, lodCount) ==
    [f \in NameLists |-> SetEach(<<>>, defn[f])]
        ++ [f \in DefinitionMappings |->
               CopyLODIndices([lods |-> <<>>, indices |-> <<>>], IndicesByLOD(defn[f], lodCount))]
        ++ [meshBlendShapeChannelMapping |-> SetEach(<<>>, defn.meshBlendShapeChannelMapping)]
        ++ ShownJoints(defn)

LoadedDefinition(old, new) ==
    LoadedMappings(old, Loaded(old, new, DefinitionArrays), DefinitionMappings)
-----------------------------------------------------------------------------
(* bhvr                                                                     *)

BehaviorArrays ==
    {"guiToRawInputIndices", "guiToRawOutputIndices", "guiToRawFromValues", "guiToRawToValues",
     "guiToRawSlopeValues", "guiToRawCutValues", "psdRowIndices", "psdColumnIndices", "psdValues",
     "blendShapeChannelLODs", "blendShapeChannelInputIndices", "blendShapeChannelOutputIndices",
     "animatedMapLODs", "animatedMapInputIndices", "animatedMapOutputIndices",
     "animatedMapFromValues", "animatedMapToValues", "animatedMapSlopeValues", "animatedMapCutValues"}
BehaviorScalars == {"psdCount", "jointRowCount", "jointColumnCount"}
JointGroupArrays == {"lods", "inputIndices", "outputIndices", "values", "jointIndices"}

EmptyJointGroup == Fresh(JointGroupArrays, {})
EmptyBehavior == Fresh(BehaviorArrays \cup {"jointGroups"}, BehaviorScalars)

BehaviorCalls(bhvr) ==
    Assigned(bhvr, BehaviorArrays, BehaviorScalars)
        \cup In(bhvr, "jointGroups", RowCalls(bhvr.jointGroups, EmptyJointGroup, JointGroupArrays, {})
                                         \cup {Deleted(bhvr.jointGroups, i) : i \in Rows})

ShownJointGroup(groups, i) == ShownAt(groups, i, EmptyJointGroup)
ShownBehavior(bhvr) == [bhvr EXCEPT !.jointGroups = ShownEach(@, ShownJointGroup)]

CopyBehavior(old, bhvr) ==
    [f \in BehaviorArrays \cup BehaviorScalars |-> bhvr[f]]
        ++ [jointGroups |-> SetEach(<<>>, ShownBehavior(bhvr).jointGroups)]
-----------------------------------------------------------------------------
(* geom                                                                     *)

MeshArrays == {"positions", "textureCoordinates", "normals", "layouts"}
MeshScalars == {"maximumInfluencePerVertex"}
SkinWeightsArrays == {"weights", "jointIndices"}
TargetArrays == {"deltas", "vertexIndices"}
TargetScalars == {"blendShapeChannelIndex"}

EmptySkinWeights == Fresh(SkinWeightsArrays, {})
EmptyTarget == Fresh(TargetArrays, TargetScalars)
EmptyMesh == Fresh(MeshArrays \cup {"faces", "skinWeights", "blendShapeTargets"}, MeshScalars)
EmptyGeometry == [meshes |-> <<>>]

MeshCalls(mesh) ==
    Assigned(mesh, MeshArrays, MeshScalars)
        \cup In(mesh, "faces", ListCalls(mesh.faces))
        \cup In(mesh, "skinWeights", RowCalls(mesh.skinWeights, EmptySkinWeights, SkinWeightsArrays, {}))
        \cup In(mesh, "blendShapeTargets",
                RowCalls(mesh.blendShapeTargets, EmptyTarget, TargetArrays, TargetScalars))

GeometryCalls(geom) ==
    In(geom, "meshes",
       {<<>>} \cup {Deleted(geom.meshes, i) : i \in Rows}
           \cup UNION {{SetAt(geom.meshes, i, mesh, EmptyMesh) :
                           mesh \in MeshCalls(GetAt(geom.meshes, i, EmptyMesh))} : i \in Rows})

WithoutTargets(mesh) == [mesh EXCEPT !.blendShapeTargets = <<>>]

ShownFace(mesh, i) == ShownAt(mesh.faces, i, <<>>)
ShownSkinWeights(mesh, i) == ShownAt(mesh.skinWeights, i, EmptySkinWeights)
ShownBlendShapeTarget(mesh, i) == ShownAt(mesh.blendShapeTargets, i, EmptyTarget)

\* There are as many meshes as names of meshes.
ShownMesh(geom, i) ==
    LET mesh == ShownAt(geom.meshes, i, EmptyMesh)
    IN  [mesh EXCEPT
            !.faces = [f \in 1 .. Len(@) |-> ShownFace(mesh, f - 1)],
            !.skinWeights = [v \in 1 .. Len(@) |-> ShownSkinWeights(mesh, v - 1)],
            !.blendShapeTargets = [t \in 1 .. Len(@) |-> ShownBlendShapeTarget(mesh, t - 1)]]

ShownGeometry(geom, meshCount) == [meshes |-> [i \in 1 .. meshCount |-> ShownMesh(geom, i - 1)]]

HasGeometry(geom, meshCount) ==
    \E i \in 1 .. meshCount :
        LET mesh == ShownGeometry(geom, meshCount).meshes[i]
        IN  mesh.skinWeights # <<>> \/ \E f \in MeshArrays : mesh[f] # <<>>

CopyGeometry(old, geom, meshCount) ==
    [meshes |-> IF ~ HasGeometry(geom, meshCount) THEN <<>>
                ELSE SetEach(<<>>, [i \in 1 .. meshCount |->
                                      WithoutTargets(ShownGeometry(geom, meshCount).meshes[i])])]

\* Meshes are created up to the last one that has targets.
CopyBlendShapeTargets(old, geom, meshCount) ==
    LET shown == ShownGeometry(geom, meshCount).meshes
        with == {i \in 1 .. meshCount : shown[i].blendShapeTargets # <<>>}
        meshes == Grown(old.meshes, Cardinality({i \in 1 .. meshCount : \E j \in with : i <= j}), EmptyMesh)
    IN  [meshes |-> [i \in 1 .. Len(meshes) |->
            IF i \notin with THEN meshes[i]
            ELSE [meshes[i] EXCEPT !.blendShapeTargets = SetEach(@, shown[i].blendShapeTargets)]]]
-----------------------------------------------------------------------------
(* mlbh                                                                     *)

NetArrays == {"inputIndices", "outputIndices"}
NetLayerArrays == {"activationFunctionParameters", "biases", "weights"}
NetLayerScalars == {"activationFunction"}

EmptyNetLayer == Fresh(NetLayerArrays, NetLayerScalars)
EmptyNet == Fresh(NetArrays \cup {"layers"}, {})
EmptyMachineLearnedBehavior ==
    Fresh({"mlControlNames", "regionNames", "regionIndices", "neuralNetworks"}, {})
        ++ [lodNeuralNetworkMapping |-> EmptyMapping]

NetCalls(net) ==
    Assigned(net, NetArrays, {})
        \cup In(net, "layers", RowCalls(net.layers, EmptyNetLayer, NetLayerArrays, NetLayerScalars))

MachineLearnedBehaviorCalls(mlbh) ==
    LET perMesh(lists) == {<<>>} \cup UNION {{SetAt(lists, i, list, <<>>) :
                                                 list \in ListCalls(GetAt(lists, i, <<>>))} : i \in Rows}
    IN  In(mlbh, "mlControlNames", ListCalls(mlbh.mlControlNames))
            \cup In(mlbh, "lodNeuralNetworkMapping", MappingCalls(mlbh.lodNeuralNetworkMapping))
            \cup In(mlbh, "regionNames", perMesh(mlbh.regionNames))
            \cup In(mlbh, "regionIndices", perMesh(mlbh.regionIndices))
            \cup In(mlbh, "neuralNetworks",
                    {<<>>} \cup {Deleted(mlbh.neuralNetworks, i) : i \in Rows}
                        \cup UNION {{SetAt(mlbh.neuralNetworks, i, net, EmptyNet) :
                                net \in NetCalls(GetAt(mlbh.neuralNetworks, i, EmptyNet))} : i \in Rows})

ShownNetLayer(layers, i) == ShownAt(layers, i, EmptyNetLayer)
ShownNet(nets, i) == [ShownAt(nets, i, EmptyNet) EXCEPT !.layers = ShownEach(@, ShownNetLayer)]

\* The regions of a mesh are those that have a name.
ShownRegionIndices(mlbh, meshCount) ==
    [i \in 1 .. meshCount |-> Padded(Padded(mlbh.regionIndices, meshCount, <<>>)[i],
                                     Len(Padded(mlbh.regionNames, meshCount, <<>>)[i]), <<>>)]

ShownMachineLearnedBehavior(mlbh, lodCount, meshCount) ==
    [mlbh EXCEPT !.lodNeuralNetworkMapping = IndicesByLOD(@, lodCount),
                 !.regionNames = Padded(@, meshCount, <<>>),
                 !.regionIndices = ShownRegionIndices(mlbh, meshCount),
                 !.neuralNetworks = ShownEach(@, ShownNet)]

HasMachineLearnedBehavior(mlbh) == mlbh.mlControlNames # <<>> \/ mlbh.neuralNetworks # <<>>

\* Lists are created for the meshes up to the last one that has regions.
RegionsCopied(shown, regionNames) ==
    LET with == {j \in 1 .. Len(regionNames) : regionNames[j] # <<>>}
    IN  SubSeq(shown, 1, Cardinality({i \in 1 .. Len(shown) : \E j \in with : i <= j}))

\* The mapping of the LODs themselves is not cleared.
CopyMachineLearnedBehavior(old, mlbh, lodCount, meshCount) ==
    LET cleared == [EmptyMachineLearnedBehavior EXCEPT
                       !.lodNeuralNetworkMapping = [old.lodNeuralNetworkMapping EXCEPT !.indices = <<>>]]
        shown == ShownMachineLearnedBehavior(mlbh, lodCount, meshCount)
    IN  IF ~ HasMachineLearnedBehavior(mlbh) THEN cleared
        ELSE [cleared EXCEPT
                !.mlControlNames = SetEach(@, shown.mlControlNames),
                !.lodNeuralNetworkMapping = CopyLODIndices(@, shown.lodNeuralNetworkMapping),
                !.regionNames = SetEach(@, RegionsCopied(shown.regionNames, shown.regionNames)),
                !.regionIndices = SetEach(@, RegionsCopied(shown.regionIndices, shown.regionNames)),
                !.neuralNetworks = SetEach(@, shown.neuralNetworks)]
-----------------------------------------------------------------------------
(* rbfb and rbfe                                                            *)

SolverArrays == {"name", "rawControlIndices", "poseIndices", "rawControlValues"}
SolverScalars == {"solverType", "radius", "automaticRadius", "weightThreshold",
                  "distanceMethod", "normalizeMethod", "functionType", "twistAxis"}
PoseExtArrays == {"inputControlIndices", "outputControlIndices", "outputControlWeights"}

EmptySolver == Fresh(SolverArrays, SolverScalars)
EmptyPose == [name |-> <<>>, scale |-> 1]
EmptyRBFBehavior == Fresh({"solvers", "poses"}, {}) ++ [lodSolverMapping |-> EmptyMapping]
EmptyPoseExt == Fresh(PoseExtArrays, {})
EmptyRBFBehaviorExt == Fresh({"poseControlNames", "poses"}, {})

RBFBehaviorCalls(rbfb) ==
    In(rbfb, "lodSolverMapping", MappingCalls(rbfb.lodSolverMapping))
        \cup In(rbfb, "solvers", RowCalls(rbfb.solvers, EmptySolver, SolverArrays, SolverScalars))
        \cup In(rbfb, "poses", RowCalls(rbfb.poses, EmptyPose, {"name"}, {"scale"}) \ {<<>>})

RBFBehaviorExtCalls(rbfe) ==
    In(rbfe, "poseControlNames", ListCalls(rbfe.poseControlNames))
        \cup In(rbfe, "poses", RowCalls(rbfe.poses, EmptyPoseExt, PoseExtArrays, {}) \ {<<>>})

ShownSolver(solvers, i) == ShownAt(solvers, i, EmptySolver)
ShownPose(poses, i) == ShownAt(poses, i, [name |-> <<>>, scale |-> 0])
ShownRBFBehavior(rbfb, lodCount) ==
    [rbfb EXCEPT !.lodSolverMapping = IndicesByLOD(@, lodCount),
                 !.solvers = ShownEach(@, ShownSolver),
                 !.poses = ShownEach(@, ShownPose)]

\* There are as many poses as rbfb has.
ShownPoseExt(poses, i) == ShownAt(poses, i, EmptyPoseExt)
ShownRBFBehaviorExt(rbfe, rbfb) ==
    [rbfe EXCEPT !.poses = [i \in 1 .. Len(rbfb.poses) |-> ShownPoseExt(@, i - 1)]]

HasRBFBehavior(rbfb) == rbfb.poses # <<>> \/ rbfb.solvers # <<>>

\* The mapping of the LODs is not cleared, nor are the names of the controls.
CopyRBFBehavior(old, rbfb, lodCount) ==
    LET cleared == [EmptyRBFBehavior EXCEPT
                       !.lodSolverMapping = [old.lodSolverMapping EXCEPT !.indices = <<>>]]
    IN  IF ~ HasRBFBehavior(rbfb) THEN cleared
        ELSE [cleared EXCEPT
                !.lodSolverMapping = CopyLODIndices(@, IndicesByLOD(rbfb.lodSolverMapping, lodCount)),
                !.solvers = SetEach(@, ShownRBFBehavior(rbfb, lodCount).solvers),
                !.poses = SetEach(@, ShownRBFBehavior(rbfb, lodCount).poses)]

CopyRBFBehaviorExt(old, rbfe, rbfb) ==
    LET cleared == [old EXCEPT !.poses = <<>>]
    IN  IF ~ HasRBFBehavior(rbfb) THEN cleared
        ELSE [cleared EXCEPT
                !.poseControlNames = SetEach(@, rbfe.poseControlNames),
                !.poses = SetEach(@, ShownRBFBehaviorExt(rbfe, rbfb).poses)]

\* Poses from before version 2.5 control outputs of their own: a name and a
\* weight of one each.
Derived == 3
PostLoad(rbfe, rbfb) ==
    IF rbfe.poses # <<>> \/ rbfb.poses = <<>> THEN rbfe
    ELSE [poseControlNames |-> [i \in 1 .. Len(rbfb.poses) |-> rbfb.poses[i].name],
          poses |-> [i \in 1 .. Len(rbfb.poses) |->
                        [EmptyPoseExt EXCEPT !.outputControlIndices = <<Derived>>,
                                             !.outputControlWeights = <<Derived>>]]]
-----------------------------------------------------------------------------
(* jbmd and twsw                                                            *)

RepresentationScalars == {"translation", "rotation", "scale"}
EmptyRepresentation == Fresh({}, RepresentationScalars)
EmptyJointBehaviorMetadata == [jointRepresentations |-> <<>>]

JointBehaviorMetadataCalls(jbmd) ==
    In(jbmd, "jointRepresentations",
       RowCalls(jbmd.jointRepresentations, EmptyRepresentation, {}, RepresentationScalars))

ShownRepresentation(jbmd, i) == ShownAt(jbmd.jointRepresentations, i, EmptyRepresentation)
ShownJointBehaviorMetadata(jbmd, jointCount) ==
    [jointRepresentations |-> [i \in 1 .. jointCount |-> ShownRepresentation(jbmd, i - 1)]]

CopyJointBehaviorMetadata(old, jbmd, jointCount) ==
    [jointRepresentations |->
        SetEach(<<>>, ShownJointBehaviorMetadata(jbmd, jointCount).jointRepresentations)]

SetupArrays == {"inputControlIndices", "outputJointIndices", "blendWeights"}
SetupScalars == {"twistAxis"}
Setups == {"twists", "swings"}
EmptySetup == Fresh(SetupArrays, SetupScalars)
EmptyTwistSwingBehavior == Fresh(Setups, {})

TwistSwingBehaviorCalls(twsw) ==
    UNION {In(twsw, f, RowCalls(twsw[f], EmptySetup, SetupArrays, SetupScalars)
                           \cup {Deleted(twsw[f], i) : i \in Rows}) : f \in Setups}

ShownSetup(setups, i) == ShownAt(setups, i, EmptySetup)
ShownTwistSwingBehavior(twsw) == [f \in Setups |-> ShownEach(twsw[f], ShownSetup)]
CopyTwistSwingBehavior(old, twsw) ==
    [f \in Setups |-> SetEach(<<>>, ShownTwistSwingBehavior(twsw)[f])]
-----------------------------------------------------------------------------
(* mlbe                                                                     *)

OperationArrays == {"parameters", "mlOperationSetDependencyIndices", "mlOperationDependencyIndices"}
OperationScalars == {"operationType"}
MLJointsArrays == {"parameterKeys", "parameterValues", "inputIndices", "outputIndices"}

EmptyOperation == Fresh(OperationArrays, OperationScalars)
EmptyTypeData == Fresh({"lodMLOperationMappings", "operations"}, {})
EmptyMachineLearnedBehaviorExt ==
    Fresh({"mlbTypeData"}, {}) ++ [mlbJoints |-> Fresh(MLJointsArrays, {})]

TypeDataCalls(type) ==
    In(type, "operations",
       {<<>>} \cup UNION {{SetAt(type.operations, i, set, <<>>) :
               set \in RowCalls(GetAt(type.operations, i, <<>>), EmptyOperation,
                                OperationArrays, OperationScalars)} : i \in Rows})
        \cup In(type, "lodMLOperationMappings",
                UNION {{SetAt(type.lodMLOperationMappings, i, m, EmptyMapping) :
                        m \in MappingCalls(GetAt(type.lodMLOperationMappings, i, EmptyMapping))} : i \in Rows})

MachineLearnedBehaviorExtCalls(mlbe) ==
    {EmptyMachineLearnedBehaviorExt}
        \cup In(mlbe, "mlbTypeData",
                {[t \in 1 .. Len(mlbe.mlbTypeData) |->
                     [mlbe.mlbTypeData[t] EXCEPT !.lodMLOperationMappings = <<>>]]}
                    \cup UNION {{SetAt(mlbe.mlbTypeData, i, type, EmptyTypeData) :
                            type \in TypeDataCalls(GetAt(mlbe.mlbTypeData, i, EmptyTypeData))} : i \in Rows})
        \cup In(mlbe, "mlbJoints", Assigned(mlbe.mlbJoints, MLJointsArrays, {}))

IsMLExtLoaded(mlbe) == mlbe.mlbTypeData # <<>>

ShownMLOperation(set, i) == ShownAt(set, i, EmptyOperation)
ShownTypeData(type, lodCount) ==
    [operations |-> [s \in 1 .. Len(type.operations) |-> ShownEach(type.operations[s], ShownMLOperation)],
     lodMLOperationMappings |->
        [s \in 1 .. Len(type.operations) |->
            IndicesByLOD(ShownAt(type.lodMLOperationMappings, s - 1, EmptyMapping), lodCount)]]

\* The cache of a reader has a list for each network, to which every document
\* that is loaded appends the network once more.
PopulatedML(cache, netCount) ==
    [i \in 1 .. netCount |-> Append(IF i <= Len(cache) THEN cache[i] ELSE <<>>, i - 1)]

\* A network implies three operations: gather its inputs, evaluate it, and
\* scatter its outputs, each of which depends on the one before.
ImpliedTypeData(mlbh, lodCount, cache) ==
    LET nets == mlbh.neuralNetworks
        each(list, x) == [i \in 1 .. Len(list) |-> x]
        operation(type, parameters, sets, operations) ==
            [operationType |-> type, parameters |-> parameters,
             mlOperationSetDependencyIndices |-> sets, mlOperationDependencyIndices |-> operations]
    IN  [operations |->
            <<[i \in 1 .. Len(nets) |-> operation("Gather", nets[i].inputIndices, <<>>, <<>>)],
              [i \in 1 .. Len(nets) |-> operation("MLP", cache[i], each(cache[i], 0), cache[i])],
              [i \in 1 .. Len(nets) |->
                  operation("Scatter", nets[i].outputIndices, each(cache[i], 1), cache[i])]>>,
         lodMLOperationMappings |->
            [s \in 1 .. 3 |-> IndicesByLOD(mlbh.lodNeuralNetworkMapping, lodCount)]]

\* A document without operations shows those that its networks imply.
ShownMachineLearnedBehaviorExt(mlbe, mlbh, lodCount, cache) ==
    IF IsMLExtLoaded(mlbe)
    THEN [mlbe EXCEPT !.mlbTypeData = [t \in 1 .. Len(@) |-> ShownTypeData(@[t], lodCount)]]
    ELSE [EmptyMachineLearnedBehaviorExt EXCEPT
            !.mlbTypeData = IF mlbh.neuralNetworks = <<>> THEN <<>>
                            ELSE <<ImpliedTypeData(mlbh, lodCount, cache)>>]

\* One type with three sets of an operation for each network is what a
\* document without the layer shows.
LooksImplied(mlbe, netCount) ==
    /\ Len(mlbe.mlbTypeData) = 1
    /\ LET sets == mlbe.mlbTypeData[1].operations
       IN  Len(sets) = 3 /\ \A i \in 1 .. 3 : Len(sets[i]) = netCount

\* Sets, and types, that nothing is written to are not created.
CopyTypeData(type, lodCount) ==
    LET shown == ShownTypeData(type, lodCount)
    IN  [operations |-> Trimmed(shown.operations, <<>>),
         lodMLOperationMappings |->
            IF lodCount = 0 THEN <<>>
            ELSE [s \in 1 .. Len(shown.operations) |->
                    CopyLODIndices(EmptyMapping, shown.lodMLOperationMappings[s])]]

CopyMachineLearnedBehaviorExt(old, mlbe, lodCount, netCount) ==
    IF ~ IsMLExtLoaded(mlbe) \/ LooksImplied(mlbe, netCount) THEN EmptyMachineLearnedBehaviorExt
    ELSE [mlbe EXCEPT !.mlbTypeData =
            Trimmed([t \in 1 .. Len(@) |-> CopyTypeData(@[t], lodCount)], EmptyTypeData)]

LoadedMachineLearnedBehaviorExt(old, new) ==
    [new EXCEPT !.mlbJoints = Loaded(old.mlbJoints, new.mlbJoints, MLJointsArrays)]
=============================================================================
