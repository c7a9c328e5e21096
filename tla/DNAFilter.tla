------------------------------ MODULE DNAFilter ------------------------------
(***************************************************************************)
(* FilteredBinaryInputArchive: a file is loaded layer after layer, keeping   *)
(* the levels of detail and the layers that were asked for.  What no kept   *)
(* LOD uses is left out, and indices are rewritten to where the elements    *)
(* they mean have moved.  An element is known by its number in the file, so *)
(* that names tell which elements of the file were kept.                    *)
(***************************************************************************)
EXTENDS LODMapping

CONSTANT Requests  \* pairs of a document found in a file and what a reader asks for:
                   \* the sequence of LODs, the set of layers, and whether to "Preserve"
                   \* or "Ignore" unknown layers

VARIABLES file, config, archive, dna, step

vars == <<file, config, archive, dna, step>>

jointAttributeCount == 9
Layers == <<"desc", "defn", "bhvr", "geom", "mlbh", "rbfb", "rbfe", "jbmd", "twsw", "mlbe", "post">>

NoRows == [lods |-> <<>>, inputIndices |-> <<>>, outputIndices |-> <<>>]

EmptyDNA ==
    [lodCount |-> 0, maxLOD |-> 0,
     meshNames |-> <<>>, lodMeshMapping |-> EmptyMapping,
     jointNames |-> <<>>, lodJointMapping |-> EmptyMapping, jointHierarchy |-> <<>>,
     blendShapeChannelNames |-> <<>>, lodBlendShapeMapping |-> EmptyMapping,
     animatedMapNames |-> <<>>, lodAnimatedMapMapping |-> EmptyMapping,
     meshBlendShapeChannelMapping |-> <<>>,
     rawControlCount |-> 0, psdCount |-> 0, mlControlCount |-> 0, poseControlCount |-> 0,
     jointGroups |-> <<>>, blendShapeChannels |-> NoRows, animatedMaps |-> NoRows,
     meshes |-> <<>>,
     lodNeuralNetworkMapping |-> EmptyMapping, neuralNetworks |-> <<>>, regions |-> <<>>,
     lodSolverMapping |-> EmptyMapping, solvers |-> <<>>,
     jointRepresentations |-> <<>>, twists |-> <<>>, swings |-> <<>>,
     operations |-> <<>>, lodMLOperationMappings |-> <<>>,
     mlbJoints |-> [attributes |-> 0, inputIndices |-> <<>>, outputIndices |-> <<>>]]

NoFilter == [passing |-> {}, remapped |-> <<>>]
Filter(count, passing) == [passing |-> passing, remapped |-> Remapped(count, passing)]

Init ==
    /\ \E r \in Requests : file = r[1] /\ config = r[2]
    /\ archive = [lods |-> config.lods, unconstrainedLODCount |-> 0,
                  meshes |-> NoFilter, joints |-> NoFilter, channels |-> NoFilter,
                  rootJointIndex |-> 0, loadedControls |-> <<>>]
    /\ dna = EmptyDNA
    /\ step = 1

-----------------------------------------------------------------------------
Loads(layer) == layer \in config.layers
Filters == HasImpactOn(archive.lods, archive.unconstrainedLODCount)
At(layer) == step \in DOMAIN Layers /\ Layers[step] = layer
Proceed == step' = step + 1
Throw == step' = 0 /\ UNCHANGED <<archive, dna>>
Thrown == step = 0
Loaded == step > Len(Layers)

\* The fields of the file, as they are.
Read(fields) == [f \in DOMAIN dna |-> IF f \in fields THEN file[f] ELSE dna[f]]

ControlsAppended(n, loaded) == [archive EXCEPT !.loadedControls = @ \o [i \in 1 .. n |-> loaded]]

LoadDescriptor ==
    /\ At("desc") /\ Proceed
    /\ archive' = [archive EXCEPT !.lods = ClampTo(@, file.lodCount),
                                  !.unconstrainedLODCount = file.lodCount]
    /\ dna' = [dna EXCEPT !.maxLOD = file.maxLOD + MaxLOD(archive'.lods),
                          !.lodCount = Len(archive'.lods)]

definitionFields ==
    {"meshNames", "lodMeshMapping", "jointNames", "lodJointMapping", "jointHierarchy",
     "blendShapeChannelNames", "lodBlendShapeMapping", "animatedMapNames",
     "lodAnimatedMapMapping", "meshBlendShapeChannelMapping", "rawControlCount"}

\* The pairs whose side (1: mesh, 2: channel) passes, with that side rewritten.
PairsOf(pairs, side, filter) ==
    LET passing == {i \in Positions(pairs) : Nth(pairs, i)[side] \in filter.passing}
        kept == KeepPositions(pairs, passing)
    IN  [k \in 1 .. Len(kept) |-> [kept[k] EXCEPT ![side] = filter.remapped[@]]]

\* A parent that is left out is looked up nevertheless, which enters it as joint 0.
WithParents(filter, hierarchy) ==
    [filter EXCEPT !.remapped =
        [j \in DOMAIN @ \cup ToSet(hierarchy) |-> IF j \in DOMAIN @ THEN @[j] ELSE 0]]

RootOf(hierarchy) ==
    LET roots == {j \in Positions(hierarchy) : Nth(hierarchy, j) = j}
    IN  IF roots = {} THEN 0 ELSE CHOOSE j \in roots : \A k \in roots : j <= k

ApplyMeshFilter(doc, filter) ==
    [doc EXCEPT !.lodMeshMapping = MapIndices(@, filter.remapped),
                !.meshNames = KeepPositions(@, filter.passing),
                !.meshBlendShapeChannelMapping = PairsOf(@, 1, filter)]

ApplyJointFilter(doc, filter) ==
    [doc EXCEPT !.lodJointMapping = MapIndices(@, filter.remapped),
                !.jointNames = KeepPositions(@, filter.passing),
                !.jointHierarchy = Mapped(KeepPositions(@, filter.passing), filter.remapped)]

ApplyBlendShapeFilter(doc, filter) ==
    [doc EXCEPT !.lodBlendShapeMapping = MapIndices(@, filter.remapped),
                !.blendShapeChannelNames = KeepPositions(@, filter.passing),
                !.meshBlendShapeChannelMapping = PairsOf(@, 2, filter)]

ApplyAnimatedMapFilter(doc, filter) ==
    [doc EXCEPT !.lodAnimatedMapMapping = MapIndices(@, filter.remapped),
                !.animatedMapNames = KeepPositions(@, filter.passing)]

\* Joints of no LOD at all are kept: those that are not in LOD 0, which has the
\* joints of every LOD below it.
AllowedJoints(doc, discarded) ==
    CombinedDistinctIndices(discarded)
        \cup (Positions(doc.jointNames) \ ToSet(GetIndices(doc.lodJointMapping, 0)))

FilterDefinition(doc) ==
    LET discard(m) == DiscardLODs(m, archive.lods)
        kept == [doc EXCEPT !.lodMeshMapping = discard(@), !.lodJointMapping = discard(@),
                            !.lodBlendShapeMapping = discard(@),
                            !.lodAnimatedMapMapping = discard(@)]
        meshes == Filter(Len(doc.meshNames), CombinedDistinctIndices(kept.lodMeshMapping))
        allowed == AllowedJoints(doc, kept.lodJointMapping)
        joints == WithParents(Filter(Len(doc.jointNames), allowed),
                              KeepPositions(doc.jointHierarchy, allowed))
        channels == Filter(Len(doc.blendShapeChannelNames),
                           CombinedDistinctIndices(kept.lodBlendShapeMapping))
        maps == Filter(Len(doc.animatedMapNames),
                       CombinedDistinctIndices(kept.lodAnimatedMapMapping))
        result == ApplyAnimatedMapFilter(
                      ApplyBlendShapeFilter(
                          ApplyJointFilter(ApplyMeshFilter(kept, meshes), joints),
                          channels), maps)
    IN  /\ dna' = result
        /\ archive' = [archive EXCEPT
               !.meshes = meshes, !.joints = joints, !.channels = channels,
               !.rootJointIndex = RootOf(result.jointHierarchy),
               !.loadedControls = [i \in 1 .. file.rawControlCount |-> TRUE]]

LoadDefinition ==
    /\ At("defn") /\ Proceed
    /\ IF ~ Loads("defn") THEN UNCHANGED <<archive, dna>>
       ELSE IF Filters THEN FilterDefinition(Read(definitionFields))
       ELSE /\ dna' = Read(definitionFields)
            /\ archive' = [archive EXCEPT
                   !.loadedControls = [i \in 1 .. file.rawControlCount |-> TRUE]]
-----------------------------------------------------------------------------
passes(joint) == joint \in archive.joints.passing
jointOf(attribute) == attribute \div jointAttributeCount

RemappedAttribute(attribute, count) ==
    archive.joints.remapped[attribute \div count] * count + (attribute % count)

RowCount(lods) == IF lods = <<>> THEN 0 ELSE Head(lods)

FilteredGroup(group) ==
    LET lods == ApplyTo(archive.lods, group.lods)
        rows == RowCount(lods)
        inputs == IF rows # 0 THEN group.inputIndices ELSE <<>>
        kept == Among(group.jointIndices, archive.joints.passing)
    IN  [lods |-> lods, inputIndices |-> inputs,
         outputIndices |-> [i \in 1 .. rows |->
             RemappedAttribute(group.outputIndices[i], jointAttributeCount)],
         values |-> SubSeq(group.values, 1, rows * Len(inputs)),
         jointIndices |-> Mapped(kept, archive.joints.remapped)]

\* As if rows were rewritten before they are cut.
GroupThrowsOnAnyRow(group) ==
    \E i \in 1 .. RowCount(group.lods) :
        jointOf(group.outputIndices[i]) \notin DOMAIN archive.joints.remapped

\* A row in the kept LODs belongs to a joint that was left out.
GroupThrows(group) ==
    \E i \in 1 .. RowCount(ApplyTo(archive.lods, group.lods)) :
        jointOf(group.outputIndices[i]) \notin DOMAIN archive.joints.remapped

FilteredRows(rows) ==
    LET lods == ApplyTo(archive.lods, rows.lods)
    IN  [lods |-> lods,
         inputIndices |-> SubSeq(rows.inputIndices, 1, RowCount(lods)),
         outputIndices |-> SubSeq(rows.outputIndices, 1, RowCount(lods))]

behaviorFields == {"psdCount", "jointGroups", "blendShapeChannels", "animatedMaps"}

LoadBehavior ==
    /\ At("bhvr")
    /\ IF ~ Loads("bhvr") THEN Proceed /\ UNCHANGED <<archive, dna>>
       ELSE IF Filters /\ \E g \in ToSet(file.jointGroups) : GroupThrows(g) THEN Throw
       ELSE /\ Proceed
            /\ archive' = ControlsAppended(file.psdCount, TRUE)
            /\ dna' = IF ~ Filters THEN Read(behaviorFields)
                      ELSE [Read({"psdCount"}) EXCEPT
                               !.jointGroups = [g \in 1 .. Len(file.jointGroups) |->
                                                   FilteredGroup(file.jointGroups[g])],
                               !.blendShapeChannels = FilteredRows(file.blendShapeChannels),
                               !.animatedMaps = FilteredRows(file.animatedMaps)]

\* As if the weights of the remaining joints were left as they are.
SkinNotNormalized(skin) ==
    LET kept == SelectSeq(skin, LAMBDA s : passes(s.joint))
    IN  IF kept = <<>> THEN <<[joint |-> archive.rootJointIndex, weight |-> 1, of |-> 1]>>
        ELSE [k \in 1 .. Len(kept) |-> [kept[k] EXCEPT !.joint = archive.joints.remapped[@]]]

\* Influences of joints that are left out go to the others, in proportion; a vertex
\* without any other follows the root joint.
FilteredSkin(skin) ==
    LET kept == SelectSeq(skin, LAMBDA s : passes(s.joint))
        discarded == FoldLeft(LAMBDA sum, s : IF passes(s.joint) THEN sum ELSE sum + s.weight,
                              0, skin)
    IN  IF archive.joints.passing = {} THEN kept
        ELSE IF kept = <<>> THEN <<[joint |-> archive.rootJointIndex, weight |-> 1, of |-> 1]>>
        ELSE [k \in 1 .. Len(kept) |->
                 [joint |-> archive.joints.remapped[kept[k].joint],
                  weight |-> kept[k].weight, of |-> kept[k].of - discarded]]

\* Targets keep the channel numbers of the file.
FilteredMesh(mesh) ==
    [name |-> mesh.name,
     skin |-> IF Filters THEN FilteredSkin(mesh.skin) ELSE mesh.skin,
     targets |-> IF ~ Loads("blendshapes") THEN <<>>
                 ELSE IF Filters THEN Among(mesh.targets, archive.channels.passing)
                 ELSE mesh.targets]

LoadGeometry ==
    /\ At("geom") /\ Proceed /\ UNCHANGED archive
    /\ LET kept == IF Filters THEN KeepPositions(file.meshes, archive.meshes.passing)
                   ELSE file.meshes
       IN  dna' = IF ~ Loads("geom") THEN dna
                  ELSE [dna EXCEPT !.meshes = [i \in 1 .. Len(kept) |-> FilteredMesh(kept[i])]]
-----------------------------------------------------------------------------
\* Elements that lie in a table of their own, with an LOD mapping.
KeptBy(mapping, names) ==
    LET m == DiscardLODs(mapping, archive.lods)
        filter == Filter(Len(names), CombinedDistinctIndices(m))
    IN  [filter |-> filter, mapping |-> MapIndices(m, filter.remapped),
         names |-> KeepPositions(names, filter.passing)]

\* As if the networks of a region kept their numbers.
RegionsNotRemapped(regions, filter) ==
    LET kept == KeepPositions(regions, archive.meshes.passing)
    IN  [m \in 1 .. Len(kept) |-> [r \in 1 .. Len(kept[m]) |-> Among(kept[m][r], filter.passing)]]

FilteredRegions(regions, filter) ==
    LET kept == KeepPositions(regions, archive.meshes.passing)
        nets(region) == Mapped(Among(region, filter.passing), filter.remapped)
    IN  [m \in 1 .. Len(kept) |-> [r \in 1 .. Len(kept[m]) |-> nets(kept[m][r])]]

networkFields == {"lodNeuralNetworkMapping", "neuralNetworks", "regions", "mlControlCount"}

LoadNetworks ==
    /\ At("mlbh") /\ Proceed
    /\ archive' = ControlsAppended(file.mlControlCount, Loads("mlbh"))
    /\ LET kept == KeptBy(file.lodNeuralNetworkMapping, file.neuralNetworks)
       IN  dna' = IF ~ Loads("mlbh") THEN dna
                  ELSE IF ~ Filters THEN Read(networkFields)
                  ELSE [Read({"mlControlCount"}) EXCEPT
                           !.lodNeuralNetworkMapping = kept.mapping,
                           !.neuralNetworks = kept.names,
                           !.regions = FilteredRegions(file.regions, kept.filter)]

LoadSolvers ==
    /\ At("rbfb") /\ Proceed /\ UNCHANGED archive
    /\ LET kept == KeptBy(file.lodSolverMapping, file.solvers)
       IN  dna' = IF ~ Loads("rbfb") THEN dna
                  ELSE IF ~ Filters THEN Read({"lodSolverMapping", "solvers"})
                  ELSE [dna EXCEPT !.lodSolverMapping = kept.mapping, !.solvers = kept.names]

LoadPoses ==
    /\ At("rbfe") /\ Proceed
    /\ archive' = ControlsAppended(file.poseControlCount, Loads("rbfb"))
    /\ dna' = IF Loads("rbfb") THEN Read({"poseControlCount"}) ELSE dna

LoadJointRepresentations ==
    /\ At("jbmd") /\ Proceed /\ UNCHANGED archive
    /\ dna' = IF ~ Loads("jbmd") THEN dna
              ELSE IF ~ Filters THEN Read({"jointRepresentations"})
              ELSE [dna EXCEPT !.jointRepresentations =
                       KeepPositions(file.jointRepresentations, archive.joints.passing)]

\* As if the list of weights were cut from its end.
TwistsWithFirstWeights(twists) ==
    LET kept(t) == Among(t.outputJointIndices, archive.joints.passing)
        moving == KeepPositions(twists, {i \in Positions(twists) : kept(Nth(twists, i)) # <<>>})
    IN  [k \in 1 .. Len(moving) |->
            [moving[k] EXCEPT !.outputJointIndices = Mapped(kept(moving[k]), archive.joints.remapped),
                              !.blendWeights = SubSeq(@, 1, Len(kept(moving[k])))]]

\* Twists and swings alike: one that moves no kept joint goes.
KeptOutputs(twist) ==
    {i \in Positions(twist.outputJointIndices) : passes(Nth(twist.outputJointIndices, i))}

FilteredTwist(twist) ==
    [twist EXCEPT !.outputJointIndices =
                      Mapped(KeepPositions(@, KeptOutputs(twist)), archive.joints.remapped),
                  !.blendWeights = KeepPositions(@, KeptOutputs(twist))]

FilteredTwists(twists) ==
    LET moving == KeepPositions(twists, {i \in Positions(twists) : KeptOutputs(Nth(twists, i)) # {}})
    IN  [k \in 1 .. Len(moving) |-> FilteredTwist(moving[k])]

LoadTwistsAndSwings ==
    /\ At("twsw") /\ Proceed /\ UNCHANGED archive
    /\ dna' = IF ~ Loads("twsw") THEN dna
              ELSE IF ~ Filters THEN Read({"twists", "swings"})
              ELSE [dna EXCEPT !.twists = FilteredTwists(file.twists),
                               !.swings = FilteredTwists(file.swings)]

\* A set of operations is filtered whatever the other sets are.
KeptInSet(set) == KeptBy(Nth(file.lodMLOperationMappings, set), Nth(file.operations, set))

\* As if a dependency were in the set before.
FollowedInSetBefore(operation, set) ==
    LET remapped == KeptInSet(set - 1).filter.remapped
    IN  [operation EXCEPT !.dependsOn =
            [i \in 1 .. Len(@) |-> IF @[i] \in DOMAIN remapped THEN remapped[@[i]] ELSE @[i]]]

\* An operation follows those of earlier sets that it depends on; what depends on one
\* that is left out keeps its number.
Followed(operation, set) ==
    LET remapped(i) == KeptInSet(operation.inSet[i]).filter.remapped
    IN  [operation EXCEPT !.dependsOn =
            [i \in 1 .. Len(@) |->
                IF operation.inSet[i] < set /\ @[i] \in DOMAIN remapped(i) THEN remapped(i)[@[i]]
                ELSE @[i]]]

FilteredOperations(set) ==
    LET kept == KeptInSet(set).names
    IN  [o \in 1 .. Len(kept) |-> Followed(kept[o], set)]

FilteredMLJoints(joints) ==
    LET kept == {i \in Positions(joints.outputIndices) :
                    passes(Nth(joints.outputIndices, i) \div joints.attributes)}
        outputs == KeepPositions(joints.outputIndices, kept)
    IN  IF joints.attributes = 0 THEN joints
        ELSE [joints EXCEPT
                 !.outputIndices = [i \in 1 .. Len(outputs) |->
                                       RemappedAttribute(outputs[i], joints.attributes)],
                 !.inputIndices = KeepPositions(@, kept)]

LoadOperations ==
    /\ At("mlbe") /\ Proceed /\ UNCHANGED archive
    /\ LET read == Read({"operations", "lodMLOperationMappings", "mlbJoints"})
           sets == 1 .. Len(file.operations)
       IN  dna' = IF ~ Loads("mlbh") THEN dna
                  ELSE IF ~ Filters THEN read
                  ELSE [read EXCEPT
                           !.lodMLOperationMappings = [s \in sets |-> KeptInSet(s - 1).mapping],
                           !.operations = [s \in sets |-> FilteredOperations(s - 1)],
                           !.mlbJoints = FilteredMLJoints(@)]
-----------------------------------------------------------------------------
(* Channels that controls of a layer that is not loaded would drive go too. *)

Referenced(control) == control < Len(archive.loadedControls) /\ Nth(archive.loadedControls, control)

\* As if the sizes of the LODs were left as they are.
RowsRemovedBehindLODs(rows, kept) ==
    [rows EXCEPT !.inputIndices = KeepPositions(@, kept), !.outputIndices = KeepPositions(@, kept)]

RowsRemoved(rows, kept) ==
    [lods |-> [l \in 1 .. Len(rows.lods) |-> Cardinality({i \in kept : i < rows.lods[l]})],
     inputIndices |-> KeepPositions(rows.inputIndices, kept),
     outputIndices |-> KeepPositions(rows.outputIndices, kept)]

RemoveUnreferencedBlendShapes ==
    LET rows == dna.blendShapeChannels
        kept == {i \in Positions(rows.inputIndices) : Referenced(Nth(rows.inputIndices, i))}
        unreferenced == {Nth(rows.outputIndices, i) : i \in Positions(rows.inputIndices) \ kept}
        channels == CombinedDistinctIndices(dna.lodBlendShapeMapping)
        mapping == FilterIndices(dna.lodBlendShapeMapping, channels \ unreferenced)
        filter == Filter(Len(dna.blendShapeChannelNames), CombinedDistinctIndices(mapping))
        remaining == RowsRemoved(rows, kept)
        targets(mesh) == Mapped(Among(mesh.targets, filter.passing), filter.remapped)
    IN  IF ~ ToSet(remaining.outputIndices) \subseteq DOMAIN filter.remapped THEN Throw
        ELSE /\ Proceed
             /\ archive' = [archive EXCEPT !.channels = filter]
             /\ dna' = [ApplyBlendShapeFilter([dna EXCEPT !.lodBlendShapeMapping = mapping], filter)
                        EXCEPT !.blendShapeChannels =
                                   [remaining EXCEPT !.outputIndices = Mapped(@, filter.remapped)],
                               !.meshes = [m \in 1 .. Len(@) |->
                                              [@[m] EXCEPT !.targets = targets(dna.meshes[m])]]]

PostFilter ==
    /\ At("post")
    /\ IF config.unknownPolicy = "Ignore" /\ archive.loadedControls # <<>>
       THEN RemoveUnreferencedBlendShapes
       ELSE Proceed /\ UNCHANGED <<archive, dna>>

Next ==
    /\ UNCHANGED <<file, config>>
    /\ \/ LoadDescriptor \/ LoadDefinition \/ LoadBehavior \/ LoadGeometry
       \/ LoadNetworks \/ LoadSolvers \/ LoadPoses
       \/ LoadJointRepresentations \/ LoadTwistsAndSwings \/ LoadOperations
       \/ PostFilter

Spec == Init /\ [][Next]_vars
-----------------------------------------------------------------------------
(* Files whose tables agree with each other, and what a reader may ask for. *)

\* Elements are known by their numbers.
Numbered(names) == names \in Seq(Nat) /\ \A i \in DOMAIN names : names[i] = i - 1

IsMapping(m, lodCount, count) ==
    /\ m \in [lods : [1 .. lodCount -> Nat], indices : Seq(Seq(Nat))]
    /\ \A lod \in 0 .. lodCount - 1 : InTable(m, lod)
    /\ CombinedDistinctIndices(m) \subseteq 0 .. count - 1

IsTable(names, mapping, lodCount) == Numbered(names) /\ IsMapping(mapping, lodCount, Len(names))

\* Sizes of a table of that many rows, from the LOD with the most rows to the one with the fewest.
AreSizes(lods, lodCount, rowCount) ==
    /\ lods \in [1 .. lodCount -> Nat] /\ RowCount(lods) = rowCount
    /\ \A k, l \in 1 .. lodCount : k <= l => lods[l] <= lods[k]

\* The rows of the joints of a LOD are the first ones.
IsGroup(group, joints, lodCount) ==
    /\ group.inputIndices \in Seq(Nat) /\ group.outputIndices \in Seq(Nat)
    /\ AreSizes(group.lods, lodCount, Len(group.outputIndices))
    /\ group.values \in Seq(Int)
    /\ Len(group.values) = Len(group.outputIndices) * Len(group.inputIndices)
    /\ \A lod \in 0 .. lodCount - 1 : \A r \in 0 .. Nth(group.lods, lod) - 1 :
          jointOf(Nth(group.outputIndices, r)) \in ToSet(GetIndices(joints, lod))

\* An output has one row, and those of the outputs of a LOD are the first ones.
AreRows(rows, names, mapping, lodCount, controlCount) ==
    /\ rows.inputIndices \in Seq(0 .. controlCount - 1)
    /\ rows.outputIndices \in Seq(0 .. Len(names) - 1)
    /\ Len(rows.inputIndices) = Len(rows.outputIndices)
    /\ AreSizes(rows.lods, lodCount, Len(rows.outputIndices))
    /\ \A i, k \in Positions(rows.outputIndices) :
          Nth(rows.outputIndices, i) = Nth(rows.outputIndices, k) => i = k
    /\ \A lod \in 0 .. lodCount - 1 :
          {i \in Positions(rows.outputIndices) :
              Nth(rows.outputIndices, i) \in ToSet(GetIndices(mapping, lod))} =
          0 .. Nth(rows.lods, lod) - 1

ControlCount(doc) ==
    doc.rawControlCount + doc.psdCount + doc.mlControlCount + doc.poseControlCount

Consistent(doc) ==
    /\ {doc.lodCount, doc.rawControlCount, doc.psdCount, doc.mlControlCount, doc.poseControlCount}
           \subseteq Nat
    /\ IsTable(doc.meshNames, doc.lodMeshMapping, doc.lodCount)
    /\ IsTable(doc.jointNames, doc.lodJointMapping, doc.lodCount)
    /\ IsTable(doc.blendShapeChannelNames, doc.lodBlendShapeMapping, doc.lodCount)
    /\ IsTable(doc.animatedMapNames, doc.lodAnimatedMapMapping, doc.lodCount)
    /\ IsTable(doc.neuralNetworks, doc.lodNeuralNetworkMapping, doc.lodCount)
    /\ IsTable(doc.solvers, doc.lodSolverMapping, doc.lodCount)
    /\ doc.operations \in Seq(Seq([name : Nat, inSet : Seq(Nat), dependsOn : Seq(Nat)]))
    /\ \A s \in DOMAIN doc.operations :
          IsMapping(doc.lodMLOperationMappings[s], doc.lodCount, Len(doc.operations[s]))
    /\ DOMAIN doc.jointGroups = 1 .. Len(doc.jointGroups)
    /\ \A g \in DOMAIN doc.jointGroups :
          IsGroup(doc.jointGroups[g], doc.lodJointMapping, doc.lodCount)
    /\ AreRows(doc.blendShapeChannels, doc.blendShapeChannelNames, doc.lodBlendShapeMapping,
               doc.lodCount, ControlCount(doc))
    /\ AreRows(doc.animatedMaps, doc.animatedMapNames, doc.lodAnimatedMapMapping,
               doc.lodCount, ControlCount(doc))

\* Each LOD is asked for once; the behavior layer brings the definition along.
IsConfig(asked) ==
    /\ asked.lods \in Seq(Nat)
    /\ \A i, k \in DOMAIN asked.lods : i < k => asked.lods[i] < asked.lods[k]
    /\ "bhvr" \in asked.layers => "defn" \in asked.layers

ASSUME RequestsAssumption == \A r \in Requests : Consistent(r[1]) /\ IsConfig(r[2])

\* A twist or swing moves joints, each with a weight.
Twists(joints) == [outputJointIndices : Seq(joints), blendWeights : Seq(Int), inputIndices : Seq(Nat)]

AreTwists(twists, joints) ==
    /\ twists \in Seq(Twists(joints))
    /\ \A t \in DOMAIN twists :
          /\ twists[t].outputJointIndices # <<>>
          /\ Len(twists[t].blendWeights) = Len(twists[t].outputJointIndices)

\* Attributes of machine learned joints are counted joint after joint.
AreMLJoints(ml, joints) ==
    /\ ml \in [attributes : Nat, inputIndices : Seq(Nat), outputIndices : Seq(Nat)]
    /\ Len(ml.inputIndices) = Len(ml.outputIndices)
    /\ ml.attributes = 0 => ml.outputIndices = <<>>
    /\ \A i \in DOMAIN ml.outputIndices : ml.outputIndices[i] \div ml.attributes \in joints

\* What other layers say of joints is said of those in the definition, one entry for each
\* joint where the entries have no index.
JointsAgree(doc) ==
    LET joints == Positions(doc.jointNames)
    IN  /\ doc.jointHierarchy \in Seq(joints) /\ Len(doc.jointHierarchy) = Len(doc.jointNames)
        /\ doc.jointRepresentations \in Seq(Nat)
        /\ Len(doc.jointRepresentations) = Len(doc.jointNames)
        /\ AreTwists(doc.twists, joints) /\ AreTwists(doc.swings, joints)
        /\ AreMLJoints(doc.mlbJoints, joints)

\* A mesh is known by its number; it has the influences on a vertex and target channels.
Meshes(channels) ==
    [name : Nat, skin : Seq([joint : Nat, weight : Nat, of : Nat]), targets : Seq(channels)]

\* Meshes, their regions and their pairs with channels are those of the definition, and
\* the networks of a region are networks of the file.
MeshesAgree(doc) ==
    LET channels == Positions(doc.blendShapeChannelNames)
    IN  /\ doc.meshBlendShapeChannelMapping \in Seq(Positions(doc.meshNames) \X channels)
        /\ doc.meshes \in Seq(Meshes(channels)) /\ Len(doc.meshes) = Len(doc.meshNames)
        /\ \A m \in DOMAIN doc.meshes : doc.meshes[m].name = m - 1
        /\ doc.regions \in Seq(Seq(Seq(Positions(doc.neuralNetworks))))
        /\ Len(doc.regions) = Len(doc.meshNames)

\* An operation depends on operations of earlier sets, which the LODs that have it have too.
DependsOnEarlier(doc, s, o) ==
    LET op == doc.operations[s][o]
    IN  /\ Len(op.inSet) = Len(op.dependsOn)
        /\ \A i \in DOMAIN op.dependsOn :
              /\ op.inSet[i] < s - 1
              /\ op.dependsOn[i] \in Positions(Nth(doc.operations, op.inSet[i]))
              /\ \A lod \in 0 .. doc.lodCount - 1 :
                    o - 1 \in ToSet(GetIndices(doc.lodMLOperationMappings[s], lod)) =>
                    op.dependsOn[i] \in
                        ToSet(GetIndices(Nth(doc.lodMLOperationMappings, op.inSet[i]), lod))

OperationsAgree(doc) ==
    \A s \in DOMAIN doc.operations : \A o \in DOMAIN doc.operations[s] : DependsOnEarlier(doc, s, o)

ASSUME DependentsAssumption ==
    \A r \in Requests : JointsAgree(r[1]) /\ MeshesAgree(r[1]) /\ OperationsAgree(r[1])

\* Every LOD has the first ones of the channels, and of the animated maps: their rows
\* keep the numbers of the file.
InOrder(mapping, lodCount) ==
    \A lod \in 0 .. lodCount - 1 : \A c \in ToSet(GetIndices(mapping, lod)) :
        0 .. c \subseteq ToSet(GetIndices(mapping, lod))

ChannelsInOrder ==
    \A r \in Requests : /\ InOrder(r[1].lodBlendShapeMapping, r[1].lodCount)
                        /\ InOrder(r[1].lodAnimatedMapMapping, r[1].lodCount)
-----------------------------------------------------------------------------
(* What was kept means what it meant in the file. *)

\* The elements of a LOD of the loaded document, and those of the same LOD in the file.
ShownBy(names, mapping, lod) == {Nth(names, i) : i \in ToSet(GetIndices(mapping, lod))}
InFile(lod) == Nth(archive.lods, lod)

SameElements(names, mapping, fileNames, fileMapping, except) ==
    /\ Len(mapping.lods) = dna.lodCount
    /\ \A lod \in 0 .. dna.lodCount - 1 :
          /\ InTable(mapping, lod)
          /\ ToSet(GetIndices(mapping, lod)) \subseteq Positions(names)
          /\ ShownBy(names, mapping, lod) =
                 ShownBy(fileNames, fileMapping, InFile(lod)) \ except

ControlIsLoaded(control) ==
    \/ control < file.rawControlCount + file.psdCount
    \/ IF control < file.rawControlCount + file.psdCount + file.mlControlCount
       THEN Loads("mlbh") ELSE Loads("rbfb")

\* Channels that a reader which ignores unknown layers leaves out.
Undriven ==
    {Nth(file.blendShapeChannels.outputIndices, i) :
        i \in {i \in Positions(file.blendShapeChannels.inputIndices) :
                  /\ config.unknownPolicy = "Ignore" /\ Loads("bhvr")
                  /\ ~ ControlIsLoaded(Nth(file.blendShapeChannels.inputIndices, i))}}

\* Loading a consistent file comes to its end: no lookup of a joint or channel that was
\* left out throws (FilteredBinaryInputArchive::process, JointFilter::remapped).
NothingThrown == ~ Thrown

\* Every LOD of a loaded document has exactly the meshes, joints, channels, animated maps,
\* networks, solvers and operations of the LOD of the file that it stands for
\* (LODMapping::discardLODs and the filters that rewrite its lists).
LODsKeepElements ==
    Loaded =>
    /\ Loads("defn") =>
          /\ SameElements(dna.meshNames, dna.lodMeshMapping,
                          file.meshNames, file.lodMeshMapping, {})
          /\ SameElements(dna.jointNames, dna.lodJointMapping,
                          file.jointNames, file.lodJointMapping, {})
          /\ SameElements(dna.blendShapeChannelNames, dna.lodBlendShapeMapping,
                          file.blendShapeChannelNames, file.lodBlendShapeMapping, Undriven)
          /\ SameElements(dna.animatedMapNames, dna.lodAnimatedMapMapping,
                          file.animatedMapNames, file.lodAnimatedMapMapping, {})
    /\ Loads("mlbh") =>
          /\ SameElements(dna.neuralNetworks, dna.lodNeuralNetworkMapping,
                          file.neuralNetworks, file.lodNeuralNetworkMapping, {})
          /\ \A s \in DOMAIN file.operations :
                SameElements([o \in DOMAIN dna.operations[s] |-> dna.operations[s][o].name],
                             dna.lodMLOperationMappings[s],
                             [o \in DOMAIN file.operations[s] |-> file.operations[s][o].name],
                             file.lodMLOperationMappings[s], {})
    /\ Loads("rbfb") => SameElements(dna.solvers, dna.lodSolverMapping,
                                     file.solvers, file.lodSolverMapping, {})

\* The cells of a joint group at a LOD, by joint name.
Cells(group, jointNames, lod) ==
    {LET out == Nth(group.outputIndices, r)
     IN  <<Nth(jointNames, jointOf(out)), out % jointAttributeCount, Nth(group.inputIndices, c),
           Nth(group.values, r * Len(group.inputIndices) + c)>> :
        r \in 0 .. Nth(group.lods, lod) - 1, c \in Positions(group.inputIndices)}

HasRows(rows, names, lod) ==
    /\ Nth(rows.lods, lod) <= Len(rows.outputIndices)
    /\ ToSet(rows.outputIndices) \subseteq Positions(names)

RowsAt(rows, names, lod) ==
    {<<Nth(rows.inputIndices, r), Nth(names, Nth(rows.outputIndices, r))>> :
        r \in 0 .. Nth(rows.lods, lod) - 1}

\* The first rows of every table, as many as its LOD says, drive the same joints, channels
\* and maps by the same controls and values as in the file, although rows were cut,
\* columns dropped and indices rewritten (process(RawJoints), removeUnreferencedBlendShapes).
RowsKeepElements ==
    Loaded /\ Loads("bhvr") => \A lod \in 0 .. dna.lodCount - 1 :
        /\ \A g \in DOMAIN file.jointGroups :
              Cells(dna.jointGroups[g], dna.jointNames, lod) =
              Cells(file.jointGroups[g], file.jointNames, InFile(lod))
        /\ HasRows(dna.blendShapeChannels, dna.blendShapeChannelNames, lod)
        /\ RowsAt(dna.blendShapeChannels, dna.blendShapeChannelNames, lod) =
              {row \in RowsAt(file.blendShapeChannels, file.blendShapeChannelNames, InFile(lod)) :
                  row[2] \notin Undriven}
        /\ HasRows(dna.animatedMaps, dna.animatedMapNames, lod)
        /\ RowsAt(dna.animatedMaps, dna.animatedMapNames, lod) =
              RowsAt(file.animatedMaps, file.animatedMapNames, InFile(lod))

\* The channel of every blend shape target of a loaded mesh is the one it has in the file
\* (process(Vector<RawBlendShapeTarget>)).
TargetsMatchChannels ==
    Loaded /\ Loads("defn") /\ Loads("geom") => \A m \in DOMAIN dna.meshes :
        LET names == dna.blendShapeChannelNames
            channels == ToSet(dna.meshes[m].targets)
        IN  /\ channels \subseteq Positions(names)
            /\ {Nth(names, c) : c \in channels} =
                   IF Loads("blendshapes")
                   THEN ToSet(Nth(file.meshes, dna.meshes[m].name).targets) \cap ToSet(names)
                   ELSE {}

\* Pairs of a mesh and a channel, by name.
PairsNamed(pairs, meshNames, channelNames) ==
    {<<Nth(meshNames, p[1]), Nth(channelNames, p[2])>> : p \in ToSet(pairs)}

\* The networks of the regions of a loaded mesh are those of the file that are loaded too.
RegionsKeepNetworks(m) ==
    LET regions == dna.regions[m]
        before == Nth(file.regions, dna.meshNames[m])
    IN  /\ \A r \in DOMAIN regions : ToSet(regions[r]) \subseteq Positions(dna.neuralNetworks)
        /\ [r \in DOMAIN regions |-> {Nth(dna.neuralNetworks, n) : n \in ToSet(regions[r])}] =
           [r \in DOMAIN before |-> ToSet(before[r]) \cap ToSet(dna.neuralNetworks)]

\* Loaded meshes line up with their names, their targets, their pairs in the definition and
\* the networks of their regions are those of the file, without what was left out
\* (MeshFilter, BlendShapeFilter, process(RawMachineLearnedBehavior)).
MeshesKeepElements ==
    Loaded /\ Loads("defn") =>
    /\ PairsNamed(dna.meshBlendShapeChannelMapping, dna.meshNames, dna.blendShapeChannelNames) =
          {p \in ToSet(file.meshBlendShapeChannelMapping) :
              p[1] \in ToSet(dna.meshNames) /\ p[2] \in ToSet(dna.blendShapeChannelNames)}
    /\ Loads("geom") => [m \in DOMAIN dna.meshes |-> dna.meshes[m].name] = dna.meshNames
    /\ TargetsMatchChannels
    /\ Loads("mlbh") => \A m \in DOMAIN dna.regions : RegionsKeepNetworks(m)

\* Whatever joints are left out, the influences on a vertex still add up to one, and are
\* those of kept joints of the file or of the root (JointFilter::apply(RawVertexSkinWeights)).
SkinSumsToOne ==
    Loaded => \A m \in DOMAIN dna.meshes :
        LET skin == dna.meshes[m].skin
            influences == {Nth(dna.jointNames, s.joint) : s \in ToSet(skin)}
            before == {s.joint : s \in ToSet(Nth(file.meshes, dna.meshes[m].name).skin)}
        IN  /\ dna.jointNames # <<>> => FoldLeft(LAMBDA sum, s : sum + s.weight, 0, skin) = skin[1].of
            /\ \/ influences = before \cap ToSet(dna.jointNames)
               \/ influences = {Nth(dna.jointNames, archive.rootJointIndex)}

\* The joints that a twist or swing moves, by name, each with its weight.
Moves(twist, jointNames) ==
    {<<Nth(jointNames, twist.outputJointIndices[i]), twist.blendWeights[i]>> :
        i \in DOMAIN twist.outputJointIndices}

\* What those of the file move of the joints that are kept, if anything.
MovesKept(twists, kept) ==
    LET moved == [t \in DOMAIN twists |-> {p \in Moves(twists[t], file.jointNames) : p[1] \in kept}]
    IN  KeepPositions(moved, {t \in Positions(moved) : Nth(moved, t) # {}})

\* What machine learned joints put where: the input, the joint by name and its attribute.
MLOutputs(ml, jointNames) ==
    {<<ml.inputIndices[i], Nth(jointNames, ml.outputIndices[i] \div ml.attributes),
       ml.outputIndices[i] % ml.attributes>> : i \in DOMAIN ml.outputIndices}

\* Parents, representations, twists, swings and machine learned outputs are those of the
\* same joints as in the file; a twist or swing is left out when all its joints are.
JointsKeepElements ==
    LET name(j) == Nth(dna.jointNames, j)
        kept == ToSet(dna.jointNames)
        moves(twists) == [t \in DOMAIN twists |-> Moves(twists[t], dna.jointNames)]
    IN  Loaded /\ Loads("defn") =>
        /\ \A j \in Positions(dna.jointNames) :
              LET parent == Nth(file.jointHierarchy, name(j))
              IN  parent \in kept => name(Nth(dna.jointHierarchy, j)) = parent
        /\ Loads("jbmd") => \A j \in Positions(dna.jointNames) :
              Nth(dna.jointRepresentations, j) = Nth(file.jointRepresentations, name(j))
        /\ Loads("twsw") => /\ moves(dna.twists) = MovesKept(file.twists, kept)
                            /\ moves(dna.swings) = MovesKept(file.swings, kept)
        /\ Loads("mlbh") => MLOutputs(dna.mlbJoints, dna.jointNames) =
                                {o \in MLOutputs(file.mlbJoints, file.jointNames) : o[2] \in kept}

\* The operations an operation depends on: their set and their name.
Dependencies(doc, op) ==
    {<<op.inSet[i], Nth(Nth(doc.operations, op.inSet[i]), op.dependsOn[i]).name>> :
        i \in DOMAIN op.dependsOn}

\* An operation that is kept depends on the operations it depended on in the file, when its
\* LODs have them too: the numbers in it follow both filtered sets
\* (process(RawMachineLearnedBehaviorExt)).
OperationsKeepDependencies ==
    Loaded /\ Loads("mlbh") =>
    \A s \in DOMAIN dna.operations : \A o \in DOMAIN dna.operations[s] :
        \E before \in ToSet(file.operations[s]) :
            /\ before.name = dna.operations[s][o].name
            /\ Dependencies(dna, dna.operations[s][o]) = Dependencies(file, before)
=============================================================================
