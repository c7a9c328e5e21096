---------------------------- MODULE MCDNAFilter ----------------------------
(***************************************************************************)
(* Small files with three LODs.  Each varies one part: its joints, its       *)
(* meshes and channels, its networks and solvers, or its operations.        *)
(***************************************************************************)
EXTENDS DNAFilter

CONSTANT ChannelsAreOrdered  \* the channels of every LOD are the first ones

Lods == 0 .. 2

\* LOD sets, one for each LOD: any, and those where a LOD has all that the next one has.
LODSets(n) == [1 .. 3 -> SUBSET (0 .. n - 1)]
Chains(n) == {s \in LODSets(n) : s[3] \subseteq s[2] /\ s[2] \subseteq s[1]}
Ordered(s) == \A l \in 1 .. 3 : s[l] = 0 .. Cardinality(s[l]) - 1

Lists(sets) ==
    LET distinct == FoldLeft(LAMBDA seen, x : IF x \in ToSet(seen) THEN seen ELSE Append(seen, x),
                             <<>>, sets)
    IN  [i \in 1 .. Len(distinct) |-> SetToSortSeq(distinct[i], <)]

\* Writers enter each list once; their order is free.
MappingOf(sets, reversed) ==
    LET lists == IF reversed THEN Reverse(Lists(sets)) ELSE Lists(sets)
    IN  [lods |-> [l \in 1 .. 3 |->
                      (CHOOSE i \in DOMAIN lists : ToSet(lists[i]) = sets[l]) - 1],
         indices |-> lists]

\* Rows of the elements of a chain, those of the lower LODs first.
RowOrder(s) ==
    LET depth(x) == Cardinality({l \in 1 .. 3 : x \in s[l]})
    IN  SetToSortSeq(s[1], LAMBDA a, b : depth(a) > depth(b) \/ (depth(a) = depth(b) /\ a < b))
Sizes(s) == [l \in 1 .. 3 |-> Cardinality(s[l])]

Everywhere(n) == MappingOf(<<0 .. n - 1, 0 .. n - 1, 0 .. n - 1>>, FALSE)

GroupOf(s) ==
    LET order == RowOrder(s)
    IN  [lods |-> Sizes(s), inputIndices |-> <<0, 2>>,
         outputIndices |-> [r \in DOMAIN order |-> order[r] * 9 + r],
         values |-> [i \in 1 .. 2 * Len(order) |-> i],
         jointIndices |-> SetToSortSeq(s[1], <)]

RowsOf(s, controls) ==
    LET order == RowOrder(s)
    IN  [lods |-> Sizes(s), inputIndices |-> [r \in DOMAIN order |-> controls[order[r] + 1]],
         outputIndices |-> order]

Influence(j, w) == [joint |-> j, weight |-> w, of |-> 4]
Twist(outputs) == [outputJointIndices |-> outputs, blendWeights |-> [i \in DOMAIN outputs |-> i],
                   inputIndices |-> <<0>>]
Operation(name, inSet, dependsOn) == [name |-> name, inSet |-> inSet, dependsOn |-> dependsOn]

Identity(n) == [i \in 1 .. n |-> i - 1]

Plain ==
    [EmptyDNA EXCEPT
        !.lodCount = 3,
        !.meshNames = Identity(2), !.lodMeshMapping = Everywhere(2),
        !.jointNames = Identity(1), !.lodJointMapping = Everywhere(1), !.jointHierarchy = <<0>>,
        !.blendShapeChannelNames = Identity(2), !.lodBlendShapeMapping = Everywhere(2),
        !.animatedMapNames = Identity(2), !.lodAnimatedMapMapping = Everywhere(2),
        !.meshBlendShapeChannelMapping = <<<<0, 0>>, <<0, 1>>, <<1, 1>>>>,
        !.rawControlCount = 1, !.psdCount = 1, !.mlControlCount = 1, !.poseControlCount = 1,
        !.jointGroups = <<GroupOf(<<{0}, {0}, {0}>>)>>,
        !.blendShapeChannels = RowsOf(<<{0, 1}, {0, 1}, {0, 1}>>, <<0, 1>>),
        !.animatedMaps = RowsOf(<<{0, 1}, {0, 1}, {0, 1}>>, <<1, 0>>),
        !.meshes = <<[name |-> 0, skin |-> <<Influence(0, 4)>>, targets |-> <<0, 1>>],
                     [name |-> 1, skin |-> <<Influence(0, 4)>>, targets |-> <<1>>]>>,
        !.neuralNetworks = Identity(2), !.lodNeuralNetworkMapping = Everywhere(2),
        !.regions = <<<<<<0>>, <<0, 1>>>>, <<<<1>>>>>>,
        !.solvers = Identity(2), !.lodSolverMapping = Everywhere(2),
        !.jointRepresentations = <<0>>,
        !.mlbJoints = [attributes |-> 4, inputIndices |-> <<0>>, outputIndices |-> <<2>>]]

WithJoints ==
    {[Plain EXCEPT
        !.jointNames = Identity(3), !.lodJointMapping = MappingOf(s, reversed),
        !.jointHierarchy = hierarchy,
        !.jointGroups = <<GroupOf(s), GroupOf([l \in 1 .. 3 |-> s[l] \cap {1}])>>,
        !.meshes = <<[name |-> 0, targets |-> <<0, 1>>,
                      skin |-> <<Influence(0, 1), Influence(2, 2), Influence(1, 1)>>],
                     [name |-> 1, targets |-> <<1>>, skin |-> <<Influence(2, 4)>>]>>,
        !.jointRepresentations = <<0, 1, 2>>,
        !.twists = <<Twist(<<1>>), Twist(<<2, 0>>)>>, !.swings = <<Twist(<<0, 1, 2>>)>>,
        !.mlbJoints = [attributes |-> 4, inputIndices |-> <<0, 1, 2>>,
                       outputIndices |-> <<9, 6, 3>>]] :
        s \in Chains(3), reversed \in BOOLEAN, hierarchy \in {<<0, 0, 1>>, <<1, 1, 0>>}}

WithMeshes ==
    {[Plain EXCEPT
        !.lodMeshMapping = MappingOf(m, FALSE),
        !.lodBlendShapeMapping = MappingOf(s, FALSE),
        !.lodAnimatedMapMapping = MappingOf(s, FALSE),
        !.blendShapeChannels = RowsOf(s, controls), !.animatedMaps = RowsOf(s, controls)] :
        m \in {m \in LODSets(2) : m[1] # {} /\ m[2] # m[3]}, s \in {s \in Chains(2) : ChannelsAreOrdered => Ordered(s)},
        controls \in {<<0, 1>>, <<2, 0>>, <<3, 2>>}}

WithNetworks ==
    {[Plain EXCEPT !.lodNeuralNetworkMapping = MappingOf(s, TRUE),
                   !.lodSolverMapping = MappingOf(s, FALSE)] : s \in LODSets(2)}

\* Set 1 depends on set 0 and set 2 on both, in every LOD.
LastSet(s) == [l \in 1 .. 3 |-> IF 1 \in s[1][l] \cap s[2][l] THEN {0} ELSE {}]

WithOperations ==
    {[Plain EXCEPT
        !.operations = <<<<Operation(0, <<>>, <<>>), Operation(1, <<>>, <<>>)>>,
                         <<Operation(0, <<0>>, <<1>>), Operation(1, <<0, 0>>, <<0, 1>>)>>,
                         <<Operation(0, <<0, 1>>, <<1, 1>>)>>>>,
        !.lodMLOperationMappings = <<MappingOf(s[1], FALSE), MappingOf(s[2], FALSE),
                                     MappingOf(LastSet(s), FALSE)>>] :
        s \in {s \in LODSets(2) \X LODSets(2) :
                  \A l \in 1 .. 3 : /\ 0 \in s[2][l] => 1 \in s[1][l]
                                    /\ 1 \in s[2][l] => s[1][l] = {0, 1}}}

Constraints == {LODList(SetToSeq(s)) : s \in SUBSET Lods \ {{}}} \cup {LODRange(0, 4)}
All == {"defn", "bhvr", "geom", "blendshapes", "mlbh", "rbfb", "jbmd", "twsw"}
Config(masks, policies) == [lods : Constraints, layers : masks, unknownPolicy : policies]

MCRequests ==
    ((WithJoints \cup WithNetworks \cup WithOperations) \X Config({All}, {"Preserve"}))
    \cup (WithMeshes \X Config({All}, {"Preserve"}))
    \cup (WithMeshes \X Config({All, All \ {"mlbh"}, All \ {"blendshapes", "rbfb"}}, {"Ignore"}))

ASSUME OrderAssumption == ChannelsAreOrdered => ChannelsInOrder
=============================================================================
