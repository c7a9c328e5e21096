--------------------------- MODULE DNADocumentProofs ---------------------------
(***************************************************************************)
(* What was written is what is read, unloading takes along what depends on  *)
(* the layer, and raw copies hold what their source holds, for all          *)
(* documents, files, versions and sequences of calls.                       *)
(***************************************************************************)
EXTENDS DNADocument, TLAPS

IsReader(r) ==
    /\ HasFields(r, {"dna", "attached", "lods", "cache"})
    /\ IsDNA(r.dna)
    /\ r.lods \in 0 .. 32 /\ r.attached \in BOOLEAN
    /\ r.cache \in Seq(Seq(Nat))

IsCopy(d) == IsHeader(d) /\ DOMAIN d.layers = Ids

\* The file has what was written of the layers that its version has, and what it lacks
\* of them was empty.
HoldsWritten ==
    /\ IsFile(file)
    /\ \A l \in file.present \cap Ids : file.layers[l] = SavedLayer(l, written, file.version)
    /\ \A l \in Ids \ file.present : Has(file.version, l) => written[l] = EmptyLayers[l]

DocumentInv ==
    /\ IsDNA(writer) /\ IsReader(reader) /\ IsCopy(copy)
    /\ HasFields(written, Ids) /\ \A l \in Ids : IsLayer(l, written[l])
    /\ file = NoFile \/ HoldsWritten
    /\ kind \in Kinds
    /\ last.calls \in 0 .. MaxCalls /\ last.steps \in 0 .. MaxSteps
-----------------------------------------------------------------------------

(* Records: fields that are there, and changes that leave them there.       *)

LEMMA FreshRecord == ASSUME NEW A, NEW S PROVE HasFields(Fresh(A, S), DOMAIN Fresh(A, S))
  BY DEF Fresh, ++, HasFields

\* A new layer has the fields of its arrays and scalars, all of them empty.
LEMMA FreshFields == ASSUME NEW A, NEW S PROVE DOMAIN Fresh(A, S) = A \cup S
  BY DEF Fresh, ++

LEMMA FreshArray == ASSUME NEW A, NEW S, NEW f \in A PROVE Fresh(A, S)[f] = <<>>
  BY DEF Fresh, ++

LEMMA FreshScalar == ASSUME NEW A, NEW S, NEW f \in S, f \notin A PROVE Fresh(A, S)[f] = 0
  BY DEF Fresh, ++

\* Joining records: the left one hides the right one.
LEMMA OverRecord == ASSUME NEW f, NEW g PROVE HasFields(f ++ g, DOMAIN (f ++ g))
  BY DEF ++, HasFields

LEMMA OverFields == ASSUME NEW f, NEW g PROVE DOMAIN (f ++ g) = DOMAIN f \cup DOMAIN g
  BY DEF ++

LEMMA OverLeft == ASSUME NEW f, NEW g, NEW x \in DOMAIN f PROVE (f ++ g)[x] = f[x]
  BY DEF ++

LEMMA OverRight == ASSUME NEW f, NEW g, NEW x \in DOMAIN g, x \notin DOMAIN f PROVE (f ++ g)[x] = g[x]
  BY DEF ++

\* A record with a field changed
LEMMA ChangedField ==
    ASSUME NEW r, NEW D, HasFields(r, D), NEW g, NEW v
    PROVE  /\ HasFields([r EXCEPT ![g] = v], D)
           /\ \A f \in D : f # g => [r EXCEPT ![g] = v][f] = r[f]
           /\ g \in D => [r EXCEPT ![g] = v][g] = v
  BY DEF HasFields

\* What a call makes of one field leaves the others alone.
LEMMA InFields ==
    ASSUME NEW r, NEW D, HasFields(r, D), NEW g, NEW results, NEW x \in In(r, g, results)
    PROVE  /\ HasFields(x, D)
           /\ \A f \in D : f # g => x[f] = r[f]
           /\ g \in D => x[g] \in results
<1>1. PICK v \in results : x = [r EXCEPT ![g] = v]
  BY DEF In
<1>2. /\ HasFields([r EXCEPT ![g] = v], D)
      /\ \A f \in D : f # g => [r EXCEPT ![g] = v][f] = r[f]
      /\ g \in D => [r EXCEPT ![g] = v][g] = v
  BY DEF HasFields
<1> QED  BY <1>1, <1>2

\* So does what a call makes of one of several arrays and scalars.
LEMMA AssignedFields ==
    ASSUME NEW r, NEW D, HasFields(r, D), NEW arrays, NEW scalars, NEW x \in Assigned(r, arrays, scalars)
    PROVE  /\ HasFields(x, D)
           /\ \A f \in D \ (arrays \cup scalars) : x[f] = r[f]
<1>1. CASE x \in UNION {In(r, f, ArrayValues) : f \in arrays}
  <2>1. PICK f \in arrays : x \in In(r, f, ArrayValues)
    BY <1>1
  <2> QED  BY <2>1, InFields
<1>2. CASE x \in UNION {In(r, f, ScalarValues) : f \in scalars}
  <2>1. PICK f \in scalars : x \in In(r, f, ScalarValues)
    BY <1>2
  <2> QED  BY <2>1, InFields
<1> QED  BY <1>1, <1>2 DEF Assigned

LEMMA SameFields == ASSUME NEW r, NEW D, HasFields(r, D) PROVE DOMAIN r = D
  BY DEF HasFields

\* Loading an array replaces what is there, if that is empty or the same.
LEMMA LoadedFields ==
    ASSUME NEW old, NEW new, NEW D, HasFields(new, D), NEW arrays
    PROVE  /\ HasFields(Loaded(old, new, arrays), D)
           /\ \A f \in D \ arrays : Loaded(old, new, arrays)[f] = new[f]
  BY DEF Loaded, HasFields

\* If every array was empty, or all is as it is in the file, the layer becomes the one of the file.
LEMMA LoadedReplaces ==
    ASSUME NEW old, NEW new, NEW D, HasFields(new, D), NEW arrays,
           old = new \/ \A f \in arrays : old[f] = <<>>
    PROVE  Loaded(old, new, arrays) = new
<1>1. Loaded(old, new, arrays) = [f \in D |-> new[f]]
  BY DEF Loaded, HasFields
<1> QED  BY <1>1 DEF HasFields

\* The same for mappings of LODs.
LEMMA LoadedMappingsFields ==
    ASSUME NEW old, NEW new, NEW D, HasFields(new, D), NEW mappings, mappings \subseteq D,
           \A f \in mappings : IsMapping(new[f])
    PROVE  /\ HasFields(LoadedMappings(old, new, mappings), D)
           /\ \A f \in mappings : IsMapping(LoadedMappings(old, new, mappings)[f])
           /\ \A f \in D \ mappings : LoadedMappings(old, new, mappings)[f] = new[f]
<1> DEFINE m == [f \in mappings |-> LoadedMapping(old[f], new[f])]
<1>1. LoadedMappings(old, new, mappings) = m ++ new
  BY DEF LoadedMappings
<1>2. DOMAIN m \cup DOMAIN new = D
  BY SameFields
<1>3. \A f \in mappings : IsMapping(m[f])
  BY LoadedFields DEF IsMapping, LoadedMapping
<1>4. DOMAIN m = mappings
  OBVIOUS
<1> HIDE DEF m
<1>5. HasFields(m ++ new, D)
  BY <1>2 DEF ++, HasFields
<1>6. \A f \in mappings : IsMapping((m ++ new)[f])
  BY <1>3, <1>4, OverLeft
<1>7. \A f \in D \ mappings : (m ++ new)[f] = new[f]
  BY <1>2, <1>4, OverRight
<1> QED  BY <1>1, <1>5, <1>6, <1>7

LEMMA LoadedMappingsReplaces ==
    ASSUME NEW old, NEW new, NEW D, HasFields(new, D), NEW mappings, mappings \subseteq D,
           \A f \in mappings : IsMapping(new[f]),
           old = new \/ \A f \in mappings : old[f] = EmptyMapping
    PROVE  LoadedMappings(old, new, mappings) = new
<1> DEFINE m == [f \in mappings |-> LoadedMapping(old[f], new[f])]
<1>1. ASSUME NEW f \in mappings PROVE LoadedMapping(old[f], new[f]) = new[f]
  <2>1. HasFields(new[f], {"lods", "indices"})
    BY DEF IsMapping
  <2>2. old[f] = new[f] \/ \A g \in {"lods"} : old[f][g] = <<>>
    BY DEF EmptyMapping
  <2> QED  BY <2>1, <2>2, LoadedReplaces DEF LoadedMapping
<1>2. m ++ new = [f \in D |-> new[f]]
  BY <1>1, SameFields DEF ++
<1> QED  BY <1>2 DEF LoadedMappings, HasFields
-----------------------------------------------------------------------------
(* New layers, and layers after a call, have the fields they should.        *)

LEMMA EmptyFields ==
    /\ DOMAIN EmptyLayers = Ids /\ HasFields(EmptyLayers, Ids)
    /\ \A l \in Ids : IsLayer(l, EmptyLayers[l])
    /\ \A f \in DescriptorArrays : EmptyLayers.desc[f] = <<>>
    /\ \A f \in BehaviorArrays : EmptyLayers.bhvr[f] = <<>>
    /\ \A f \in DefinitionArrays : EmptyLayers.defn[f] = <<>>
    /\ \A f \in DefinitionMappings : EmptyLayers.defn[f] = EmptyMapping
    /\ EmptyLayers.mlbh.lodNeuralNetworkMapping = EmptyMapping
    /\ EmptyLayers.rbfb.lodSolverMapping = EmptyMapping
    /\ \A f \in MLJointsArrays : EmptyLayers.mlbe.mlbJoints[f] = <<>>
<1>1. DOMAIN EmptyLayers = Ids /\ HasFields(EmptyLayers, Ids)
  BY DEF EmptyLayers, Ids, Sections, HasFields
<1>2. IsMapping(EmptyMapping)
  BY DEF EmptyMapping, IsMapping, HasFields
<1>3. /\ IsLayer("desc", EmptyLayers.desc)
      /\ \A f \in DescriptorArrays : EmptyLayers.desc[f] = <<>>
  <2>1. EmptyLayers.desc = Fresh(DescriptorArrays \cup {"metaData"}, DescriptorScalars \cup {"lodCount"})
    BY DEF EmptyLayers, EmptyDescriptor
  <2>2. "lodCount" \notin DescriptorArrays \cup {"metaData"}
    BY DEF DescriptorArrays
  <2>3. EmptyLayers.desc.lodCount = 0
    BY <2>1, <2>2, FreshScalar
  <2>4. HasFields(EmptyLayers.desc, DOMAIN EmptyLayers.desc)
    BY <2>1, FreshRecord
  <2> QED  BY <2>1, <2>3, <2>4, FreshArray DEF IsLayer
<1>4. IsLayer("dsce", EmptyLayers.dsce)
  <2>1. EmptyLayers.dsce = Fresh({}, DescriptorExtScalars)
    BY DEF EmptyLayers, EmptyDescriptorExt
  <2> QED  BY <2>1, FreshRecord DEF IsLayer
<1>5. /\ IsLayer("defn", EmptyLayers.defn)
      /\ \A f \in DefinitionArrays : EmptyLayers.defn[f] = <<>>
      /\ \A f \in DefinitionMappings : EmptyLayers.defn[f] = EmptyMapping
  <2> DEFINE a == Fresh(NameLists \cup DefinitionArrays, {})
             b == [f \in DefinitionMappings |-> EmptyMapping]
  <2>1. EmptyLayers.defn = a ++ b
    BY DEF EmptyLayers, EmptyDefinition
  <2>2. DOMAIN a = NameLists \cup DefinitionArrays /\ \A f \in DefinitionArrays : a[f] = <<>>
    <3>1. DOMAIN a = NameLists \cup DefinitionArrays
      BY FreshFields
    <3>2. \A f \in NameLists \cup DefinitionArrays : a[f] = <<>>
      BY FreshArray
    <3> QED  BY <3>1, <3>2
  <2>3. DOMAIN b = DefinitionMappings /\ \A f \in DefinitionMappings : b[f] = EmptyMapping
    OBVIOUS
  <2>4. \A f \in DefinitionMappings : f \notin NameLists \cup DefinitionArrays
    BY DEF DefinitionMappings, NameLists, DefinitionArrays, JointArrays
  <2> HIDE DEF a, b
  <2>5. \A f \in DefinitionArrays : EmptyLayers.defn[f] = <<>>
    BY <2>1, <2>2, OverLeft
  <2>6. \A f \in DefinitionMappings : EmptyLayers.defn[f] = EmptyMapping
    BY <2>1, <2>2, <2>3, <2>4, OverRight
  <2>7. HasFields(EmptyLayers.defn, DOMAIN EmptyLayers.defn)
    BY <2>1, OverRecord
  <2> QED  BY <2>5, <2>6, <2>7, <1>2 DEF IsLayer
<1>6. /\ IsLayer("bhvr", EmptyLayers.bhvr)
      /\ \A f \in BehaviorArrays : EmptyLayers.bhvr[f] = <<>>
  <2>1. EmptyLayers.bhvr = Fresh(BehaviorArrays \cup {"jointGroups"}, BehaviorScalars)
    BY DEF EmptyLayers, EmptyBehavior
  <2> QED  BY <2>1, FreshRecord, FreshArray DEF IsLayer
<1>7. IsLayer("geom", EmptyLayers.geom)
  BY DEF EmptyLayers, EmptyGeometry, IsLayer, HasFields
<1>8. /\ IsLayer("mlbh", EmptyLayers.mlbh)
      /\ EmptyLayers.mlbh.lodNeuralNetworkMapping = EmptyMapping
  <2> DEFINE a == Fresh({"mlControlNames", "regionNames", "regionIndices", "neuralNetworks"}, {})
             b == [lodNeuralNetworkMapping |-> EmptyMapping]
  <2>1. EmptyLayers.mlbh = a ++ b
    BY DEF EmptyLayers, EmptyMachineLearnedBehavior
  <2>2. "lodNeuralNetworkMapping" \notin DOMAIN a
    BY FreshFields
  <2>3. DOMAIN b = {"lodNeuralNetworkMapping"} /\ b.lodNeuralNetworkMapping = EmptyMapping
    OBVIOUS
  <2> HIDE DEF a, b
  <2>4. /\ EmptyLayers.mlbh.lodNeuralNetworkMapping = EmptyMapping
        /\ HasFields(EmptyLayers.mlbh, DOMAIN EmptyLayers.mlbh)
    BY <2>1, <2>2, <2>3, OverRecord, OverRight
  <2> QED  BY <2>4, <1>2 DEF IsLayer
<1>9. /\ IsLayer("rbfb", EmptyLayers.rbfb)
      /\ EmptyLayers.rbfb.lodSolverMapping = EmptyMapping
  <2> DEFINE a == Fresh({"solvers", "poses"}, {})
             b == [lodSolverMapping |-> EmptyMapping]
  <2>1. EmptyLayers.rbfb = a ++ b
    BY DEF EmptyLayers, EmptyRBFBehavior
  <2>2. "lodSolverMapping" \notin DOMAIN a
    BY FreshFields
  <2>3. DOMAIN b = {"lodSolverMapping"} /\ b.lodSolverMapping = EmptyMapping
    OBVIOUS
  <2> HIDE DEF a, b
  <2>4. /\ EmptyLayers.rbfb.lodSolverMapping = EmptyMapping
        /\ HasFields(EmptyLayers.rbfb, DOMAIN EmptyLayers.rbfb)
    BY <2>1, <2>2, <2>3, OverRecord, OverRight
  <2> QED  BY <2>4, <1>2 DEF IsLayer
<1>10. IsLayer("rbfe", EmptyLayers.rbfe)
  <2>1. EmptyLayers.rbfe = Fresh({"poseControlNames", "poses"}, {})
    BY DEF EmptyLayers, EmptyRBFBehaviorExt
  <2> QED  BY <2>1, FreshRecord DEF IsLayer
<1>11. IsLayer("jbmd", EmptyLayers.jbmd)
  BY DEF EmptyLayers, EmptyJointBehaviorMetadata, IsLayer, HasFields
<1>12. IsLayer("twsw", EmptyLayers.twsw)
  <2>1. EmptyLayers.twsw = Fresh(Setups, {})
    BY DEF EmptyLayers, EmptyTwistSwingBehavior
  <2> QED  BY <2>1, FreshRecord DEF IsLayer
<1>13. /\ IsLayer("mlbe", EmptyLayers.mlbe)
       /\ \A f \in MLJointsArrays : EmptyLayers.mlbe.mlbJoints[f] = <<>>
  <2> DEFINE a == Fresh({"mlbTypeData"}, {})
             b == [mlbJoints |-> Fresh(MLJointsArrays, {})]
  <2>1. EmptyLayers.mlbe = a ++ b
    BY DEF EmptyLayers, EmptyMachineLearnedBehaviorExt
  <2>2. "mlbJoints" \notin DOMAIN a
    BY FreshFields
  <2>3. DOMAIN b = {"mlbJoints"} /\ b.mlbJoints = Fresh(MLJointsArrays, {})
    OBVIOUS
  <2> HIDE DEF a, b
  <2>4. /\ EmptyLayers.mlbe.mlbJoints = Fresh(MLJointsArrays, {})
        /\ HasFields(EmptyLayers.mlbe, DOMAIN EmptyLayers.mlbe)
    BY <2>1, <2>2, <2>3, OverRecord, OverRight
  <2>5. HasFields(Fresh(MLJointsArrays, {}), MLJointsArrays)
    BY DEF HasFields, Fresh, ++
  <2> QED  BY <2>4, <2>5, FreshArray DEF IsLayer
<1>14. \A l \in Ids : IsLayer(l, EmptyLayers[l])
  BY <1>3, <1>4, <1>5, <1>6, <1>7, <1>8, <1>9, <1>10, <1>11, <1>12, <1>13 DEF Ids, Sections
<1> QED  BY <1>1, <1>3, <1>5, <1>6, <1>8, <1>9, <1>13, <1>14

\* The fields of new layers that are named on their own
LEMMA EmptyDomains ==
    /\ "lodCount" \in DOMAIN EmptyLayers.desc
    /\ DefinitionMappings \subseteq DOMAIN EmptyLayers.defn
    /\ "lodNeuralNetworkMapping" \in DOMAIN EmptyLayers.mlbh
    /\ "lodSolverMapping" \in DOMAIN EmptyLayers.rbfb
    /\ "mlbJoints" \in DOMAIN EmptyLayers.mlbe
<1>1. "lodCount" \in DOMAIN EmptyLayers.desc
  BY DEF EmptyLayers, EmptyDescriptor, Fresh, ++
<1>2. DefinitionMappings \subseteq DOMAIN EmptyLayers.defn
  BY DEF EmptyLayers, EmptyDefinition, ++
<1>3. "lodNeuralNetworkMapping" \in DOMAIN EmptyLayers.mlbh
  BY DEF EmptyLayers, EmptyMachineLearnedBehavior, ++
<1>4. "lodSolverMapping" \in DOMAIN EmptyLayers.rbfb
  BY DEF EmptyLayers, EmptyRBFBehavior, ++
<1>5. "mlbJoints" \in DOMAIN EmptyLayers.mlbe
  BY DEF EmptyLayers, EmptyMachineLearnedBehaviorExt, ++
<1> QED  BY <1>1, <1>2, <1>3, <1>4, <1>5

\* A mapping of LODs stays one when a list or a LOD is set or cleared.
LEMMA MappingCallsKeep ==
    ASSUME NEW m, IsMapping(m), NEW x \in MappingCalls(m)
    PROVE  IsMapping(x)
<1>1. \A g, v : IsMapping([m EXCEPT ![g] = v])
  BY ChangedField DEF IsMapping
<1>2. CASE x \in {[m EXCEPT !.indices = <<>>], [m EXCEPT !.lods = <<>>]}
  BY <1>2 DEF IsMapping, HasFields
<1>3. ASSUME NEW i \in Rows, NEW s \in IndexLists, x = AddIndices(ClearIndices(m, i), i, s)
      PROVE  IsMapping(x)
  <2> DEFINE c == ClearIndices(m, i)
  <2>1. IsMapping(c)
    BY <1>1 DEF ClearIndices
  <2> HIDE DEF c
  <2>2. \A v : IsMapping([c EXCEPT !.indices = v])
    BY <2>1, ChangedField DEF IsMapping
  <2>3. x = AddIndices(c, i, s)
    BY <1>3 DEF c
  <2> QED  BY <2>2, <2>3 DEF AddIndices
<1>4. ASSUME NEW l \in LODs, NEW i \in Rows, x = AssociateLODWithIndices(m, l, i)
      PROVE  IsMapping(x)
  BY <1>4 DEF AssociateLODWithIndices, IsMapping, HasFields
<1> QED  BY <1>2, <1>3, <1>4 DEF MappingCalls

\* What a call makes of one field of a layer leaves the others alone.
LEMMA CallsKeepLayer ==
    ASSUME NEW l \in Ids, NEW layers, IsLayer(l, layers[l]), NEW x \in LayerCalls(layers, l)
    PROVE  IsLayer(l, x)
<1> DEFINE r == layers[l]
           D == DOMAIN EmptyLayers[l]
<1>1. HasFields(r, D)
  BY DEF IsLayer
<1>2. \A g, results : x \in In(r, g, results) =>
          /\ HasFields(x, D)
          /\ \A f \in D : f # g => x[f] = r[f]
          /\ g \in D => x[g] \in results
  BY <1>1, InFields
<1>3. \A arrays, scalars : x \in Assigned(r, arrays, scalars) =>
          HasFields(x, D) /\ \A f \in D \ (arrays \cup scalars) : x[f] = r[f]
  BY <1>1, AssignedFields
<1>4. CASE l = "desc"
  <2>1. x \in DescriptorCalls(r)
    BY <1>4 DEF LayerCalls
  <2>2. "lodCount" \in D /\ r.lodCount \in Nat
    BY <1>4, EmptyDomains DEF IsLayer
  <2>3. "lodCount" \notin DescriptorArrays \cup DescriptorScalars
    BY DEF DescriptorArrays, DescriptorScalars
  <2> HIDE DEF r, D
  <2>4. CASE x \in Assigned(r, DescriptorArrays, DescriptorScalars)
    BY <1>3, <1>4, <2>2, <2>3, <2>4 DEF IsLayer, D
  <2>5. ASSUME NEW results, x \in In(r, "metaData", results) PROVE IsLayer(l, x)
    BY <1>2, <1>4, <2>2, <2>5 DEF IsLayer, D
  <2>6. CASE x \in In(r, "lodCount", {n + 1 : n \in LODs} \cup {0})
    <3>1. {n + 1 : n \in LODs} \cup {0} \subseteq Nat
      BY CallAssumption
    <3>2. x.lodCount \in Nat /\ HasFields(x, D)
      BY <1>2, <2>2, <2>6, <3>1
    <3> QED  BY <1>4, <3>2 DEF IsLayer, D
  <2> QED  BY <2>1, <2>4, <2>5, <2>6 DEF DescriptorCalls
<1>5. CASE l = "dsce"
  <2>1. x \in Assigned(r, {}, DescriptorExtScalars)
    BY <1>5 DEF LayerCalls, DescriptorExtCalls
  <2> QED  BY <1>3, <1>5, <2>1 DEF IsLayer
<1>6. CASE l = "defn"
  <2>1. x \in DefinitionCalls(r)
    BY <1>6 DEF LayerCalls
  <2>2. DefinitionMappings \subseteq D
    BY <1>6, EmptyDomains
  <2>3. \A f \in DefinitionMappings : IsMapping(r[f])
    BY <1>6 DEF IsLayer
  <2>4. \A f \in DefinitionMappings :
            f \notin JointArrays /\ f \notin NameLists /\ f # "meshBlendShapeChannelMapping"
    BY DEF DefinitionMappings, JointArrays, NameLists
  <2> HIDE DEF r, D
  <2>5. CASE x \in Assigned(r, JointArrays, {})
    BY <1>3, <1>6, <2>2, <2>3, <2>4, <2>5 DEF IsLayer, D
  <2>6. ASSUME NEW g, g \notin DefinitionMappings, NEW results, x \in In(r, g, results)
        PROVE  IsLayer(l, x)
    BY <1>2, <1>6, <2>2, <2>3, <2>6 DEF IsLayer, D
  <2>7. CASE x \in UNION {In(r, f, ListCalls(r[f])) : f \in NameLists}
    BY <2>4, <2>6, <2>7
  <2>8. CASE x \in UNION {In(r, f, MappingCalls(r[f])) : f \in DefinitionMappings}
    <3>1. PICK g \in DefinitionMappings : x \in In(r, g, MappingCalls(r[g]))
      BY <2>8
    <3>2. IsMapping(x[g])
      BY <1>2, <2>2, <2>3, <3>1, MappingCallsKeep
    <3> QED  BY <1>2, <1>6, <2>2, <2>3, <3>1, <3>2 DEF IsLayer, D
  <2>9. "meshBlendShapeChannelMapping" \notin DefinitionMappings
    BY DEF DefinitionMappings
  <2> QED  BY <2>1, <2>5, <2>6, <2>7, <2>8, <2>9 DEF DefinitionCalls
<1>7. CASE l = "bhvr"
  <2>1. x \in BehaviorCalls(r)
    BY <1>7 DEF LayerCalls
  <2> HIDE DEF r, D
  <2>2. HasFields(x, D)
    BY <1>2, <1>3, <2>1 DEF BehaviorCalls
  <2> QED  BY <1>7, <2>2 DEF IsLayer, D
<1>8. CASE l = "geom"
  <2>1. x \in GeometryCalls(r)
    BY <1>8 DEF LayerCalls
  <2> HIDE DEF r, D
  <2>2. HasFields(x, D)
    BY <1>2, <2>1 DEF GeometryCalls
  <2> QED  BY <1>8, <2>2 DEF IsLayer, D
<1>9. CASE l = "mlbh"
  <2>1. x \in MachineLearnedBehaviorCalls(r)
    BY <1>9 DEF LayerCalls
  <2>2. "lodNeuralNetworkMapping" \in D /\ IsMapping(r.lodNeuralNetworkMapping)
    BY <1>9, EmptyDomains DEF IsLayer
  <2> HIDE DEF r, D
  <2>3. ASSUME NEW g, g # "lodNeuralNetworkMapping", NEW results, x \in In(r, g, results)
        PROVE  IsLayer(l, x)
    BY <1>2, <1>9, <2>2, <2>3 DEF IsLayer, D
  <2>4. CASE x \in In(r, "lodNeuralNetworkMapping", MappingCalls(r.lodNeuralNetworkMapping))
    <3>1. IsMapping(x.lodNeuralNetworkMapping) /\ HasFields(x, D)
      BY <1>2, <2>2, <2>4, MappingCallsKeep
    <3> QED  BY <1>9, <3>1 DEF IsLayer, D
  <2> QED  BY <2>1, <2>3, <2>4 DEF MachineLearnedBehaviorCalls
<1>10. CASE l = "rbfb"
  <2>1. x \in RBFBehaviorCalls(r)
    BY <1>10 DEF LayerCalls
  <2>2. "lodSolverMapping" \in D /\ IsMapping(r.lodSolverMapping)
    BY <1>10, EmptyDomains DEF IsLayer
  <2> HIDE DEF r, D
  <2>3. ASSUME NEW g, g # "lodSolverMapping", NEW results, x \in In(r, g, results)
        PROVE  IsLayer(l, x)
    BY <1>2, <1>10, <2>2, <2>3 DEF IsLayer, D
  <2>4. CASE x \in In(r, "lodSolverMapping", MappingCalls(r.lodSolverMapping))
    <3>1. IsMapping(x.lodSolverMapping) /\ HasFields(x, D)
      BY <1>2, <2>2, <2>4, MappingCallsKeep
    <3> QED  BY <1>10, <3>1 DEF IsLayer, D
  <2> QED  BY <2>1, <2>3, <2>4 DEF RBFBehaviorCalls
<1>11. CASE l = "rbfe"
  <2>1. x \in RBFBehaviorExtCalls(r)
    BY <1>11 DEF LayerCalls
  <2> HIDE DEF r, D
  <2>2. HasFields(x, D)
    BY <1>2, <2>1 DEF RBFBehaviorExtCalls
  <2> QED  BY <1>11, <2>2 DEF IsLayer, D
<1>12. CASE l = "jbmd"
  <2>1. x \in JointBehaviorMetadataCalls(r)
    BY <1>12 DEF LayerCalls
  <2> HIDE DEF r, D
  <2>2. HasFields(x, D)
    BY <1>2, <2>1 DEF JointBehaviorMetadataCalls
  <2> QED  BY <1>12, <2>2 DEF IsLayer, D
<1>13. CASE l = "twsw"
  <2>1. x \in TwistSwingBehaviorCalls(r)
    BY <1>13 DEF LayerCalls
  <2> HIDE DEF r, D
  <2>2. HasFields(x, D)
    BY <1>2, <2>1 DEF TwistSwingBehaviorCalls
  <2> QED  BY <1>13, <2>2 DEF IsLayer, D
<1>14. CASE l = "mlbe"
  <2>1. x \in MachineLearnedBehaviorExtCalls(r)
    BY <1>14 DEF LayerCalls
  <2>2. "mlbJoints" \in D /\ HasFields(r.mlbJoints, MLJointsArrays)
    BY <1>14, EmptyDomains DEF IsLayer
  <2> HIDE DEF r, D
  <2>3. CASE x = EmptyMachineLearnedBehaviorExt
    <3>1. x = EmptyLayers.mlbe
      BY <2>3 DEF EmptyLayers
    <3> QED  BY <1>14, <3>1, EmptyFields DEF Ids, Sections
  <2>4. ASSUME NEW g, g # "mlbJoints", NEW results, x \in In(r, g, results)
        PROVE  IsLayer(l, x)
    BY <1>2, <1>14, <2>2, <2>4 DEF IsLayer, D
  <2>5. CASE x \in In(r, "mlbJoints", Assigned(r.mlbJoints, MLJointsArrays, {}))
    <3>1. HasFields(x.mlbJoints, MLJointsArrays) /\ HasFields(x, D)
      BY <1>2, <2>2, <2>5, AssignedFields
    <3> QED  BY <1>14, <3>1 DEF IsLayer, D
  <2> QED  BY <2>1, <2>3, <2>4, <2>5 DEF MachineLearnedBehaviorExtCalls
<1> QED  BY <1>4, <1>5, <1>6, <1>7, <1>8, <1>9, <1>10, <1>11, <1>12, <1>13, <1>14 DEF Ids, Sections
-----------------------------------------------------------------------------
(* Loading a layer: it is one again, and if there was none, or the same, it *)
(* is the layer of the file.                                                *)

LEMMA LoadedShape ==
    ASSUME NEW l \in Ids, NEW old, NEW new, IsLayer(l, old), IsLayer(l, new), NEW v, NEW m
    PROVE  IsLayer(l, LoadedLayer(l, old, new, v, m))
<1> DEFINE x == LoadedLayer(l, old, new, v, m)
           D == DOMAIN EmptyLayers[l]
<1>1. HasFields(new, D)
  BY DEF IsLayer
<1>2. \A arrays : /\ HasFields(Loaded(old, new, arrays), D)
                  /\ \A f \in D \ arrays : Loaded(old, new, arrays)[f] = new[f]
  BY <1>1, LoadedFields
<1>3. CASE l = "desc"
  <2>1. x = Loaded(old, new, DescriptorArrays)
    BY <1>3, Zenon DEF LoadedLayer
  <2>2. "lodCount" \in D \ DescriptorArrays
    BY <1>3, EmptyDomains DEF DescriptorArrays
  <2>3. new.lodCount \in Nat
    BY <1>3 DEF IsLayer
  <2> HIDE DEF x, D
  <2>4. HasFields(x, D) /\ x.lodCount \in Nat
    BY <1>2, <2>1, <2>2, <2>3
  <2> QED  BY <1>3, <2>4 DEF IsLayer, x, D
<1>4. CASE l = "dsce"
  <2>1. x = LoadedDescriptorExt(old, new, v)
    BY <1>4, Zenon DEF LoadedLayer
  <2> HIDE DEF x, D
  <2>2. HasFields(x, D)
    BY <1>1, <2>1, ChangedField DEF LoadedDescriptorExt
  <2> QED  BY <1>4, <2>2 DEF IsLayer, x, D
<1>5. CASE l = "defn"
  <2> DEFINE y == Loaded(old, new, DefinitionArrays)
  <2>1. x = LoadedMappings(old, y, DefinitionMappings)
    BY <1>5, Zenon DEF LoadedLayer, LoadedDefinition
  <2>2. \A f \in DefinitionMappings : f \notin DefinitionArrays /\ f \in D
    BY <1>5, EmptyDomains DEF DefinitionMappings, DefinitionArrays, JointArrays
  <2>3. \A f \in DefinitionMappings : IsMapping(new[f])
    BY <1>5 DEF IsLayer
  <2>4. HasFields(y, D) /\ \A f \in DefinitionMappings : IsMapping(y[f])
    BY <1>2, <2>2, <2>3
  <2> HIDE DEF x, y, D
  <2>5. DefinitionMappings \subseteq D
    BY <2>2
  <2>6. HasFields(x, D) /\ \A f \in DefinitionMappings : IsMapping(x[f])
    BY <2>1, <2>4, <2>5, LoadedMappingsFields
  <2> QED  BY <1>5, <2>6 DEF IsLayer, x, D
<1>6. CASE l = "bhvr"
  <2>1. x = Loaded(old, new, BehaviorArrays)
    BY <1>6, Zenon DEF LoadedLayer
  <2> HIDE DEF x, D
  <2>2. HasFields(x, D)
    BY <1>2, <2>1
  <2> QED  BY <1>6, <2>2 DEF IsLayer, x, D
<1>7. CASE l = "geom"
  <2>1. x = IF "targets" \in m THEN new
            ELSE [meshes |-> [i \in 1 .. Len(new.meshes) |-> WithoutTargets(new.meshes[i])]]
    BY <1>7, Zenon DEF LoadedLayer
  <2>2. \A y : HasFields([meshes |-> y], D)
    BY <1>7 DEF EmptyLayers, EmptyGeometry, HasFields
  <2> HIDE DEF x, D
  <2>3. HasFields(x, D)
    BY <1>1, <2>1, <2>2
  <2> QED  BY <1>7, <2>3 DEF IsLayer, x, D
<1>8. CASE l = "mlbh"
  <2>1. x = LoadedMappings(old, new, {"lodNeuralNetworkMapping"})
    BY <1>8, Zenon DEF LoadedLayer
  <2>2. {"lodNeuralNetworkMapping"} \subseteq D
    BY <1>8, EmptyDomains
  <2>3. \A f \in {"lodNeuralNetworkMapping"} : IsMapping(new[f])
    BY <1>8 DEF IsLayer
  <2> HIDE DEF x, D
  <2>4. HasFields(x, D) /\ \A f \in {"lodNeuralNetworkMapping"} : IsMapping(x[f])
    BY <1>1, <2>1, <2>2, <2>3, LoadedMappingsFields
  <2> QED  BY <1>8, <2>4 DEF IsLayer, x, D
<1>9. CASE l = "rbfb"
  <2>1. x = LoadedMappings(old, new, {"lodSolverMapping"})
    BY <1>9, Zenon DEF LoadedLayer
  <2>2. {"lodSolverMapping"} \subseteq D
    BY <1>9, EmptyDomains
  <2>3. \A f \in {"lodSolverMapping"} : IsMapping(new[f])
    BY <1>9 DEF IsLayer
  <2> HIDE DEF x, D
  <2>4. HasFields(x, D) /\ \A f \in {"lodSolverMapping"} : IsMapping(x[f])
    BY <1>1, <2>1, <2>2, <2>3, LoadedMappingsFields
  <2> QED  BY <1>9, <2>4 DEF IsLayer, x, D
<1>10. CASE l = "mlbe"
  <2> DEFINE joints == Loaded(old.mlbJoints, new.mlbJoints, MLJointsArrays)
  <2>1. x = [new EXCEPT !.mlbJoints = joints]
    BY <1>10, Zenon DEF LoadedLayer, LoadedMachineLearnedBehaviorExt
  <2>2. HasFields(new.mlbJoints, MLJointsArrays) /\ "mlbJoints" \in D
    BY <1>10, EmptyDomains DEF IsLayer
  <2>3. HasFields(joints, MLJointsArrays)
    BY <2>2, LoadedFields
  <2> HIDE DEF x, D, joints
  <2>4. HasFields(x, D) /\ x.mlbJoints = joints
    BY <1>1, <2>1, <2>2, ChangedField
  <2> QED  BY <1>10, <2>3, <2>4 DEF IsLayer, x, D
<1>11. CASE l \in {"rbfe", "jbmd", "twsw"}
  <2>1. x = new
    BY <1>11, Zenon DEF LoadedLayer
  <2> QED  BY <2>1
<1> QED  BY <1>3, <1>4, <1>5, <1>6, <1>7, <1>8, <1>9, <1>10, <1>11 DEF Ids, Sections

\* A layer that was empty, or that holds the same already, becomes the one of the file.
LEMMA LoadedIsStored ==
    ASSUME NEW l \in Ids, NEW stored, IsLayer(l, stored[l]), NEW v, NEW m,
           NEW old \in {EmptyLayers[l], AsStored(stored, l, v, m)}
    PROVE  LoadedLayer(l, old, SavedLayer(l, stored, v), v, m) = AsStored(stored, l, v, m)
<1> DEFINE new == SavedLayer(l, stored, v)
           x == LoadedLayer(l, old, new, v, m)
           y == AsStored(stored, l, v, m)
           D == DOMAIN EmptyLayers[l]
<1>1. HasFields(stored[l], D)
  BY DEF IsLayer
<1>2. l # "dsce" => new = stored[l]
  BY DEF SavedLayer
<1>3. l \notin {"dsce", "geom"} => y = stored[l]
  BY Zenon DEF AsStored
<1>4. \A arrays : old = stored[l] \/ (\A f \in arrays : old[f] = <<>>)
            => Loaded(old, stored[l], arrays) = stored[l]
  BY <1>1, LoadedReplaces
<1>5. CASE l = "desc"
  <2>1. x = Loaded(old, new, DescriptorArrays)
    BY <1>5, Zenon DEF LoadedLayer
  <2>2. old = stored[l] \/ \A f \in DescriptorArrays : old[f] = <<>>
    BY <1>3, <1>5, EmptyFields
  <2> HIDE DEF x, y, new
  <2> QED  BY <1>2, <1>3, <1>4, <1>5, <2>1, <2>2 DEF x, y, new
<1>6. CASE l = "dsce"
  <2>1. x = LoadedDescriptorExt(old, new, v) /\ new = LoadedDescriptorExt(EmptyDescriptorExt, stored.dsce, v)
    BY <1>6, Zenon DEF LoadedLayer, SavedLayer
  <2>2. y = IF v \in 21 .. 27 THEN [stored.dsce EXCEPT !.faceWindingOrder = 0] ELSE stored.dsce
    BY <1>6, Zenon DEF AsStored
  <2>3. HasFields(stored.dsce, DescriptorExtScalars) /\ EmptyDescriptorExt = [f \in DescriptorExtScalars |-> 0]
    <3>1. EmptyDescriptorExt = [f \in DescriptorExtScalars |-> 0]
      BY DEF EmptyDescriptorExt, Fresh, ++
    <3> QED  BY <1>1, <1>6, <3>1 DEF EmptyLayers
  <2>4. EmptyDescriptorExt.faceWindingOrder = 0 /\ "faceWindingOrder" \in DescriptorExtScalars
    BY <2>3 DEF DescriptorExtScalars
  <2>5. old = y \/ old = EmptyDescriptorExt
    BY <1>6 DEF EmptyLayers
  <2> DEFINE s == stored.dsce
             z == [s EXCEPT !.faceWindingOrder = 0]
  <2>6. z.faceWindingOrder = 0 /\ [z EXCEPT !.faceWindingOrder = 0] = z
    BY <2>3, <2>4 DEF HasFields
  <2> HIDE DEF x, y, new, s, z
  <2>7. CASE v \in 21 .. 27
    <3>1. y = z /\ new = z
      BY <2>1, <2>2, <2>4, <2>7 DEF LoadedDescriptorExt, s, z
    <3>2. old.faceWindingOrder = 0
      BY <2>4, <2>5, <2>6, <3>1
    <3>3. x = [new EXCEPT !.faceWindingOrder = 0]
      BY <2>1, <2>7, <3>2 DEF LoadedDescriptorExt
    <3> QED  BY <2>6, <3>1, <3>3 DEF x, y, new
  <2>8. CASE v \notin 21 .. 27
    BY <2>1, <2>2, <2>8 DEF LoadedDescriptorExt, x, y, new
  <2> QED  BY <2>7, <2>8
<1>7. CASE l = "defn"
  <2>1. x = LoadedMappings(old, Loaded(old, new, DefinitionArrays), DefinitionMappings)
    BY <1>7, Zenon DEF LoadedLayer, LoadedDefinition
  <2>2. old = stored[l] \/ \A f \in DefinitionArrays : old[f] = <<>>
    BY <1>3, <1>7, EmptyFields
  <2>3. old = stored[l] \/ \A f \in DefinitionMappings : old[f] = EmptyMapping
    BY <1>3, <1>7, EmptyFields
  <2>4. \A f \in DefinitionMappings : IsMapping(stored[l][f])
    BY <1>7 DEF IsLayer
  <2>5. DefinitionMappings \subseteq D
    BY <1>7, EmptyDomains
  <2> HIDE DEF x, y, new, D
  <2>6. Loaded(old, new, DefinitionArrays) = stored[l]
    BY <1>2, <1>4, <1>7, <2>2
  <2>7. LoadedMappings(old, stored[l], DefinitionMappings) = stored[l]
    BY <1>1, <2>3, <2>4, <2>5, LoadedMappingsReplaces
  <2>8. x = y
    BY <1>3, <1>7, <2>1, <2>6, <2>7
  <2> QED  BY <2>8 DEF x, y, new
<1>8. CASE l = "bhvr"
  <2>1. x = Loaded(old, new, BehaviorArrays)
    BY <1>8, Zenon DEF LoadedLayer
  <2>2. old = stored[l] \/ \A f \in BehaviorArrays : old[f] = <<>>
    BY <1>3, <1>8, EmptyFields
  <2> HIDE DEF x, y, new
  <2> QED  BY <1>2, <1>3, <1>4, <1>8, <2>1, <2>2 DEF x, y, new
<1>9. CASE l = "geom"
  <2>1. x = IF "targets" \in m THEN new
            ELSE [meshes |-> [i \in 1 .. Len(new.meshes) |-> WithoutTargets(new.meshes[i])]]
    BY <1>9, Zenon DEF LoadedLayer
  <2>2. y = IF "targets" \in m THEN stored.geom
            ELSE [meshes |-> [i \in 1 .. Len(stored.geom.meshes) |-> WithoutTargets(stored.geom.meshes[i])]]
    BY <1>9, Zenon DEF AsStored
  <2> HIDE DEF x, y, new
  <2> QED  BY <1>2, <1>9, <2>1, <2>2 DEF x, y, new
<1>10. CASE l = "mlbh"
  <2>1. x = LoadedMappings(old, new, {"lodNeuralNetworkMapping"})
    BY <1>10, Zenon DEF LoadedLayer
  <2>2. old = stored[l] \/ \A f \in {"lodNeuralNetworkMapping"} : old[f] = EmptyMapping
    BY <1>3, <1>10, EmptyFields
  <2>3. \A f \in {"lodNeuralNetworkMapping"} : IsMapping(stored[l][f])
    BY <1>10 DEF IsLayer
  <2>4. {"lodNeuralNetworkMapping"} \subseteq D
    BY <1>10, EmptyDomains
  <2> HIDE DEF x, y, new, D
  <2>5. LoadedMappings(old, stored[l], {"lodNeuralNetworkMapping"}) = stored[l]
    BY <1>1, <2>2, <2>3, <2>4, LoadedMappingsReplaces
  <2>6. x = y
    BY <1>2, <1>3, <1>10, <2>1, <2>5
  <2> QED  BY <2>6 DEF x, y, new
<1>11. CASE l = "rbfb"
  <2>1. x = LoadedMappings(old, new, {"lodSolverMapping"})
    BY <1>11, Zenon DEF LoadedLayer
  <2>2. old = stored[l] \/ \A f \in {"lodSolverMapping"} : old[f] = EmptyMapping
    BY <1>3, <1>11, EmptyFields
  <2>3. \A f \in {"lodSolverMapping"} : IsMapping(stored[l][f])
    BY <1>11 DEF IsLayer
  <2>4. {"lodSolverMapping"} \subseteq D
    BY <1>11, EmptyDomains
  <2> HIDE DEF x, y, new, D
  <2>5. LoadedMappings(old, stored[l], {"lodSolverMapping"}) = stored[l]
    BY <1>1, <2>2, <2>3, <2>4, LoadedMappingsReplaces
  <2>6. x = y
    BY <1>2, <1>3, <1>11, <2>1, <2>5
  <2> QED  BY <2>6 DEF x, y, new
<1>12. CASE l = "mlbe"
  <2> DEFINE s == stored[l]
  <2>1. x = [new EXCEPT !.mlbJoints = Loaded(old.mlbJoints, new.mlbJoints, MLJointsArrays)]
    BY <1>12, Zenon DEF LoadedLayer, LoadedMachineLearnedBehaviorExt
  <2>2. HasFields(s.mlbJoints, MLJointsArrays)
    BY <1>12 DEF IsLayer
  <2>3. old.mlbJoints = s.mlbJoints \/ \A f \in MLJointsArrays : old.mlbJoints[f] = <<>>
    BY <1>3, <1>12, EmptyFields
  <2>4. \A a, b : HasFields(b, MLJointsArrays) /\ (a = b \/ \A f \in MLJointsArrays : a[f] = <<>>)
                    => Loaded(a, b, MLJointsArrays) = b
    BY LoadedReplaces
  <2>5. new = s /\ y = s
    BY <1>2, <1>3, <1>12
  <2> HIDE DEF x, y, new, s, D
  <2>6. x = [s EXCEPT !.mlbJoints = s.mlbJoints]
    BY <2>1, <2>2, <2>3, <2>4, <2>5
  <2>7. x = s
    BY <1>1, <2>6 DEF HasFields, s
  <2> QED  BY <2>5, <2>7 DEF x, y, new
<1>13. CASE l \in {"rbfe", "jbmd", "twsw"}
  <2>1. x = new
    BY <1>13, Zenon DEF LoadedLayer
  <2> HIDE DEF x, y, new
  <2> QED  BY <1>2, <1>3, <1>13, <2>1 DEF x, y, new
<1> QED  BY <1>5, <1>6, <1>7, <1>8, <1>9, <1>10, <1>11, <1>12, <1>13 DEF Ids, Sections
-----------------------------------------------------------------------------
(* Documents stay documents when they are indexed, saved and loaded.        *)

LEMMA Versions21 ==
    ASSUME NEW l \in Ids
    PROVE  AvailableFrom[l] \in Nat /\ AvailableFrom[l] > 21
<1>1. CASE l \in Sections
  BY <1>1 DEF AvailableFrom, ++
<1>2. CASE l \notin Sections
  <2>1. DOMAIN [x \in Sections |-> 22] = Sections
    OBVIOUS
  <2>2. l \in {"mlbh", "rbfb", "rbfe", "jbmd", "twsw", "mlbe", "dsce"}
    BY <1>2 DEF Ids
  <2> QED  BY <1>2, <2>1, <2>2 DEF AvailableFrom, ++
<1> QED  BY <1>1, <1>2

\* The table of layers is updated without touching the layers.
LEMMA IndexedKeeps ==
    ASSUME NEW d, IsDNA(d), NEW upgrade
    PROVE  LET e == Indexed(d, upgrade)
           IN  /\ IsDNA(e)
               /\ e.version = d.version /\ e.layers = d.layers /\ e.unknown = d.unknown
               /\ e.policy = d.policy
               /\ Unknown \in e.index => Unknown \in d.index
               /\ d.version = 21 => e = d
               /\ d.version # 21 => e.index = updateIndexTable(d, upgrade).index
<1> DEFINE e == Indexed(d, upgrade)
<1>1. CASE d.version = 21
  BY <1>1 DEF Indexed
<1>2. CASE d.version # 21
  <2>1. e = updateIndexTable(d, upgrade)
    BY <1>2 DEF Indexed
  <2> DEFINE supported == {l \in Ids : d.version >= AvailableFrom[l]}
             created == IF upgrade = "Allowed" THEN supported ELSE {}
             destroyed == IF d.policy = "Ignore" THEN Ids \ supported ELSE {}
  <2>2. e = [d EXCEPT !.index = (@ \cup created) \ destroyed] /\ created \subseteq Ids
    BY <2>1 DEF updateIndexTable
  <2>3. HasFields(d, {"version", "index", "policy", "unknown", "layers"})
    BY DEF IsDNA, IsHeader
  <2> HIDE DEF e, supported, created, destroyed
  <2>4. /\ HasFields(e, {"version", "index", "policy", "unknown", "layers"})
        /\ e.version = d.version /\ e.layers = d.layers /\ e.unknown = d.unknown
        /\ e.policy = d.policy
    BY <2>2, <2>3, ChangedField
  <2>5. e.index = (d.index \cup created) \ destroyed
    BY <2>2, <2>3, ChangedField
  <2>6. Unknown \notin Ids
    BY DEF Unknown, Ids, Sections
  <2>7. e.index \subseteq Ids \cup {Unknown} /\ (Unknown \in e.index => Unknown \in d.index)
    BY <2>2, <2>5, <2>6 DEF IsDNA, IsHeader
  <2>8. IsHeader(e)
    BY <2>4, <2>7 DEF IsDNA, IsHeader
  <2>9. IsDNA(e)
    BY <2>4, <2>8 DEF IsDNA
  <2> QED  BY <1>2, <2>1, <2>4, <2>7, <2>9 DEF e
<1> QED  BY <1>1, <1>2

\* Saving a layer a second time changes nothing, since only its scalars depend on the version.
LEMMA SavedLayers ==
    ASSUME NEW l \in Ids, NEW layers, IsLayer(l, layers[l]), NEW v
    PROVE  /\ IsLayer(l, SavedLayer(l, layers, v))
           /\ \A others : others[l] = SavedLayer(l, layers, v) => SavedLayer(l, others, v) = others[l]
<1>1. CASE l # "dsce"
  BY <1>1 DEF SavedLayer
<1>2. CASE l = "dsce"
  <2> DEFINE s == layers.dsce
             z == EmptyDescriptorExt.faceWindingOrder
             D == DOMAIN EmptyLayers.dsce
  <2>1. HasFields(s, D)
    BY <1>2 DEF IsLayer
  <2>2. SavedLayer(l, layers, v) = IF v \in 21 .. 27 THEN [s EXCEPT !.faceWindingOrder = z] ELSE s
    BY <1>2 DEF SavedLayer, LoadedDescriptorExt
  <2>3. \A others : SavedLayer(l, others, v) =
            IF v \in 21 .. 27 THEN [others.dsce EXCEPT !.faceWindingOrder = z] ELSE others.dsce
    BY <1>2 DEF SavedLayer, LoadedDescriptorExt
  <2> HIDE DEF s, z, D
  <2>4. HasFields([s EXCEPT !.faceWindingOrder = z], D)
    BY <2>1, ChangedField
  <2>5. [[s EXCEPT !.faceWindingOrder = z] EXCEPT !.faceWindingOrder = z]
            = [s EXCEPT !.faceWindingOrder = z]
    BY <2>1 DEF HasFields
  <2>6. IsLayer(l, SavedLayer(l, layers, v))
    BY <1>2, <2>1, <2>2, <2>4 DEF IsLayer, D
  <2>7. ASSUME NEW others, others[l] = SavedLayer(l, layers, v)
        PROVE  SavedLayer(l, others, v) = others[l]
    <3> DEFINE o == others.dsce
    <3>1. o = IF v \in 21 .. 27 THEN [s EXCEPT !.faceWindingOrder = z] ELSE s
      BY <1>2, <2>2, <2>7
    <3>2. SavedLayer(l, others, v) = IF v \in 21 .. 27 THEN [o EXCEPT !.faceWindingOrder = z] ELSE o
      BY <2>3
    <3> HIDE DEF o
    <3>3. SavedLayer(l, others, v) = o
      BY <2>5, <3>1, <3>2
    <3> QED  BY <1>2, <3>3 DEF o
  <2> QED  BY <2>6, <2>7
<1> QED  BY <1>1, <1>2

\* A file has the layers of its document, as far as its version and its table have them.
LEMMA SavedFile ==
    ASSUME NEW d, IsDNA(d)
    PROVE  LET f == Saved(d)
           IN  /\ IsFile(f) /\ f.version = d.version
               /\ f.present = IF d.version = 21 THEN Sections ELSE d.index
               /\ Unknown \in f.present => f.unknown = d.unknown
               /\ \A l \in f.present \cap Ids : f.layers[l] = SavedLayer(l, d.layers, d.version)
<1> DEFINE f == Saved(d)
           present == IF d.version = 21 THEN Sections ELSE d.index
           layers == [l \in present \cap Ids |-> SavedLayer(l, d.layers, d.version)]
           unknown == IF Unknown \in present THEN d.unknown ELSE 0
<1>1. f = [version |-> d.version, present |-> present, unknown |-> unknown, layers |-> layers]
  BY DEF Saved
<1>2. /\ present \subseteq Ids \cup {Unknown}
      /\ Unknown \in present => d.version # 21 /\ Unknown \in d.index
  BY DEF IsDNA, IsHeader, Ids, Sections, Unknown
<1>3. unknown \in Nat /\ (Unknown \in present => unknown # 0 /\ unknown = d.unknown)
  BY <1>2 DEF IsDNA, IsHeader
<1>4. \A l \in present \cap Ids : /\ IsLayer(l, layers[l])
                                  /\ layers[l] = SavedLayer(l, layers, d.version)
                                  /\ layers[l] = SavedLayer(l, d.layers, d.version)
  BY SavedLayers DEF IsDNA
<1>5. HasFields(layers, present \cap Ids)
  BY DEF HasFields
<1>6. d.version \in Versions \cup {latest}
  BY DEF IsDNA, IsHeader
<1> HIDE DEF layers, present, unknown, f
<1>7. /\ HasFields(f, {"version", "present", "unknown", "layers"})
      /\ f.version = d.version /\ f.present = present /\ f.unknown = unknown /\ f.layers = layers
  BY <1>1 DEF HasFields
<1>8. IsFile(f)
  BY <1>2, <1>3, <1>4, <1>5, <1>6, <1>7 DEF IsFile
<1> QED  BY <1>3, <1>4, <1>7, <1>8 DEF f, present

\* Deriving poses from the RBF layer keeps the extension's fields.
LEMMA PostLoadFields ==
    ASSUME NEW rbfe, IsLayer("rbfe", rbfe), NEW rbfb
    PROVE  IsLayer("rbfe", PostLoad(rbfe, rbfb))
<1>1. DOMAIN EmptyLayers.rbfe = {"poseControlNames", "poses"}
  BY FreshFields DEF EmptyLayers, EmptyRBFBehaviorExt
<1>2. \A n, p : HasFields([poseControlNames |-> n, poses |-> p], {"poseControlNames", "poses"})
  BY DEF HasFields
<1>3. \A n, p : IsLayer("rbfe", [poseControlNames |-> n, poses |-> p])
  BY <1>1, <1>2 DEF IsLayer
<1> QED  BY <1>3 DEF PostLoad

\* The layers that loading makes, before postLoadActions
TakenOver(d, f, mask) ==
    [l \in Ids |-> IF l \in f.present \cap mask
                   THEN LoadedLayer(l, d.layers[l], f.layers[l], f.version, mask)
                   ELSE d.layers[l]]

\* What a load makes of a document, field by field
LEMMA LoadFields ==
    ASSUME NEW d, IsDNA(d), NEW f, IsFile(f), NEW mask
    PROVE  LET e == Load(d, f, mask)
           IN  /\ HasFields(e, {"version", "index", "policy", "unknown", "layers"})
               /\ e.version = f.version /\ e.policy = d.policy
               /\ f.version = 21 => /\ e.index = d.index /\ e.unknown = d.unknown
                                    /\ e.layers = TakenOver(d, f, mask)
               /\ f.version # 21 =>
                     /\ e.index = f.present \ (IF KeepsUnknown(d, f) THEN {} ELSE {Unknown})
                     /\ e.unknown = IF KeepsUnknown(d, f) THEN f.unknown ELSE d.unknown
                     /\ e.layers = postLoadActions(TakenOver(d, f, mask))
<1> DEFINE e == Load(d, f, mask)
           index == f.present \ (IF KeepsUnknown(d, f) THEN {} ELSE {Unknown})
           unknown == IF KeepsUnknown(d, f) THEN f.unknown ELSE d.unknown
           layers == TakenOver(d, f, mask)
           loaded == postLoadActions(layers)
<1>1. HasFields(d, {"version", "index", "policy", "unknown", "layers"})
  BY DEF IsDNA, IsHeader
<1>2. CASE f.version = 21
  <2>1. e = [d EXCEPT !.version = 21, !.layers = layers]
    BY <1>2 DEF Load, TakenOver
  <2> HIDE DEF e, layers
  <2>2. /\ HasFields(e, {"version", "index", "policy", "unknown", "layers"})
        /\ e.version = 21 /\ e.policy = d.policy /\ e.index = d.index /\ e.unknown = d.unknown
        /\ e.layers = layers
    BY <1>1, <2>1 DEF HasFields
  <2> QED  BY <1>2, <2>2 DEF e, layers
<1>3. CASE f.version # 21
  <2>1. e = [d EXCEPT !.version = f.version, !.index = index, !.unknown = unknown, !.layers = loaded]
    BY <1>3 DEF Load, TakenOver
  <2> HIDE DEF e, index, unknown, layers, loaded
  <2>2. /\ HasFields(e, {"version", "index", "policy", "unknown", "layers"})
        /\ e.version = f.version /\ e.policy = d.policy /\ e.index = index /\ e.unknown = unknown
        /\ e.layers = loaded
    BY <1>1, <2>1 DEF HasFields
  <2> QED  BY <1>3, <2>2 DEF e, index, unknown, layers, loaded
<1> QED  BY <1>2, <1>3

\* What it makes of the layers
LEMMA LoadedLayers ==
    ASSUME NEW d, IsDNA(d), NEW f, IsFile(f), NEW mask
    PROVE  LET t == TakenOver(d, f, mask)
               layers == Load(d, f, mask).layers
           IN  /\ HasFields(layers, Ids)
               /\ \A l \in Ids : IsLayer(l, t[l]) /\ IsLayer(l, layers[l])
               /\ \A l \in Ids \ {"rbfe"} : layers[l] = t[l]
               /\ layers.rbfe = IF f.version = 21 THEN t.rbfe ELSE PostLoad(t.rbfe, t.rbfb)
<1> DEFINE t == TakenOver(d, f, mask)
           layers == Load(d, f, mask).layers
<1>1. HasFields(t, Ids) /\ \A l \in Ids : t[l] = IF l \in f.present \cap mask
                   THEN LoadedLayer(l, d.layers[l], f.layers[l], f.version, mask)
                   ELSE d.layers[l]
  BY DEF TakenOver, HasFields
<1>2. \A l \in Ids : IsLayer(l, d.layers[l]) /\ (l \in f.present => IsLayer(l, f.layers[l]))
  BY DEF IsDNA, IsFile
<1>3. layers = IF f.version = 21 THEN t ELSE postLoadActions(t)
  BY LoadFields
<1> HIDE DEF t, layers
<1>4. \A l \in Ids : IsLayer(l, t[l])
  BY <1>1, <1>2, LoadedShape
<1>5. "rbfe" \in Ids
  BY DEF Ids
<1>6. CASE f.version = 21
  BY <1>1, <1>3, <1>4, <1>5, <1>6 DEF t, layers
<1>7. CASE f.version # 21
  <2> DEFINE p == PostLoad(t.rbfe, t.rbfb)
  <2>1. layers = [t EXCEPT !.rbfe = p]
    BY <1>3, <1>7 DEF postLoadActions
  <2>2. IsLayer("rbfe", p)
    BY <1>4, <1>5, PostLoadFields
  <2> HIDE DEF p
  <2>3. HasFields(layers, Ids) /\ layers.rbfe = p /\ \A l \in Ids \ {"rbfe"} : layers[l] = t[l]
    BY <1>1, <1>5, <2>1 DEF HasFields
  <2>4. \A l \in Ids : IsLayer(l, layers[l])
    BY <1>4, <2>2, <2>3
  <2> QED  BY <1>4, <1>7, <2>3, <2>4 DEF p, t, layers
<1> QED  BY <1>6, <1>7

\* A document that loads a file is one of the file's version.
LEMMA LoadKeeps ==
    ASSUME NEW d, IsDNA(d), NEW f, IsFile(f), NEW mask
    PROVE  IsDNA(Load(d, f, mask)) /\ Load(d, f, mask).version = f.version
<1> DEFINE e == Load(d, f, mask)
<1>1. /\ HasFields(e, {"version", "index", "policy", "unknown", "layers"})
      /\ e.version = f.version /\ e.policy = d.policy
      /\ f.version = 21 => e.index = d.index /\ e.unknown = d.unknown
      /\ f.version # 21 =>
            /\ e.index = f.present \ (IF KeepsUnknown(d, f) THEN {} ELSE {Unknown})
            /\ e.unknown = IF KeepsUnknown(d, f) THEN f.unknown ELSE d.unknown
  BY LoadFields
<1>2. HasFields(e.layers, Ids) /\ \A l \in Ids : IsLayer(l, e.layers[l])
  BY LoadedLayers
<1>3. KeepsUnknown(d, f) => Unknown \in f.present
  BY DEF KeepsUnknown
<1>4. /\ d.index \subseteq Ids \cup {Unknown} /\ d.unknown \in Nat /\ d.policy \in {"Preserve", "Ignore"}
      /\ Unknown \in d.index => d.unknown # 0
  BY DEF IsDNA, IsHeader
<1>5. /\ f.present \subseteq Ids \cup {Unknown} /\ f.unknown \in Nat
      /\ f.version \in Versions \cup {latest}
      /\ Unknown \in f.present => f.unknown # 0
  BY DEF IsFile
<1> HIDE DEF e
<1>6. e.index \subseteq Ids \cup {Unknown} /\ e.unknown \in Nat
  BY <1>1, <1>4, <1>5
<1>7. Unknown \in e.index => e.unknown # 0
  BY <1>1, <1>3, <1>4, <1>5
<1>8. IsHeader(e)
  BY <1>1, <1>4, <1>5, <1>6, <1>7 DEF IsHeader
<1> QED  BY <1>1, <1>2, <1>8 DEF IsDNA, e
-----------------------------------------------------------------------------
(* The documents of a state, after each operation.                          *)

LEMMA NewDocument ==
    ASSUME NEW p \in {"Preserve", "Ignore"}
    PROVE  IsDNA([EmptyDNA EXCEPT !.policy = p])
<1> DEFINE d == [EmptyDNA EXCEPT !.policy = p]
<1>1. /\ HasFields(d, {"version", "index", "policy", "unknown", "layers"})
      /\ d.version = latest /\ d.index = {} /\ d.policy = p /\ d.unknown = 0 /\ d.layers = EmptyLayers
  BY DEF EmptyDNA, HasFields
<1> HIDE DEF d
<1>2. IsHeader(d)
  BY <1>1 DEF IsHeader
<1> QED  BY <1>1, <1>2, EmptyFields DEF IsDNA, d

LEMMA EmptyDocument == IsDNA(EmptyDNA)
<1>1. EmptyDNA = [EmptyDNA EXCEPT !.policy = "Preserve"]
  BY DEF EmptyDNA
<1> QED  BY <1>1, NewDocument

\* A document with other layers of the right shape is one.
LEMMA OtherLayers ==
    ASSUME NEW d, IsDNA(d), NEW layers, HasFields(layers, Ids), \A l \in Ids : IsLayer(l, layers[l])
    PROVE  IsDNA([d EXCEPT !.layers = layers])
<1> DEFINE e == [d EXCEPT !.layers = layers]
<1>1. HasFields(d, {"version", "index", "policy", "unknown", "layers"})
  BY DEF IsDNA, IsHeader
<1>2. /\ HasFields(e, {"version", "index", "policy", "unknown", "layers"})
      /\ e.version = d.version /\ e.index = d.index /\ e.policy = d.policy /\ e.unknown = d.unknown
      /\ e.layers = layers
  BY <1>1 DEF HasFields
<1> HIDE DEF e
<1>3. IsHeader(e)
  BY <1>2 DEF IsDNA, IsHeader
<1> QED  BY <1>2, <1>3 DEF IsDNA, e

\* Clearing poses keeps the shape of the layers.
LEMMA PosesCleared ==
    ASSUME NEW layers, HasFields(layers, Ids), \A l \in Ids : IsLayer(l, layers[l])
    PROVE  /\ HasFields(clearRBFPoses(layers), Ids)
           /\ \A l \in Ids : IsLayer(l, clearRBFPoses(layers)[l])
<1> DEFINE b == [layers.rbfb EXCEPT !.poses = <<>>]
           e == [layers.rbfe EXCEPT !.poses = <<>>]
           cleared == clearRBFPoses(layers)
<1>1. "rbfb" \in Ids /\ "rbfe" \in Ids
  BY DEF Ids
<1>2. HasFields(layers.rbfb, DOMAIN EmptyLayers.rbfb) /\ HasFields(layers.rbfe, DOMAIN EmptyLayers.rbfe)
  BY <1>1 DEF IsLayer
<1>3. IsMapping(layers.rbfb.lodSolverMapping) /\ "lodSolverMapping" \in DOMAIN EmptyLayers.rbfb
  BY <1>1, EmptyDomains DEF IsLayer
<1>4. HasFields(b, DOMAIN EmptyLayers.rbfb) /\ b.lodSolverMapping = layers.rbfb.lodSolverMapping
  <2> DEFINE D == DOMAIN EmptyLayers.rbfb
             r == layers.rbfb
  <2>1. HasFields(r, D) /\ "lodSolverMapping" \in D
    BY <1>2, <1>3
  <2> HIDE DEF D, r
  <2>2. HasFields([r EXCEPT !.poses = <<>>], D)
    BY <2>1, ChangedField
  <2>3. [r EXCEPT !.poses = <<>>].lodSolverMapping = r.lodSolverMapping
    BY <2>1 DEF HasFields
  <2> QED  BY <2>2, <2>3 DEF D, r
<1>5. HasFields(e, DOMAIN EmptyLayers.rbfe)
  BY <1>2, ChangedField
<1> HIDE DEF b, e
<1>6. IsLayer("rbfb", b) /\ IsLayer("rbfe", e)
  BY <1>3, <1>4, <1>5 DEF IsLayer
<1>7. cleared = [l \in Ids |-> IF l = "rbfb" THEN b ELSE IF l = "rbfe" THEN e ELSE layers[l]]
  BY <1>1 DEF clearRBFPoses, HasFields, b, e
<1> HIDE DEF cleared
<1>8. HasFields(cleared, Ids)
  BY <1>7 DEF HasFields
<1>9. \A l \in Ids : IsLayer(l, cleared[l])
  BY <1>6, <1>7
<1> QED  BY <1>8, <1>9 DEF cleared

\* A setter leaves a document.
LEMMA CallKeeps == ASSUME DocumentInv, Call PROVE IsDNA(writer')
<1>1. CASE \E v \in Versions : writer' = [writer EXCEPT !.version = v]
  <2>1. PICK v \in Versions : writer' = [writer EXCEPT !.version = v]
    BY <1>1
  <2>2. HasFields(writer, {"version", "index", "policy", "unknown", "layers"})
    BY DEF DocumentInv, IsDNA, IsHeader
  <2>3. /\ HasFields(writer', {"version", "index", "policy", "unknown", "layers"})
        /\ writer'.version = v /\ writer'.index = writer.index /\ writer'.policy = writer.policy
        /\ writer'.unknown = writer.unknown /\ writer'.layers = writer.layers
    BY <2>1, <2>2 DEF HasFields
  <2> QED  BY <2>3 DEF DocumentInv, IsDNA, IsHeader
<1>2. CASE kind \in Ids /\ \E x \in LayerCalls(writer.layers, kind) : writer' = [writer EXCEPT !.layers[kind] = x]
  <2>1. PICK x \in LayerCalls(writer.layers, kind) : writer' = [writer EXCEPT !.layers[kind] = x]
    BY <1>2
  <2>2. IsLayer(kind, x)
    BY <1>2, CallsKeepLayer DEF DocumentInv, IsDNA
  <2> DEFINE layers == [writer.layers EXCEPT ![kind] = x]
  <2>3. HasFields(layers, Ids) /\ \A l \in Ids : IsLayer(l, layers[l])
    BY <1>2, <2>2 DEF DocumentInv, IsDNA, HasFields
  <2>4. writer' = [writer EXCEPT !.layers = layers]
    BY <2>1
  <2> HIDE DEF layers
  <2> QED  BY <2>3, <2>4, OtherLayers DEF DocumentInv
<1>3. CASE writer' = [writer EXCEPT !.layers = clearRBFPoses(@)]
  BY <1>3, PosesCleared, OtherLayers DEF DocumentInv, IsDNA
<1> QED  BY <1>1, <1>2, <1>3 DEF Call

\* The cache of derived operations grows by lists of indices.
LEMMA CacheType ==
    ASSUME NEW cache \in Seq(Seq(Nat)), NEW n \in Nat
    PROVE  PopulatedML(cache, n) \in Seq(Seq(Nat))
<1>1. \A i \in 1 .. n : Append(IF i <= Len(cache) THEN cache[i] ELSE <<>>, i - 1) \in Seq(Nat)
  <2> TAKE i \in 1 .. n
  <2>1. (IF i <= Len(cache) THEN cache[i] ELSE <<>>) \in Seq(Nat)
    OBVIOUS
  <2>2. i - 1 \in Nat
    OBVIOUS
  <2> QED  BY <2>1, <2>2
<1> QED  BY <1>1 DEF PopulatedML
-----------------------------------------------------------------------------
(* The invariant, from the first state on and through each operation.       *)

LEMMA WrittenFile ==
    ASSUME NEW d, IsDNA(d)
    PROVE  LET e == Indexed(d, "Allowed")
               f == Saved(e)
           IN  /\ IsFile(f) /\ f.version = d.version
               /\ \A l \in f.present \cap Ids : f.layers[l] = SavedLayer(l, d.layers, f.version)
               /\ \A l \in Ids \ f.present : ~ Has(f.version, l)
<1> DEFINE e == Indexed(d, "Allowed")
           f == Saved(e)
<1>1. /\ IsDNA(e) /\ e.version = d.version /\ e.layers = d.layers
      /\ d.version # 21 => e.index = updateIndexTable(d, "Allowed").index
  BY IndexedKeeps
<1> HIDE DEF e
<1>2. /\ IsFile(f) /\ f.version = e.version
      /\ f.present = IF e.version = 21 THEN Sections ELSE e.index
      /\ \A l \in f.present \cap Ids : f.layers[l] = SavedLayer(l, e.layers, e.version)
  BY <1>1, SavedFile
<1> HIDE DEF f
<1>3. ASSUME NEW l \in Ids \ f.present PROVE ~ Has(f.version, l)
  <2>1. CASE d.version = 21
    <3>1. l \notin Sections /\ f.version = 21
      BY <1>1, <1>2, <2>1
    <3> QED  BY <3>1, Versions21 DEF Has
  <2>2. CASE d.version # 21
    <3>1. HasFields(d, {"version", "index", "policy", "unknown", "layers"})
      BY DEF IsDNA, IsHeader
    <3> DEFINE supported == {k \in Ids : d.version >= AvailableFrom[k]}
    <3>2. supported \subseteq e.index
      <4> DEFINE destroyed == IF d.policy = "Ignore" THEN Ids \ supported ELSE {}
                 index == (d.index \cup supported) \ destroyed
      <4>1. updateIndexTable(d, "Allowed") = [d EXCEPT !.index = index]
        BY DEF updateIndexTable
      <4>2. supported \subseteq index
        OBVIOUS
      <4> HIDE DEF index, supported
      <4>3. updateIndexTable(d, "Allowed").index = index
        BY <3>1, <4>1 DEF HasFields
      <4> QED  BY <1>1, <2>2, <4>2, <4>3
    <3>3. ~ d.version >= AvailableFrom[l]
      BY <1>1, <1>2, <2>2, <3>2
    <3> QED  BY <1>1, <1>2, <2>2, <3>3 DEF Has
  <2> QED  BY <2>1, <2>2
<1> QED  BY <1>1, <1>2, <1>3 DEF e, f

LEMMA DocumentInit == ASSUME Init PROVE DocumentInv
<1>1. IsDNA(writer)
  BY DocumentsAssumption DEF Init
<1>2. IsReader(reader)
  <2>1. PICK policy \in Policies[kind] : reader = EmptyReader(policy)
    BY DEF Init
  <2>2. IsDNA([EmptyDNA EXCEPT !.policy = policy])
    BY NewDocument, DocumentsAssumption DEF Init
  <2> DEFINE d == [EmptyDNA EXCEPT !.policy = policy]
  <2>3. reader = [dna |-> d, attached |-> TRUE, lods |-> 32, cache |-> <<>>]
    BY <2>1 DEF EmptyReader
  <2> HIDE DEF d
  <2>4. /\ HasFields(reader, {"dna", "attached", "lods", "cache"})
        /\ reader.dna = d /\ reader.attached = TRUE /\ reader.lods = 32 /\ reader.cache = <<>>
    BY <2>3 DEF HasFields
  <2>5. reader.cache \in Seq(Seq(Nat))
    <3>1. \A S : <<>> \in Seq(S)
      OBVIOUS
    <3> QED  BY <2>4, <3>1
  <2>6. reader.lods \in 0 .. 32 /\ reader.attached \in BOOLEAN
    <3>1. reader.lods \in 0 .. 32
      BY <2>4
    <3>2. reader.attached \in BOOLEAN
      BY <2>4, Zenon
    <3> QED  BY <3>1, <3>2
  <2>7. IsDNA(d)
    BY <2>2 DEF d
  <2> QED  BY <2>4, <2>5, <2>6, <2>7 DEF IsReader
<1>3. IsCopy(copy)
  BY EmptyDocument, SameFields DEF Init, IsCopy, IsDNA
<1>4. /\ HasFields(written, Ids) /\ \A l \in Ids : IsLayer(l, written[l])
      /\ file = NoFile \/ HoldsWritten
  <2>1. CASE file = NoFile /\ written = EmptyLayers
    BY <2>1, EmptyFields
  <2>2. CASE file \in Files /\ written = file.layers ++ EmptyLayers
    <3>1. IsFile(file)
      BY <2>2, DocumentsAssumption
    <3>2. DOMAIN file.layers = file.present \cap Ids
      BY <3>1, SameFields DEF IsFile
    <3>3. HasFields(written, Ids)
      BY <2>2, <3>2, EmptyFields DEF ++, HasFields
    <3>4. \A l \in file.present \cap Ids : written[l] = file.layers[l]
      BY <2>2, <3>2, OverLeft
    <3>5. \A l \in Ids \ file.present : written[l] = EmptyLayers[l]
      BY <2>2, <3>2, OverRight, EmptyFields
    <3>6. \A l \in Ids : IsLayer(l, written[l])
      BY <3>1, <3>4, <3>5, EmptyFields DEF IsFile
    <3>7. ASSUME NEW l \in file.present \cap Ids
          PROVE  file.layers[l] = SavedLayer(l, written, file.version)
      <4>1. file.layers[l] = SavedLayer(l, file.layers, file.version) /\ written[l] = file.layers[l]
        BY <3>1, <3>4 DEF IsFile
      <4> QED  BY <4>1 DEF SavedLayer
    <3> QED  BY <3>1, <3>3, <3>5, <3>6, <3>7 DEF HoldsWritten
  <2> QED  BY <2>1, <2>2 DEF Init
<1>5. last.calls \in 0 .. MaxCalls /\ last.steps \in 0 .. MaxSteps
  BY DocumentsAssumption DEF Init, NoLast
<1> QED  BY <1>1, <1>2, <1>3, <1>4, <1>5 DEF Init, DocumentInv

\* Every operation counts its steps and says what it was.
LEMMA OperationCounts ==
    ASSUME DocumentInv, NEW op, NEW on, Operation(op, on), op = "Call" => last.calls < MaxCalls
    PROVE  /\ last'.calls \in 0 .. MaxCalls /\ last'.steps \in 0 .. MaxSteps
           /\ last'.op = op /\ last'.on = on
<1>1. last.calls \in 0 .. MaxCalls /\ last.steps \in 0 .. MaxSteps /\ last.steps < MaxSteps
  BY DEF DocumentInv, Operation
<1>2. /\ last'.op = op /\ last'.on = on /\ last'.steps = last.steps + 1
      /\ last'.calls = last.calls + IF op = "Call" THEN 1 ELSE 0
  BY DEF Operation
<1> QED  BY <1>1, <1>2, DocumentsAssumption

\* A read loads the file into the reader's document, and only a file that was written.
LEMMA ReadKeeps ==
    ASSUME DocumentInv, NEW dataLayer, Read(dataLayer)
    PROVE  /\ IsReader(reader') /\ reader'.dna = Load(reader.dna, file, Contents[dataLayer])
           /\ HoldsWritten
<1>1. HoldsWritten /\ IsFile(file) /\ IsReader(reader) /\ IsDNA(reader.dna)
  BY DEF DocumentInv, Read, HoldsWritten, IsReader
<1> DEFINE dna == Load(reader.dna, file, Contents[dataLayer])
           lods == IF "desc" \in file.present THEN file.layers.desc.lodCount ELSE reader.lods
           cache == PopulatedML(reader.cache, Len(dna.layers.mlbh.neuralNetworks))
<1>2. reader' = [reader EXCEPT !.dna = dna, !.lods = lods, !.cache = cache]
  BY DEF Read
<1>3. IsDNA(dna)
  BY <1>1, LoadKeeps
<1>4. lods \in 0 .. 32
  <2>1. CASE "desc" \in file.present
    <3>1. file.layers.desc.lodCount \in Nat
      BY <1>1, <2>1 DEF IsFile, IsLayer, Ids, Sections
    <3>2. file.layers.desc.lodCount <= reader.lods
      BY <2>1 DEF Read
    <3>3. reader.lods \in 0 .. 32
      BY <1>1 DEF IsReader
    <3> DEFINE n == file.layers.desc.lodCount
    <3>4. lods = n
      BY <2>1
    <3> HIDE DEF n, lods
    <3>5. n \in 0 .. 32
      BY <3>1, <3>2, <3>3 DEF n
    <3> QED  BY <3>4, <3>5
  <2>2. CASE "desc" \notin file.present
    BY <1>1, <2>2 DEF IsReader
  <2> QED  BY <2>1, <2>2
<1>5. cache \in Seq(Seq(Nat))
  <2>1. reader.cache \in Seq(Seq(Nat))
    BY <1>1 DEF IsReader
  <2>2. Len(dna.layers.mlbh.neuralNetworks) \in Nat
    OBVIOUS
  <2> QED  BY <2>1, <2>2, CacheType
<1> HIDE DEF dna, lods, cache
<1>6. HasFields(reader, {"dna", "attached", "lods", "cache"}) /\ reader.attached \in BOOLEAN
  BY <1>1 DEF IsReader
<1>7. /\ HasFields(reader', {"dna", "attached", "lods", "cache"}) /\ reader'.attached = reader.attached
      /\ reader'.dna = dna /\ reader'.lods = lods /\ reader'.cache = cache
  BY <1>2, <1>6 DEF HasFields
<1>8. IsReader(reader')
  BY <1>3, <1>4, <1>5, <1>6, <1>7 DEF IsReader
<1> QED  BY <1>1, <1>7, <1>8 DEF dna

\* Unloading empties the layers that it should and keeps the others.
LEMMA UnloadKeeps ==
    ASSUME DocumentInv, NEW dataLayer, Unload(dataLayer)
    PROVE  /\ IsReader(reader')
           /\ dataLayer \in {"All", "Descriptor"} => reader'.dna.layers = EmptyLayers
           /\ dataLayer \notin {"All", "Descriptor"} =>
                 reader'.dna.layers = [l \in Ids |-> IF l \in UnloadedBy(dataLayer) THEN EmptyLayers[l]
                                                   ELSE reader.dna.layers[l]]
<1>1. IsReader(reader) /\ IsDNA(reader.dna)
  BY DEF DocumentInv, IsReader
<1>2. reader' = unload(reader, dataLayer)
  BY DEF Unload
<1>3. CASE dataLayer \in {"All", "Descriptor"}
  <2> DEFINE d == [EmptyDNA EXCEPT !.policy = reader.dna.policy]
  <2>1. IsDNA(d)
    BY <1>1, NewDocument DEF IsDNA, IsHeader
  <2>2. reader' = [reader EXCEPT !.dna = d, !.attached = FALSE]
    BY <1>2, <1>3 DEF unload
  <2> HIDE DEF d
  <2>3. /\ HasFields(reader', {"dna", "attached", "lods", "cache"}) /\ reader'.attached = FALSE
        /\ reader'.dna = d /\ reader'.lods = reader.lods /\ reader'.cache = reader.cache
    BY <1>1, <2>2 DEF IsReader, HasFields
  <2>4. d.layers = EmptyLayers
    BY DEF EmptyDNA, d
  <2> QED  BY <1>1, <1>3, <2>1, <2>3, <2>4 DEF IsReader
<1>4. CASE dataLayer \notin {"All", "Descriptor"}
  <2> DEFINE gone == UnloadedBy(dataLayer)
             layers == Unloaded(reader.dna.layers, gone)
             dna == [reader.dna EXCEPT !.layers = layers]
  <2>1. gone \subseteq Ids
    BY Zenon DEF UnloadedBy, Ids, Sections
  <2>2. HasFields(reader.dna.layers, Ids) /\ \A l \in Ids : IsLayer(l, reader.dna.layers[l])
    BY <1>1 DEF IsDNA
  <2>3. reader' = [reader EXCEPT !.dna = dna]
    BY <1>2, <1>4 DEF unload
  <2> HIDE DEF gone
  <2>4. HasFields(layers, Ids)
    BY <2>1, <2>2 DEF Unloaded, ++, HasFields
  <2>5. \A l \in Ids : IsLayer(l, layers[l])
    BY <2>1, <2>2, EmptyFields DEF Unloaded, ++, HasFields
  <2>6. layers = [l \in Ids |-> IF l \in gone THEN EmptyLayers[l] ELSE reader.dna.layers[l]]
    BY <2>1, <2>2 DEF Unloaded, ++, HasFields
  <2> HIDE DEF layers
  <2>7. IsDNA(dna) /\ dna.layers = layers
    BY <1>1, <2>4, <2>5, OtherLayers DEF IsDNA, IsHeader, HasFields
  <2> HIDE DEF dna
  <2>8. /\ HasFields(reader', {"dna", "attached", "lods", "cache"}) /\ reader'.attached = reader.attached
        /\ reader'.dna = dna /\ reader'.lods = reader.lods /\ reader'.cache = reader.cache
    BY <1>1, <2>3 DEF IsReader, HasFields
  <2>9. IsReader(reader')
    BY <1>1, <2>7, <2>8 DEF IsReader
  <2> QED  BY <1>4, <2>6, <2>7, <2>8, <2>9 DEF gone
<1> QED  BY <1>3, <1>4

\* A copy getter by getter has all layers.
LEMMA SetFromKeeps ==
    ASSUME NEW target \in DOMAIN Writers, NEW dataLayer, SetFrom(target, dataLayer)
    PROVE  IsCopy(copy') \/ reader.dna.version \notin Versions \cup {latest}
<1> DEFINE layers == Copied(Writers[target].layers, reader.dna.layers, Contents[dataLayer])
           w == Writers[target]
<1>1. copy' = [w EXCEPT !.version = reader.dna.version, !.layers = layers]
  BY DEF SetFrom
<1>2. DOMAIN layers = Ids
  BY DEF Copied, Ids, Sections
<1>3. IsDNA(w)
  BY DocumentsAssumption
<1> HIDE DEF layers, w
<1>4. /\ HasFields(copy', {"version", "index", "policy", "unknown", "layers"})
      /\ copy'.version = reader.dna.version /\ copy'.layers = layers /\ copy'.index = w.index
      /\ copy'.policy = w.policy /\ copy'.unknown = w.unknown
  BY <1>1, <1>3 DEF IsDNA, IsHeader, HasFields
<1> QED  BY <1>2, <1>3, <1>4 DEF IsCopy, IsDNA, IsHeader

\* A raw copy is the target after it loaded what the source would save.
LEMMA RawCopyKeeps ==
    ASSUME DocumentInv, NEW target \in DOMAIN Writers, NEW dataLayer, NEW policy \in {"Preserve", "Ignore"},
           RawCopy(target, dataLayer, policy)
    PROVE  LET source == Indexed(reader.dna, "Disallowed")
               old == [Writers[target] EXCEPT !.policy = policy]
           IN  /\ IsDNA(source) /\ IsDNA(old) /\ IsFile(Saved(source)) /\ IsDNA(copy')
               /\ reader'.dna = source /\ IsReader(reader')
               /\ copy' = Load(old, Saved(source), Contents[dataLayer])
               /\ old.policy = policy /\ old.layers = Writers[target].layers
               /\ old.unknown = Writers[target].unknown /\ old.index = Writers[target].index
<1> DEFINE source == Indexed(reader.dna, "Disallowed")
           w == Writers[target]
           old == [w EXCEPT !.policy = policy]
<1>1. IsReader(reader) /\ IsDNA(reader.dna)
  BY DEF DocumentInv, IsReader
<1>2. IsDNA(source)
  BY <1>1, IndexedKeeps
<1>3. IsDNA(w)
  BY DocumentsAssumption
<1>4. reader' = [reader EXCEPT !.dna = source] /\ copy' = Load(old, Saved(source), Contents[dataLayer])
  BY DEF RawCopy
<1> HIDE DEF source, w
<1>5. /\ HasFields(old, {"version", "index", "policy", "unknown", "layers"})
      /\ old.version = w.version /\ old.index = w.index /\ old.policy = policy /\ old.unknown = w.unknown
      /\ old.layers = w.layers
  BY <1>3 DEF IsDNA, IsHeader, HasFields
<1> HIDE DEF old
<1>6. IsHeader(old)
  BY <1>3, <1>5 DEF IsDNA, IsHeader
<1>7. IsDNA(old)
  BY <1>3, <1>5, <1>6 DEF IsDNA
<1>8. IsFile(Saved(source))
  BY <1>2, SavedFile
<1>9. IsDNA(copy')
  BY <1>4, <1>7, <1>8, LoadKeeps
<1>10. /\ HasFields(reader', {"dna", "attached", "lods", "cache"}) /\ reader'.attached = reader.attached
       /\ reader'.dna = source /\ reader'.lods = reader.lods /\ reader'.cache = reader.cache
  BY <1>1, <1>4 DEF IsReader, HasFields
<1>11. IsReader(reader')
  BY <1>1, <1>2, <1>10 DEF IsReader
<1> QED  BY <1>2, <1>4, <1>5, <1>7, <1>8, <1>9, <1>10, <1>11 DEF source, old, w

LEMMA DocumentStep == ASSUME DocumentInv, [Next]_vars PROVE DocumentInv'
<1>1. CASE Call
  <2>1. UNCHANGED <<written, file, reader, copy, kind>> /\ Operation("Call", kind) /\ last.calls < MaxCalls
    BY <1>1 DEF Call
  <2>2. IsDNA(writer')
    BY <1>1, CallKeeps
  <2>3. last'.calls \in 0 .. MaxCalls /\ last'.steps \in 0 .. MaxSteps
    BY <2>1, OperationCounts
  <2> QED  BY <2>1, <2>2, <2>3 DEF DocumentInv, HoldsWritten
<1>2. CASE Write
  <2> DEFINE e == Indexed(writer, "Allowed")
             f == Saved(e)
  <2>1. UNCHANGED <<reader, copy, kind>> /\ Operation("Write", "All")
    BY <1>2 DEF Write
  <2>2. writer' = e /\ file' = f /\ written' = writer.layers
    BY <1>2 DEF Write
  <2>3. IsDNA(writer)
    BY DEF DocumentInv
  <2>4. IsDNA(e)
    BY <2>3, IndexedKeeps
  <2>5. /\ IsFile(f)
        /\ \A l \in f.present \cap Ids : f.layers[l] = SavedLayer(l, writer.layers, f.version)
        /\ \A l \in Ids \ f.present : ~ Has(f.version, l)
    BY <2>3, WrittenFile
  <2> HIDE DEF e, f
  <2>6. HoldsWritten'
    BY <2>2, <2>5 DEF HoldsWritten
  <2>7. last'.calls \in 0 .. MaxCalls /\ last'.steps \in 0 .. MaxSteps
    BY <2>1, OperationCounts
  <2>8. HasFields(written', Ids) /\ \A l \in Ids : IsLayer(l, written'[l])
    BY <2>2, <2>3 DEF IsDNA
  <2> QED  BY <2>1, <2>2, <2>4, <2>6, <2>7, <2>8 DEF DocumentInv
<1>3. ASSUME NEW dataLayer \in Masks[kind], Read(dataLayer) PROVE DocumentInv'
  <2>1. UNCHANGED <<writer, written, file, copy, kind>> /\ Operation("Read", dataLayer)
    BY <1>3 DEF Read
  <2>2. IsReader(reader')
    BY <1>3, ReadKeeps
  <2>3. last'.calls \in 0 .. MaxCalls /\ last'.steps \in 0 .. MaxSteps
    BY <2>1, OperationCounts
  <2> QED  BY <2>1, <2>2, <2>3 DEF DocumentInv, HoldsWritten
<1>4. ASSUME NEW dataLayer \in Masks[kind], NEW target \in DOMAIN Writers, SetFrom(target, dataLayer)
      PROVE DocumentInv'
  <2>1. UNCHANGED <<writer, written, file, reader, kind>> /\ Operation("SetFrom", <<target, dataLayer>>)
    BY <1>4 DEF SetFrom
  <2>2. reader.dna.version \in Versions \cup {latest}
    BY DEF DocumentInv, IsReader, IsDNA, IsHeader
  <2>3. IsCopy(copy')
    BY <1>4, <2>2, SetFromKeeps
  <2>4. last'.calls \in 0 .. MaxCalls /\ last'.steps \in 0 .. MaxSteps
    BY <2>1, OperationCounts
  <2> QED  BY <2>1, <2>3, <2>4 DEF DocumentInv, HoldsWritten
<1>5. ASSUME NEW dataLayer \in Masks[kind], NEW target \in DOMAIN Writers, NEW policy \in Policies[kind],
             RawCopy(target, dataLayer, policy)
      PROVE DocumentInv'
  <2>1. /\ UNCHANGED <<writer, written, file, kind>>
        /\ Operation("RawCopy", <<target, dataLayer, policy>>)
    BY <1>5 DEF RawCopy
  <2>2. policy \in {"Preserve", "Ignore"}
    BY DocumentsAssumption DEF DocumentInv
  <2>3. IsReader(reader') /\ IsDNA(copy')
    BY <1>5, <2>2, RawCopyKeeps
  <2>4. IsCopy(copy')
    BY <2>3, SameFields DEF IsCopy, IsDNA
  <2>5. last'.calls \in 0 .. MaxCalls /\ last'.steps \in 0 .. MaxSteps
    BY <2>1, OperationCounts
  <2> QED  BY <2>1, <2>3, <2>4, <2>5 DEF DocumentInv, HoldsWritten
<1>6. ASSUME NEW dataLayer \in DataLayers, Unload(dataLayer) PROVE DocumentInv'
  <2>1. UNCHANGED <<writer, written, file, copy, kind>> /\ Operation("Unload", dataLayer)
    BY <1>6 DEF Unload
  <2>2. IsReader(reader')
    BY <1>6, UnloadKeeps
  <2>3. last'.calls \in 0 .. MaxCalls /\ last'.steps \in 0 .. MaxSteps
    BY <2>1, OperationCounts
  <2> QED  BY <2>1, <2>2, <2>3 DEF DocumentInv, HoldsWritten
<1>7. CASE UNCHANGED vars
  BY <1>7 DEF vars, DocumentInv, HoldsWritten
<1> QED  BY <1>1, <1>2, <1>3, <1>4, <1>5, <1>6, <1>7 DEF Next

\* Documents are well-formed, and the file of a writer holds what was written.
THEOREM DocumentInvariant == Spec => []DocumentInv
<1>1. Init => DocumentInv
  BY DocumentInit
<1>2. DocumentInv /\ [Next]_vars => DocumentInv'
  BY DocumentStep
<1> QED  BY <1>1, <1>2, PTL DEF Spec

\* Every document of a state is one, whatever was called, written, read, unloaded
\* and copied before.
THEOREM DocumentTypes == Spec => []TypeOK
<1>1. DocumentInv => TypeOK
  <2> SUFFICES ASSUME DocumentInv PROVE TypeOK
    OBVIOUS
  <2>1. IsHeader(writer) /\ DOMAIN writer.layers = Ids
    BY SameFields DEF DocumentInv, IsDNA
  <2>2. IsHeader(reader.dna) /\ DOMAIN reader.dna.layers = Ids
    BY SameFields DEF DocumentInv, IsReader, IsDNA
  <2>3. IsHeader(copy) /\ DOMAIN copy.layers = Ids
    BY DEF DocumentInv, IsCopy
  <2>4. \A d \in Documents : IsHeader(d) /\ DOMAIN d.layers = Ids
    BY <2>1, <2>2, <2>3 DEF Documents
  <2> QED  BY <2>4 DEF TypeOK, IsHeader, DocumentInv, IsReader
<1> QED  BY <1>1, DocumentInvariant, PTL
-----------------------------------------------------------------------------
(* What was written is what is read.                                        *)

LEMMA EmptyIsStored ==
    ASSUME NEW l \in Ids, NEW stored, stored[l] = EmptyLayers[l], NEW v, NEW m
    PROVE  AsStored(stored, l, v, m) = EmptyLayers[l]
<1>1. CASE l = "dsce"
  <2>1. AsStored(stored, l, v, m) = IF v \in 21 .. 27 THEN [stored.dsce EXCEPT !.faceWindingOrder = 0]
                                   ELSE stored.dsce
    BY <1>1, Zenon DEF AsStored
  <2>2. stored.dsce = [f \in DescriptorExtScalars |-> 0]
    BY <1>1 DEF EmptyLayers, EmptyDescriptorExt, Fresh, ++
  <2>3. [[f \in DescriptorExtScalars |-> 0] EXCEPT !.faceWindingOrder = 0] = [f \in DescriptorExtScalars |-> 0]
    OBVIOUS
  <2> QED  BY <1>1, <2>1, <2>2, <2>3
<1>2. CASE l = "geom"
  <2>1. AsStored(stored, l, v, m) =
            IF "targets" \in m THEN stored.geom
            ELSE [meshes |-> [i \in 1 .. Len(stored.geom.meshes) |-> WithoutTargets(stored.geom.meshes[i])]]
    BY <1>2, Zenon DEF AsStored
  <2>2. stored.geom = [meshes |-> <<>>]
    BY <1>2 DEF EmptyLayers, EmptyGeometry
  <2>3. [i \in 1 .. Len(<<>>) |-> WithoutTargets(stored.geom.meshes[i])] = <<>>
    OBVIOUS
  <2>4. stored.geom.meshes = <<>>
    BY <2>2
  <2> QED  BY <1>2, <2>1, <2>2, <2>3, <2>4
<1>3. CASE l \notin {"dsce", "geom"}
  BY <1>3, Zenon DEF AsStored
<1> QED  BY <1>1, <1>2, <1>3

\* No mask has the RBF extension without the RBF layer, and no version.
LEMMA RBFTogether ==
    ASSUME NEW dataLayer \in DataLayers, "rbfe" \in Contents[dataLayer]
    PROVE  "rbfb" \in Contents[dataLayer]
  BY DEF DataLayers, Contents, Ids, Sections

LEMMA RBFVersions ==
    ASSUME NEW v \in Nat, Has(v, "rbfe")
    PROVE  v # 21 /\ Has(v, "rbfb")
<1>1. AvailableFrom["rbfe"] = 25 /\ AvailableFrom["rbfb"] = 24
  BY DEF AvailableFrom, ++, Sections
<1>2. "rbfe" \notin Sections
  BY DEF Sections
<1>3. v >= 25
  BY <1>1, <1>2 DEF Has
<1> QED  BY <1>1, <1>3 DEF Has

\* The operation that a step reports is the one it is.
LEMMA OperationOf ==
    ASSUME DocumentInv, Next
    PROVE  /\ last'.op = "Read" => \E dataLayer \in DataLayers : Read(dataLayer) /\ last'.on = dataLayer
           /\ last'.op = "Unload" => \E dataLayer \in DataLayers : Unload(dataLayer) /\ last'.on = dataLayer
           /\ last'.op = "RawCopy" =>
                 \E dataLayer \in DataLayers, target \in DOMAIN Writers, policy \in {"Preserve", "Ignore"} :
                     RawCopy(target, dataLayer, policy) /\ last'.on = <<target, dataLayer, policy>>
<1>1. ASSUME NEW op, NEW on, Operation(op, on) PROVE last'.op = op /\ last'.on = on
  BY <1>1 DEF Operation
<1>2. Masks[kind] \subseteq DataLayers /\ Policies[kind] \subseteq {"Preserve", "Ignore"}
  BY DocumentsAssumption DEF DocumentInv
<1>3. CASE Call
  <2>1. last'.op = "Call"
    BY <1>1, <1>3 DEF Call
  <2> QED  BY <2>1
<1>4. CASE Write
  <2>1. last'.op = "Write"
    BY <1>1, <1>4 DEF Write
  <2> QED  BY <2>1
<1>5. ASSUME NEW dataLayer \in Masks[kind], Read(dataLayer) PROVE last'.op = "Read" /\ last'.on = dataLayer
  BY <1>1, <1>5 DEF Read
<1>6. ASSUME NEW dataLayer, NEW target, SetFrom(target, dataLayer) PROVE last'.op = "SetFrom"
  BY <1>1, <1>6 DEF SetFrom
<1>7. ASSUME NEW dataLayer, NEW target, NEW policy, RawCopy(target, dataLayer, policy)
      PROVE  last'.op = "RawCopy" /\ last'.on = <<target, dataLayer, policy>>
  BY <1>1, <1>7 DEF RawCopy
<1>8. ASSUME NEW dataLayer, Unload(dataLayer) PROVE last'.op = "Unload" /\ last'.on = dataLayer
  BY <1>1, <1>8 DEF Unload
<1>9. CASE \E dataLayer \in Masks[kind] : Read(dataLayer)
  BY <1>2, <1>5, <1>9
<1>10. CASE \E dataLayer, target : SetFrom(target, dataLayer)
  BY <1>6, <1>10
<1>11. CASE \E dataLayer \in Masks[kind], target \in DOMAIN Writers, policy \in Policies[kind] :
               RawCopy(target, dataLayer, policy)
  <2>1. PICK dataLayer \in Masks[kind], target \in DOMAIN Writers, policy \in Policies[kind] :
               RawCopy(target, dataLayer, policy)
    BY <1>11
  <2>2. last'.op = "RawCopy" /\ last'.on = <<target, dataLayer, policy>>
    BY <1>7, <2>1
  <2>3. dataLayer \in DataLayers /\ policy \in {"Preserve", "Ignore"}
    BY <1>2
  <2> QED  BY <2>1, <2>2, <2>3
<1>12. CASE \E dataLayer \in DataLayers : Unload(dataLayer)
  BY <1>8, <1>12
<1> QED  BY <1>3, <1>4, <1>9, <1>10, <1>11, <1>12 DEF Next

\* What a read makes of each layer, in terms of what was written
LEMMA ReadLayers ==
    ASSUME DocumentInv, NEW dataLayer \in DataLayers, Read(dataLayer)
    PROVE  LET mask == Contents[dataLayer]
               version == file.version
               clean == Clean(reader.dna.layers, written, version, mask)
               new == reader'.dna.layers
           IN  /\ \A l \in (mask \cap clean) \ {"rbfe"} :
                     Has(version, l) => new[l] = AsStored(written, l, version, mask)
               /\ "rbfe" \in mask /\ {"rbfe", "rbfb"} \subseteq clean /\ Has(version, "rbfe")
                     => new.rbfe = PostLoad(written.rbfe, written.rbfb)
               /\ \A l \in Ids \ (mask \cup {"rbfe"}) : new[l] = reader.dna.layers[l]
<1> DEFINE mask == Contents[dataLayer]
           version == file.version
           old == reader.dna.layers
           clean == Clean(old, written, version, mask)
           new == reader'.dna.layers
           t == TakenOver(reader.dna, file, mask)
<1>1. /\ IsReader(reader') /\ reader'.dna = Load(reader.dna, file, Contents[dataLayer])
      /\ HoldsWritten
  BY ReadKeeps
<1>2. IsDNA(reader.dna) /\ IsFile(file) /\ \A l \in Ids : IsLayer(l, written[l])
  BY <1>1 DEF DocumentInv, IsReader, HoldsWritten
<1>3. /\ \A l \in Ids \ {"rbfe"} : new[l] = t[l]
      /\ new.rbfe = IF version = 21 THEN t.rbfe ELSE PostLoad(t.rbfe, t.rbfb)
  BY <1>1, <1>2, LoadedLayers
<1>4. \A l \in Ids : t[l] = IF l \in file.present \cap mask
                            THEN LoadedLayer(l, old[l], file.layers[l], version, mask) ELSE old[l]
  BY DEF TakenOver
<1>5. version \in Nat
  <2>1. file.version \in Versions \cup {latest} /\ Versions \subseteq Nat
    BY <1>2, DocumentsAssumption DEF IsFile
  <2>2. latest \in Nat
    BY DEF latest
  <2> QED  BY <2>1, <2>2
<1>6. /\ \A l \in file.present \cap Ids : file.layers[l] = SavedLayer(l, written, version)
      /\ \A l \in Ids \ file.present : Has(version, l) => written[l] = EmptyLayers[l]
  BY <1>1 DEF HoldsWritten
<1>7. \A l \in clean : l \in Ids /\ old[l] \in {EmptyLayers[l], AsStored(written, l, version, mask)}
  BY DEF Clean
<1> HIDE DEF mask, version, old, clean, new, t
<1>8. ASSUME NEW l \in mask \cap clean, Has(version, l)
      PROVE  t[l] = AsStored(written, l, version, mask)
  <2>1. l \in Ids /\ old[l] \in {EmptyLayers[l], AsStored(written, l, version, mask)}
    BY <1>7
  <2>2. CASE l \in file.present
    <3>1. LoadedLayer(l, old[l], SavedLayer(l, written, version), version, mask)
              = AsStored(written, l, version, mask)
      BY <1>2, <2>1, LoadedIsStored
    <3> QED  BY <1>4, <1>6, <2>1, <2>2, <3>1
  <2>3. CASE l \notin file.present
    <3>1. AsStored(written, l, version, mask) = EmptyLayers[l]
      BY <1>6, <1>8, <2>1, <2>3, EmptyIsStored
    <3> QED  BY <1>4, <2>1, <2>3, <3>1
  <2> QED  BY <2>2, <2>3
<1>9. ASSUME "rbfe" \in mask, {"rbfe", "rbfb"} \subseteq clean, Has(version, "rbfe")
      PROVE  new.rbfe = PostLoad(written.rbfe, written.rbfb)
  <2>1. "rbfb" \in mask
    BY <1>9, RBFTogether DEF mask
  <2>2. version # 21 /\ Has(version, "rbfb")
    BY <1>5, <1>9, RBFVersions
  <2>3. t["rbfe"] = AsStored(written, "rbfe", version, mask)
    BY <1>8, <1>9
  <2>4. t["rbfb"] = AsStored(written, "rbfb", version, mask)
    BY <1>8, <1>9, <2>1, <2>2
  <2>5. /\ AsStored(written, "rbfe", version, mask) = written.rbfe
        /\ AsStored(written, "rbfb", version, mask) = written.rbfb
    BY Zenon DEF AsStored
  <2> QED  BY <1>3, <2>2, <2>3, <2>4, <2>5
<1>10. \A l \in (mask \cap clean) \ {"rbfe"} :
           Has(version, l) => new[l] = AsStored(written, l, version, mask)
  BY <1>3, <1>7, <1>8
<1>11. \A l \in Ids \ (mask \cup {"rbfe"}) : new[l] = old[l]
  BY <1>3, <1>4
<1> QED  BY <1>9, <1>10, <1>11 DEF mask, version, old, clean, new

\* A reader shows of each layer it asks for what was written, if the version has the
\* layer and nothing else was loaded into it before, and no other layer changes.
THEOREM ReadsWhatWasWritten == Spec => ReadShowsWritten
<1>1. DocumentInv /\ [Next]_vars =>
          [last'.op = "Read" =>
             LET mask == Contents[last'.on]
                 version == file.version
                 clean == Clean(reader.dna.layers, written, version, mask)
                 new == reader'.dna.layers
             IN  /\ \A l \in (mask \cap clean) \ {"rbfe"} :
                       Has(version, l) => new[l] = AsStored(written, l, version, mask)
                 /\ "rbfe" \in mask /\ {"rbfe", "rbfb"} \subseteq clean /\ Has(version, "rbfe")
                       => new.rbfe = PostLoad(written.rbfe, written.rbfb)
                 /\ \A l \in Ids \ (mask \cup {"rbfe"}) : new[l] = reader.dna.layers[l]]_vars
  <2> SUFFICES ASSUME DocumentInv, Next, last'.op = "Read"
               PROVE  LET mask == Contents[last'.on]
                          version == file.version
                          clean == Clean(reader.dna.layers, written, version, mask)
                          new == reader'.dna.layers
                      IN  /\ \A l \in (mask \cap clean) \ {"rbfe"} :
                                Has(version, l) => new[l] = AsStored(written, l, version, mask)
                          /\ "rbfe" \in mask /\ {"rbfe", "rbfb"} \subseteq clean /\ Has(version, "rbfe")
                                => new.rbfe = PostLoad(written.rbfe, written.rbfb)
                          /\ \A l \in Ids \ (mask \cup {"rbfe"}) : new[l] = reader.dna.layers[l]
    OBVIOUS
  <2>1. PICK dataLayer \in DataLayers : Read(dataLayer) /\ last'.on = dataLayer
    BY OperationOf
  <2> QED  BY <2>1, ReadLayers
<1> QED  BY <1>1, DocumentInvariant, PTL DEF Spec, ReadShowsWritten
-----------------------------------------------------------------------------
(* Unloading takes along what implies the data layer.                       *)

Dependents(key) == {l \in Ids : \A d \in DataLayers : l \in Contents[d] => key \in Contents[d]}

\* The dependents of each layer that unloading starts from
LEMMA DependentsOfKeys ==
    /\ Dependents("desc") = Ids
    /\ Dependents("defn") = Ids \ {"desc", "dsce"}
    /\ Dependents("bhvr") = {"rbfb", "rbfe", "bhvr"}
    /\ Dependents("geom") = {"geom"}
    /\ Dependents("mlbh") = {"mlbh", "mlbe"}
    /\ Dependents("rbfb") = {"rbfb", "rbfe"}
    /\ Dependents("jbmd") = {"jbmd"}
    /\ Dependents("twsw") = {"twsw"}
<1>1. Dependents("desc") = Ids
  BY DEF Dependents, DataLayers, Contents, Ids, Sections
<1>2. Dependents("defn") = Ids \ {"desc", "dsce"}
  BY DEF Dependents, DataLayers, Contents, Ids, Sections
<1>3. Dependents("bhvr") = {"rbfb", "rbfe", "bhvr"}
  BY DEF Dependents, DataLayers, Contents, Ids, Sections
<1>4. Dependents("geom") = {"geom"}
  BY DEF Dependents, DataLayers, Contents, Ids, Sections
<1>5. Dependents("mlbh") = {"mlbh", "mlbe"}
  BY DEF Dependents, DataLayers, Contents, Ids, Sections
<1>6. Dependents("rbfb") = {"rbfb", "rbfe"}
  BY DEF Dependents, DataLayers, Contents, Ids, Sections
<1>7. Dependents("jbmd") = {"jbmd"}
  BY DEF Dependents, DataLayers, Contents, Ids, Sections
<1>8. Dependents("twsw") = {"twsw"}
  BY DEF Dependents, DataLayers, Contents, Ids, Sections
<1> QED  BY <1>1, <1>2, <1>3, <1>4, <1>5, <1>6, <1>7, <1>8

\* The layers that unloading empties are these dependents.
LEMMA UnloadedAreDependents ==
    ASSUME NEW dataLayer \in DataLayers
    PROVE  LET own == [Descriptor |-> "desc", Definition |-> "defn", Behavior |-> "bhvr",
                       Geometry |-> "geom", GeometryWithoutBlendShapes |-> "geom",
                       MachineLearnedBehavior |-> "mlbh", RBFBehavior |-> "rbfb",
                       JointBehaviorMetadata |-> "jbmd", TwistSwingBehavior |-> "twsw", All |-> "desc"]
           IN  Dependents(own[dataLayer]) =
                   IF dataLayer \in {"All", "Descriptor"} THEN Ids ELSE UnloadedBy(dataLayer)
<1> DEFINE own == [Descriptor |-> "desc", Definition |-> "defn", Behavior |-> "bhvr",
                   Geometry |-> "geom", GeometryWithoutBlendShapes |-> "geom",
                   MachineLearnedBehavior |-> "mlbh", RBFBehavior |-> "rbfb",
                   JointBehaviorMetadata |-> "jbmd", TwistSwingBehavior |-> "twsw", All |-> "desc"]
<1>1. CASE dataLayer \in {"All", "Descriptor"}
  <2>1. own[dataLayer] = "desc"
    BY <1>1
  <2> QED  BY <1>1, <2>1, DependentsOfKeys
<1>2. CASE dataLayer = "Definition"
  <2>1. own[dataLayer] = "defn"
    BY <1>2
  <2>2. UnloadedBy(dataLayer) = Ids \ {"desc", "dsce"}
    BY <1>2, Zenon DEF UnloadedBy
  <2> QED  BY <1>2, <2>1, <2>2, DependentsOfKeys
<1>3. CASE dataLayer = "Behavior"
  <2>1. own[dataLayer] = "bhvr"
    BY <1>3
  <2>2. UnloadedBy(dataLayer) = {"rbfb", "rbfe", "bhvr"}
    BY <1>3, Zenon DEF UnloadedBy
  <2> QED  BY <1>3, <2>1, <2>2, DependentsOfKeys
<1>4. CASE dataLayer \in {"Geometry", "GeometryWithoutBlendShapes"}
  <2>1. own[dataLayer] = "geom"
    BY <1>4
  <2>2. UnloadedBy(dataLayer) = {"geom"}
    BY <1>4, Zenon DEF UnloadedBy
  <2> QED  BY <1>4, <2>1, <2>2, DependentsOfKeys
<1>5. CASE dataLayer = "MachineLearnedBehavior"
  <2>1. own[dataLayer] = "mlbh"
    BY <1>5
  <2>2. UnloadedBy(dataLayer) = {"mlbh", "mlbe"}
    BY <1>5, Zenon DEF UnloadedBy
  <2> QED  BY <1>5, <2>1, <2>2, DependentsOfKeys
<1>6. CASE dataLayer = "RBFBehavior"
  <2>1. own[dataLayer] = "rbfb"
    BY <1>6
  <2>2. UnloadedBy(dataLayer) = {"rbfb", "rbfe"}
    BY <1>6, Zenon DEF UnloadedBy
  <2> QED  BY <1>6, <2>1, <2>2, DependentsOfKeys
<1>7. CASE dataLayer = "JointBehaviorMetadata"
  <2>1. own[dataLayer] = "jbmd"
    BY <1>7
  <2>2. UnloadedBy(dataLayer) = {"jbmd"}
    BY <1>7, Zenon DEF UnloadedBy
  <2> QED  BY <1>7, <2>1, <2>2, DependentsOfKeys
<1>8. CASE dataLayer = "TwistSwingBehavior"
  <2>1. own[dataLayer] = "twsw"
    BY <1>8
  <2>2. UnloadedBy(dataLayer) = {"twsw"}
    BY <1>8, Zenon DEF UnloadedBy
  <2> QED  BY <1>8, <2>1, <2>2, DependentsOfKeys
<1> QED  BY <1>1, <1>2, <1>3, <1>4, <1>5, <1>6, <1>7, <1>8 DEF DataLayers, Contents

\* Unloading a data layer empties the layers that imply it in every mask, and no
\* other (unload's cascade is what the masks of loading say).
THEOREM UnloadsDependents == Spec => UnloadTakesDependents
<1>1. DocumentInv /\ [Next]_vars =>
          [last'.op = "Unload" =>
             LET own == [Descriptor |-> "desc", Definition |-> "defn", Behavior |-> "bhvr",
                         Geometry |-> "geom", GeometryWithoutBlendShapes |-> "geom",
                         MachineLearnedBehavior |-> "mlbh", RBFBehavior |-> "rbfb",
                         JointBehaviorMetadata |-> "jbmd", TwistSwingBehavior |-> "twsw", All |-> "desc"]
                 gone == {l \in Ids : \A d \in DataLayers : l \in Contents[d] => own[last'.on] \in Contents[d]}
             IN  reader'.dna.layers = [l \in Ids |-> IF l \in gone THEN EmptyLayers[l]
                                                    ELSE reader.dna.layers[l]]]_vars
  <2> DEFINE own == [Descriptor |-> "desc", Definition |-> "defn", Behavior |-> "bhvr",
                     Geometry |-> "geom", GeometryWithoutBlendShapes |-> "geom",
                     MachineLearnedBehavior |-> "mlbh", RBFBehavior |-> "rbfb",
                     JointBehaviorMetadata |-> "jbmd", TwistSwingBehavior |-> "twsw", All |-> "desc"]
             gone == {l \in Ids : \A d \in DataLayers : l \in Contents[d] => own[last'.on] \in Contents[d]}
  <2> SUFFICES ASSUME DocumentInv, Next, last'.op = "Unload"
               PROVE  reader'.dna.layers = [l \in Ids |-> IF l \in gone THEN EmptyLayers[l]
                                                          ELSE reader.dna.layers[l]]
    OBVIOUS
  <2>1. PICK dataLayer \in DataLayers : Unload(dataLayer) /\ last'.on = dataLayer
    BY OperationOf
  <2>2. gone = Dependents(own[dataLayer])
    BY <2>1 DEF Dependents
  <2>3. gone = IF dataLayer \in {"All", "Descriptor"} THEN Ids ELSE UnloadedBy(dataLayer)
    BY <2>2, UnloadedAreDependents
  <2> HIDE DEF gone
  <2>4. CASE dataLayer \in {"All", "Descriptor"}
    <3>1. reader'.dna.layers = EmptyLayers
      BY <2>1, <2>4, UnloadKeeps
    <3>2. EmptyLayers = [l \in Ids |-> EmptyLayers[l]]
      BY EmptyFields DEF HasFields
    <3> QED  BY <2>3, <2>4, <3>1, <3>2
  <2>5. CASE dataLayer \notin {"All", "Descriptor"}
    BY <2>1, <2>3, <2>5, UnloadKeeps
  <2> QED  BY <2>4, <2>5
<1> QED  BY <1>1, DocumentInvariant, PTL DEF Spec, UnloadTakesDependents
-----------------------------------------------------------------------------
(* A raw copy.                                                              *)

LEMMA IndexedRaw ==
    ASSUME NEW d, IsDNA(d), d.version # 21
    PROVE  Indexed(d, "Disallowed").index =
               d.index \ (IF d.policy = "Ignore" THEN {l \in Ids : ~ d.version >= AvailableFrom[l]} ELSE {})
<1> DEFINE destroyed == IF d.policy = "Ignore" THEN {l \in Ids : ~ d.version >= AvailableFrom[l]} ELSE {}
           e == Indexed(d, "Disallowed")
<1>1. e = [d EXCEPT !.index = d.index \ destroyed]
  <2> DEFINE gone == IF d.policy = "Ignore" THEN Ids \ {l \in Ids : d.version >= AvailableFrom[l]} ELSE {}
  <2>1. e = [d EXCEPT !.index = (d.index \cup {}) \ gone]
    BY DEF Indexed, updateIndexTable
  <2>2. (d.index \cup {}) \ gone = d.index \ destroyed
    OBVIOUS
  <2> HIDE DEF e, gone, destroyed
  <2> QED  BY <2>1, <2>2
<1>2. HasFields(d, {"version", "index", "policy", "unknown", "layers"})
  BY DEF IsDNA, IsHeader
<1> HIDE DEF e, destroyed
<1>3. e.index = d.index \ destroyed
  BY <1>1, <1>2 DEF HasFields
<1> QED  BY <1>3 DEF e, destroyed

\* What a raw copy makes of each layer, in terms of its source
LEMMA RawCopyLayers ==
    ASSUME DocumentInv, NEW target \in DOMAIN Writers, NEW dataLayer \in DataLayers,
           NEW policy \in {"Preserve", "Ignore"}, RawCopy(target, dataLayer, policy)
    PROVE  LET old == Writers[target]
               mask == Contents[dataLayer]
               source == reader.dna
               taken == (IF source.version = 21 THEN Sections
                         ELSE {l \in source.index : source.policy = "Preserve" \/ Has(source.version, l)})
                          \cap mask \cap Clean(old.layers, source.layers, source.version, mask)
           IN  /\ copy'.version = source.version
               /\ \A l \in taken \ {"rbfe"} :
                     copy'.layers[l] = AsStored(source.layers, l, source.version, mask)
               /\ source.version # 21 /\ Unknown \in source.index =>
                     (Unknown \in copy'.index <=> (policy = "Preserve" \/ old.unknown # 0))
               /\ reader'.dna.layers = source.layers
               /\ source.version # 21 => copy'.index \subseteq source.index
<1> DEFINE mask == Contents[dataLayer]
           source == reader.dna
           e == Indexed(source, "Disallowed")
           f == Saved(e)
           old == [Writers[target] EXCEPT !.policy = policy]
           clean == Clean(old.layers, source.layers, source.version, mask)
           t == TakenOver(old, f, mask)
<1>1. /\ IsDNA(e) /\ IsDNA(old) /\ IsFile(f) /\ IsDNA(copy') /\ reader'.dna = e
      /\ copy' = Load(old, f, mask)
      /\ old.policy = policy /\ old.layers = Writers[target].layers
      /\ old.unknown = Writers[target].unknown
  BY RawCopyKeeps
<1>2. IsDNA(source)
  BY DEF DocumentInv, IsReader
<1>3. e.version = source.version /\ e.layers = source.layers
  BY <1>2, IndexedKeeps
<1>4. /\ f.version = e.version /\ f.present = IF e.version = 21 THEN Sections ELSE e.index
      /\ \A l \in f.present \cap Ids : f.layers[l] = SavedLayer(l, e.layers, e.version)
  BY <1>1, SavedFile
<1>5. source.version # 21 =>
          e.index = source.index \ (IF source.policy = "Ignore"
                                    THEN {l \in Ids : ~ source.version >= AvailableFrom[l]} ELSE {})
  BY <1>2, IndexedRaw
<1>6. source.policy \in {"Preserve", "Ignore"} /\ \A l \in Ids : IsLayer(l, source.layers[l])
  BY <1>2 DEF IsDNA, IsHeader
<1>7. copy'.version = f.version /\ \A l \in Ids \ {"rbfe"} : copy'.layers[l] = t[l]
  BY <1>1, LoadFields, LoadedLayers
<1>8. \A l \in Ids : t[l] = IF l \in f.present \cap mask
                            THEN LoadedLayer(l, old.layers[l], f.layers[l], f.version, mask) ELSE old.layers[l]
  BY DEF TakenOver
<1>9. f.version # 21 => copy'.index = f.present \ (IF KeepsUnknown(old, f) THEN {} ELSE {Unknown})
  BY <1>1, LoadFields
<1>10. \A l \in clean :
           l \in Ids /\ old.layers[l] \in {EmptyLayers[l], AsStored(source.layers, l, source.version, mask)}
  BY DEF Clean
<1>11. KeepsUnknown(old, f) <=> (Unknown \in f.present /\ (old.policy = "Preserve" \/ old.unknown # 0))
  BY DEF KeepsUnknown
<1> HIDE DEF mask, source, e, f, old, clean, t
<1>12. ASSUME NEW l \in (IF source.version = 21 THEN Sections
                         ELSE {k \in source.index : source.policy = "Preserve" \/ Has(source.version, k)})
                          \cap mask \cap clean,
              l # "rbfe"
       PROVE  copy'.layers[l] = AsStored(source.layers, l, source.version, mask)
  <2>1. /\ l \in Ids /\ l \in mask
        /\ old.layers[l] \in {EmptyLayers[l], AsStored(source.layers, l, source.version, mask)}
    BY <1>10, <1>12
  <2>2. l \in f.present
    <3>1. CASE source.version = 21
      BY <1>3, <1>4, <1>12, <3>1
    <3>2. CASE source.version # 21
      <4>1. l \in source.index /\ (source.policy = "Preserve" \/ source.version >= AvailableFrom[l])
        BY <1>12, <3>2 DEF Has
      <4>2. l \in e.index
        BY <1>5, <3>2, <4>1
      <4> QED  BY <1>3, <1>4, <3>2, <4>2
    <3> QED  BY <3>1, <3>2
  <2>3. LoadedLayer(l, old.layers[l], SavedLayer(l, source.layers, source.version), source.version, mask)
            = AsStored(source.layers, l, source.version, mask)
    BY <1>6, <2>1, LoadedIsStored
  <2>4. f.layers[l] = SavedLayer(l, source.layers, source.version) /\ f.version = source.version
    BY <1>3, <1>4, <2>1, <2>2
  <2>5. t[l] = LoadedLayer(l, old.layers[l], f.layers[l], f.version, mask)
    BY <1>8, <2>1, <2>2
  <2> QED  BY <1>7, <1>12, <2>1, <2>3, <2>4, <2>5
<1>13. ASSUME source.version # 21, Unknown \in source.index
       PROVE  Unknown \in copy'.index <=> (policy = "Preserve" \/ old.unknown # 0)
  <2>1. Unknown \notin Ids
    BY DEF Unknown, Ids, Sections
  <2>2. Unknown \in e.index
    BY <1>5, <1>13, <2>1
  <2>3. Unknown \in f.present /\ f.version # 21
    BY <1>3, <1>4, <1>13, <2>2
  <2> QED  BY <1>1, <1>9, <1>11, <2>3
<1>14. ASSUME source.version # 21 PROVE copy'.index \subseteq source.index
  <2>1. e.index \subseteq source.index
    BY <1>5, <1>14
  <2>2. f.present = e.index /\ f.version # 21
    BY <1>3, <1>4, <1>14
  <2> QED  BY <1>9, <2>1, <2>2
<1>15. copy'.version = source.version /\ reader'.dna.layers = source.layers
  BY <1>1, <1>3, <1>4, <1>7
<1>16. /\ clean = Clean(Writers[target].layers, source.layers, source.version, mask)
       /\ old.unknown = Writers[target].unknown
  BY <1>1 DEF clean
<1> QED  BY <1>12, <1>13, <1>14, <1>15, <1>16 DEF source, mask

\* A raw copy has the layers of its source, whatever the versions in which they first
\* came, and an unknown layer if the policy is to preserve it.
THEOREM RawCopiesKeepLayers == Spec => RawCopyKeepsLayers
<1>1. DocumentInv /\ [Next]_vars =>
          [last'.op = "RawCopy" =>
             LET old == Writers[last'.on[1]]
                 mask == Contents[last'.on[2]]
                 source == reader.dna
                 taken == (IF source.version = 21 THEN Sections
                           ELSE {l \in source.index : source.policy = "Preserve" \/ Has(source.version, l)})
                            \cap mask \cap Clean(old.layers, source.layers, source.version, mask)
             IN  /\ copy'.version = source.version
                 /\ \A l \in taken \ {"rbfe"} :
                       copy'.layers[l] = AsStored(source.layers, l, source.version, mask)
                 /\ source.version # 21 /\ Unknown \in source.index =>
                       (Unknown \in copy'.index) = (last'.on[3] = "Preserve" \/ old.unknown # 0)
                 /\ reader'.dna.layers = source.layers]_vars
  <2> SUFFICES ASSUME DocumentInv, Next, last'.op = "RawCopy"
               PROVE  LET old == Writers[last'.on[1]]
                          mask == Contents[last'.on[2]]
                          source == reader.dna
                          taken == (IF source.version = 21 THEN Sections
                                    ELSE {l \in source.index : source.policy = "Preserve"
                                                                  \/ Has(source.version, l)})
                                     \cap mask \cap Clean(old.layers, source.layers, source.version, mask)
                      IN  /\ copy'.version = source.version
                          /\ \A l \in taken \ {"rbfe"} :
                                copy'.layers[l] = AsStored(source.layers, l, source.version, mask)
                          /\ source.version # 21 /\ Unknown \in source.index =>
                                (Unknown \in copy'.index) = (last'.on[3] = "Preserve" \/ old.unknown # 0)
                          /\ reader'.dna.layers = source.layers
    OBVIOUS
  <2>1. PICK dataLayer \in DataLayers, target \in DOMAIN Writers, policy \in {"Preserve", "Ignore"} :
            RawCopy(target, dataLayer, policy) /\ last'.on = <<target, dataLayer, policy>>
    BY OperationOf
  <2>2. last'.on[1] = target /\ last'.on[2] = dataLayer /\ last'.on[3] = policy
    BY <2>1
  <2> QED  BY <2>1, <2>2, RawCopyLayers
<1> QED  BY <1>1, DocumentInvariant, PTL DEF Spec, RawCopyKeepsLayers

\* A raw copy adds no layer to those that its source has.
THEOREM RawCopiesAddNothing == Spec => RawCopyAddsNothing
<1>1. DocumentInv /\ [Next]_vars =>
          [last'.op = "RawCopy" /\ reader.dna.version # 21 => copy'.index \subseteq reader.dna.index]_vars
  <2> SUFFICES ASSUME DocumentInv, Next, last'.op = "RawCopy", reader.dna.version # 21
               PROVE  copy'.index \subseteq reader.dna.index
    OBVIOUS
  <2>1. PICK dataLayer \in DataLayers, target \in DOMAIN Writers, policy \in {"Preserve", "Ignore"} :
            RawCopy(target, dataLayer, policy) /\ last'.on = <<target, dataLayer, policy>>
    BY OperationOf
  <2> QED  BY <2>1, RawCopyLayers
<1> QED  BY <1>1, DocumentInvariant, PTL DEF Spec, RawCopyAddsNothing
=============================================================================
