----------------------------- MODULE DNADocument -----------------------------
(***************************************************************************)
(* A DNA document between a writer and a reader: a writer is edited and     *)
(* written to a file, a reader loads the layers it asks for and unloads     *)
(* them, and another writer takes them over, either getter by getter or raw *)
(* (through a stream in memory).  The file's version says which layers it   *)
(* has; what a later version added is an unknown layer.                     *)
(***************************************************************************)
EXTENDS DNALayers

CONSTANTS
    Versions,       \* of the file format: 28 is 2.8
    Writers,        \* a function: the documents that writers may hold already
    Files,          \* files of other programs, in versions that may lack layers or have more
    Kinds,          \* what is edited: layers, or "header"
    Masks,          \* functions of the kind that is edited: the data layers asked for,
    Policies,       \* and the policies for unknown layers
    MaxCalls,       \* how many calls edit the writer
    MaxSteps        \* how many operations there are in all

VARIABLES writer, written, file, reader, copy, kind, last

vars == <<writer, written, file, reader, copy, kind, last>>

Sections == {"desc", "defn", "bhvr", "geom"}
Ids == Sections \cup {"mlbh", "rbfb", "rbfe", "jbmd", "twsw", "mlbe", "dsce"}
Unknown == "unknown"

EmptyLayers ==
    [desc |-> EmptyDescriptor, defn |-> EmptyDefinition, bhvr |-> EmptyBehavior,
     geom |-> EmptyGeometry, mlbh |-> EmptyMachineLearnedBehavior, rbfb |-> EmptyRBFBehavior,
     rbfe |-> EmptyRBFBehaviorExt, jbmd |-> EmptyJointBehaviorMetadata,
     twsw |-> EmptyTwistSwingBehavior, mlbe |-> EmptyMachineLearnedBehaviorExt,
     dsce |-> EmptyDescriptorExt]

AvailableFrom ==
    [l \in Sections |-> 22]
        ++ [mlbh |-> 23, rbfb |-> 24, rbfe |-> 25, jbmd |-> 24, twsw |-> 24, mlbe |-> 26, dsce |-> 27]
latest == 28

\* unknown is the data of the unknown layer, 0 when there is none.
EmptyDNA ==
    [version |-> latest, index |-> {}, policy |-> "Preserve", unknown |-> 0, layers |-> EmptyLayers]

\* attached: layers of the container are those of the document
\* lods: those that the constraint of the archive still has
\* cache: of the operations that networks imply
EmptyReader(policy) ==
    [dna |-> [EmptyDNA EXCEPT !.policy = policy], attached |-> TRUE, lods |-> 32, cache |-> <<>>]

NoFile == [version |-> 0]
NoLast == [op |-> "none", on |-> "none", calls |-> 0, steps |-> 0]
-----------------------------------------------------------------------------
(* A data layer that is asked for implies others.                           *)

Contents ==
    LET definition == {"desc", "dsce", "defn"}
        behavior == definition \cup {"bhvr"}
        geometry == definition \cup {"geom"}
        rbf == behavior \cup {"rbfb", "rbfe"}
    IN  [Descriptor |-> {"desc", "dsce"}, Definition |-> definition, Behavior |-> behavior,
         Geometry |-> geometry \cup {"targets"}, GeometryWithoutBlendShapes |-> geometry,
         MachineLearnedBehavior |-> definition \cup {"mlbh", "mlbe"}, RBFBehavior |-> rbf,
         JointBehaviorMetadata |-> definition \cup {"jbmd"},
         TwistSwingBehavior |-> definition \cup {"twsw"},
         All |-> Ids \cup {"targets"}]

DataLayers == DOMAIN Contents
-----------------------------------------------------------------------------
(* What documents and files are.                                            *)

\* Layer l has the fields of a new one, a mapping wherever that has one.
IsLayer(l, x) ==
    /\ HasFields(x, DOMAIN EmptyLayers[l])
    /\ l = "desc" => x.lodCount \in Nat
    /\ l = "defn" => \A f \in DefinitionMappings : IsMapping(x[f])
    /\ l = "mlbh" => IsMapping(x.lodNeuralNetworkMapping)
    /\ l = "rbfb" => IsMapping(x.lodSolverMapping)
    /\ l = "mlbe" => HasFields(x.mlbJoints, MLJointsArrays)

\* A layer as a file of a version has it
SavedLayer(l, layers, version) ==
    IF l = "dsce" THEN LoadedDescriptorExt(EmptyDescriptorExt, layers.dsce, version) ELSE layers[l]

IsHeader(d) ==
    /\ HasFields(d, {"version", "index", "policy", "unknown", "layers"})
    /\ d.version \in Versions \cup {latest}
    /\ d.index \subseteq Ids \cup {Unknown}
    /\ d.policy \in {"Preserve", "Ignore"}
    /\ d.unknown \in Nat /\ (Unknown \in d.index => d.unknown # 0)

IsDNA(d) ==
    /\ IsHeader(d)
    /\ HasFields(d.layers, Ids)
    /\ \A l \in Ids : IsLayer(l, d.layers[l])

IsFile(f) ==
    /\ HasFields(f, {"version", "present", "unknown", "layers"})
    /\ f.version \in Versions \cup {latest}
    /\ f.present \subseteq Ids \cup {Unknown}
    /\ f.unknown \in Nat /\ (Unknown \in f.present => f.unknown # 0)
    /\ HasFields(f.layers, f.present \cap Ids)
    /\ \A l \in f.present \cap Ids :
          IsLayer(l, f.layers[l]) /\ f.layers[l] = SavedLayer(l, f.layers, f.version)

ASSUME DocumentsAssumption ==
    /\ Versions \subseteq Nat
    /\ \A w \in DOMAIN Writers : IsDNA(Writers[w])
    /\ \A f \in Files : IsFile(f)
    /\ Kinds \subseteq Ids \cup {"header"}
    /\ \A k \in Kinds : Policies[k] \subseteq {"Preserve", "Ignore"}
    /\ \A k \in Kinds : Masks[k] \subseteq DataLayers
    /\ MaxCalls \in Nat /\ MaxSteps \in Nat
-----------------------------------------------------------------------------
(* Writing *)

\* Mutant: the ifs are merged.
updateIndexTableMerged(dna, upgrade) ==
    LET supported == {l \in Ids : dna.version >= AvailableFrom[l]}
        created == IF upgrade = "Allowed" THEN supported \ dna.index ELSE {}
        destroyed == IF dna.policy = "Ignore" THEN Ids \ created ELSE {}
    IN  [dna EXCEPT !.index = (@ \cup created) \ destroyed]

\* Mutant: a copy upgrades the format of its source.
updateIndexTableAlways(dna, upgrade) ==
    LET supported == {l \in Ids : dna.version >= AvailableFrom[l]}
        destroyed == IF dna.policy = "Ignore" THEN Ids \ supported ELSE {}
    IN  [dna EXCEPT !.index = (@ \cup supported) \ destroyed]

updateIndexTable(dna, upgrade) ==
    LET supported == {l \in Ids : dna.version >= AvailableFrom[l]}
        created == IF upgrade = "Allowed" THEN supported ELSE {}
        destroyed == IF dna.policy = "Ignore" THEN Ids \ supported ELSE {}
    IN  [dna EXCEPT !.index = (@ \cup created) \ destroyed]

\* What version 2.1 has are its sections, without an index.
Indexed(dna, upgrade) == IF dna.version = 21 THEN dna ELSE updateIndexTable(dna, upgrade)

Saved(dna) ==
    LET present == IF dna.version = 21 THEN Sections ELSE dna.index
    IN  [version |-> dna.version,
         present |-> present,
         unknown |-> IF Unknown \in present THEN dna.unknown ELSE 0,
         layers |-> [l \in present \cap Ids |-> SavedLayer(l, dna.layers, dna.version)]]
-----------------------------------------------------------------------------
(* Loading *)

\* Mutant: meshes are loaded with their blend shapes.
LoadedLayerWhole(l, old, new, version, mask) ==
    CASE l = "desc" -> Loaded(old, new, DescriptorArrays)
      [] l = "dsce" -> LoadedDescriptorExt(old, new, version)
      [] l = "defn" -> LoadedDefinition(old, new)
      [] l = "bhvr" -> Loaded(old, new, BehaviorArrays)
      [] OTHER -> new

LoadedLayer(l, old, new, version, mask) ==
    CASE l = "desc" -> Loaded(old, new, DescriptorArrays)
      [] l = "dsce" -> LoadedDescriptorExt(old, new, version)
      [] l = "defn" -> LoadedDefinition(old, new)
      [] l = "bhvr" -> Loaded(old, new, BehaviorArrays)
      [] l = "geom" -> IF "targets" \in mask THEN new
                       ELSE [meshes |-> [i \in 1 .. Len(new.meshes) |-> WithoutTargets(new.meshes[i])]]
      [] l = "mlbh" -> LoadedMappings(old, new, {"lodNeuralNetworkMapping"})
      [] l = "rbfb" -> LoadedMappings(old, new, {"lodSolverMapping"})
      [] l = "mlbe" -> LoadedMachineLearnedBehaviorExt(old, new)
      [] OTHER -> new

postLoadActions(layers) == [layers EXCEPT !.rbfe = PostLoad(layers.rbfe, layers.rbfb)]

\* An unknown layer is dropped unless it is to be preserved or is there already.
KeepsUnknown(dna, saved) == Unknown \in saved.present /\ (dna.policy = "Preserve" \/ dna.unknown # 0)

Load(dna, saved, mask) ==
    LET layers == [l \in Ids |->
                      IF l \in saved.present \cap mask
                      THEN LoadedLayer(l, dna.layers[l], saved.layers[l], saved.version, mask)
                      ELSE dna.layers[l]]
    IN  IF saved.version = 21 THEN [dna EXCEPT !.version = 21, !.layers = layers]
        ELSE [dna EXCEPT
                !.version = saved.version,
                !.index = saved.present \ (IF KeepsUnknown(dna, saved) THEN {} ELSE {Unknown}),
                !.unknown = IF KeepsUnknown(dna, saved) THEN saved.unknown ELSE @,
                !.layers = postLoadActions(layers)]

\* What the reader computes from a document once it is loaded subscripts
\* these arrays; an abstract array is as long as it has to be, or empty.
CanPopulate(layers) ==
    LET lodCount == layers.desc.lodCount
        groups == layers.bhvr.jointGroups
        poses == layers.rbfb.poses # <<>>
    IN  /\ \A i \in 1 .. Len(groups) :
              /\ (groups[i].lods = <<>>) = (lodCount = 0)
              /\ groups[i].lods # <<>> => groups[i].outputIndices # <<>>
              /\ poses /\ groups[i].inputIndices # <<>> /\ groups[i].outputIndices # <<>>
                    => groups[i].values # <<>>
              /\ groups[i].jointIndices # <<>> => layers.defn.jointNames # <<>>
        /\ poses => /\ layers.bhvr.blendShapeChannelInputIndices # <<>>
                          => layers.bhvr.blendShapeChannelOutputIndices # <<>>
                    /\ layers.defn.animatedMapNames # <<>>
                          => /\ layers.bhvr.animatedMapInputIndices # <<>>
                             /\ layers.bhvr.animatedMapOutputIndices # <<>>
        /\ layers.mlbe.mlbJoints.outputIndices # <<>>
              => /\ layers.mlbe.mlbJoints.parameterKeys # <<>>
                 /\ layers.mlbe.mlbJoints.parameterValues # <<>>
                 /\ CanShow(layers.defn.lodJointMapping, lodCount)
        /\ CanShow(layers.defn.lodMeshMapping, lodCount)
        /\ CanShow(layers.defn.lodBlendShapeMapping, lodCount)

Unloaded(layers, gone) == [l \in gone |-> EmptyLayers[l]] ++ layers

\* Mutant: unloading the behavior leaves what needs it.
UnloadedAlone(dataLayer) ==
    CASE dataLayer = "TwistSwingBehavior" -> {"twsw"}
      [] dataLayer = "RBFBehavior" -> {"rbfb", "rbfe"}
      [] dataLayer = "JointBehaviorMetadata" -> {"jbmd"}
      [] dataLayer = "MachineLearnedBehavior" -> {"mlbh", "mlbe"}
      [] dataLayer \in {"Geometry", "GeometryWithoutBlendShapes"} -> {"geom"}
      [] dataLayer = "Behavior" -> {"bhvr"}
      [] dataLayer = "Definition" -> Ids \ {"desc", "dsce"}
      [] OTHER -> Ids

UnloadedBy(dataLayer) ==
    CASE dataLayer = "TwistSwingBehavior" -> {"twsw"}
      [] dataLayer = "RBFBehavior" -> {"rbfb", "rbfe"}
      [] dataLayer = "JointBehaviorMetadata" -> {"jbmd"}
      [] dataLayer = "MachineLearnedBehavior" -> {"mlbh", "mlbe"}
      [] dataLayer \in {"Geometry", "GeometryWithoutBlendShapes"} -> {"geom"}
      [] dataLayer = "Behavior" -> {"rbfb", "rbfe", "bhvr"}
      [] dataLayer = "Definition" -> Ids \ {"desc", "dsce"}
      [] OTHER -> Ids

\* Mutant: the index stays.
unloadKeepingIndex(r, dataLayer) ==
    IF dataLayer \in {"All", "Descriptor"}
    THEN [r EXCEPT !.dna = [EmptyDNA EXCEPT !.policy = r.dna.policy, !.index = r.dna.index],
                   !.attached = FALSE]
    ELSE [r EXCEPT !.dna.layers = Unloaded(@, UnloadedBy(dataLayer))]

unload(r, dataLayer) ==
    IF dataLayer \in {"All", "Descriptor"}
    THEN [r EXCEPT !.dna = [EmptyDNA EXCEPT !.policy = r.dna.policy], !.attached = FALSE]
    ELSE [r EXCEPT !.dna.layers = Unloaded(@, UnloadedBy(dataLayer))]
-----------------------------------------------------------------------------
(* Copying *)

\* What the getters of a reader show of a layer.
Shown(layers, l, cache) ==
    LET lodCount == layers.desc.lodCount
        meshCount == Len(layers.defn.meshNames)
    IN  CASE l = "desc" -> ShownDescriptor(layers.desc)
          [] l = "defn" -> ShownDefinition(layers.defn, lodCount)
          [] l = "bhvr" -> ShownBehavior(layers.bhvr)
          [] l = "geom" -> ShownGeometry(layers.geom, meshCount)
          [] l = "mlbh" -> ShownMachineLearnedBehavior(layers.mlbh, lodCount, meshCount)
          [] l = "rbfb" -> ShownRBFBehavior(layers.rbfb, lodCount)
          [] l = "rbfe" -> ShownRBFBehaviorExt(layers.rbfe, layers.rbfb)
          [] l = "jbmd" -> ShownJointBehaviorMetadata(layers.jbmd, Len(layers.defn.jointNames))
          [] l = "twsw" -> ShownTwistSwingBehavior(layers.twsw)
          [] l = "mlbe" -> ShownMachineLearnedBehaviorExt(layers.mlbe, layers.mlbh, lodCount, cache)
          [] OTHER -> layers[l]

CanShowAll(layers) ==
    LET lodCount == layers.desc.lodCount
    IN  /\ \A f \in DefinitionMappings : CanShow(layers.defn[f], lodCount)
        /\ CanShow(layers.mlbh.lodNeuralNetworkMapping, lodCount)
        /\ CanShow(layers.rbfb.lodSolverMapping, lodCount)
        /\ \A t \in 1 .. Len(layers.mlbe.mlbTypeData) :
              LET mappings == layers.mlbe.mlbTypeData[t].lodMLOperationMappings
              IN  \A i \in 1 .. Len(mappings) : CanShow(mappings[i], lodCount)

\* The layers of old, with those in mask taken over from the getters of new.
Copied(old, new, mask) ==
    LET lodCount == new.desc.lodCount
        meshCount == Len(new.defn.meshNames)
        geometry == CopyGeometry(old.geom, new.geom, meshCount)
    IN  [desc |-> CopyDescriptor(old.desc, new.desc),
         dsce |-> new.dsce,
         defn |-> IF "defn" \in mask THEN CopyDefinition(old.defn, new.defn, lodCount) ELSE old.defn,
         bhvr |-> IF "bhvr" \in mask THEN CopyBehavior(old.bhvr, new.bhvr) ELSE old.bhvr,
         geom |-> IF "geom" \notin mask THEN old.geom
                  ELSE IF "targets" \in mask THEN CopyBlendShapeTargets(geometry, new.geom, meshCount)
                  ELSE geometry,
         mlbh |-> IF "mlbh" \in mask THEN CopyMachineLearnedBehavior(old.mlbh, new.mlbh, lodCount, meshCount)
                  ELSE old.mlbh,
         rbfb |-> IF "rbfb" \in mask THEN CopyRBFBehavior(old.rbfb, new.rbfb, lodCount) ELSE old.rbfb,
         rbfe |-> IF "rbfe" \in mask THEN CopyRBFBehaviorExt(old.rbfe, new.rbfe, new.rbfb) ELSE old.rbfe,
         jbmd |-> IF "jbmd" \in mask
                  THEN CopyJointBehaviorMetadata(old.jbmd, new.jbmd, Len(new.defn.jointNames))
                  ELSE old.jbmd,
         twsw |-> IF "twsw" \in mask THEN CopyTwistSwingBehavior(old.twsw, new.twsw) ELSE old.twsw,
         mlbe |-> IF "mlbe" \in mask
                  THEN CopyMachineLearnedBehaviorExt(old.mlbe, new.mlbe, lodCount, Len(new.mlbh.neuralNetworks))
                  ELSE old.mlbe]
-----------------------------------------------------------------------------
(* Editing *)

LayerCalls(layers, l) ==
    CASE l = "desc" -> DescriptorCalls(layers.desc)
      [] l = "dsce" -> DescriptorExtCalls(layers.dsce)
      [] l = "defn" -> DefinitionCalls(layers.defn)
      [] l = "bhvr" -> BehaviorCalls(layers.bhvr)
      [] l = "geom" -> GeometryCalls(layers.geom)
      [] l = "mlbh" -> MachineLearnedBehaviorCalls(layers.mlbh)
      [] l = "rbfb" -> RBFBehaviorCalls(layers.rbfb)
      [] l = "rbfe" -> RBFBehaviorExtCalls(layers.rbfe)
      [] l = "jbmd" -> JointBehaviorMetadataCalls(layers.jbmd)
      [] l = "twsw" -> TwistSwingBehaviorCalls(layers.twsw)
      [] l = "mlbe" -> MachineLearnedBehaviorExtCalls(layers.mlbe)

clearRBFPoses(layers) == [layers EXCEPT !.rbfb.poses = <<>>, !.rbfe.poses = <<>>]
-----------------------------------------------------------------------------
Operation(op, on) ==
    /\ last.steps < MaxSteps
    /\ last' = [op |-> op, on |-> on, steps |-> last.steps + 1,
                calls |-> last.calls + IF op = "Call" THEN 1 ELSE 0]

Call ==
    /\ last.calls < MaxCalls
    /\ Operation("Call", kind)
    /\ \/ kind = "header" /\ \E v \in Versions : writer' = [writer EXCEPT !.version = v]
       \/ kind \in Ids /\ \E x \in LayerCalls(writer.layers, kind) : writer' = [writer EXCEPT !.layers[kind] = x]
       \/ kind \in {"rbfb", "rbfe"} /\ writer' = [writer EXCEPT !.layers = clearRBFPoses(@)]
    /\ UNCHANGED <<written, file, reader, copy, kind>>

Write ==
    /\ Operation("Write", "All")
    /\ LET dna == Indexed(writer, "Allowed")
       IN  writer' = dna /\ file' = Saved(dna)
    /\ written' = writer.layers
    /\ UNCHANGED <<reader, copy, kind>>

\* The container of a reader that was unloaded altogether is of a document
\* that is gone, and only version 2.1 is loaded without it.  The constraint
\* of the archive keeps no more LODs than a document before this one had.
Read(dataLayer) ==
    /\ file # NoFile
    /\ reader.attached \/ file.version = 21
    /\ "desc" \in file.present => file.layers.desc.lodCount <= reader.lods
    /\ Operation("Read", dataLayer)
    /\ LET dna == Load(reader.dna, file, Contents[dataLayer])
       IN  reader' = [reader EXCEPT
                        !.dna = dna,
                        !.lods = IF "desc" \in file.present THEN file.layers.desc.lodCount ELSE @,
                        !.cache = PopulatedML(@, Len(dna.layers.mlbh.neuralNetworks))]
    /\ CanPopulate(reader'.dna.layers)
    /\ UNCHANGED <<writer, written, file, copy, kind>>

Unload(dataLayer) ==
    /\ file # NoFile
    /\ Operation("Unload", dataLayer)
    /\ reader' = unload(reader, dataLayer)
    /\ UNCHANGED <<writer, written, file, copy, kind>>

SetFrom(target, dataLayer) ==
    /\ last.op = "Read"
    /\ CanShowAll(reader.dna.layers)
    /\ Operation("SetFrom", <<target, dataLayer>>)
    /\ copy' = [Writers[target] EXCEPT
                  !.version = reader.dna.version,
                  !.layers = Copied(@, reader.dna.layers, Contents[dataLayer])]
    /\ UNCHANGED <<writer, written, file, reader, kind>>

RawCopy(target, dataLayer, policy) ==
    /\ last.op = "Read"
    /\ reader.attached \/ reader.dna.version = 21
    /\ Operation("RawCopy", <<target, dataLayer, policy>>)
    /\ LET source == Indexed(reader.dna, "Disallowed")
       IN  /\ reader' = [reader EXCEPT !.dna = source]
           /\ copy' = Load([Writers[target] EXCEPT !.policy = policy], Saved(source), Contents[dataLayer])
    /\ UNCHANGED <<writer, written, file, kind>>

Init ==
    /\ kind \in Kinds
    /\ \E w \in DOMAIN Writers : writer = Writers[w]
    /\ \/ file = NoFile /\ written = EmptyLayers
       \/ kind = "header" /\ file \in Files /\ written = file.layers ++ EmptyLayers
    /\ copy = EmptyDNA /\ last = NoLast
    /\ \E policy \in Policies[kind] : reader = EmptyReader(policy)

Next ==
    \/ Call \/ Write
    \/ \E dataLayer \in Masks[kind] :
          \/ Read(dataLayer)
          \/ \E target \in DOMAIN Writers :
                \/ SetFrom(target, dataLayer)
                \/ \E policy \in Policies[kind] : RawCopy(target, dataLayer, policy)
    \/ \E dataLayer \in DataLayers : Unload(dataLayer)

Spec == Init /\ [][Next]_vars
-----------------------------------------------------------------------------
(* Properties *)

\* Every document is one, and its unknown layer is where its index says.
Documents == {writer, reader.dna, copy}
TypeOK ==
    /\ \A d \in Documents :
          /\ d.version \in Versions \cup {latest}
          /\ d.index \subseteq Ids \cup {Unknown}
          /\ d.policy \in {"Preserve", "Ignore"}
          /\ DOMAIN d.layers = Ids
          /\ Unknown \in d.index => d.unknown # 0
    /\ reader.lods \in 0 .. 32 /\ reader.attached \in BOOLEAN
    /\ reader.cache \in Seq(Seq(Nat))
    /\ kind \in Kinds
    /\ last.calls \in 0 .. MaxCalls /\ last.steps \in 0 .. MaxSteps

\* The layers that a version has.
Has(version, l) == version >= AvailableFrom[l] \/ (version = 21 /\ l \in Sections)

\* A layer as a file of a version holds it, and as a mask takes it over.
AsStored(layers, l, version, mask) ==
    CASE l = "dsce" /\ version \in 21 .. 27 -> [layers.dsce EXCEPT !.faceWindingOrder = 0]
      [] l = "geom" /\ "targets" \notin mask ->
             [meshes |-> [i \in 1 .. Len(layers.geom.meshes) |-> WithoutTargets(layers.geom.meshes[i])]]
      [] OTHER -> layers[l]

\* Layers of dna that loading replaces altogether: those that are empty, or
\* are as they were written.
Clean(layers, stored, version, mask) ==
    {l \in Ids : layers[l] \in {EmptyLayers[l], AsStored(stored, l, version, mask)}}

\* What was written is what is read: every layer asked for that the version
\* has, where nothing else was loaded before, and nothing else is touched.
\* Poses from before version 2.5 get controls.
ReadShowsWritten ==
    [][last'.op = "Read" =>
          LET mask == Contents[last'.on]
              version == file.version
              clean == Clean(reader.dna.layers, written, version, mask)
              new == reader'.dna.layers
          IN  /\ \A l \in (mask \cap clean) \ {"rbfe"} :
                    Has(version, l) => new[l] = AsStored(written, l, version, mask)
              /\ "rbfe" \in mask /\ {"rbfe", "rbfb"} \subseteq clean /\ Has(version, "rbfe")
                    => new.rbfe = PostLoad(written.rbfe, written.rbfb)
              /\ \A l \in Ids \ (mask \cup {"rbfe"}) : new[l] = reader.dna.layers[l]]_vars

\* Unloading a data layer unloads those that imply it, and nothing else.
UnloadTakesDependents ==
    [][last'.op = "Unload" =>
          LET own == [Descriptor |-> "desc", Definition |-> "defn", Behavior |-> "bhvr",
                      Geometry |-> "geom", GeometryWithoutBlendShapes |-> "geom",
                      MachineLearnedBehavior |-> "mlbh", RBFBehavior |-> "rbfb",
                      JointBehaviorMetadata |-> "jbmd", TwistSwingBehavior |-> "twsw", All |-> "desc"]
              gone == {l \in Ids : \A d \in DataLayers : l \in Contents[d] => own[last'.on] \in Contents[d]}
          IN  reader'.dna.layers = [l \in Ids |-> IF l \in gone THEN EmptyLayers[l]
                                                 ELSE reader.dna.layers[l]]]_vars

\* What a writer takes over getter by getter shows the same; the layers not
\* asked for stay.  Lost are: a geometry without vertices, LODs of networks
\* and of solvers where the source has none (those the writer had remain),
\* operations that look as if the networks implied them, and empty sets of
\* operations at the end.  Implied operations are compared when the reader
\* loaded one document: more pile up in its cache.
Preserved(old, new, l, cache) ==
    LET meshCount == Len(new.defn.meshNames)
    IN  CASE l = "geom" -> HasGeometry(new.geom, meshCount)
          [] l = "mlbh" -> HasMachineLearnedBehavior(new.mlbh) \/ old.mlbh.lodNeuralNetworkMapping.lods = <<>>
          [] l = "rbfb" -> HasRBFBehavior(new.rbfb) \/ old.rbfb.lodSolverMapping.lods = <<>>
          [] l = "rbfe" -> old.rbfe.poseControlNames = <<>> /\ HasRBFBehavior(new.rbfb)
          [] l = "mlbe" -> /\ IF IsMLExtLoaded(new.mlbe)
                              THEN ~ LooksImplied(new.mlbe, Len(new.mlbh.neuralNetworks))
                              ELSE \A i \in 1 .. Len(cache) : Len(cache[i]) = 1
                           /\ \A t \in 1 .. Len(new.mlbe.mlbTypeData) :
                                 LET sets == new.mlbe.mlbTypeData[t].operations
                                 IN  sets # <<>> /\ sets[Len(sets)] # <<>>
          [] OTHER -> TRUE

CopyShowsSource ==
    [][last'.op = "SetFrom" =>
          LET old == Writers[last'.on[1]].layers
              mask == Contents[last'.on[2]]
              source == reader.dna.layers
              asked == [copy'.layers EXCEPT !.defn = IF "defn" \in mask THEN @ ELSE source.defn]
              expected(l) ==
                  IF l = "geom" THEN AsStored([geom |-> Shown(source, l, <<>>)], l, latest, mask)
                  ELSE Shown(source, l, reader.cache)
              once == PopulatedML(<<>>, Len(asked.mlbh.neuralNetworks))
          IN  /\ copy'.version = reader.dna.version
              /\ \A l \in mask \cap Ids : Preserved(old, source, l, reader.cache) => Shown(asked, l, once) = expected(l)
              /\ \A l \in Ids \ mask : copy'.layers[l] = old[l]]_vars

\* What a writer takes over raw is the same, whatever the versions in which
\* its layers first came; an unknown layer as the policy says.
RawCopyKeepsLayers ==
    [][last'.op = "RawCopy" =>
          LET old == Writers[last'.on[1]]
              mask == Contents[last'.on[2]]
              source == reader.dna
              taken == (IF source.version = 21 THEN Sections
                        ELSE {l \in source.index : source.policy = "Preserve" \/ Has(source.version, l)})
                         \cap mask \cap Clean(old.layers, source.layers, source.version, mask)
          IN  /\ copy'.version = source.version
              /\ \A l \in taken \ {"rbfe"} :
                    copy'.layers[l] = AsStored(source.layers, l, source.version, mask)
              /\ source.version # 21 /\ Unknown \in source.index =>
                    (Unknown \in copy'.index) = (last'.on[3] = "Preserve" \/ old.unknown # 0)
              /\ reader'.dna.layers = source.layers]_vars

\* A raw copy adds no layer to those that the source has (copy's comment).
RawCopyAddsNothing ==
    [][last'.op = "RawCopy" /\ reader.dna.version # 21 => copy'.index \subseteq reader.dna.index]_vars
=============================================================================
