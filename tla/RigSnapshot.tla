----------------------------- MODULE RigSnapshot -----------------------------
(***************************************************************************)
(* RigLogic::create, dump and restore.  Every factory records the type of   *)
(* its evaluator, Null or Concrete, in a queue that is part of the metadata. *)
(* On restore the factories run in the same order: each takes the type at    *)
(* the front of the queue and puts the type it made at the back.  Then all   *)
(* parts load themselves from the archive; a Null evaluator loads nothing.   *)
(*                                                                         *)
(* The archive is a sequence of chunks, one for what each part saves, and a  *)
(* chunk names the dump and the part it comes from.  What a part reads from  *)
(* the chunk of another one is garbage, and so is everything read after it.  *)
(***************************************************************************)
EXTENDS Integers, Sequences

CONSTANTS
    Dnas,      \* [has, sequence, rotationUnit, mlRotationType, mlTransformed]
    Configs,   \* [load, rotationType, floatingPointType]
    Builds,    \* sets of rotation sequences that a build supports
    MaxDumps   \* dumps written to the stream (bound)

VARIABLES
    rig,        \* RigLogicImpl: [config, meta, evaluators, part]
    dna, build, \* the reader of create, and the build that runs
    call, pc,   \* the call under way and its next step
    archive, position,
    dumped,     \* history: the dumped rigs, and where in the archive each of
                \* their parts was saved, and where the snapshot ends
    source,     \* history: which of them is being, or was, restored; 0: none
    aligned     \* what was read is what was meant to be read

\* what Configuration has a flag for
Loadable == {"ml", "rbf", "twistSwing", "blendShapes", "animatedMaps", "joints"}
RotationTypes == {"EulerAngles", "Quaternions"}
RotationUnits == {"degrees", "radians"}
FloatingPointTypes == {"Float", "HalfFloat"}

ASSUME DnasAssumption ==
    \A d \in Dnas : /\ d.rotationUnit \in RotationUnits
                   /\ d.mlRotationType \in RotationTypes
                   /\ d.mlTransformed \in BOOLEAN

ASSUME ConfigsAssumption ==
    Configs \subseteq [load : SUBSET Loadable, rotationType : RotationTypes,
                      floatingPointType : FloatingPointTypes]

vars == <<rig, dna, build, call, pc, archive, position, dumped, source, aligned>>

\* in the order of the factory calls, which is the order of the queue
Evaluators == <<"ml", "rbf", "bpcm", "quaternion", "twistSwing", "mlJoints",
                "blendShapes", "animatedMaps", "psd">>
Evaluator == {Evaluators[i] : i \in 1 .. Len(Evaluators)}
JointEvaluator == {"bpcm", "quaternion", "twistSwing", "mlJoints"}

\* Faulty variant of SaveOrder: the PSD net is saved last, as it is created.
CreationOrder ==
    <<"config", "meta", "controls", "ml", "meshRegions", "rbf",
      "bpcm", "quaternion", "twistSwing", "mlJoints", "joints",
      "blendShapes", "animatedMaps", "psd">>

SaveOrder ==
    <<"config", "meta", "controls", "ml", "meshRegions", "rbf", "psd",
      "bpcm", "quaternion", "twistSwing", "mlJoints", "joints",
      "blendShapes", "animatedMaps">>

\* config and meta are read before the factories run
LoadOrder ==
    <<"controls", "ml", "meshRegions", "rbf", "psd",
      "bpcm", "quaternion", "twistSwing", "mlJoints", "joints",
      "blendShapes", "animatedMaps">>

Part == {LoadOrder[i] : i \in 1 .. Len(LoadOrder)}
-----------------------------------------------------------------------------
(* Evaluators                                                               *)

\* What an evaluator does with rotations: it converts between Euler angles and
\* quaternions, or transforms ML controls to the output coordinate system, and
\* may then depend on the unit.
Kernel(p, rotationType, mlRotationType, unit, transformed) ==
    LET converts == \/ p = "bpcm" /\ rotationType = "Quaternions"
                    \/ p \in {"quaternion", "twistSwing"} /\ rotationType = "EulerAngles"
                    \/ p = "mlJoints" /\ rotationType # mlRotationType
        transforms == p = "mlJoints" /\ transformed
    IN  [converts |-> converts,
         transforms |-> transforms,
         unit |-> IF converts \/ (transforms /\ rotationType = "EulerAngles")
                  THEN unit ELSE "any"]

CreateKernel(p) ==
    Kernel(p, rig.config.rotationType, dna.mlRotationType, dna.rotationUnit,
           dna.mlTransformed)

\* Faulty variant of RestoreKernel: another default of the unit.
RestoreKernelRadians(p) ==
    Kernel(p, rig.config.rotationType, rig.config.rotationType, "radians", FALSE)

\* On restore the builders have their default members: degrees, no change of
\* basis, and ML joints with the rotation type of the configuration.
RestoreKernel(p) ==
    Kernel(p, rig.config.rotationType, rig.config.rotationType, "degrees", FALSE)

NoKernel == [converts |-> FALSE, transforms |-> FALSE, unit |-> "any"]
Null == [type |-> "Null", kernel |-> NoKernel, data |-> "empty"]
Concrete(kernel, data) == [type |-> "Concrete", kernel |-> kernel, data |-> data]

\* A build has no strategy for the rotation sequences it leaves out.
Supported(kernel, sequence) == kernel.converts => sequence \in build

Make(kernel, data) ==
    IF Supported(kernel, rig.meta.sequence) THEN Concrete(kernel, data) ELSE Null

\* Is the joints module null as a whole?  Then it pushes and pops no types.
\* (jointAttributeCount, which restore tests, is 0 when jointCount is.)
NoJoints(r) == "joints" \notin r.config.load \/ ~ {"lods", "joints"} \subseteq r.meta.has

\* Does the DNA have what p evaluates, and does the configuration want it?
Wanted(p) ==
    /\ {p, "lods"} \subseteq dna.has
    /\ p \in Loadable => p \in rig.config.load

Meta(d) == [has |-> d.has \cap {"lods", "joints"}, sequence |-> d.sequence]
Unbuilt == [p \in Part |-> IF p \in Evaluator THEN Null ELSE Concrete(NoKernel, "empty")]
-----------------------------------------------------------------------------
(* create                                                                   *)

\* The reader and the configuration are inputs of the first call.
Init ==
    /\ dna \in Dnas
    /\ build \in Builds
    /\ rig \in {[config |-> c, meta |-> Meta(dna), evaluators |-> <<>>, part |-> Unbuilt] :
                    c \in Configs}
    /\ call = "create" /\ pc = 1
    /\ archive = <<>> /\ position = 1
    /\ dumped = <<>> /\ source = 0 /\ aligned = TRUE

\* One factory of create; controls, mesh regions and the joints module around
\* its evaluators are built along with them.
CreateEvaluator ==
    /\ call = "create" /\ pc <= Len(Evaluators)
    /\ LET p == Evaluators[pc]
           e == IF Wanted(p) THEN Make(CreateKernel(p), "built") ELSE Null
       IN  rig' = IF p \in JointEvaluator /\ NoJoints(rig)
                  THEN rig
                  ELSE [rig EXCEPT !.evaluators = Append(@, e.type), !.part[p] = e]
    /\ pc' = pc + 1
    /\ UNCHANGED <<dna, build, call, archive, position, dumped, source, aligned>>

CreateReturns ==
    /\ call = "create" /\ pc = Len(Evaluators) + 1
    /\ rig' = [rig EXCEPT !.part = [p \in Part |->
                   IF p \in Evaluator THEN @[p]
                   ELSE IF \/ p = "meshRegions" /\ @["ml"].type = "Null"
                           \/ p = "joints" /\ NoJoints(rig)
                        THEN @[p] ELSE Concrete(NoKernel, "built")]]
    /\ call' = "none" /\ pc' = 1
    /\ UNCHANGED <<dna, build, archive, position, dumped, source, aligned>>
-----------------------------------------------------------------------------
(* dump                                                                     *)

Saves(r, p) == p \in Evaluator => r.part[p].type = "Concrete"

\* A snapshot is written behind the ones the stream holds.
Dump ==
    /\ call = "none" /\ Len(dumped) < MaxDumps
    /\ position = Len(archive) + 1
    /\ call' = "dump" /\ pc' = 1
    /\ dumped' = Append(dumped, [rig |-> rig, at |-> <<position>>])
    /\ UNCHANGED <<rig, dna, build, archive, position, source, aligned>>

\* The part that is next writes its data, if it is not a Null evaluator.
Save ==
    /\ call = "dump" /\ pc <= Len(SaveOrder)
    /\ LET k == Len(dumped)
       IN  /\ IF Saves(rig, SaveOrder[pc])
              THEN /\ archive' = Append(archive, [dump |-> k, part |-> SaveOrder[pc]])
                   /\ position' = position + 1
              ELSE UNCHANGED <<archive, position>>
           /\ dumped' = [dumped EXCEPT ![k].at = Append(@, position')]
    /\ pc' = pc + 1
    /\ UNCHANGED <<rig, dna, build, call, source, aligned>>

DumpReturns ==
    /\ call = "dump" /\ pc = Len(SaveOrder) + 1
    /\ call' = "none" /\ pc' = 1
    /\ UNCHANGED <<rig, dna, build, archive, position, dumped, source, aligned>>

\* The caller moves the stream to a snapshot, or behind the last one.
Seek ==
    /\ call = "none"
    /\ \E start \in {dumped[k].at[1] : k \in 1 .. Len(dumped)} \cup {Len(archive) + 1} :
           position' = start
    /\ UNCHANGED <<rig, dna, build, call, pc, archive, dumped, source, aligned>>
-----------------------------------------------------------------------------
(* restore                                                                  *)

\* ConfigurationSerializer leaves out the floating point type.
Restored(config) == [config EXCEPT !.floatingPointType = "HalfFloat"]

\* The configuration and the metadata are read, in a process of any build.
Restore(b) ==
    /\ call = "none"
    /\ \E k \in 1 .. Len(dumped) :
           /\ dumped[k].at[1] = position
           /\ source' = k
           /\ rig' = [config |-> Restored(dumped[k].rig.config),
                      meta |-> dumped[k].rig.meta,
                      evaluators |-> dumped[k].rig.evaluators,
                      part |-> Unbuilt]
    /\ build' = b
    /\ position' = position + 2
    /\ call' = "restore" /\ pc' = 1 /\ aligned' = TRUE
    /\ UNCHANGED <<dna, archive, dumped>>

\* Faulty variant of RestoreEvaluator: the type is not put back.
RestoreEvaluatorNoPush ==
    /\ call = "restore" /\ pc <= Len(Evaluators)
    /\ LET p == Evaluators[pc]
           e == IF Head(rig.evaluators) = "Null" THEN Null ELSE Make(RestoreKernel(p), "empty")
       IN  rig' = IF p \in JointEvaluator /\ NoJoints(rig) THEN rig
                  ELSE [rig EXCEPT !.evaluators = Tail(@), !.part[p] = e]
    /\ pc' = pc + 1
    /\ UNCHANGED <<dna, build, call, archive, position, dumped, source, aligned>>

\* One factory of restore.
RestoreEvaluator ==
    /\ call = "restore" /\ pc <= Len(Evaluators)
    /\ LET p == Evaluators[pc]
           e == IF Head(rig.evaluators) = "Null" THEN Null ELSE Make(RestoreKernel(p), "empty")
       IN  rig' = IF p \in JointEvaluator /\ NoJoints(rig)
                  THEN rig
                  ELSE [rig EXCEPT !.evaluators = Append(Tail(@), e.type), !.part[p] = e]
    /\ pc' = pc + 1
    /\ UNCHANGED <<dna, build, call, archive, position, dumped, source, aligned>>

BeginLoad ==
    /\ call = "restore" /\ pc = Len(Evaluators) + 1
    /\ call' = "load" /\ pc' = 1
    /\ UNCHANGED <<rig, dna, build, archive, position, dumped, source, aligned>>

\* The part that is next reads its data, if it is not a Null evaluator.
Load ==
    /\ call = "load" /\ pc <= Len(LoadOrder)
    /\ LET p == LoadOrder[pc]
           inStep == aligned /\ position <= Len(archive) /\ archive[position].part = p
       IN  IF Saves(rig, p)
           THEN /\ aligned' = inStep
                /\ position' = IF inStep THEN position + 1 ELSE position
                /\ rig' = [rig EXCEPT !.part[p].data =
                              IF inStep THEN dumped[archive[position].dump].rig.part[p].data
                              ELSE "garbage"]
           ELSE UNCHANGED <<aligned, position, rig>>
    /\ pc' = pc + 1
    /\ UNCHANGED <<dna, build, call, archive, dumped, source>>

RestoreReturns ==
    /\ call = "load" /\ pc = Len(LoadOrder) + 1
    /\ call' = "none" /\ pc' = 1
    /\ UNCHANGED <<rig, dna, build, archive, position, dumped, source, aligned>>

Next ==
    \/ CreateEvaluator \/ CreateReturns
    \/ Dump \/ Save \/ DumpReturns \/ Seek
    \/ \E b \in Builds : Restore(b)
    \/ RestoreEvaluator \/ BeginLoad \/ Load \/ RestoreReturns

Spec == Init /\ [][Next]_vars
-----------------------------------------------------------------------------
(* Properties                                                               *)

Origin == dumped[source].rig

\* Can this build make every evaluator that the snapshot holds data for?
BuildSuffices ==
    \A p \in Evaluator :
        Origin.part[p].type = "Concrete" =>
            Supported(Kernel(p, Origin.config.rotationType, Origin.config.rotationType,
                             "degrees", FALSE), Origin.meta.sequence)

\* Does a rig do only what the builders restore?  The unit, the coordinate
\* system and rotation type of ML joints, and the floating point type are not
\* part of the archive, or not used.
Restorable(r) ==
    /\ r.config.floatingPointType = "HalfFloat"
    /\ \A p \in JointEvaluator :
           LET k == r.part[p].kernel
           IN  k.unit \in {"any", "degrees"} /\ ~ k.transforms /\ ~ (p = "mlJoints" /\ k.converts)

(* As long as the build has the rotation sequences the snapshot needs, each  *)
(* part reads what it wrote: while a rig is loaded, what comes next in the    *)
(* archive is what the next part saved, and the last part ends where the      *)
(* snapshot does (RigLogicImpl::dump against RigLogic::restore and the        *)
(* factories' queue).                                                        *)
LoadsInStep ==
    source # 0 /\ BuildSuffices /\ call = "load" =>
        /\ aligned
        /\ pc <= Len(LoadOrder) /\ Saves(rig, LoadOrder[pc]) =>
               /\ position <= Len(archive)
               /\ archive[position] = [dump |-> source, part |-> LoadOrder[pc]]
        /\ pc > Len(LoadOrder) => position = dumped[source].at[Len(SaveOrder) + 1]

(* A restored rig is the rig that was dumped, if the rig does only what the  *)
(* archive and the defaults of the builders determine (RigLogic::restore).   *)
RestoredAsDumped ==
    call = "none" /\ source # 0 /\ BuildSuffices /\ Restorable(Origin) => rig = Origin

(* The snapshot of a restored rig is the snapshot it was restored from,      *)
(* whatever the unit or coordinate system: the queue of types is back in its *)
(* order, and each part holds its data (RigMetadata's queue).                *)
SnapshotsAgree ==
    call = "none" /\ source # 0 /\ BuildSuffices =>
        /\ \A p \in Part : Saves(rig, p) <=> Saves(Origin, p)
        /\ rig.evaluators = Origin.evaluators
        /\ \A p \in Part : rig.part[p].data = Origin.part[p].data

=============================================================================
