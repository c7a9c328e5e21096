-------------------------- MODULE RigSnapshotProofs --------------------------
(***************************************************************************)
(* Every part of a restored rig reads what it wrote, and the restored rig    *)
(* is the dumped one as far as the archive determines it, for all DNAs,      *)
(* configurations, builds, numbers of dumps and orders of calls.             *)
(***************************************************************************)
EXTENDS RigSnapshot, TLAPS

Types == {"Null", "Concrete"}
Contents == {"empty", "built", "garbage"}
Kernels == [converts : BOOLEAN, transforms : BOOLEAN, unit : RotationUnits \cup {"any"}]
Parts == [type : Types, kernel : Kernels, data : Contents]
Settings == [load : SUBSET Loadable, rotationType : RotationTypes,
             floatingPointType : FloatingPointTypes]
Rigs == [config : Settings, meta : {Meta(d) : d \in Dnas},
         evaluators : Seq(Types), part : [Part -> Parts]]
Chunks(dumps) == [dump : dumps, part : Part \cup {"config", "meta"}]

\* The evaluators whose types are in the queue, in its order
Pushing(r) ==
    IF NoJoints(r) THEN <<"ml", "rbf", "blendShapes", "animatedMaps", "psd">> ELSE Evaluators

\* How many of them come before the factory that is next?
Taken(r, next) == IF NoJoints(r) THEN <<0, 1, 2, 2, 2, 2, 2, 3, 4, 5>>[next] ELSE next - 1

\* A kernel that a builder has made for rotations of type rt
Made(p, rt, kernel) ==
    \E ml \in RotationTypes, unit \in RotationUnits, transformed \in BOOLEAN :
        kernel = Kernel(p, rt, ml, unit, transformed)

DefaultKernel(p, rt) == Kernel(p, rt, rt, "degrees", FALSE)

PartKnown(r, p) ==
    /\ p \in Evaluator =>
           \/ r.part[p] = Null
           \/ r.part[p].type = "Concrete" /\ Made(p, r.config.rotationType, r.part[p].kernel)
    /\ p \notin Evaluator => r.part[p].type = "Concrete" /\ r.part[p].kernel = NoKernel

RigKnown(r) ==
    /\ r \in Rigs
    /\ \A p \in Part : PartKnown(r, p)
    /\ NoJoints(r) => \A p \in JointEvaluator : r.part[p] = Null

\* The first n of a rig's types are those of its first evaluators.
QueueHolds(r, n) ==
    \A i \in 1 .. n : r.evaluators[i] = r.part[Pushing(r)[i]].type

QueueKnown(r) == Len(r.evaluators) = Len(Pushing(r)) /\ QueueHolds(r, Len(Pushing(r)))

\* Snapshot k has the first n - 1 parts, one behind the other.
SavedUpTo(k, n) ==
    /\ Len(dumped[k].at) = n
    /\ \A i \in 1 .. n - 1 :
           IF Saves(dumped[k].rig, SaveOrder[i])
           THEN /\ dumped[k].at[i + 1] = dumped[k].at[i] + 1
                /\ dumped[k].at[i] <= Len(archive)
                /\ archive[dumped[k].at[i]] = [dump |-> k, part |-> SaveOrder[i]]
           ELSE dumped[k].at[i + 1] = dumped[k].at[i]

\* How many positions of snapshot k are known?
Extent(k) == IF call = "dump" /\ k = Len(dumped) THEN pc ELSE Len(SaveOrder) + 1

StateKnown ==
    /\ dna \in Dnas
    /\ call \in {"create", "none", "dump", "restore", "load"}
    /\ pc \in Nat \ {0} /\ position \in Nat \ {0}
    /\ aligned \in BOOLEAN
    /\ archive \in Seq(Chunks(1 .. Len(dumped)))
    /\ dumped \in Seq([rig : Rigs, at : Seq(Nat \ {0})])
    /\ source \in 0 .. Len(dumped)
    /\ call = "create" => pc <= Len(Evaluators) + 1 /\ source = 0
    /\ call = "restore" => pc <= Len(Evaluators) + 1 /\ source # 0
    /\ call = "load" => pc <= Len(LoadOrder) + 1 /\ source # 0
    /\ call = "dump" => /\ pc <= Len(SaveOrder) + 1 /\ dumped # <<>>
                        /\ dumped[Len(dumped)].rig = rig
                        /\ dumped[Len(dumped)].at[pc] = position
                        /\ position = Len(archive) + 1

\* In a call of create the queue fills up; in a call of restore its types are taken
\* from the front and put back at the end.
RigInv ==
    /\ RigKnown(rig)
    /\ call = "create" => /\ Len(rig.evaluators) = Taken(rig, pc)
                          /\ QueueHolds(rig, Taken(rig, pc))
    /\ call = "restore" =>
           LET n == Len(Pushing(rig))
               taken == Taken(rig, pc)
           IN  /\ Len(rig.evaluators) = n
               /\ \A i \in 1 .. n - taken : rig.evaluators[i] = Origin.evaluators[taken + i]
               /\ \A i \in 1 .. taken :
                      rig.evaluators[n - taken + i] = rig.part[Pushing(rig)[i]].type
    /\ call \in {"none", "dump", "load"} => QueueKnown(rig)

SnapshotInv ==
    \A k \in 1 .. Len(dumped) :
        /\ RigKnown(dumped[k].rig) /\ QueueKnown(dumped[k].rig)
        /\ SavedUpTo(k, Extent(k))

\* The factories that ran have made again what was dumped, as the defaults determine it.
Remade(p) ==
    /\ rig.part[p].type = Origin.part[p].type
    /\ rig.part[p].type = "Concrete" =>
           rig.part[p].kernel = DefaultKernel(p, rig.config.rotationType)

Loaded(p) == rig.part[p].data = Origin.part[p].data

RestoredInv ==
    source # 0 =>
        /\ rig.config = Restored(Origin.config) /\ rig.meta = Origin.meta
        /\ BuildSuffices =>
               /\ call = "restore" => /\ aligned /\ position = dumped[source].at[3]
                                      /\ \A i \in 1 .. pc - 1 : Remade(Evaluators[i])
               /\ call # "restore" => \A p \in Evaluator : Remade(p)
               /\ call = "load" => /\ aligned /\ position = dumped[source].at[pc + 2]
                                   /\ \A i \in 1 .. pc - 1 : Loaded(LoadOrder[i])
               /\ call \notin {"restore", "load"} => \A p \in Part : Loaded(p)

SnapshotsInv == StateKnown /\ RigInv /\ SnapshotInv /\ RestoredInv
-----------------------------------------------------------------------------
(* The orders of evaluators and parts, and the queue.                       *)

LEMMA Orders ==
    /\ Len(Evaluators) = 9 /\ Len(LoadOrder) = 12 /\ Len(SaveOrder) = 14
    /\ SaveOrder[1] = "config" /\ SaveOrder[2] = "meta"
    /\ \A i \in 1 .. 12 : SaveOrder[i + 2] = LoadOrder[i]
    /\ \A i \in 1 .. 12 : LoadOrder[i] \in Part
    /\ \A p \in Part : \E i \in 1 .. 12 : p = LoadOrder[i]
    /\ \A i \in 1 .. 12, j \in 1 .. 12 : LoadOrder[i] = LoadOrder[j] => i = j
    /\ \A i \in 1 .. 9 : Evaluators[i] \in Evaluator
    /\ \A p \in Evaluator : \E i \in 1 .. 9 : p = Evaluators[i]
    /\ \A i \in 1 .. 9, j \in 1 .. 9 : Evaluators[i] = Evaluators[j] => i = j
    /\ Evaluator \subseteq Part /\ JointEvaluator \subseteq Evaluator
    /\ "config" \notin Evaluator /\ "meta" \notin Evaluator
<1>1. Evaluator = {"ml", "rbf", "bpcm", "quaternion", "twistSwing", "mlJoints",
                   "blendShapes", "animatedMaps", "psd"}
  BY DEF Evaluator, Evaluators
<1>2. Part = {"controls", "ml", "meshRegions", "rbf", "psd", "bpcm", "quaternion",
              "twistSwing", "mlJoints", "joints", "blendShapes", "animatedMaps"}
  BY DEF Part, LoadOrder
<1>3. Len(Evaluators) = 9 /\ Len(LoadOrder) = 12 /\ Len(SaveOrder) = 14
  BY DEF Evaluators, LoadOrder, SaveOrder
<1>4. SaveOrder[1] = "config" /\ SaveOrder[2] = "meta"
  BY DEF SaveOrder
<1>5. \A i \in 1 .. 12 : SaveOrder[i + 2] = LoadOrder[i]
  BY DEF SaveOrder, LoadOrder
<1>6. \A i \in 1 .. 12 : LoadOrder[i] \in Part
  BY <1>3 DEF Part
<1>7. \A p \in Part : \E i \in 1 .. 12 : p = LoadOrder[i]
  BY <1>3 DEF Part
<1>8. \A i \in 1 .. 12, j \in 1 .. 12 : LoadOrder[i] = LoadOrder[j] => i = j
  BY DEF LoadOrder
<1>9. \A i \in 1 .. 9 : Evaluators[i] \in Evaluator
  BY <1>3 DEF Evaluator
<1>10. \A p \in Evaluator : \E i \in 1 .. 9 : p = Evaluators[i]
  BY <1>3 DEF Evaluator
<1>11. \A i \in 1 .. 9, j \in 1 .. 9 : Evaluators[i] = Evaluators[j] => i = j
  BY DEF Evaluators
<1>12. Evaluator \subseteq Part /\ JointEvaluator \subseteq Evaluator
  BY <1>1, <1>2 DEF JointEvaluator
<1>13. "config" \notin Evaluator /\ "meta" \notin Evaluator
  BY <1>1
<1> QED  BY <1>3, <1>4, <1>5, <1>6, <1>7, <1>8, <1>9, <1>10, <1>11, <1>12, <1>13

\* A factory that takes a type takes the one of its evaluator; the others take none.
LEMMA Queue ==
    ASSUME NEW r, NEW i \in 1 .. 9
    PROVE  /\ Evaluators[i] \in JointEvaluator /\ NoJoints(r) => Taken(r, i + 1) = Taken(r, i)
           /\ ~ (Evaluators[i] \in JointEvaluator /\ NoJoints(r)) =>
                  /\ Taken(r, i + 1) = Taken(r, i) + 1
                  /\ Taken(r, i) + 1 \in 1 .. Len(Pushing(r))
                  /\ Pushing(r)[Taken(r, i) + 1] = Evaluators[i]
                  /\ \A j \in 1 .. Taken(r, i) : Pushing(r)[j] # Evaluators[i]
<1>1. CASE NoJoints(r)
  BY <1>1 DEF Taken, Pushing, Evaluators, JointEvaluator
<1>2. CASE ~ NoJoints(r)
  <2>1. \A j \in 1 .. i : Taken(r, j) = j - 1 /\ Taken(r, i + 1) = i
    BY <1>2 DEF Taken
  <2>2. Pushing(r) = Evaluators
    BY <1>2 DEF Pushing
  <2> QED  BY <1>2, <2>1, <2>2, Orders
<1> QED  BY <1>1, <1>2

\* No type is taken before the first factory, and all are after the last.
LEMMA QueueEnds ==
    ASSUME NEW r
    PROVE  /\ Taken(r, 1) = 0 /\ Taken(r, 10) = Len(Pushing(r))
           /\ Len(Pushing(r)) \in Nat
           /\ \A i \in 1 .. 10 : Taken(r, i) \in 0 .. Len(Pushing(r))
           /\ \A i \in 1 .. Len(Pushing(r)) : Pushing(r)[i] \in Evaluator
<1>1. CASE NoJoints(r)
  <2>1. Pushing(r) = <<"ml", "rbf", "blendShapes", "animatedMaps", "psd">>
    BY <1>1 DEF Pushing
  <2>2. \A i \in 1 .. 5 : Pushing(r)[i] \in Evaluator
    BY <2>1 DEF Evaluator, Evaluators
  <2> QED  BY <1>1, <2>1, <2>2 DEF Taken
<1>2. CASE ~ NoJoints(r)
  <2>1. Pushing(r) = Evaluators /\ Len(Pushing(r)) = 9
    BY <1>2, Orders DEF Pushing
  <2>2. \A i \in 1 .. 10 : Taken(r, i) = i - 1
    BY <1>2 DEF Taken
  <2> QED  BY <2>1, <2>2, Orders
<1> QED  BY <1>1, <1>2

\* The queue depends on what the configuration loads and the metadata alone.
LEMMA SameQueue ==
    ASSUME NEW r, NEW q, r.config.load = q.config.load, r.meta = q.meta
    PROVE  /\ NoJoints(r) <=> NoJoints(q)
           /\ Pushing(r) = Pushing(q)
           /\ \A i : Taken(r, i) = Taken(q, i)
<1>1. NoJoints(r) <=> NoJoints(q)
  BY DEF NoJoints
<1> QED  BY <1>1 DEF Pushing, Taken

\* A factory of restore moves the type at the front to the back, or puts another there.
LEMMA Rotated ==
    ASSUME NEW S, NEW s \in Seq(S), Len(s) > 0, NEW x \in S
    PROVE  /\ Head(s) = s[1] /\ Head(s) \in S
           /\ Append(Tail(s), x) \in Seq(S) /\ Len(Append(Tail(s), x)) = Len(s)
           /\ \A i \in 1 .. Len(s) - 1 : Append(Tail(s), x)[i] = s[i + 1]
           /\ Append(Tail(s), x)[Len(s)] = x
<1>1. Tail(s) \in Seq(S) /\ Len(Tail(s)) = Len(s) - 1 /\ Len(s) \in Nat
  OBVIOUS
<1>2. \A i \in 1 .. Len(s) - 1 : Tail(s)[i] = s[i + 1]
  OBVIOUS
<1> QED  BY <1>1, <1>2
-----------------------------------------------------------------------------
(* Kernels and parts.                                                       *)

LEMMA KernelType ==
    ASSUME NEW p, NEW rt, NEW ml, NEW unit \in RotationUnits, NEW t \in BOOLEAN
    PROVE  Kernel(p, rt, ml, unit, t) \in Kernels
<1> DEFINE converts == \/ p = "bpcm" /\ rt = "Quaternions"
                       \/ p \in {"quaternion", "twistSwing"} /\ rt = "EulerAngles"
                       \/ p = "mlJoints" /\ rt # ml
           transforms == p = "mlJoints" /\ t
           u == IF converts \/ (transforms /\ rt = "EulerAngles") THEN unit ELSE "any"
<1>1. converts \in BOOLEAN /\ transforms \in BOOLEAN
  OBVIOUS
<1>2. u \in RotationUnits \cup {"any"}
  OBVIOUS
<1>3. Kernel(p, rt, ml, unit, t) = [converts |-> converts, transforms |-> transforms, unit |-> u]
  BY DEF Kernel
<1> HIDE DEF converts, transforms, u
<1> QED  BY <1>1, <1>2, <1>3 DEF Kernels

\* What the defaults of the builders determine is what was built, if it needs no
\* unit but degrees, no change of basis and no other rotation type.
LEMMA KernelDetermined ==
    ASSUME NEW p \in Evaluator, NEW rt \in RotationTypes, NEW k, Made(p, rt, k),
           p \in JointEvaluator => /\ k.unit \in {"any", "degrees"} /\ ~ k.transforms
                                   /\ ~ (p = "mlJoints" /\ k.converts)
    PROVE  k = DefaultKernel(p, rt)
<1>1. PICK ml \in RotationTypes, unit \in RotationUnits, t \in BOOLEAN :
          k = Kernel(p, rt, ml, unit, t)
  BY DEF Made
<1> DEFINE converts(m) == \/ p = "bpcm" /\ rt = "Quaternions"
                          \/ p \in {"quaternion", "twistSwing"} /\ rt = "EulerAngles"
                          \/ p = "mlJoints" /\ rt # m
           transforms(s) == p = "mlJoints" /\ s
           needs(m, s) == converts(m) \/ (transforms(s) /\ rt = "EulerAngles")
<1>2. \A m, u, s : Kernel(p, rt, m, u, s) =
          [converts |-> converts(m), transforms |-> transforms(s),
           unit |-> IF needs(m, s) THEN u ELSE "any"]
  BY DEF Kernel
<1>3. p \notin JointEvaluator => \A m, s : ~ needs(m, s) /\ ~ converts(m) /\ ~ transforms(s)
  BY DEF JointEvaluator
<1>4. CASE p \notin JointEvaluator
  <2>1. Kernel(p, rt, ml, unit, t) = [converts |-> FALSE, transforms |-> FALSE, unit |-> "any"]
    BY <1>2, <1>3, <1>4
  <2>2. Kernel(p, rt, rt, "degrees", FALSE) = [converts |-> FALSE, transforms |-> FALSE, unit |-> "any"]
    BY <1>2, <1>3, <1>4
  <2> QED  BY <1>1, <2>1, <2>2 DEF DefaultKernel
<1>5. CASE p \in JointEvaluator
  <2> DEFINE c == converts(ml)
             x == transforms(t)
             u == IF needs(ml, t) THEN unit ELSE "any"
             dc == converts(rt)
             dx == transforms(FALSE)
             du == IF needs(rt, FALSE) THEN "degrees" ELSE "any"
  <2>1. /\ c \in BOOLEAN /\ x \in BOOLEAN /\ dc \in BOOLEAN /\ dx \in BOOLEAN
    OBVIOUS
  <2>2. k = [converts |-> c, transforms |-> x, unit |-> u]
    BY <1>1, <1>2
  <2>3. DefaultKernel(p, rt) = [converts |-> dc, transforms |-> dx, unit |-> du]
    BY <1>2 DEF DefaultKernel
  <2>4. k.unit = u /\ (k.transforms <=> x) /\ (k.converts <=> c)
    <3> HIDE DEF c, x, u
    <3>1. k.unit = u /\ k.transforms = x /\ k.converts = c
      BY <2>2
    <3> QED  BY <3>1
  <2>5. u \in {"any", "degrees"} /\ ~ x /\ ~ (p = "mlJoints" /\ c)
    BY <1>5, <2>4
  <2>6. dx <=> x
    BY <2>5
  <2>7. dc <=> c
    BY <2>5
  <2>8. needs(ml, t) <=> needs(rt, FALSE)
    BY <2>6, <2>7
  <2>9. needs(ml, t) => unit = "degrees"
    BY <2>5 DEF RotationUnits
  <2>10. du = u
    BY <2>8, <2>9
  <2> HIDE DEF c, x, u, dc, dx, du
  <2>11. dc = c /\ dx = x
    BY <2>1, <2>6, <2>7
  <2> QED  BY <2>2, <2>3, <2>10, <2>11
<1> QED  BY <1>4, <1>5

\* A Null evaluator is an empty part, and a concrete one has a kernel and data.
LEMMA PartType ==
    /\ Null \in Parts /\ Null.type = "Null" /\ Null.data = "empty"
    /\ \A kernel \in Kernels, data \in Contents :
           /\ Concrete(kernel, data) \in Parts
           /\ Concrete(kernel, data).type = "Concrete"
           /\ Concrete(kernel, data).kernel = kernel
           /\ Concrete(kernel, data).data = data
    /\ NoKernel \in Kernels
<1>1. NoKernel \in Kernels
  BY DEF NoKernel, Kernels
<1>2. "empty" \in Contents /\ Types = {"Null", "Concrete"}
  BY DEF Contents, Types
<1> QED  BY <1>1, <1>2 DEF Null, Concrete, Parts

\* A rig of the initial parts, which are no evaluators or Null ones
LEMMA UnbuiltKnown ==
    ASSUME NEW c \in Settings, NEW d \in Dnas, NEW types \in Seq(Types)
    PROVE  LET r == [config |-> c, meta |-> Meta(d), evaluators |-> types, part |-> Unbuilt]
           IN  RigKnown(r)
<1> DEFINE r == [config |-> c, meta |-> Meta(d), evaluators |-> types, part |-> Unbuilt]
<1>1. "empty" \in Contents
  BY DEF Contents
<1>2. Unbuilt \in [Part -> Parts]
  BY <1>1, PartType DEF Unbuilt
<1>3. r \in Rigs
  BY <1>2 DEF Rigs
<1>4. r.part = Unbuilt
  OBVIOUS
<1>5. \A p \in Part : p \in Evaluator => Unbuilt[p] = Null
  BY DEF Unbuilt
<1>6. \A p \in Part : p \notin Evaluator => Unbuilt[p].type = "Concrete" /\ Unbuilt[p].kernel = NoKernel
  BY <1>1, PartType DEF Unbuilt
<1>7. \A p \in Part : PartKnown(r, p)
  BY <1>4, <1>5, <1>6 DEF PartKnown
<1>8. \A p \in JointEvaluator : r.part[p] = Null
  BY <1>4, <1>5, Orders
<1> HIDE DEF r
<1>9. RigKnown(r)
  BY <1>3, <1>7, <1>8 DEF RigKnown
<1> QED  BY <1>9 DEF r

\* What a factory makes
LEMMA MadeKnown ==
    ASSUME NEW p \in Evaluator, NEW r \in Rigs, NEW k, Made(p, r.config.rotationType, k),
           NEW data \in Contents
    PROVE  /\ k \in Kernels /\ Concrete(k, data) \in Parts
           /\ Concrete(k, data).type = "Concrete" /\ Concrete(k, data).kernel = k
  BY KernelType, PartType DEF Made

\* The type of a rig with another part
LEMMA RigType ==
    ASSUME NEW r \in Rigs, NEW types \in Seq(Types), NEW p \in Part, NEW e \in Parts
    PROVE  LET q == [config |-> r.config, meta |-> r.meta, evaluators |-> types,
                     part |-> [r.part EXCEPT ![p] = e]]
           IN  /\ q \in Rigs /\ q.part[p] = e
               /\ \A o \in Part : o # p => q.part[o] = r.part[o]
<1> DEFINE f == [r.part EXCEPT ![p] = e]
<1>1. r.part \in [Part -> Parts]
  BY DEF Rigs
<1>2. f \in [Part -> Parts] /\ f[p] = e /\ \A o \in Part : o # p => f[o] = r.part[o]
  BY <1>1
<1> HIDE DEF f
<1> DEFINE q == [config |-> r.config, meta |-> r.meta, evaluators |-> types, part |-> f]
<1>3. q \in Rigs /\ q.part = f
  BY <1>2 DEF Rigs
<1>4. q.part[p] = e /\ \A o \in Part : o # p => q.part[o] = r.part[o]
  BY <1>2, <1>3
<1> QED  BY <1>3, <1>4 DEF f

\* A factory puts an evaluator in its place, and a type in the queue.
LEMMA Factory ==
    ASSUME NEW r, RigKnown(r), NEW p \in Evaluator, ~ (p \in JointEvaluator /\ NoJoints(r)),
           NEW q \in Rigs, q.config = r.config, q.meta = r.meta,
           \/ q.part[p] = Null
           \/ q.part[p].type = "Concrete" /\ Made(p, r.config.rotationType, q.part[p].kernel),
           \A o \in Part : o # p => q.part[o] = r.part[o]
    PROVE  RigKnown(q)
<1>1. \A o \in Part : PartKnown(q, o)
  <2> TAKE o \in Part
  <2>1. CASE o = p
    BY <2>1 DEF PartKnown
  <2>2. CASE o # p
    <3>1. PartKnown(r, o)
      BY DEF RigKnown
    <3> QED  BY <3>1, <2>2 DEF PartKnown
  <2> QED  BY <2>1, <2>2
<1>2. NoJoints(q) <=> NoJoints(r)
  BY DEF NoJoints
<1>3. NoJoints(q) => \A o \in JointEvaluator : q.part[o] = Null
  BY <1>2, Orders DEF RigKnown
<1> QED  BY <1>1, <1>3 DEF RigKnown

\* A part that is saved reads other data, and stays what it is.
LEMMA PartLoads ==
    ASSUME NEW r, RigKnown(r), NEW p \in Part, Saves(r, p),
           NEW q \in Rigs, q.config = r.config, q.meta = r.meta,
           \A o \in Part : q.part[o].type = r.part[o].type /\ q.part[o].kernel = r.part[o].kernel,
           \A o \in Part : o # p => q.part[o] = r.part[o]
    PROVE  RigKnown(q)
<1>1. \A o \in Part : PartKnown(q, o)
  <2> TAKE o \in Part
  <2>1. PartKnown(r, o)
    BY DEF RigKnown
  <2>2. CASE o # p
    BY <2>1, <2>2 DEF PartKnown
  <2>3. CASE o = p /\ o \in Evaluator
    <3>1. r.part[o].type = "Concrete"
      BY <2>3 DEF Saves
    <3>2. r.part[o] # Null
      BY <3>1, PartType
    <3> QED  BY <2>1, <2>3, <3>1, <3>2 DEF PartKnown
  <2>4. CASE o = p /\ o \notin Evaluator
    BY <2>1, <2>4 DEF PartKnown
  <2> QED  BY <2>2, <2>3, <2>4
<1>2. NoJoints(q) <=> NoJoints(r)
  BY DEF NoJoints
<1>3. NoJoints(q) => \A o \in JointEvaluator : q.part[o] = Null
  <2> SUFFICES ASSUME NoJoints(q), NEW o \in JointEvaluator
               PROVE  q.part[o] = Null
    OBVIOUS
  <2>1. r.part[o] = Null
    BY <1>2 DEF RigKnown
  <2>2. o # p
    BY <2>1, PartType, Orders DEF Saves
  <2> QED  BY <2>1, <2>2, Orders
<1> QED  BY <1>1, <1>3 DEF RigKnown

-----------------------------------------------------------------------------
(* The steps.                                                               *)

LEMMA Initially == Init => SnapshotsInv
<1> SUFFICES ASSUME Init PROVE SnapshotsInv
  OBVIOUS
<1>1. PICK c \in Configs : rig = [config |-> c, meta |-> Meta(dna), evaluators |-> <<>>, part |-> Unbuilt]
  BY DEF Init
<1>2. RigKnown(rig)
  <2>1. c \in Settings /\ dna \in Dnas /\ <<>> \in Seq(Types)
    BY ConfigsAssumption DEF Init, Settings
  <2> QED  BY <1>1, <2>1, UnbuiltKnown
<1>3. Len(rig.evaluators) = Taken(rig, pc) /\ QueueHolds(rig, Taken(rig, pc))
  <2>1. rig.evaluators = <<>> /\ pc = 1
    BY <1>1 DEF Init
  <2> QED  BY <2>1, QueueEnds DEF QueueHolds
<1>4. StateKnown
  BY Orders DEF Init, StateKnown
<1>5. RigInv
  BY <1>2, <1>3 DEF RigInv, Init
<1>6. SnapshotInv
  BY DEF SnapshotInv, Init
<1>7. RestoredInv
  BY DEF RestoredInv, Init
<1> QED  BY <1>4, <1>5, <1>6, <1>7 DEF SnapshotsInv

\* Only dump writes.
LEMMA SnapshotsKept ==
    ASSUME SnapshotInv, UNCHANGED <<dumped, archive>>,
           \A k \in 1 .. Len(dumped) : Extent(k)' = Extent(k)
    PROVE  SnapshotInv'
<1>1. \A k \in 1 .. Len(dumped) : SavedUpTo(k, Extent(k)) <=> SavedUpTo(k, Extent(k))'
  BY DEF SavedUpTo
<1> QED  BY <1>1 DEF SnapshotInv

\* A dumped rig is of the right types, and lies in the archive once its dump returned.
LEMMA SnapshotKnown ==
    ASSUME StateKnown, SnapshotInv, NEW k \in 1 .. Len(dumped)
    PROVE  /\ dumped[k] \in [rig : Rigs, at : Seq(Nat \ {0})]
           /\ RigKnown(dumped[k].rig) /\ QueueKnown(dumped[k].rig)
           /\ call # "dump" => /\ SavedUpTo(k, 15) /\ Len(dumped[k].at) = 15
                               /\ \A i \in 1 .. 15 : dumped[k].at[i] \in Nat \ {0}
<1> DEFINE S == [rig : Rigs, at : Seq(Nat \ {0})]
<1>1. dumped \in Seq(S)
  BY DEF StateKnown
<1> HIDE DEF S
<1>2. dumped[k] \in S
  BY <1>1
<1>3. dumped[k].at \in Seq(Nat \ {0})
  BY <1>2 DEF S
<1>4. RigKnown(dumped[k].rig) /\ QueueKnown(dumped[k].rig) /\ SavedUpTo(k, Extent(k))
  BY DEF SnapshotInv
<1>5. CASE call = "dump"
  BY <1>2, <1>4, <1>5 DEF S
<1>6. CASE call # "dump"
  <2>1. Extent(k) = 15
    <3>1. Len(SaveOrder) = 14
      BY Orders
    <3> QED  BY <1>6, <3>1 DEF Extent
  <2>2. SavedUpTo(k, 15) /\ Len(dumped[k].at) = 15
    BY <1>4, <2>1 DEF SavedUpTo
  <2>3. \A i \in 1 .. 15 : dumped[k].at[i] \in Nat \ {0}
    BY SMTT(20), <1>3, <2>2
  <2> QED  BY <1>2, <1>4, <2>2, <2>3 DEF S
<1> QED  BY <1>5, <1>6

\* What the build and the snapshot decide, and the parts that are not made or read
LEMMA OriginKept ==
    ASSUME UNCHANGED <<dumped, source, build>>
    PROVE  Origin' = Origin /\ (BuildSuffices' <=> BuildSuffices)
<1>1. Origin' = Origin
  BY DEF Origin
<1> QED  BY <1>1 DEF BuildSuffices, Supported

\* What is made or loaded stays so while the rig and its origin stay.
LEMMA PartsKept ==
    ASSUME UNCHANGED <<dumped, source, rig>>
    PROVE  /\ \A p \in Evaluator : Remade(p)' <=> Remade(p)
           /\ \A p \in Part : Loaded(p)' <=> Loaded(p)
  BY DEF Remade, Loaded, Origin

\* An evaluator is made as its kernel needs, if the build can.
LEMMA MakeKnown ==
    ASSUME NEW p \in Evaluator, rig \in Rigs, NEW k, Made(p, rig.config.rotationType, k),
           NEW data \in Contents
    PROVE  /\ Make(k, data) \in Parts
           /\ \/ Make(k, data) = Null
              \/ /\ Make(k, data).type = "Concrete"
                 /\ Made(p, rig.config.rotationType, Make(k, data).kernel)
<1>1. Make(k, data) = Null \/ Make(k, data) = Concrete(k, data)
  BY DEF Make
<1>2. CASE Make(k, data) = Null
  BY <1>2, PartType
<1>3. CASE Make(k, data) = Concrete(k, data)
  BY <1>3, MadeKnown
<1> QED  BY <1>1, <1>2, <1>3

\* Steps of create
LEMMA CreateEvaluatorKeeps == SnapshotsInv /\ CreateEvaluator => SnapshotsInv'
<1> SUFFICES ASSUME SnapshotsInv, CreateEvaluator PROVE SnapshotsInv'
  OBVIOUS
<1>1. /\ call = "create" /\ call' = "create" /\ pc \in 1 .. 9 /\ pc' = pc + 1
      /\ UNCHANGED <<dna, build, archive, position, dumped, source, aligned>>
  <2>1. pc \in Nat \ {0} /\ pc <= 9
    BY Orders DEF SnapshotsInv, StateKnown, CreateEvaluator
  <2> QED  BY <2>1 DEF CreateEvaluator
<1>2. StateKnown'
  <2>1. pc' \in Nat \ {0} /\ pc' <= Len(Evaluators) + 1
    BY <1>1, Orders
  <2>2. StateKnown
    BY DEF SnapshotsInv
  <2> QED  BY <1>1, <2>1, <2>2 DEF StateKnown
<1>3. SnapshotInv'
  BY <1>1, SnapshotsKept DEF SnapshotsInv, Extent
<1>4. RestoredInv'
  BY <1>1 DEF SnapshotsInv, StateKnown, RestoredInv
<1>5. RigKnown(rig) /\ Len(rig.evaluators) = Taken(rig, pc) /\ QueueHolds(rig, Taken(rig, pc))
  BY <1>1 DEF SnapshotsInv, RigInv
<1> DEFINE p == Evaluators[pc]
           e == IF Wanted(p) THEN Make(CreateKernel(p), "built") ELSE Null
<1>6. p \in Evaluator
  BY <1>1, Orders
<1>7. CASE p \in JointEvaluator /\ NoJoints(rig)
  <2>1. rig' = rig
    BY <1>7 DEF CreateEvaluator
  <2>2. Taken(rig, pc + 1) = Taken(rig, pc)
    BY <1>1, <1>7, Queue
  <2>3. RigInv'
    BY <1>1, <1>5, <2>1, <2>2 DEF RigInv, QueueHolds
  <2> QED  BY <1>2, <1>3, <1>4, <2>3 DEF SnapshotsInv
<1>8. CASE ~ (p \in JointEvaluator /\ NoJoints(rig))
  <2>1. rig' = [rig EXCEPT !.evaluators = Append(rig.evaluators, e.type), !.part[p] = e]
    BY <1>8 DEF CreateEvaluator
  <2>2. e \in Parts /\ (e = Null \/ (e.type = "Concrete" /\ Made(p, rig.config.rotationType, e.kernel)))
    <3>1. rig \in Rigs /\ "built" \in Contents /\ dna \in Dnas
      BY <1>5 DEF RigKnown, Contents, SnapshotsInv, StateKnown
    <3>2. Made(p, rig.config.rotationType, CreateKernel(p))
      BY <3>1, DnasAssumption DEF Made, CreateKernel
    <3>3. CASE Wanted(p)
      <4>1. e = Make(CreateKernel(p), "built")
        BY <3>3
      <4> QED  BY <1>6, <3>1, <3>2, <4>1, MakeKnown
    <3>4. CASE ~ Wanted(p)
      BY <3>4, PartType
    <3> QED  BY <3>3, <3>4
  <2> HIDE DEF e
  <2>3. e.type \in Types /\ rig.evaluators \in Seq(Types)
    BY <1>5, <2>2 DEF Parts, RigKnown, Rigs
  <2> DEFINE types == Append(rig.evaluators, e.type)
             n == Taken(rig, pc)
  <2>4. /\ types \in Seq(Types) /\ Len(types) = n + 1 /\ types[n + 1] = e.type
        /\ \A i \in 1 .. n : types[i] = rig.evaluators[i]
    BY <1>5, <2>3
  <2> HIDE DEF types
  <2>5. /\ rig' \in Rigs /\ rig'.config = rig.config /\ rig'.meta = rig.meta
        /\ rig'.evaluators = types /\ rig'.part[p] = e
        /\ \A o \in Part : o # p => rig'.part[o] = rig.part[o]
    <3>1. rig \in Rigs /\ p \in Part
      BY <1>5, <1>6, Orders DEF RigKnown
    <3>2. rig' = [config |-> rig.config, meta |-> rig.meta, evaluators |-> types,
                  part |-> [rig.part EXCEPT ![p] = e]]
      BY <3>1, <2>1 DEF types, Rigs
    <3> HIDE DEF p
    <3>3. /\ rig' \in Rigs /\ rig'.part[p] = e
          /\ \A o \in Part : o # p => rig'.part[o] = rig.part[o]
      BY <3>1, <3>2, <2>2, <2>4, RigType
    <3> QED  BY <3>2, <3>3
  <2>6. RigKnown(rig')
    <3> HIDE DEF p
    <3> QED  BY <1>5, <1>6, <1>8, <2>2, <2>5, Factory
  <2>7. Pushing(rig') = Pushing(rig) /\ Taken(rig', pc + 1) = Taken(rig, pc + 1)
    BY <2>5, SameQueue
  <2>8. /\ Taken(rig, pc + 1) = n + 1
        /\ n + 1 \in 1 .. Len(Pushing(rig)) /\ Pushing(rig)[n + 1] = p
        /\ \A j \in 1 .. n : Pushing(rig)[j] # p
    BY <1>1, <1>8, Queue
  <2>9. n \in 0 .. Len(Pushing(rig)) /\ \A i \in 1 .. Len(Pushing(rig)) : Pushing(rig)[i] \in Evaluator
    <3>1. pc \in 1 .. 10
      BY <1>1
    <3> QED  BY <3>1, QueueEnds
  <2>10. ASSUME NEW i \in 1 .. n + 1
         PROVE  rig'.evaluators[i] = rig'.part[Pushing(rig')[i]].type
    <3>1. CASE i = n + 1
      BY <3>1, <2>4, <2>5, <2>7, <2>8
    <3>2. CASE i # n + 1
      <4>1. i \in 1 .. n /\ i \in 1 .. Len(Pushing(rig))
        <5>1. n \in Nat /\ Len(Pushing(rig)) \in Nat /\ n <= Len(Pushing(rig))
          BY <2>9, QueueEnds
        <5> HIDE DEF n
        <5> QED  BY <3>2, <5>1
      <4>2. Pushing(rig)[i] \in Part /\ Pushing(rig)[i] # p
        BY <4>1, <2>8, <2>9, Orders
      <4>3. rig.evaluators[i] = rig.part[Pushing(rig)[i]].type
        BY <4>1, <1>5 DEF QueueHolds
      <4> QED  BY <4>1, <4>2, <4>3, <2>4, <2>5, <2>7
    <3> QED  BY <3>1, <3>2
  <2>11. RigInv'
    <3>1. Len(rig'.evaluators) = Taken(rig', pc') /\ QueueHolds(rig', Taken(rig', pc'))
      BY <1>1, <2>4, <2>5, <2>7, <2>8, <2>10 DEF QueueHolds
    <3> QED  BY <1>1, <2>6, <3>1 DEF RigInv
  <2> QED  BY <1>2, <1>3, <1>4, <2>11 DEF SnapshotsInv
<1> QED  BY <1>7, <1>8

LEMMA CreateReturnsKeeps == SnapshotsInv /\ CreateReturns => SnapshotsInv'
<1> SUFFICES ASSUME SnapshotsInv, CreateReturns PROVE SnapshotsInv'
  OBVIOUS
<1>1. /\ call = "create" /\ call' = "none" /\ pc = 10 /\ pc' = 1
      /\ UNCHANGED <<dna, build, archive, position, dumped, source, aligned>>
  BY Orders DEF CreateReturns
<1>2. StateKnown'
  BY <1>1 DEF SnapshotsInv, StateKnown
<1>3. SnapshotInv'
  BY <1>1, SnapshotsKept DEF SnapshotsInv, Extent
<1>4. RestoredInv'
  BY <1>1 DEF SnapshotsInv, StateKnown, RestoredInv
<1>5. RigKnown(rig) /\ Len(rig.evaluators) = Taken(rig, pc) /\ QueueHolds(rig, Taken(rig, pc))
  BY <1>1 DEF SnapshotsInv, RigInv
<1>6. rig \in Rigs /\ rig.part \in [Part -> Parts]
  BY <1>5 DEF RigKnown, Rigs
<1> DEFINE f == [p \in Part |->
                   IF p \in Evaluator THEN rig.part[p]
                   ELSE IF \/ p = "meshRegions" /\ rig.part["ml"].type = "Null"
                           \/ p = "joints" /\ NoJoints(rig)
                        THEN rig.part[p] ELSE Concrete(NoKernel, "built")]
<1>7. rig' = [config |-> rig.config, meta |-> rig.meta, evaluators |-> rig.evaluators, part |-> f]
  BY <1>6 DEF CreateReturns, Rigs
<1>8. /\ f \in [Part -> Parts]
      /\ \A p \in Evaluator : f[p] = rig.part[p]
      /\ \A p \in Part : p \notin Evaluator => f[p].type = "Concrete" /\ f[p].kernel = NoKernel
  <2>1. /\ Concrete(NoKernel, "built") \in Parts /\ Concrete(NoKernel, "built").type = "Concrete"
        /\ Concrete(NoKernel, "built").kernel = NoKernel
    BY PartType DEF Contents
  <2>2. \A p \in Part : p \notin Evaluator => rig.part[p].type = "Concrete" /\ rig.part[p].kernel = NoKernel
    BY <1>5 DEF RigKnown, PartKnown
  <2> QED  BY <1>6, <2>1, <2>2, Orders
<1> HIDE DEF f
<1>9. /\ rig' \in Rigs /\ rig'.config = rig.config /\ rig'.meta = rig.meta
      /\ rig'.evaluators = rig.evaluators /\ rig'.part = f
  BY <1>6, <1>7, <1>8 DEF Rigs
<1>10. RigKnown(rig')
  <2>1. \A p \in Part : PartKnown(rig', p)
    <3> TAKE p \in Part
    <3>1. PartKnown(rig, p)
      BY <1>5 DEF RigKnown
    <3> QED  BY <3>1, <1>8, <1>9 DEF PartKnown
  <2>2. NoJoints(rig') <=> NoJoints(rig)
    BY <1>9, SameQueue
  <2>3. NoJoints(rig') => \A p \in JointEvaluator : rig'.part[p] = Null
    BY <2>2, <1>5, <1>8, <1>9, Orders DEF RigKnown
  <2> QED  BY <1>9, <2>1, <2>3 DEF RigKnown
<1>11. QueueKnown(rig')
  <2>1. Pushing(rig') = Pushing(rig) /\ Taken(rig, pc) = Len(Pushing(rig))
    BY <1>1, <1>9, SameQueue, QueueEnds
  <2>2. \A i \in 1 .. Len(Pushing(rig)) : f[Pushing(rig)[i]] = rig.part[Pushing(rig)[i]]
    BY <1>8, QueueEnds
  <2> QED  BY <1>5, <1>9, <2>1, <2>2 DEF QueueKnown, QueueHolds
<1>12. RigInv'
  BY <1>1, <1>10, <1>11 DEF RigInv
<1> QED  BY <1>2, <1>3, <1>4, <1>12 DEF SnapshotsInv

\* The last step of dump, and a seek between calls
LEMMA DumpReturnsKeeps == SnapshotsInv /\ DumpReturns => SnapshotsInv'
<1> SUFFICES ASSUME SnapshotsInv, DumpReturns PROVE SnapshotsInv'
  OBVIOUS
<1>1. /\ call = "dump" /\ call' = "none" /\ pc = 15 /\ pc' = 1
      /\ UNCHANGED <<rig, dna, build, archive, position, dumped, source, aligned>>
  BY Orders DEF DumpReturns
<1>2. StateKnown'
  BY <1>1 DEF SnapshotsInv, StateKnown
<1>3. RigInv'
  BY <1>1 DEF SnapshotsInv, RigInv
<1>4. SnapshotInv'
  BY <1>1, SnapshotsKept, Orders DEF SnapshotsInv, Extent
<1>5. RestoredInv'
  BY <1>1, OriginKept, PartsKept DEF SnapshotsInv, RestoredInv
<1> QED  BY <1>2, <1>3, <1>4, <1>5 DEF SnapshotsInv

LEMMA SeekKeeps == SnapshotsInv /\ Seek => SnapshotsInv'
<1> SUFFICES ASSUME SnapshotsInv, Seek PROVE SnapshotsInv'
  OBVIOUS
<1>1. /\ call = "none" /\ UNCHANGED <<rig, dna, build, call, pc, archive, dumped, source, aligned>>
  BY DEF Seek
<1>2. position' \in Nat \ {0}
  <2>1. Len(archive) + 1 \in Nat \ {0}
    BY DEF SnapshotsInv, StateKnown
  <2>2. \A k \in 1 .. Len(dumped) : dumped[k].at[1] \in Nat \ {0}
    <3> TAKE k \in 1 .. Len(dumped)
    <3>1. \A i \in 1 .. 15 : dumped[k].at[i] \in Nat \ {0}
      BY <1>1, SnapshotKnown DEF SnapshotsInv
    <3> QED  BY <3>1
  <2> QED  BY <2>1, <2>2 DEF Seek
<1>3. StateKnown'
  BY <1>1, <1>2 DEF SnapshotsInv, StateKnown
<1>4. RigInv'
  BY <1>1 DEF SnapshotsInv, RigInv
<1>5. SnapshotInv'
  BY <1>1, SnapshotsKept DEF SnapshotsInv, Extent
<1>6. RestoredInv'
  BY <1>1, OriginKept, PartsKept DEF SnapshotsInv, RestoredInv
<1> QED  BY <1>3, <1>4, <1>5, <1>6 DEF SnapshotsInv

\* Steps of restore outside the factories
LEMMA BeginLoadKeeps == SnapshotsInv /\ BeginLoad => SnapshotsInv'
<1> SUFFICES ASSUME SnapshotsInv, BeginLoad PROVE SnapshotsInv'
  OBVIOUS
<1>1. /\ call = "restore" /\ call' = "load" /\ pc = 10 /\ pc' = 1
      /\ UNCHANGED <<rig, dna, build, archive, position, dumped, source, aligned>>
  BY Orders DEF BeginLoad
<1>2. StateKnown'
  BY <1>1 DEF SnapshotsInv, StateKnown
<1>3. RigInv'
  <2> DEFINE n == Len(Pushing(rig))
  <2>1. Taken(rig, pc) = n /\ n \in Nat
    BY <1>1, QueueEnds
  <2>2. /\ Len(rig.evaluators) = n
        /\ \A i \in 1 .. n : rig.evaluators[n - n + i] = rig.part[Pushing(rig)[i]].type
    BY <1>1, <2>1 DEF SnapshotsInv, RigInv
  <2>3. \A i \in 1 .. n : n - n + i = i
    BY <2>1
  <2>4. QueueKnown(rig)
    BY <2>2, <2>3 DEF QueueKnown, QueueHolds
  <2> QED  BY <1>1, <2>4 DEF SnapshotsInv, RigInv
<1>4. SnapshotInv'
  BY <1>1, SnapshotsKept DEF SnapshotsInv, Extent
<1>5. RestoredInv'
  <2>1. BuildSuffices => \A p \in Evaluator : Remade(p)
    <3>1. source # 0
      BY <1>1 DEF SnapshotsInv, StateKnown
    <3>2. BuildSuffices => \A i \in 1 .. pc - 1 : Remade(Evaluators[i])
      BY <1>1, <3>1 DEF SnapshotsInv, RestoredInv
    <3>3. pc - 1 = 9
      BY <1>1
    <3> QED  BY <3>2, <3>3, Orders
  <2> QED  BY <1>1, <2>1, OriginKept, PartsKept DEF SnapshotsInv, RestoredInv
<1> QED  BY <1>2, <1>3, <1>4, <1>5 DEF SnapshotsInv

LEMMA RestoreReturnsKeeps == SnapshotsInv /\ RestoreReturns => SnapshotsInv'
<1> SUFFICES ASSUME SnapshotsInv, RestoreReturns PROVE SnapshotsInv'
  OBVIOUS
<1>1. /\ call = "load" /\ call' = "none" /\ pc = 13 /\ pc' = 1
      /\ UNCHANGED <<rig, dna, build, archive, position, dumped, source, aligned>>
  BY Orders DEF RestoreReturns
<1>2. StateKnown'
  BY <1>1 DEF SnapshotsInv, StateKnown
<1>3. RigInv'
  BY <1>1 DEF SnapshotsInv, RigInv
<1>4. SnapshotInv'
  BY <1>1, SnapshotsKept DEF SnapshotsInv, Extent
<1>5. RestoredInv'
  <2>1. source # 0 /\ BuildSuffices => \A p \in Part : Loaded(p)
    BY <1>1, Orders DEF SnapshotsInv, RestoredInv
  <2> QED  BY <1>1, <2>1, OriginKept, PartsKept DEF SnapshotsInv, RestoredInv
<1> QED  BY <1>2, <1>3, <1>4, <1>5 DEF SnapshotsInv

LEMMA RestoreKeeps == ASSUME SnapshotsInv, NEW b \in Builds, Restore(b) PROVE SnapshotsInv'
<1>1. /\ call = "none" /\ call' = "restore" /\ pc' = 1 /\ aligned' = TRUE
      /\ build' = b /\ position' = position + 2
      /\ UNCHANGED <<dna, archive, dumped>>
  BY DEF Restore
<1>2. PICK k \in 1 .. Len(dumped) :
          /\ dumped[k].at[1] = position /\ source' = k
          /\ rig' = [config |-> Restored(dumped[k].rig.config), meta |-> dumped[k].rig.meta,
                     evaluators |-> dumped[k].rig.evaluators, part |-> Unbuilt]
  BY DEF Restore
<1> DEFINE r == dumped[k].rig
           c == Restored(r.config)
<1>3. RigKnown(r) /\ QueueKnown(r) /\ r \in Rigs
  BY SnapshotKnown DEF SnapshotsInv, RigKnown
<1>4. c \in Settings /\ c.load = r.config.load
  <2>1. r.config \in Settings
    BY <1>3 DEF Rigs
  <2> QED  BY <2>1 DEF Restored, Settings, FloatingPointTypes
<1>5. StateKnown'
  <2>1. position + 2 \in Nat \ {0}
    BY DEF SnapshotsInv, StateKnown
  <2>2. Len(dumped) \in Nat
    BY DEF SnapshotsInv, StateKnown
  <2>3. k \in 0 .. Len(dumped) /\ k # 0
    BY <2>2
  <2> QED  BY <1>1, <1>2, <2>1, <2>3, Orders DEF SnapshotsInv, StateKnown
<1> HIDE DEF c
<1>6. /\ rig' = [config |-> c, meta |-> r.meta, evaluators |-> r.evaluators, part |-> Unbuilt]
      /\ Origin' = r
  BY <1>1, <1>2 DEF c, Origin
<1>7. RigKnown(rig')
  <2>1. PICK d \in Dnas : r.meta = Meta(d)
    BY <1>3 DEF Rigs
  <2>2. r.evaluators \in Seq(Types)
    BY <1>3 DEF Rigs
  <2> QED  BY <1>4, <1>6, <2>1, <2>2, UnbuiltKnown
<1>8. /\ rig'.config = c /\ rig'.meta = r.meta /\ rig'.evaluators = r.evaluators
  BY <1>6
<1>9. /\ Pushing(rig') = Pushing(r) /\ Taken(rig', 1) = 0
      /\ Len(rig'.evaluators) = Len(Pushing(rig')) /\ Len(Pushing(rig')) \in Nat
  BY <1>3, <1>4, <1>8, SameQueue, QueueEnds DEF QueueKnown
<1>10. RigInv'
  <2> DEFINE n == Len(Pushing(rig'))
  <2>1. \A i \in 1 .. n - 0 : rig'.evaluators[i] = Origin'.evaluators[0 + i]
    BY <1>6, <1>8, <1>9
  <2>2. \A i \in 1 .. 0 : rig'.evaluators[n - 0 + i] = rig'.part[Pushing(rig')[i]].type
    OBVIOUS
  <2> QED  BY <1>1, <1>7, <1>9, <2>1, <2>2 DEF RigInv
<1>11. SnapshotInv'
  BY <1>1, SnapshotsKept DEF SnapshotsInv, Extent
<1>12. RestoredInv'
  <2>1. dumped[k].at[3] = position + 2
    <3>1. /\ SavedUpTo(k, 15) /\ \A i \in 1 .. 15 : dumped[k].at[i] \in Nat \ {0}
      BY <1>1, SnapshotKnown DEF SnapshotsInv
    <3>2. Saves(r, SaveOrder[1]) /\ Saves(r, SaveOrder[2])
      BY Orders DEF Saves
    <3>3. 1 \in 1 .. 15 - 1 /\ 2 \in 1 .. 15 - 1
      OBVIOUS
    <3>4. dumped[k].at[1 + 1] = dumped[k].at[1] + 1 /\ dumped[k].at[2 + 1] = dumped[k].at[2] + 1
      BY <3>1, <3>2, <3>3 DEF SavedUpTo
    <3>5. dumped[k].at[2] = position + 1 /\ dumped[k].at[3] = dumped[k].at[2] + 1
      BY <1>2, <3>4
    <3>6. position \in Nat
      BY DEF SnapshotsInv, StateKnown
    <3> HIDE DEF r
    <3> QED  BY <3>5, <3>6
  <2> QED  BY <1>1, <1>2, <1>6, <1>8, <2>1 DEF RestoredInv, c
<1> QED  BY <1>5, <1>10, <1>11, <1>12 DEF SnapshotsInv

\* A factory of restore
LEMMA RestoreEvaluatorKeeps == SnapshotsInv /\ RestoreEvaluator => SnapshotsInv'
<1> SUFFICES ASSUME SnapshotsInv, RestoreEvaluator PROVE SnapshotsInv'
  OBVIOUS
<1> DEFINE p == Evaluators[pc]
           e == IF Head(rig.evaluators) = "Null" THEN Null ELSE Make(RestoreKernel(p), "empty")
           n == Len(Pushing(rig))
           t == Taken(rig, pc)
           r == dumped[source].rig
<1>1. /\ call = "restore" /\ call' = "restore" /\ pc \in 1 .. 9 /\ pc' = pc + 1
      /\ UNCHANGED <<dna, build, archive, position, dumped, source, aligned>>
  <2>1. pc \in Nat \ {0} /\ pc <= 9
    BY Orders DEF SnapshotsInv, StateKnown, RestoreEvaluator
  <2> QED  BY <2>1 DEF RestoreEvaluator
<1>2. StateKnown'
  <2>1. pc' \in Nat \ {0} /\ pc' <= Len(Evaluators) + 1
    BY <1>1, Orders
  <2> QED  BY <1>1, <2>1 DEF SnapshotsInv, StateKnown
<1>3. SnapshotInv'
  BY <1>1, SnapshotsKept DEF SnapshotsInv, Extent
<1>4. /\ p \in Evaluator /\ p \in Part
      /\ \A i \in 1 .. pc - 1 : Evaluators[i] \in Evaluator /\ Evaluators[i] # p
  BY <1>1, Orders
<1>5. source \in 1 .. Len(dumped) /\ source # 0
  BY <1>1 DEF SnapshotsInv, StateKnown
<1>6. RigKnown(r) /\ QueueKnown(r) /\ r \in Rigs
  BY <1>5, SnapshotKnown DEF SnapshotsInv, RigKnown
<1>7. /\ RigKnown(rig) /\ rig \in Rigs /\ rig.evaluators \in Seq(Types)
      /\ Len(rig.evaluators) = n
      /\ \A i \in 1 .. n - t : rig.evaluators[i] = r.evaluators[t + i]
      /\ \A i \in 1 .. t : rig.evaluators[n - t + i] = rig.part[Pushing(rig)[i]].type
  BY <1>1 DEF SnapshotsInv, RigInv, RigKnown, Rigs, Origin
<1>8. /\ rig.config = Restored(r.config) /\ rig.meta = r.meta
      /\ rig.config.load = r.config.load
      /\ rig.config.rotationType = r.config.rotationType
  <2>1. rig.config = Restored(r.config) /\ rig.meta = r.meta
    BY <1>5 DEF SnapshotsInv, RestoredInv, Origin
  <2>2. r.config \in Settings
    BY <1>6 DEF Rigs
  <2> QED  BY <2>1, <2>2 DEF Restored, Settings
<1>9. /\ BuildSuffices => /\ aligned /\ position = dumped[source].at[3]
                          /\ \A i \in 1 .. pc - 1 : Remade(Evaluators[i])
      /\ Origin = r /\ Origin' = r /\ (BuildSuffices' <=> BuildSuffices)
  BY <1>1, <1>5, OriginKept DEF SnapshotsInv, RestoredInv, Origin
<1>10. /\ (NoJoints(r) <=> NoJoints(rig)) /\ Pushing(r) = Pushing(rig)
       /\ t \in 0 .. n /\ n \in Nat /\ \A i \in 1 .. n : Pushing(rig)[i] \in Evaluator
  <2>1. pc \in 1 .. 10
    BY <1>1
  <2> QED  BY <1>8, <2>1, SameQueue, QueueEnds
<1>11. CASE p \in JointEvaluator /\ NoJoints(rig)
  <2>1. rig' = rig
    BY <1>11 DEF RestoreEvaluator
  <2>2. Taken(rig, pc + 1) = t
    BY <1>1, <1>11, Queue
  <2>3. RigInv'
    <3> HIDE DEF t, n
    <3>1. Taken(rig', pc') = t /\ Len(Pushing(rig')) = n
      BY <1>1, <2>1, <2>2 DEF t, n
    <3> QED  BY <1>1, <1>7, <1>9, <2>1, <3>1 DEF RigInv
  <2>4. rig.part[p] = Null /\ r.part[p] = Null
    BY <1>6, <1>7, <1>10, <1>11 DEF RigKnown
  <2>5. Remade(p)
    BY <1>9, <2>4, PartType DEF Remade
  <2>6. BuildSuffices => \A i \in 1 .. pc : Remade(Evaluators[i])
    <3>1. \A i \in 1 .. pc : i = pc \/ i \in 1 .. pc - 1
      BY <1>1
    <3> QED  BY <1>9, <2>5, <3>1
  <2>7. \A i \in 1 .. pc : Remade(Evaluators[i])' <=> Remade(Evaluators[i])
    BY <1>9, <2>1 DEF Remade
  <2>8. pc + 1 - 1 = pc
    BY <1>1
  <2>9. RestoredInv'
    BY <1>1, <1>5, <1>8, <1>9, <2>1, <2>6, <2>7, <2>8 DEF RestoredInv
  <2> QED  BY <1>2, <1>3, <2>3, <2>9 DEF SnapshotsInv
<1>12. CASE ~ (p \in JointEvaluator /\ NoJoints(rig))
  <2>1. rig' = [rig EXCEPT !.evaluators = Append(Tail(rig.evaluators), e.type), !.part[p] = e]
    BY <1>12 DEF RestoreEvaluator
  <2>2. /\ Taken(rig, pc + 1) = t + 1
        /\ t + 1 \in 1 .. n /\ Pushing(rig)[t + 1] = p
        /\ \A j \in 1 .. t : Pushing(rig)[j] # p
    BY <1>1, <1>12, Queue
  <2>3. Head(rig.evaluators) = rig.evaluators[1] /\ rig.evaluators[1] \in Types
    <3>1. Len(rig.evaluators) > 0
      BY <1>7, <1>10, <2>2
    <3> QED  BY <1>7, <3>1
  <2>4. rig.evaluators[1] = r.part[p].type
    <3>1. 1 \in 1 .. n - t /\ t + 1 \in 1 .. n
      BY <1>10, <2>2
    <3>2. rig.evaluators[1] = r.evaluators[t + 1]
      BY <1>7, <3>1
    <3>3. r.evaluators[t + 1] = r.part[Pushing(r)[t + 1]].type
      BY <1>6, <1>10, <3>1 DEF QueueKnown, QueueHolds
    <3> QED  BY <1>10, <2>2, <3>2, <3>3
  <2>5. /\ RestoreKernel(p) = DefaultKernel(p, rig.config.rotationType)
        /\ Made(p, rig.config.rotationType, RestoreKernel(p)) /\ "empty" \in Contents
    <3>1. rig.config.rotationType \in RotationTypes /\ "degrees" \in RotationUnits
      BY <1>7 DEF Rigs, Settings, RotationUnits
    <3> QED  BY <3>1 DEF Made, RestoreKernel, DefaultKernel, Contents
  <2>6. e \in Parts /\ (e = Null \/ (e.type = "Concrete" /\ Made(p, rig.config.rotationType, e.kernel)))
    <3>1. CASE Head(rig.evaluators) = "Null"
      BY <3>1, PartType
    <3>2. CASE Head(rig.evaluators) # "Null"
      <4>1. e = Make(RestoreKernel(p), "empty")
        BY <3>2
      <4> QED  BY <1>4, <1>7, <2>5, <4>1, MakeKnown
    <3> QED  BY <3>1, <3>2
  <2>7. BuildSuffices =>
            /\ e.type = r.part[p].type
            /\ e.type = "Concrete" => e.kernel = DefaultKernel(p, rig.config.rotationType)
    <3>1. CASE Head(rig.evaluators) = "Null"
      BY <3>1, <2>3, <2>4, PartType
    <3>2. CASE Head(rig.evaluators) # "Null"
      <4>1. e = Make(RestoreKernel(p), "empty") /\ r.part[p].type = "Concrete"
        BY <3>2, <2>3, <2>4 DEF Types
      <4>2. BuildSuffices => Supported(RestoreKernel(p), rig.meta.sequence)
        BY <1>4, <1>8, <1>9, <2>5, <4>1 DEF BuildSuffices, DefaultKernel
      <4>3. BuildSuffices => e = Concrete(RestoreKernel(p), "empty")
        BY <4>1, <4>2 DEF Make
      <4>4. /\ Concrete(RestoreKernel(p), "empty").type = "Concrete"
            /\ Concrete(RestoreKernel(p), "empty").kernel = RestoreKernel(p)
        BY DEF Concrete
      <4> QED  BY <2>5, <4>1, <4>3, <4>4
    <3> QED  BY <3>1, <3>2
  <2> HIDE DEF e
  <2>8. e.type \in Types
    BY <2>6 DEF Parts
  <2> DEFINE types == Append(Tail(rig.evaluators), e.type)
  <2>9. /\ types \in Seq(Types) /\ Len(types) = n /\ types[n] = e.type
        /\ \A i \in 1 .. n - 1 : types[i] = rig.evaluators[i + 1]
    <3>1. Len(rig.evaluators) > 0
      BY <1>7, <1>10, <2>2
    <3> QED  BY <1>7, <2>8, <3>1, Rotated
  <2> HIDE DEF types
  <2>10. /\ rig' \in Rigs /\ rig'.config = rig.config /\ rig'.meta = rig.meta
         /\ rig'.evaluators = types /\ rig'.part[p] = e
         /\ \A o \in Part : o # p => rig'.part[o] = rig.part[o]
    <3>2. rig' = [config |-> rig.config, meta |-> rig.meta, evaluators |-> types,
                  part |-> [rig.part EXCEPT ![p] = e]]
      BY <1>7, <2>1 DEF types, Rigs
    <3> HIDE DEF p
    <3>3. /\ rig' \in Rigs /\ rig'.part[p] = e
          /\ \A o \in Part : o # p => rig'.part[o] = rig.part[o]
      BY <1>4, <1>7, <3>2, <2>6, <2>9, RigType
    <3> QED  BY <3>2, <3>3
  <2>11. RigKnown(rig')
    <3> HIDE DEF p
    <3> QED  BY <1>4, <1>7, <1>12, <2>6, <2>10, Factory
  <2>12. Pushing(rig') = Pushing(rig) /\ Taken(rig', pc') = t + 1
    BY <1>1, <2>2, <2>10, SameQueue
  <2> HIDE DEF t, n, p
  <2>13. ASSUME NEW i \in 1 .. n - (t + 1)
         PROVE  rig'.evaluators[i] = r.evaluators[(t + 1) + i]
    <3>1. i \in 1 .. n - 1 /\ i + 1 \in 1 .. n - t /\ t + (i + 1) = (t + 1) + i
      BY <1>10, <2>2
    <3>2. rig.evaluators[i + 1] = r.evaluators[t + (i + 1)]
      BY <1>7, <3>1
    <3> QED  BY <2>9, <2>10, <3>1, <3>2
  <2>14. ASSUME NEW i \in 1 .. t + 1
         PROVE  rig'.evaluators[n - (t + 1) + i] = rig'.part[Pushing(rig)[i]].type
    <3>1. CASE i = t + 1
      <4>1. n - (t + 1) + i = n
        BY <1>10, <3>1
      <4> QED  BY <2>2, <2>9, <2>10, <3>1, <4>1
    <3>2. CASE i # t + 1
      <4>1. /\ i \in 1 .. t /\ i \in 1 .. n
            /\ n - (t + 1) + i \in 1 .. n - 1
            /\ (n - (t + 1) + i) + 1 = n - t + i
        BY <1>10, <2>2, <3>2
      <4>2. types[n - (t + 1) + i] = rig.evaluators[n - t + i]
        BY <2>9, <4>1
      <4>3. rig.evaluators[n - t + i] = rig.part[Pushing(rig)[i]].type
        BY <1>7, <4>1
      <4>4. Pushing(rig)[i] \in Part /\ Pushing(rig)[i] # p
        BY <1>10, <2>2, <4>1, Orders
      <4> QED  BY <2>10, <4>2, <4>3, <4>4
    <3> QED  BY <3>1, <3>2
  <2>15. RigInv'
    <3>1. Len(Pushing(rig')) = n /\ Len(rig'.evaluators) = n
      BY <2>9, <2>10, <2>12 DEF n
    <3> QED  BY <1>1, <1>9, <2>11, <2>12, <2>13, <2>14, <3>1 DEF RigInv
  <2>16. ASSUME BuildSuffices, NEW i \in 1 .. pc
         PROVE  Remade(Evaluators[i])'
    <3>1. CASE i = pc
      <4>1. rig'.part[p].type = r.part[p].type
            /\ (rig'.part[p].type = "Concrete" =>
                    rig'.part[p].kernel = DefaultKernel(p, rig'.config.rotationType))
        BY <2>7, <2>10, <2>16
      <4>2. Evaluators[i] = p
        BY <3>1 DEF p
      <4> QED  BY <1>9, <4>1, <4>2 DEF Remade
    <3>2. CASE i # pc
      <4>1. i \in 1 .. pc - 1
        BY <1>1, <3>2
      <4>2. Evaluators[i] \in Part /\ Evaluators[i] # p /\ Remade(Evaluators[i])
        BY <1>4, <1>9, <2>16, <4>1, Orders
      <4>3. rig'.part[Evaluators[i]] = rig.part[Evaluators[i]]
        BY <2>10, <4>2
      <4> QED  BY <1>9, <2>10, <4>2, <4>3 DEF Remade
    <3> QED  BY <3>1, <3>2
  <2>17. pc + 1 - 1 = pc
    BY <1>1
  <2>18. RestoredInv'
    BY <1>1, <1>5, <1>8, <1>9, <2>10, <2>16, <2>17 DEF RestoredInv
  <2> QED  BY <1>2, <1>3, <2>15, <2>18 DEF SnapshotsInv
<1> QED  BY <1>11, <1>12

\* A part that is loaded
LEMMA LoadKeeps == SnapshotsInv /\ Load => SnapshotsInv'
<1> SUFFICES ASSUME SnapshotsInv, Load PROVE SnapshotsInv'
  OBVIOUS
<1> DEFINE p == LoadOrder[pc]
           inStep == aligned /\ position <= Len(archive) /\ archive[position].part = p
           x == IF inStep THEN dumped[archive[position].dump].rig.part[p].data ELSE "garbage"
           r == dumped[source].rig
           at == dumped[source].at
<1>1. /\ call = "load" /\ call' = "load" /\ pc \in 1 .. 12 /\ pc' = pc + 1
      /\ UNCHANGED <<dna, build, archive, dumped, source>>
  <2>1. pc \in Nat \ {0} /\ pc <= 12
    <3>1. Len(LoadOrder) = 12
      BY Orders
    <3>2. pc \in Nat \ {0}
      BY DEF SnapshotsInv, StateKnown
    <3> QED  BY <3>1, <3>2 DEF Load
  <2> QED  BY <2>1 DEF Load
<1>2. SnapshotInv'
  BY <1>1, SnapshotsKept DEF SnapshotsInv, Extent
<1>3. p \in Part /\ SaveOrder[pc + 2] = p
  BY <1>1, Orders
<1>4. source \in 1 .. Len(dumped) /\ source # 0
  BY <1>1 DEF SnapshotsInv, StateKnown
<1>5. /\ RigKnown(r) /\ r \in Rigs /\ SavedUpTo(source, 15)
      /\ \A i \in 1 .. 15 : at[i] \in Nat \ {0}
  BY <1>1, <1>4, SnapshotKnown DEF SnapshotsInv, RigKnown
<1>6. RigKnown(rig) /\ rig \in Rigs /\ QueueKnown(rig)
  BY <1>1 DEF SnapshotsInv, RigInv, RigKnown
<1>7. /\ rig.config = Restored(r.config) /\ rig.meta = r.meta
      /\ BuildSuffices =>
             /\ \A q \in Evaluator : Remade(q)
             /\ aligned /\ position = at[pc + 2]
             /\ \A i \in 1 .. pc - 1 : Loaded(LoadOrder[i])
      /\ Origin = r /\ Origin' = r /\ (BuildSuffices' <=> BuildSuffices)
  BY <1>1, <1>4, OriginKept DEF SnapshotsInv, RestoredInv, Origin
<1>8. BuildSuffices => (Saves(rig, p) <=> Saves(r, p))
  BY <1>7 DEF Saves, Remade
<1>9. /\ pc + 2 \in 1 .. 15 - 1 /\ (pc + 1) + 2 = (pc + 2) + 1 /\ pc + 1 - 1 = pc
      /\ at[pc + 2] \in Nat \ {0}
      /\ \A i \in 1 .. pc : i = pc \/ (i \in 1 .. pc - 1 /\ i \in 1 .. 12)
  <2>1. pc + 2 \in 1 .. 15
    BY <1>1
  <2> QED  BY <1>1, <1>5, <2>1
<1>10. IF Saves(r, p)
       THEN /\ at[(pc + 1) + 2] = at[pc + 2] + 1
            /\ at[pc + 2] <= Len(archive)
            /\ archive[at[pc + 2]] = [dump |-> source, part |-> p]
       ELSE at[(pc + 1) + 2] = at[pc + 2]
  BY <1>3, <1>5, <1>9 DEF SavedUpTo
<1>11. pc' \in Nat \ {0} /\ pc' <= Len(LoadOrder) + 1
  BY <1>1, Orders
<1> HIDE DEF p, r, at
<1>12. CASE ~ Saves(rig, p)
  <2>1. UNCHANGED <<aligned, position, rig>>
    BY <1>12 DEF Load, p
  <2>2. StateKnown'
    BY <1>1, <1>11, <2>1 DEF SnapshotsInv, StateKnown
  <2>3. RigInv'
    BY <1>1, <2>1 DEF SnapshotsInv, RigInv
  <2>4. BuildSuffices => Loaded(p)
    <3> SUFFICES ASSUME BuildSuffices PROVE Loaded(p)
      OBVIOUS
    <3>1. p \in Evaluator /\ rig.part[p].type # "Concrete" /\ r.part[p].type # "Concrete"
      BY <1>7, <1>12 DEF Saves, Remade
    <3>2. rig.part[p] = Null /\ r.part[p] = Null
      BY <1>3, <1>5, <1>6, <3>1 DEF RigKnown, PartKnown
    <3> QED  BY <1>7, <3>2 DEF Loaded
  <2>5. BuildSuffices => position = at[(pc + 1) + 2]
    BY <1>7, <1>8, <1>10, <1>12
  <2>6. BuildSuffices => \A i \in 1 .. pc : Loaded(LoadOrder[i])
    BY <1>7, <1>9, <2>4 DEF p
  <2>7. /\ \A q \in Evaluator : Remade(q)' <=> Remade(q)
        /\ \A i \in 1 .. pc : Loaded(LoadOrder[i])' <=> Loaded(LoadOrder[i])
    BY <1>7, <2>1 DEF Remade, Loaded
  <2>8. RestoredInv'
    BY <1>1, <1>4, <1>7, <1>9, <2>1, <2>5, <2>6, <2>7 DEF RestoredInv, at
  <2> QED  BY <1>2, <2>2, <2>3, <2>8 DEF SnapshotsInv
<1>13. CASE Saves(rig, p)
  <2>1. /\ aligned' = inStep
        /\ position' = IF inStep THEN position + 1 ELSE position
        /\ rig' = [rig EXCEPT !.part[p].data = x]
    BY <1>13 DEF Load, p
  <2>2. x \in Contents
    <3>1. CASE inStep
      <4>1. archive[position] \in Chunks(1 .. Len(dumped))
        <5>1. position \in 1 .. Len(archive)
          BY <3>1 DEF SnapshotsInv, StateKnown
        <5> DEFINE S == Chunks(1 .. Len(dumped))
        <5>2. archive \in Seq(S)
          BY DEF SnapshotsInv, StateKnown
        <5> HIDE DEF S
        <5>3. archive[position] \in S
          BY <5>1, <5>2
        <5> QED  BY <5>3 DEF S
      <4>2. archive[position].dump \in 1 .. Len(dumped)
        BY <4>1 DEF Chunks
      <4>3. dumped[archive[position].dump].rig \in Rigs
        BY <4>2, SnapshotKnown DEF SnapshotsInv, RigKnown
      <4>4. dumped[archive[position].dump].rig.part[p].data \in Contents
        BY <1>3, <4>3 DEF Rigs, Parts
      <4> QED  BY <3>1, <4>4
    <3>2. CASE ~ inStep
      BY <3>2 DEF Contents
    <3> QED  BY <3>1, <3>2
  <2>3. BuildSuffices => /\ inStep /\ x = r.part[p].data
                         /\ position + 1 = at[(pc + 1) + 2]
    <3> SUFFICES ASSUME BuildSuffices
                 PROVE  inStep /\ x = r.part[p].data /\ position + 1 = at[(pc + 1) + 2]
      OBVIOUS
    <3>1. /\ aligned /\ position <= Len(archive)
          /\ archive[position] = [dump |-> source, part |-> p]
          /\ position + 1 = at[(pc + 1) + 2]
      BY <1>7, <1>8, <1>10, <1>13
    <3>2. archive[position].part = p /\ archive[position].dump = source
      BY <3>1
    <3> QED  BY <3>1, <3>2 DEF r
  <2> DEFINE e == [type |-> rig.part[p].type, kernel |-> rig.part[p].kernel, data |-> x]
  <2>4. rig.part[p] \in Parts /\ rig.part \in [Part -> Parts]
    BY <1>3, <1>6 DEF Rigs
  <2>5. e \in Parts /\ e.type = rig.part[p].type /\ e.kernel = rig.part[p].kernel /\ e.data = x
    <3> HIDE DEF x
    <3> QED  BY <2>2, <2>4 DEF Parts
  <2>6. rig' = [config |-> rig.config, meta |-> rig.meta, evaluators |-> rig.evaluators,
                part |-> [rig.part EXCEPT ![p] = e]]
    <3> HIDE DEF x
    <3>1. [rig.part[p] EXCEPT !.data = x] = e
      BY <2>4 DEF Parts
    <3> HIDE DEF e
    <3>2. rig' = [rig EXCEPT !.part = [rig.part EXCEPT ![p] = e]]
      BY <2>1, <2>4, <3>1, <1>3, <1>6 DEF Rigs
    <3> QED  BY <1>6, <3>2 DEF Rigs
  <2> HIDE DEF e, x
  <2>7. /\ rig' \in Rigs /\ rig'.config = rig.config /\ rig'.meta = rig.meta
        /\ rig'.evaluators = rig.evaluators /\ rig'.part[p] = e
        /\ \A o \in Part : o # p => rig'.part[o] = rig.part[o]
    <3>1. rig.evaluators \in Seq(Types)
      BY <1>6 DEF Rigs
    <3>2. /\ rig' \in Rigs /\ rig'.part[p] = e
          /\ \A o \in Part : o # p => rig'.part[o] = rig.part[o]
      BY <1>3, <1>6, <2>5, <2>6, <3>1, RigType
    <3> QED  BY <2>6, <3>2
  <2>8. \A o \in Part : /\ rig'.part[o].type = rig.part[o].type
                        /\ rig'.part[o].kernel = rig.part[o].kernel
    BY <2>5, <2>7
  <2>9. RigKnown(rig')
    BY <1>3, <1>6, <1>13, <2>7, <2>8, PartLoads
  <2>10. QueueKnown(rig')
    <3>1. Pushing(rig') = Pushing(rig)
      BY <2>7, SameQueue
    <3>2. \A i \in 1 .. Len(Pushing(rig)) : Pushing(rig)[i] \in Part
      BY QueueEnds, Orders
    <3> QED  BY <1>6, <2>7, <2>8, <3>1, <3>2 DEF QueueKnown, QueueHolds
  <2>11. RigInv'
    BY <1>1, <2>9, <2>10 DEF RigInv
  <2> HIDE DEF inStep
  <2>12. StateKnown'
    <3>1. aligned' \in BOOLEAN
      BY <2>1 DEF inStep
    <3>2. position' \in Nat \ {0}
      BY <2>1 DEF SnapshotsInv, StateKnown
    <3> QED  BY <1>1, <1>11, <3>1, <3>2 DEF SnapshotsInv, StateKnown
  <2>13. BuildSuffices => aligned' /\ position' = at[(pc + 1) + 2]
    BY <2>1, <2>3
  <2>14. ASSUME BuildSuffices, NEW i \in 1 .. pc
         PROVE  Loaded(LoadOrder[i])'
    <3>1. CASE i = pc
      <4>1. LoadOrder[i] = p
        BY <3>1 DEF p
      <4>2. rig'.part[p].data = r.part[p].data
        BY <2>3, <2>5, <2>7, <2>14
      <4> QED  BY <1>7, <4>1, <4>2 DEF Loaded
    <3>2. CASE i # pc
      <4>1. LoadOrder[i] \in Part /\ LoadOrder[i] # p /\ Loaded(LoadOrder[i])
        BY <1>1, <1>7, <1>9, <2>14, <3>2, Orders DEF p
      <4>2. rig'.part[LoadOrder[i]] = rig.part[LoadOrder[i]]
        BY <2>7, <4>1
      <4> QED  BY <1>7, <4>1, <4>2 DEF Loaded
    <3> QED  BY <3>1, <3>2
  <2>15. \A q \in Evaluator : Remade(q)' <=> Remade(q)
    BY <1>7, <2>7, <2>8, Orders DEF Remade
  <2>16. RestoredInv'
    BY <1>1, <1>4, <1>7, <1>9, <2>7, <2>13, <2>14, <2>15 DEF RestoredInv, at
  <2> QED  BY <1>2, <2>11, <2>12, <2>16 DEF SnapshotsInv
<1> QED  BY <1>12, <1>13

\* A sequence of chunks is one of chunks of more dumps.
LEMMA ChunksOfMore ==
    ASSUME NEW n \in Nat, archive \in Seq(Chunks(1 .. n))
    PROVE  archive \in Seq(Chunks(1 .. n + 1))
<1> DEFINE A == Chunks(1 .. n)
           B == Chunks(1 .. n + 1)
<1>1. A \subseteq B
  BY DEF Chunks
<1>2. archive \in Seq(A)
  OBVIOUS
<1> HIDE DEF A, B
<1>3. archive \in Seq(B)
  <2>1. archive = [i \in 1 .. Len(archive) |-> archive[i]] /\ Len(archive) \in Nat
    BY <1>2
  <2>2. \A i \in 1 .. Len(archive) : archive[i] \in B
    BY <1>1, <1>2
  <2> QED  BY <2>1, <2>2
<1> QED  BY <1>3 DEF B

\* The first step of dump, and a part that is saved
LEMMA DumpKeeps == SnapshotsInv /\ Dump => SnapshotsInv'
<1> SUFFICES ASSUME SnapshotsInv, Dump PROVE SnapshotsInv'
  OBVIOUS
<1> DEFINE S == [rig : Rigs, at : Seq(Nat \ {0})]
           new == [rig |-> rig, at |-> <<position>>]
           K == Len(dumped) + 1
<1>1. /\ call = "none" /\ call' = "dump" /\ pc' = 1
      /\ position = Len(archive) + 1
      /\ dumped' = Append(dumped, new)
      /\ UNCHANGED <<rig, dna, build, archive, position, source, aligned>>
  BY DEF Dump
<1>2. RigKnown(rig) /\ rig \in Rigs /\ QueueKnown(rig) /\ position \in Nat \ {0}
  BY <1>1 DEF SnapshotsInv, StateKnown, RigInv, RigKnown
<1>3. new \in S /\ new.rig = rig /\ new.at = <<position>>
  <2>1. <<position>> \in Seq(Nat \ {0})
    BY <1>2
  <2> QED  BY <1>2, <2>1
<1>4. dumped \in Seq(S) /\ Len(dumped) \in Nat
  BY DEF SnapshotsInv, StateKnown
<1> HIDE DEF S, new
<1>5. /\ dumped' \in Seq(S) /\ Len(dumped') = K /\ dumped'[K] = new
      /\ \A k \in 1 .. Len(dumped) : dumped'[k] = dumped[k]
  BY <1>1, <1>3, <1>4
<1>6. StateKnown'
  <2>1. dumped' \in Seq([rig : Rigs, at : Seq(Nat \ {0})])
    BY <1>5 DEF S
  <2>2. archive' \in Seq(Chunks(1 .. Len(dumped')))
    <3>1. archive \in Seq(Chunks(1 .. Len(dumped)))
      BY DEF SnapshotsInv, StateKnown
    <3> QED  BY <1>1, <1>4, <1>5, <3>1, ChunksOfMore
  <2>3. source' \in 0 .. Len(dumped')
    BY <1>1, <1>4, <1>5 DEF SnapshotsInv, StateKnown
  <2>4. /\ dumped' # <<>> /\ dumped'[Len(dumped')].rig = rig
        /\ dumped'[Len(dumped')].at[1] = position
    BY <1>2, <1>3, <1>4, <1>5
  <2>5. pc' \in Nat \ {0} /\ pc' <= Len(SaveOrder) + 1
    BY <1>1, Orders
  <2> QED  BY <1>1, <2>1, <2>2, <2>3, <2>4, <2>5 DEF SnapshotsInv, StateKnown
<1>7. RigInv'
  BY <1>1 DEF SnapshotsInv, RigInv
<1>8. SnapshotInv'
  <2> SUFFICES ASSUME NEW k \in 1 .. K
               PROVE  (RigKnown(dumped[k].rig) /\ QueueKnown(dumped[k].rig) /\ SavedUpTo(k, Extent(k)))'
    BY <1>5 DEF SnapshotInv
  <2>1. CASE k = K
    <3>1. Extent(k)' = 1
      BY <1>1, <1>5, <2>1 DEF Extent
    <3>2. dumped'[k].rig = rig /\ Len(dumped'[k].at) = 1
      <4>1. dumped'[k] = new
        BY <1>5, <2>1
      <4>2. Len(<<position>>) = 1
        OBVIOUS
      <4> QED  BY <1>3, <4>1, <4>2
    <3>3. SavedUpTo(k, 1)'
      BY <3>2 DEF SavedUpTo
    <3> QED  BY <1>2, <3>1, <3>2, <3>3
  <2>2. CASE k # K
    <3>1. k \in 1 .. Len(dumped) /\ k # Len(dumped')
      BY <1>4, <1>5, <2>2
    <3>2. Extent(k)' = 15
      BY <3>1, Orders DEF Extent
    <3>3. RigKnown(dumped[k].rig) /\ QueueKnown(dumped[k].rig) /\ SavedUpTo(k, 15)
      BY <1>1, <3>1, SnapshotKnown DEF SnapshotsInv
    <3>4. dumped'[k] = dumped[k]
      BY <1>5, <3>1
    <3>5. SavedUpTo(k, 15)'
      BY <1>1, <3>3, <3>4 DEF SavedUpTo
    <3> QED  BY <3>2, <3>3, <3>4, <3>5
  <2> QED  BY <2>1, <2>2
<1>9. RestoredInv'
  <2> SUFFICES ASSUME source # 0 PROVE RestoredInv'
    BY <1>1 DEF RestoredInv
  <2>1. source \in 1 .. Len(dumped)
    BY <1>4 DEF SnapshotsInv, StateKnown
  <2>2. Origin' = Origin
    BY <1>1, <1>5, <2>1 DEF Origin
  <2>3. BuildSuffices' <=> BuildSuffices
    BY <1>1, <2>2 DEF BuildSuffices, Supported
  <2>4. /\ \A q \in Evaluator : Remade(q)' <=> Remade(q)
        /\ \A q \in Part : Loaded(q)' <=> Loaded(q)
    BY <1>1, <2>2 DEF Remade, Loaded
  <2> QED  BY <1>1, <2>2, <2>3, <2>4 DEF SnapshotsInv, RestoredInv
<1> QED  BY <1>6, <1>7, <1>8, <1>9 DEF SnapshotsInv

LEMMA SaveKeeps == SnapshotsInv /\ Save => SnapshotsInv'
<1> SUFFICES ASSUME SnapshotsInv, Save PROVE SnapshotsInv'
  OBVIOUS
<1> DEFINE S == [rig : Rigs, at : Seq(Nat \ {0})]
           C == Chunks(1 .. Len(dumped))
           K == Len(dumped)
           p == SaveOrder[pc]
           chunk == [dump |-> K, part |-> p]
           at == dumped[K].at
<1>1. /\ call = "dump" /\ call' = "dump" /\ pc \in 1 .. 14 /\ pc' = pc + 1
      /\ UNCHANGED <<rig, dna, build, source, aligned>>
      /\ dumped' = [dumped EXCEPT ![K].at = Append(at, position')]
  <2>1. pc \in Nat \ {0} /\ pc <= 14
    <3>1. Len(SaveOrder) = 14
      BY Orders
    <3>2. pc \in Nat \ {0}
      BY DEF SnapshotsInv, StateKnown
    <3> QED  BY <3>1, <3>2 DEF Save
  <2>2. dumped' = [dumped EXCEPT ![K].at = Append(at, position')]
    BY DEF Save
  <2>3. /\ call = "dump" /\ pc' = pc + 1
        /\ UNCHANGED <<rig, dna, build, call, source, aligned>>
    BY DEF Save
  <2> QED  BY SMTT(20), <2>1, <2>2, <2>3
<1>2. /\ dumped \in Seq(S) /\ K \in Nat /\ K \in 1 .. K
      /\ archive \in Seq(C) /\ Len(archive) \in Nat
      /\ position = Len(archive) + 1 /\ position \in Nat \ {0}
      /\ dumped[K].rig = rig /\ at[pc] = position
  <2>1. dumped \in Seq(S) /\ dumped # <<>>
    BY <1>1 DEF SnapshotsInv, StateKnown
  <2>2. K \in Nat /\ K \in 1 .. K
    <3> HIDE DEF S
    <3> QED  BY <2>1
  <2> QED  BY <1>1, <2>1, <2>2 DEF SnapshotsInv, StateKnown
<1>3. dumped[K] \in S
  <2> HIDE DEF S
  <2> QED  BY <1>2
<1>4. at \in Seq(Nat \ {0}) /\ dumped[K].rig \in Rigs
  BY <1>3
<1>5. RigKnown(rig) /\ QueueKnown(rig) /\ SavedUpTo(K, pc) /\ Len(at) = pc
  <2>1. Extent(K) = pc
    BY <1>1 DEF Extent
  <2> QED  BY <1>2, <2>1 DEF SnapshotsInv, SnapshotInv, SavedUpTo
<1>6. p \in Part \cup {"config", "meta"}
  <2>1. CASE pc \in {1, 2}
    BY <2>1, Orders
  <2>2. CASE pc \notin {1, 2}
    <3>1. pc - 2 \in 1 .. 12 /\ (pc - 2) + 2 = pc
      BY <1>1, <2>2
    <3> QED  BY <3>1, Orders
  <2> QED  BY <2>1, <2>2
<1>7. chunk \in C
  BY <1>2, <1>6 DEF Chunks
<1> HIDE DEF C, chunk
<1>8. /\ archive' \in Seq(C)
      /\ Len(archive') \in Nat /\ Len(archive) <= Len(archive')
      /\ \A j \in 1 .. Len(archive) : archive'[j] = archive[j]
      /\ position' = Len(archive') + 1
      /\ IF Saves(rig, p)
         THEN position' = position + 1 /\ position <= Len(archive') /\ archive'[position] = chunk
         ELSE position' = position
  <2>1. CASE Saves(rig, p)
    <3>1. archive' = Append(archive, chunk) /\ position' = position + 1
      BY <2>1 DEF Save, chunk
    <3> HIDE DEF p
    <3> QED  BY <1>2, <1>7, <2>1, <3>1
  <2>2. CASE ~ Saves(rig, p)
    <3>1. UNCHANGED <<archive, position>>
      BY <2>2 DEF Save
    <3> HIDE DEF p
    <3> QED  BY <1>2, <2>2, <3>1
  <2> QED  BY <2>1, <2>2
<1> DEFINE longer == Append(at, position')
<1>9. /\ position' \in Nat \ {0}
      /\ longer \in Seq(Nat \ {0}) /\ Len(longer) = pc + 1 /\ longer[pc + 1] = position'
      /\ \A i \in 1 .. pc : longer[i] = at[i]
  <2>1. position' \in Nat \ {0}
    BY <1>8
  <2> HIDE DEF at
  <2> QED  BY <1>1, <1>4, <1>5, <2>1
<1> DEFINE new == [rig |-> rig, at |-> longer]
<1>10. new \in S /\ new.rig = rig /\ new.at = longer
  BY <1>2, <1>4, <1>9
<1>11. /\ dumped' \in Seq(S) /\ Len(dumped') = K /\ dumped'[K] = new
       /\ \A k \in 1 .. K : k # K => dumped'[k] = dumped[k]
  <2>1. [dumped[K] EXCEPT !.at = longer] = new
    <3> DEFINE d == dumped[K]
    <3>1. d \in S /\ d.rig = rig
      BY <1>2, <1>3
    <3> HIDE DEF longer, d
    <3>2. [d EXCEPT !.at = longer] = new
      BY <3>1
    <3> QED  BY <3>2 DEF d
  <2> HIDE DEF new, longer
  <2>2. dumped' = [dumped EXCEPT ![K] = new]
    BY <1>1, <2>1 DEF longer
  <2> HIDE DEF S
  <2> QED  BY <1>2, <1>10, <2>2
<1> HIDE DEF new, longer, p
<1>12. StateKnown'
  <2>1. dumped' \in Seq([rig : Rigs, at : Seq(Nat \ {0})])
    BY <1>11 DEF S
  <2>2. archive' \in Seq(Chunks(1 .. Len(dumped')))
    BY <1>8, <1>11 DEF C
  <2>3. source' \in 0 .. Len(dumped')
    BY <1>1, <1>11 DEF SnapshotsInv, StateKnown
  <2>4. /\ dumped' # <<>> /\ dumped'[Len(dumped')].rig = rig
        /\ dumped'[Len(dumped')].at[pc + 1] = position'
    BY <1>2, <1>9, <1>10, <1>11
  <2>5. pc' \in Nat \ {0} /\ pc' <= Len(SaveOrder) + 1
    BY <1>1, Orders
  <2> QED  BY <1>1, <1>8, <1>9, <2>1, <2>2, <2>3, <2>4, <2>5 DEF SnapshotsInv, StateKnown
<1>13. RigInv'
  BY <1>1 DEF SnapshotsInv, RigInv
<1>14. SnapshotInv'
  <2> SUFFICES ASSUME NEW k \in 1 .. K
               PROVE  (RigKnown(dumped[k].rig) /\ QueueKnown(dumped[k].rig) /\ SavedUpTo(k, Extent(k)))'
    BY <1>11 DEF SnapshotInv
  <2>1. CASE k = K
    <3>1. Extent(k)' = pc + 1
      BY <1>1, <1>11, <2>1 DEF Extent
    <3>2. dumped'[k].rig = rig /\ dumped'[k].at = longer
      BY <1>10, <1>11, <2>1
    <3>3. ASSUME NEW i \in 1 .. pc + 1 - 1
          PROVE  IF Saves(rig, SaveOrder[i])
                 THEN /\ longer[i + 1] = longer[i] + 1
                      /\ longer[i] <= Len(archive')
                      /\ archive'[longer[i]] = [dump |-> k, part |-> SaveOrder[i]]
                 ELSE longer[i + 1] = longer[i]
      <4>1. CASE i = pc
        <5>1. longer[i] = position
          BY SMTT(20), <1>1, <1>2, <1>9, <4>1
        <5>2. longer[i + 1] = position' /\ SaveOrder[i] = p
          BY <1>9, <4>1 DEF p
        <5>3. chunk = [dump |-> k, part |-> p]
          BY <2>1 DEF chunk
        <5>4. CASE Saves(rig, p)
          BY <1>8, <5>1, <5>2, <5>3, <5>4
        <5>5. CASE ~ Saves(rig, p)
          BY <1>8, <5>1, <5>2, <5>5
        <5> QED  BY <5>4, <5>5
      <4>2. CASE i # pc
        <5>1. i \in 1 .. pc - 1 /\ i \in 1 .. pc /\ i + 1 \in 1 .. pc
          BY SMTT(20), <1>1, <4>2
        <5>2. longer[i] = at[i] /\ longer[i + 1] = at[i + 1] /\ at[i] \in Nat \ {0}
          <6> HIDE DEF at
          <6> QED  BY <1>4, <1>5, <1>9, <5>1
        <5>3. IF Saves(rig, SaveOrder[i])
              THEN /\ at[i + 1] = at[i] + 1 /\ at[i] <= Len(archive)
                   /\ archive[at[i]] = [dump |-> K, part |-> SaveOrder[i]]
              ELSE at[i + 1] = at[i]
          BY <1>2, <1>5, <5>1 DEF SavedUpTo
        <5>4. CASE Saves(rig, SaveOrder[i])
          <6>1. at[i] \in 1 .. Len(archive) /\ at[i] <= Len(archive')
            <7> DEFINE j == at[i]
            <7>1. j \in Nat \ {0} /\ j <= Len(archive)
              BY <5>2, <5>3, <5>4
            <7>2. Len(archive) \in Nat /\ Len(archive') \in Nat /\ Len(archive) <= Len(archive')
              BY <1>2, <1>8
            <7> HIDE DEF j
            <7>3. j \in 1 .. Len(archive) /\ j <= Len(archive')
              BY <7>1, <7>2
            <7> QED  BY <7>3 DEF j
          <6>2. archive'[at[i]] = archive[at[i]]
            BY <1>8, <6>1
          <6> QED  BY <2>1, <5>2, <5>3, <5>4, <6>1, <6>2
        <5>5. CASE ~ Saves(rig, SaveOrder[i])
          BY <5>2, <5>3, <5>5
        <5> QED  BY <5>4, <5>5
      <4> QED  BY <4>1, <4>2
    <3>4. SavedUpTo(k, pc)'
      <4>1. Len(dumped'[k].at) = pc'
        BY <1>1, <1>9, <3>2
      <4>2. pc' - 1 = pc + 1 - 1
        BY <1>1
      <4>3. ASSUME NEW i \in 1 .. pc' - 1
            PROVE  IF Saves(dumped'[k].rig, SaveOrder[i])
                   THEN /\ dumped'[k].at[i + 1] = dumped'[k].at[i] + 1
                        /\ dumped'[k].at[i] <= Len(archive')
                        /\ archive'[dumped'[k].at[i]] = [dump |-> k, part |-> SaveOrder[i]]
                   ELSE dumped'[k].at[i + 1] = dumped'[k].at[i]
        <5>1. i \in 1 .. pc + 1 - 1
          BY <4>2
        <5> QED  BY <3>2, <3>3, <5>1
      <4> QED  BY <4>1, <4>3 DEF SavedUpTo
    <3> QED  BY <1>1, <1>5, <3>1, <3>2, <3>4
  <2>2. CASE k # K
    <3>1. Extent(k)' = 15 /\ Extent(k) = 15
      BY <1>11, <2>2, Orders DEF Extent
    <3>2. /\ dumped[k] \in S
          /\ RigKnown(dumped[k].rig) /\ QueueKnown(dumped[k].rig) /\ SavedUpTo(k, 15)
      BY <3>1, SnapshotKnown DEF SnapshotsInv, SnapshotInv
    <3>3. dumped'[k] = dumped[k]
      BY <1>11, <2>2
    <3>4. Len(dumped[k].at) = 15 /\ dumped[k].at \in Seq(Nat \ {0})
      BY <3>2 DEF SavedUpTo
    <3>5. ASSUME NEW i \in 1 .. 15 - 1, Saves(dumped[k].rig, SaveOrder[i])
          PROVE  /\ dumped[k].at[i] <= Len(archive')
                 /\ archive'[dumped[k].at[i]] = archive[dumped[k].at[i]]
      <4>1. dumped[k].at[i] \in Nat \ {0}
        BY <3>4
      <4>2. dumped[k].at[i] <= Len(archive)
        <5>1. i \in 1 .. 15 - 1 /\ SavedUpTo(k, 15)
          BY <3>2
        <5> QED  BY <3>5, <5>1 DEF SavedUpTo
      <4>3. dumped[k].at[i] \in 1 .. Len(archive)
        BY SMTT(20), <1>2, <4>1, <4>2
      <4> DEFINE j == dumped[k].at[i]
      <4> HIDE DEF j
      <4>4. j \in 1 .. Len(archive)
        BY <4>3 DEF j
      <4>5. j <= Len(archive') /\ archive'[j] = archive[j]
        BY <1>2, <1>8, <4>4
      <4> QED  BY <4>5 DEF j
    <3>6. SavedUpTo(k, 15)'
      BY <3>2, <3>3, <3>5 DEF SavedUpTo
    <3> QED  BY <3>1, <3>2, <3>3, <3>6
  <2> QED  BY <2>1, <2>2
<1>15. RestoredInv'
  <2> SUFFICES ASSUME source # 0 PROVE RestoredInv'
    BY <1>1 DEF RestoredInv
  <2>1. source \in 1 .. K
    BY <1>2 DEF SnapshotsInv, StateKnown
  <2>2. Origin' = Origin
    BY <1>1, <1>2, <1>10, <1>11, <2>1 DEF Origin
  <2>3. BuildSuffices' <=> BuildSuffices
    BY <1>1, <2>2 DEF BuildSuffices, Supported
  <2>4. /\ \A q \in Evaluator : Remade(q)' <=> Remade(q)
        /\ \A q \in Part : Loaded(q)' <=> Loaded(q)
    BY <1>1, <2>2 DEF Remade, Loaded
  <2> QED  BY <1>1, <2>2, <2>3, <2>4 DEF SnapshotsInv, RestoredInv
<1> QED  BY <1>12, <1>13, <1>14, <1>15 DEF SnapshotsInv
-----------------------------------------------------------------------------
(* The theorems.                                                            *)

\* The queue fills up as create makes evaluators and is turned round once as restore
\* makes them again, and snapshots lie one behind the other as dump wrote them:
\* what the other theorems rest on.
THEOREM SnapshotsInvariant == Spec => []SnapshotsInv
<1>1. SnapshotsInv /\ [Next]_vars => SnapshotsInv'
  <2> SUFFICES ASSUME SnapshotsInv, [Next]_vars PROVE SnapshotsInv'
    OBVIOUS
  <2>1. CASE UNCHANGED vars
    <3>1. UNCHANGED <<rig, dna, build, call, pc, archive, position, dumped, source, aligned>>
      BY <2>1 DEF vars
    <3>2. StateKnown'
      BY <3>1 DEF SnapshotsInv, StateKnown
    <3>3. RigInv'
      BY <3>1 DEF SnapshotsInv, RigInv, Origin
    <3>4. SnapshotInv'
      BY <3>1, SnapshotsKept DEF SnapshotsInv, Extent
    <3>5. RestoredInv'
      BY <3>1, OriginKept, PartsKept, Orders DEF SnapshotsInv, RestoredInv, Remade, Loaded
    <3> QED  BY <3>2, <3>3, <3>4, <3>5 DEF SnapshotsInv
  <2>2. CASE Next
    BY <2>2, CreateEvaluatorKeeps, CreateReturnsKeeps, DumpKeeps, SaveKeeps,
       DumpReturnsKeeps, SeekKeeps, RestoreKeeps, RestoreEvaluatorKeeps, BeginLoadKeeps,
       LoadKeeps, RestoreReturnsKeeps DEF Next
  <2> QED  BY <2>1, <2>2
<1> QED  BY Initially, <1>1, PTL DEF Spec

\* What is known of the rig being restored, and of the one it is restored from
LEMMA RestoredRig ==
    ASSUME SnapshotsInv, source # 0, BuildSuffices
    PROVE  /\ source \in 1 .. Len(dumped)
           /\ Origin = dumped[source].rig
           /\ RigKnown(Origin) /\ Origin \in Rigs /\ QueueKnown(Origin)
           /\ RigKnown(rig) /\ rig \in Rigs
           /\ rig.config = Restored(Origin.config) /\ rig.meta = Origin.meta
           /\ call # "restore" => \A p \in Evaluator : Remade(p)
<1>1. source \in 1 .. Len(dumped) /\ Origin = dumped[source].rig
  BY DEF SnapshotsInv, StateKnown, Origin
<1>2. RigKnown(Origin) /\ QueueKnown(Origin)
  BY <1>1, SnapshotKnown DEF SnapshotsInv
<1>3. RigKnown(rig) /\ rig.config = Restored(Origin.config) /\ rig.meta = Origin.meta
  BY DEF SnapshotsInv, RigInv, RestoredInv
<1>4. call # "restore" => \A p \in Evaluator : Remade(p)
  BY DEF SnapshotsInv, RestoredInv
<1> QED  BY <1>1, <1>2, <1>3, <1>4 DEF RigKnown

\* As long as the build has the rotation sequences the snapshot needs, each part reads
\* what it wrote and the last one ends where the snapshot does, for any DNA,
\* configuration and number of dumps (RigLogicImpl::dump, RigLogic::restore).
THEOREM PartsLoadInStep == Spec => []LoadsInStep
<1>1. SnapshotsInv => LoadsInStep
  <2> SUFFICES ASSUME SnapshotsInv, source # 0, BuildSuffices, call = "load"
               PROVE  /\ aligned
                      /\ pc <= 12 /\ Saves(rig, LoadOrder[pc]) =>
                             /\ position <= Len(archive)
                             /\ archive[position] = [dump |-> source, part |-> LoadOrder[pc]]
                      /\ pc > 12 => position = dumped[source].at[15]
    BY Orders DEF LoadsInStep
  <2>1. /\ source \in 1 .. Len(dumped) /\ Origin = dumped[source].rig
        /\ \A p \in Evaluator : Remade(p)
    BY RestoredRig
  <2>2. aligned /\ position = dumped[source].at[pc + 2]
    BY DEF SnapshotsInv, RestoredInv
  <2>3. pc \in 1 .. 13
    <3>1. pc \in Nat \ {0} /\ pc <= 12 + 1
      BY Orders DEF SnapshotsInv, StateKnown
    <3> QED  BY <3>1
  <2>4. ASSUME pc <= 12, Saves(rig, LoadOrder[pc])
        PROVE  /\ position <= Len(archive)
               /\ archive[position] = [dump |-> source, part |-> LoadOrder[pc]]
    <3>1. pc \in 1 .. 12 /\ pc + 2 \in 1 .. 15 - 1
      BY <2>3, <2>4
    <3>2. SaveOrder[pc + 2] = LoadOrder[pc]
      BY <3>1, Orders
    <3>3. Saves(dumped[source].rig, SaveOrder[pc + 2])
      BY <2>1, <2>4, <3>2 DEF Saves, Remade
    <3>4. SavedUpTo(source, 15)
      BY <2>1, SnapshotKnown DEF SnapshotsInv
    <3> QED  BY <2>2, <3>1, <3>2, <3>3, <3>4 DEF SavedUpTo
  <2>5. pc > 12 => pc + 2 = 15
    BY <2>3
  <2> QED  BY <2>2, <2>4, <2>5
<1> QED  BY <1>1, SnapshotsInvariant, PTL

\* The queue of a restored rig is the one it was restored with.
LEMMA QueueRestored ==
    ASSUME SnapshotsInv, call = "none", source # 0, BuildSuffices
    PROVE  rig.evaluators = Origin.evaluators
<1>1. /\ QueueKnown(Origin) /\ QueueKnown(rig)
      /\ Origin.evaluators \in Seq(Types) /\ rig.evaluators \in Seq(Types)
      /\ \A p \in Evaluator : Remade(p)
  BY RestoredRig DEF SnapshotsInv, RigInv, Rigs
<1>2. Pushing(rig) = Pushing(Origin)
  <2>1. Origin.config \in Settings /\ rig.config = Restored(Origin.config) /\ rig.meta = Origin.meta
    BY RestoredRig DEF Rigs
  <2>2. rig.config.load = Origin.config.load
    BY <2>1 DEF Restored, Settings
  <2> QED  BY <2>1, <2>2, SameQueue
<1>3. \A i \in 1 .. Len(Pushing(rig)) : Pushing(rig)[i] \in Evaluator
  BY QueueEnds
<1>4. \A i \in 1 .. Len(Pushing(rig)) : rig.evaluators[i] = Origin.evaluators[i]
  BY <1>1, <1>2, <1>3 DEF QueueKnown, QueueHolds, Remade
<1>5. /\ Len(rig.evaluators) = Len(Pushing(rig)) /\ Len(Origin.evaluators) = Len(Pushing(rig))
  BY <1>1, <1>2 DEF QueueKnown
<1> DEFINE s == rig.evaluators
           o == Origin.evaluators
<1>6. /\ s \in Seq(Types) /\ o \in Seq(Types) /\ Len(s) = Len(o)
      /\ \A i \in 1 .. Len(s) : s[i] = o[i]
  BY <1>1, <1>4, <1>5
<1> HIDE DEF s, o
<1>7. s = o
  BY <1>6
<1> QED  BY <1>7 DEF s, o

\* The snapshot of a restored rig is the snapshot it was restored from: its queue of
\* types is back in order, the same parts save, and each holds its data.
THEOREM RestoredSnapshotsAgree == Spec => []SnapshotsAgree
<1>1. SnapshotsInv => SnapshotsAgree
  <2> SUFFICES ASSUME SnapshotsInv, call = "none", source # 0, BuildSuffices
               PROVE  /\ \A p \in Part : Saves(rig, p) <=> Saves(Origin, p)
                      /\ rig.evaluators = Origin.evaluators
                      /\ \A p \in Part : rig.part[p].data = Origin.part[p].data
    BY DEF SnapshotsAgree
  <2>1. \A p \in Evaluator : Remade(p)
    BY RestoredRig
  <2>2. \A p \in Part : Saves(rig, p) <=> Saves(Origin, p)
    BY <2>1 DEF Saves, Remade
  <2>3. \A p \in Part : rig.part[p].data = Origin.part[p].data
    BY DEF SnapshotsInv, RestoredInv, Loaded
  <2> QED  BY <2>2, <2>3, QueueRestored
<1> QED  BY <1>1, SnapshotsInvariant, PTL

\* A restored rig is the dumped one, if that does only what the archive and the
\* defaults of the builders determine.
THEOREM RigsRestoredAsDumped == Spec => []RestoredAsDumped
<1>1. SnapshotsInv => RestoredAsDumped
  <2> SUFFICES ASSUME SnapshotsInv, call = "none", source # 0, BuildSuffices,
                      Restorable(Origin)
               PROVE  rig = Origin
    BY DEF RestoredAsDumped
  <2>1. /\ RigKnown(Origin) /\ Origin \in Rigs /\ RigKnown(rig) /\ rig \in Rigs
        /\ rig.config = Restored(Origin.config) /\ rig.meta = Origin.meta
        /\ \A p \in Evaluator : Remade(p)
    BY RestoredRig
  <2>2. rig.config = Origin.config
    <3>1. Origin.config \in Settings /\ Origin.config.floatingPointType = "HalfFloat"
      BY <2>1 DEF Rigs, Restorable
    <3> QED  BY <2>1, <3>1 DEF Restored, Settings
  <2>3. ASSUME NEW p \in Part
        PROVE  rig.part[p] = Origin.part[p]
    <3>1. PartKnown(rig, p) /\ PartKnown(Origin, p)
      BY <2>1 DEF RigKnown
    <3>2. rig.part[p] \in Parts /\ Origin.part[p] \in Parts
      BY <2>1 DEF Rigs
    <3>3. rig.part[p].data = Origin.part[p].data
      BY DEF SnapshotsInv, RestoredInv, Loaded
    <3>4. CASE p \notin Evaluator
      BY <3>1, <3>2, <3>3, <3>4 DEF PartKnown, Parts
    <3>5. CASE p \in Evaluator /\ Origin.part[p].type = "Null"
      <4>1. rig.part[p].type = "Null"
        BY <2>1, <3>5 DEF Remade
      <4>2. rig.part[p] = Null /\ Origin.part[p] = Null
        BY <3>1, <3>5, <4>1 DEF PartKnown
      <4> QED  BY <4>2
    <3>6. CASE p \in Evaluator /\ Origin.part[p].type # "Null"
      <4>1. /\ Origin.part[p].type = "Concrete"
            /\ Made(p, Origin.config.rotationType, Origin.part[p].kernel)
        BY <3>1, <3>6, PartType DEF PartKnown
      <4>2. /\ rig.part[p].type = "Concrete"
            /\ rig.part[p].kernel = DefaultKernel(p, rig.config.rotationType)
        BY <2>1, <3>6, <4>1 DEF Remade
      <4>3. p \in JointEvaluator =>
                LET k == Origin.part[p].kernel
                IN  k.unit \in {"any", "degrees"} /\ ~ k.transforms /\ ~ (p = "mlJoints" /\ k.converts)
        BY DEF Restorable
      <4>4. Origin.config.rotationType \in RotationTypes
        BY <2>1 DEF Rigs, Settings
      <4>5. Origin.part[p].kernel = DefaultKernel(p, Origin.config.rotationType)
        <5> DEFINE k == Origin.part[p].kernel
        <5>1. Made(p, Origin.config.rotationType, k)
          BY <4>1
        <5>2. p \in JointEvaluator =>
                  k.unit \in {"any", "degrees"} /\ ~ k.transforms /\ ~ (p = "mlJoints" /\ k.converts)
          BY <4>3
        <5> HIDE DEF k
        <5>3. k = DefaultKernel(p, Origin.config.rotationType)
          BY <3>6, <4>4, <5>1, <5>2, KernelDetermined
        <5> QED  BY <5>3 DEF k
      <4> QED  BY <2>2, <3>2, <3>3, <4>1, <4>2, <4>5 DEF Parts
    <3> QED  BY <3>4, <3>5, <3>6
  <2>4. rig.part = Origin.part
    <3>1. rig.part \in [Part -> Parts] /\ Origin.part \in [Part -> Parts]
      BY <2>1 DEF Rigs
    <3> QED  BY <2>3, <3>1
  <2>5. rig.evaluators = Origin.evaluators
    BY QueueRestored
  <2> QED  BY <2>1, <2>2, <2>4, <2>5 DEF Rigs
<1> QED  BY <1>1, SnapshotsInvariant, PTL

=============================================================================
