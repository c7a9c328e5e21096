---------------------------- MODULE MCEvaluators ----------------------------
(***************************************************************************)
(* Model checking of MLOperations and JointGroups: the machine learned      *)
(* behavior sets controls, joint groups read them.  Two LODs; many graphs   *)
(* with one set of joint groups, and many joint groups with one graph.      *)
(***************************************************************************)
EXTENDS MLOperations, JointGroups

CONSTANTS RawValues,    \* what raw controls are set to
          MaskValues,
          MaxCalls,     \* operations evaluated one at a time
          MaxChanges    \* settings of controls and masks

VARIABLES built,
          calls,     \* history: the operations evaluated one at a time
          changes    \* history: how often controls and masks were set

mcVars == <<mlVars, jointVars, built, calls, changes>>

Op(kind, params, deps) == [kind |-> kind, params |-> params, deps |-> deps]
OpSet(ops, first, second) == [ops |-> ops, lods |-> <<first, second>>]
NetLayer(biases, weights, relu) == [biases |-> biases, weights |-> weights, relu |-> relu]

\* Networks 1 and 2 feed two sums, one of which runs at LOD 2 too; network 4 has
\* fewer rows there; network 5 has no layers.
Nets(deep) ==
    <<  <<NetLayer(<<0, 1, 0>>, <<1, 2, -1>>, TRUE)>>,
        <<NetLayer(<<1, 0, 0>>, <<1, 1, 0, 2, 1, -1>>, TRUE),
          NetLayer(<<0, 1>>, <<1, 0, 1, 0, 2, 1>>, FALSE)>>,
        <<NetLayer(<<0>>, <<1, 1>>, FALSE)>>,
        (IF deep THEN <<NetLayer(<<0, 0>>, <<0, 1, 1, 0>>, FALSE)>> ELSE <<>>)
          \o <<NetLayer(<<0, 1, 2, 3, 4>>, <<1, 0, 0, 1, 1, 1, 2, 0, 0, 2>>, FALSE)>>,
        <<>> >>

\* Optional parts: a set without networks in the middle, which moves those behind
\* it up, and an operation at the end of a set that is not built.
MLFile(empty, skipped, deep, regions) ==
    LET s == IF empty THEN 3 ELSE 2
        inputs == OpSet(<<Op("Gather", <<1>>, <<>>), Op("Gather", <<1, 2>>, <<>>)>>,
                        <<1, 2>>, <<2>>)
        none == OpSet(<<Op("MLP", <<5>>, <<>>)>>, <<>>, <<>>)
        nets == OpSet(<<Op("MLP", <<1>>, << <<1, 1>> >>), Op("MLP", <<2>>, << <<1, 2>> >>)>>
                        \o (IF skipped THEN <<Op("MLP", <<5>>, <<>>)>> ELSE <<>>),
                      <<1, 2>>, <<2>>)
        sum == OpSet(<<Op("WeightedSum", <<2, 1, 2>>, << <<s, 1>>, <<s, 2>> >>),
                       Op("WeightedSum", <<2, 3>>, << <<s, 2>> >>)>>, <<1, 2>>, <<2>>)
        last == OpSet(<<Op("MLP", <<3>>, << <<s + 1, 1>> >>),
                        Op("MLP", IF deep THEN <<4, 2, 2, 5, 3>> ELSE <<4, 5, 3>>,
                           << <<s + 1, 2>> >>)>>, <<1, 2>>, <<2>>)
        outputs == OpSet(<<Op("Scatter", <<8>>, << <<s + 2, 1>> >>),
                           Op("Scatter", <<3, 4, 5, 6, 7>>, << <<s + 2, 2>> >>)>>,
                         <<1, 2>>, <<2>>)
        small == << OpSet(<<Op("Gather", <<3, 8>>, <<>>)>>, <<1>>, <<1>>),
                    OpSet(<<Op("MLP", <<3>>, << <<1, 1>> >>)>>, <<1>>, <<1>>),
                    OpSet(<<Op("Scatter", <<9>>, << <<2, 1>> >>)>>, <<1>>, <<1>>) >>
    IN  [types |-> << <<inputs>> \o (IF empty THEN <<none>> ELSE <<>>)
                          \o <<nets, sum, last, outputs>>, small >>,
         nets |-> Nets(deep), regions |-> regions, lodCount |-> 2,
         mlJoints |-> [inputs |-> <<3, 4, 5, 6>>, outputs |-> <<3, 4, 5, 6>>,
                       quaternions |-> TRUE]]

\* Networks belong to no region, to two regions of a mesh, or to one of each mesh.
MLFiles == {MLFile(FALSE, FALSE, TRUE, <<>>),
            MLFile(FALSE, TRUE, FALSE, << <<{4}, {1, 3}>> >>),
            MLFile(TRUE, FALSE, TRUE, << <<{2}>>, <<{2, 4}>> >>)}

FirstMLFile == MLFile(FALSE, FALSE, FALSE, <<>>)

-----------------------------------------------------------------------------
(* Joint groups.  Joints 0 and 1 rotate by Euler angles, 2 to 6 by quaternions. *)

WideAttributes == <<0, 3, 4, 5, 6, 9, 12, 14, 17>>
QuaternionAttributes == <<21, 30, 31, 39, 48, 57>>

\* Rows in zero are empty, and input c has no effect above row starts[c].
Rows(attrs, starts, zero) ==
    [r \in DOMAIN attrs |->
        [attr |-> attrs[r],
         cells |-> [c \in DOMAIN starts |->
                       IF r \in zero \/ r < starts[c] THEN 0 ELSE ((r + c) % 3) + 1]]]

Group(rows, atSecond) == [inputs |-> <<1, 2, 3>>, rows |-> rows, lods |-> <<Len(rows), atSecond>>]

\* LOD 2 takes first rows of Euler angles and second rows of quaternions.
Rig(starts, zero, first, second, merged, quaternions) ==
    LET wide == Rows(WideAttributes, starts, zero)
        blended == Rows(QuaternionAttributes, starts, zero)
    IN  [joints |-> [j \in 0 .. 6 |-> [kind \in 0 .. 2 |->
                        IF kind # RotationKind THEN "vector"
                        ELSE IF j < 2 THEN "euler" ELSE "quaternion"]],
         groups |-> IF merged THEN <<Group(blended \o wide, second + first)>>
                    ELSE <<Group(wide, first), Group(blended, second)>>,
         quaternions |-> quaternions]

\* LODs hold the rows of a joint together.
Rigs == {Rig(starts, zero, first, second, merged, quaternions) :
            starts \in {<<1, 1, 1>>, <<6, 1, 3>>, <<1, 6, 20>>, <<20, 20, 20>>},
            zero \in {{}, {2, 3, 4}, {4, 9}}, first \in {0, 5}, second \in {0, 1, 4},
            merged, quaternions \in BOOLEAN}

\* What goes with all graphs: one group that rotates joint 0.
FirstRig ==
    [joints |-> [j \in {0} |-> [kind \in 0 .. 2 |->
                    IF kind = RotationKind THEN "euler" ELSE "vector"]],
     groups |-> << [inputs |-> <<3>>, rows |-> << [attr |-> 3, cells |-> <<2>>] >>,
                    lods |-> <<1, 1>>] >>,
     quaternions |-> TRUE]

-----------------------------------------------------------------------------

Controls == 1 .. 9
LODs == 1 .. 2

NoPruning == [kind \in 0 .. 2 |-> 0]

\* What the other rigs are calculated with.
GivenControls == [c \in Controls |-> c]

MCInit ==
    /\ built = FALSE /\ calls = <<>> /\ changes = 0
    /\ \/ /\ file \in MLFiles
          /\ rig = FirstRig
          /\ controls = [c \in Controls |-> IF c = 2 THEN 1 ELSE 0]
       \/ /\ file = FirstMLFile
          /\ rig \in Rigs
          /\ controls = GivenControls
    /\ evaluator = <<>> /\ instance = <<>> /\ storage = <<>> /\ attributes = <<>>

Build == BuildBehavior /\ BuildJoints /\ ~built /\ built' = TRUE /\ UNCHANGED <<calls, changes>>

CalculateRig(l) ==
    /\ built
    /\ UNCHANGED <<built, calls, changes>>
    /\ Calculate(l)
    /\ CalculateJoints(controls', l)

\* Bound: at most MaxCalls operations one at a time.
OneOperation(t, id, l) ==
    /\ Len(calls) < MaxCalls
    /\ id[2] \in DOMAIN evaluator.types[t].sets[id[1]].ops
    /\ calls' = Append(calls, <<t, id>>)
    /\ CalculateOperation(t, id, l)
    /\ UNCHANGED <<jointVars, built, changes>>

\* Bound: at most MaxChanges settings.
OneSetting ==
    /\ changes < MaxChanges
    /\ changes' = changes + 1
    /\ UNCHANGED <<jointVars, built, calls>>
    /\ \/ \E v \in RawValues : SetControl(1, v)
       \/ \E r \in 1 .. 2, v \in MaskValues : SetMask(r, v)

RestoreRig == Restore /\ UNCHANGED <<jointVars, built, calls, changes>>

\* Bound: rigs but the first are only calculated, with the controls they are given.
OfFirstRig ==
    /\ built
    /\ rig = FirstRig
    /\ \/ OneSetting
       \/ \E t \in DOMAIN evaluator.types, l \in LODs :
              \E s \in DOMAIN evaluator.types[t].sets, o \in 1 .. 2 : OneOperation(t, <<s, o>>, l)
       \/ RestoreRig

MCNext == Build \/ (\E l \in LODs : CalculateRig(l)) \/ OfFirstRig

Spec == MCInit /\ [][MCNext]_mcVars

-----------------------------------------------------------------------------
(* Properties. *)

\* Calculating a LOD sets the controls to what the graph of the file says, whatever
\* was calculated before, at which LOD and with which masks, and after a restore:
\* buffers that still hold the results of other calls are never read.
EvaluatesGraph ==
    [][\A l \in LODs : CalculateRig(l) =>
           controls' = GraphControls(file, controls, instance.masks, l)]_mcVars

\* An operation writes its own part of the work buffer and the controls that are
\* scattered from it, although networks compute whole blocks of rows.
OwnBufferOnly ==
    [][calls' # calls =>
            LET t == Last(calls')[1]
                id == Last(calls')[2]
                type == evaluator.types[t]
                start == Start(evaluator, instance, t, id)
                own == start + 1 .. start + type.bufferSizes[id[1]][id[2]]
            IN  /\ Len(instance'.work) = Len(instance.work)
                /\ \A i \in DOMAIN instance.work \ own : instance'.work[i] = instance.work[i]
                /\ type.sets[id[1]].kind = "WeightedSum" => controls' = controls]_mcVars

\* Calculating the joint groups of a LOD gives every attribute what the rows of the
\* file give it at that LOD, and every rotation in the form that is asked for: rows
\* past the LOD in its last block are not stored, columns that were moved or purged
\* have no effect there, and the rotations converted are those of the LOD.
JointGroupsMultiply ==
    [][\A l \in LODs : CalculateRig(l) => attributes' = JointsOfFile(controls', l)]_mcVars
=============================================================================
