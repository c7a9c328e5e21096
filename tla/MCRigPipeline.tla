--------------------------- MODULE MCRigPipeline ---------------------------
(***************************************************************************)
(* A small rig with two LODs.  LOD 1 drops solver s2, one output of the ML  *)
(* operation, a row of group g1, a blend shape and a row of the animated    *)
(* map; group g1 still has the column of b2, the control s2 drives, at LOD  *)
(* 1, where b2 has to be at rest.                                           *)
(***************************************************************************)
EXTENDS RigPipeline

MCGui == {"gc"}
MCRaw == {"r", "rw"}
MCPsd == {"p"}
MCMl == {"m1", "m2"}
MCRbf == {"b1", "b2"}
MCUnitControls == {"rw"}

Curve(in, out, from, to, slope, cut) ==
    [in |-> in, out |-> out, from |-> from, to |-> to, slope |-> slope, cut |-> cut]

MCGuiTable == <<Curve("gc", "r", 0, 1, 1, 0)>>
NoTable == << >>
NoRows == [l \in {0, 1} |-> 0]

MCOpInputs == [o \in {"o"} |-> {"r"}]
MCOpOutputs == [o \in {"o"} |-> <<"m1", "m2">>]
MCOpDefaults == [o \in {"o"} |-> <<1, 1>>]
MCOpMask == [o \in {"o"} |-> "cheek"]
MCOpLODs == [o \in {"o"} |-> {0, 1}]
MCOpOutputCount == [o \in {"o"} |-> [l \in {0, 1} |-> 2 - l]]
MCInfer(o, c, f) == IF c = "m1" THEN f["r"] ELSE IF f["r"] = 0 THEN 1 ELSE 0

MCSolverInputs == [s \in {"s1", "s2"} |-> {"r", "rw"}]
MCSolverOutputs == [s \in {"s1", "s2"} |-> IF s = "s1" THEN {"b1"} ELSE {"b2"}]
MCSolverLODs == [s \in {"s1", "s2"} |-> IF s = "s1" THEN {0, 1} ELSE {0}]
MCSolve(s, c, f) == IF s = "s1" THEN f["r"] * f["rw"] ELSE f["rw"]

MCPsdInputs == [p \in {"p"} |-> {"r", "b1"}]
MCPsdWeight == [p \in {"p"} |-> 1]

Sum(f) == MapThenSumSet(LAMBDA c : f[c], DOMAIN f)

\* One joint per group; jz has no row for its rotation about z.
MCJoints == {"j", "jz"}
MCGroups == {"g1", "g2"}
MCGroupRows ==
    [g \in MCGroups |->
        IF g = "g1"
        THEN [l \in {0, 1} |-> IF l = 0 THEN {<<"j", "t">>, <<"j", "x">>} ELSE {<<"j", "t">>}]
        ELSE [l \in {0, 1} |-> {<<"jz", "x">>, <<"jz", "y">>}]]
MCGroupColumns ==
    [g \in MCGroups |->
        IF g = "g1" THEN [l \in {0, 1} |-> {"p", "b2"}] ELSE [l \in {0, 1} |-> {"r", "m1"}]]
MCLinear(g, a, f) == Sum(f)

\* Stand-in for the conversion of an Euler triple to a quaternion: the origin
\* goes to the identity, and z of the quaternion depends on all three angles.
MCToQuaternion(e, x) ==
    CASE x = "w" -> IF e["x"] = 0 /\ e["y"] = 0 /\ e["z"] = 0 THEN 1 ELSE 0
      [] x = "z" -> IF e["x"] * e["y"] = 0 THEN e["z"] ELSE 1 - e["z"]
      [] OTHER -> e[x]

NoTwist == {}
WithTwist == {<<"j", "y">>}
MCTwist(a, f) == f["rw"]

NoMlJoints == [l \in {0, 1} |-> << >>]
WithMlJoints == [l \in {0, 1} |-> [a \in {<<"j", "z">>} |-> {"m1"}]]
MCCombine(a, joint, f) == joint[a] + Sum(f)
NotTransformed == [l \in {0, 1} |-> {}]
MlTransformed == [l \in {0, 1} |-> {"m1"}]
MCTransform(c, v) == -v

MCBlendShapes == {"bs1", "bs2", "bs3"}
MCBlendShapeRows ==
    <<[in |-> "m1", out |-> "bs1"], [in |-> "b2", out |-> "bs2"], [in |-> "p", out |-> "bs3"]>>
MCBlendShapeLODs == [l \in {0, 1} |-> 3 - l]

MCAnimatedMaps == {"am1", "am2"}
MCAnimatedMapTable == <<Curve("m1", "am1", 1, 2, 1, 0), Curve("b1", "am2", 0, 2, 1, 0)>>
MCAnimatedMapLODs == [l \in {0, 1} |-> 2 - l]

MCValue == -1 .. 1
=============================================================================
