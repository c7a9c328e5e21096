---------------------------- MODULE MCRigSnapshot ----------------------------
(* Rigs that have everything, or all but one thing, and configurations that *)
(* load everything or all but one thing.                                    *)
EXTENDS RigSnapshot

All == Evaluator \cup {"lods", "joints"}

\* no rows without joints, no ML joints without ML types
Has == {All, {}} \cup {All \ {x} : x \in {"lods", "rbf", "bpcm", "quaternion",
                                          "twistSwing", "mlJoints", "blendShapes",
                                          "animatedMaps", "psd"}}
       \cup {All \ {"ml", "mlJoints"}, All \ (JointEvaluator \cup {"joints"})}

MCDnas == [has : Has, sequence : {"xyz"}, rotationUnit : RotationUnits,
           mlRotationType : RotationTypes, mlTransformed : BOOLEAN]

MCConfigs == [load : {Loadable} \cup {Loadable \ {x} : x \in Loadable},
              rotationType : RotationTypes,
              floatingPointType : FloatingPointTypes]

MCBuilds == {{"xyz", "zyx"}, {"zyx"}}
=============================================================================
