---------------------------- MODULE MCDNADocument ----------------------------
(***************************************************************************)
(* One call on one layer of a new document, or of one that has everything, *)
(* each array of it with elements 1 and each scalar 1; calls assign 2.      *)
(***************************************************************************)
EXTENDS DNADocument

MCIndexLists == {<<0>>, <<0, 1>>}
MCArrayValues == {<<>>, <<2>>}

One == <<1>>
OneMapping == [lods |-> <<1, 0>>, indices |-> <<<<0>>, <<0, 1>>>>]
Filled(record, arrays, scalars) == [f \in arrays |-> One] ++ [f \in scalars |-> 1] ++ record

FullMesh ==
    Filled([EmptyMesh EXCEPT
              !.faces = <<One>>,
              !.skinWeights = <<EmptySkinWeights, Filled(EmptySkinWeights, SkinWeightsArrays, {})>>,
              !.blendShapeTargets = <<Filled(EmptyTarget, TargetArrays, TargetScalars)>>],
           MeshArrays, MeshScalars)

FullLayers ==
    [desc |-> Filled([EmptyDescriptor EXCEPT !.metaData = <<[key |-> "a", value |-> One]>>, !.lodCount = 2],
                     DescriptorArrays, DescriptorScalars),
     dsce |-> Filled(EmptyDescriptorExt, {}, DescriptorExtScalars),
     defn |-> [f \in NameLists |-> <<One>>] ++ [f \in DefinitionMappings |-> OneMapping]
                  ++ Filled(EmptyDefinition, DefinitionArrays, {}),
     bhvr |-> Filled([EmptyBehavior EXCEPT !.jointGroups = <<Filled(EmptyJointGroup, JointGroupArrays, {})>>],
                     BehaviorArrays, BehaviorScalars),
     geom |-> [meshes |-> <<FullMesh>>],
     mlbh |-> [mlControlNames |-> <<One>>, regionNames |-> <<<<One>>>>, regionIndices |-> <<<<One>>>>,
               lodNeuralNetworkMapping |-> OneMapping,
               neuralNetworks |-> <<Filled([EmptyNet EXCEPT !.layers =
                                               <<Filled(EmptyNetLayer, NetLayerArrays, NetLayerScalars)>>],
                                           NetArrays, {})>>],
     rbfb |-> [lodSolverMapping |-> OneMapping, solvers |-> <<Filled(EmptySolver, SolverArrays, SolverScalars)>>,
               poses |-> <<[name |-> One, scale |-> 2]>>],
     rbfe |-> [poseControlNames |-> <<One>>, poses |-> <<Filled(EmptyPoseExt, PoseExtArrays, {})>>],
     jbmd |-> [jointRepresentations |-> <<Filled(EmptyRepresentation, {}, RepresentationScalars)>>],
     twsw |-> [f \in Setups |-> <<Filled(EmptySetup, SetupArrays, SetupScalars)>>],
     mlbe |-> [mlbJoints |-> [f \in MLJointsArrays |-> One],
               mlbTypeData |-> <<[operations |-> <<<<Filled(EmptyOperation, OperationArrays, OperationScalars)>>>>,
                                  lodMLOperationMappings |-> <<OneMapping>>]>>]]

\* A new writer, and one that took a document of a later version over.
MCWriters ==
    [new |-> EmptyDNA,
     full |-> [EmptyDNA EXCEPT !.index = Ids \cup {Unknown}, !.unknown = 1, !.layers = FullLayers]]

\* A later version that no longer has a layer.
MCFiles ==
    {[version |-> 29, present |-> (Ids \ {"mlbe"}) \cup {Unknown}, unknown |-> 1,
      layers |-> [l \in Ids \ {"mlbe"} |-> FullLayers[l]]]}

MCKinds == Ids \cup {"header"}

\* Everything, the data layer that has the kind, and one that does not.
MCMasks ==
    [desc |-> {"All", "Descriptor"},
     dsce |-> {"All", "Descriptor"},
     defn |-> {"All", "Definition", "Descriptor"},
     bhvr |-> {"All", "Behavior", "Geometry"},
     geom |-> {"All", "Geometry", "GeometryWithoutBlendShapes", "Behavior"},
     mlbh |-> {"All", "MachineLearnedBehavior", "Behavior"},
     rbfb |-> {"All", "RBFBehavior", "Behavior"},
     rbfe |-> {"All", "RBFBehavior", "Behavior"},
     jbmd |-> {"All", "JointBehaviorMetadata", "TwistSwingBehavior"},
     twsw |-> {"All", "JointBehaviorMetadata", "TwistSwingBehavior"},
     mlbe |-> {"All", "MachineLearnedBehavior", "Behavior"},
     header |-> {"All", "RBFBehavior", "MachineLearnedBehavior"}]

\* What is done with unknown layers depends on the version, not on the calls.
MCPolicies == [k \in MCKinds |-> IF k = "header" THEN {"Preserve", "Ignore"} ELSE {"Preserve"}]
=============================================================================
