# TLA+ models of OpenRigLogic

OpenRigLogic evaluates facial and body rigs. A rig is described by a DNA file; `RigLogic` is built
from it once (or restored from a snapshot), and any number of `RigInstance`s are driven with it,
frame by frame: the caller sets controls and a level of detail (LOD), asks for an evaluation, and
reads joint deltas, blend shape weights and animated map values.

This directory holds TLA+ modules of that program, TLC configurations that check them on small
instances - rigs, streams, files - and theorems that TLAPS checks for every instance.

    tlc -workers 2 -config RigPipelineControls.cfg MCRigPipeline.tla
    tlapm RigPipelineProofs.tla

## Inventory

Paths are below `src/`; `include/` holds the public headers of each library.

| component | state | operations | interacts with |
|---|---|---|---|
| rig instance, `riglogic/riglogic` | current LOD; owns one instance of each stage's buffers | `setGUIControl`, `setRawControl`, mask view, `setLOD`, `calculate` and one call per stage | all stages |
| controls, `riglogic/controls` | GUI buffer; input buffer = raw + PSD + ML + RBF controls; initial values; controls registered per LOD | `mapGUIToRaw`, `mapRawToGUI`, `resetInputBuffer`, `registerControls` | every stage reads or writes the input buffer |
| conditional tables, `riglogic/conditionaltable` | rows, interval skip map, range map (immutable) | `calculateForward`, `calculateReverse` | controls, animated maps |
| PSD net, `riglogic/psdnet` | clamp buffer; PSDs and the inputs and outputs of each LOD | `calculate` | reads and writes the input buffer |
| machine learned behavior, `riglogic/ml` | masks, work buffers; operation sets, LODs | all operations of a LOD, or one | reads raw, writes ML controls |
| RBF behavior, `riglogic/rbf` | solver scratch buffers; solvers per LOD | all solvers of a LOD, or one | reads raw, writes RBF controls |
| joints, `riglogic/joints` | output buffer; block-linear (BPCM), quaternion, twist/swing and ML evaluators | `calculate`, one joint group | reads all controls, ML joints also write them |
| blend shapes, animated maps | output buffers | `calculate` | read the input buffer |
| metadata, `riglogic/riglogic` | counts, configuration, queue of evaluator types | `create`, `dump`, `restore` | factories push, restore pops in order |
| trio streams, `trio` | an array; `std::fstream` with a position and a size of the stream's own; a view of a mapped file | open, close, read, write, copy from and to streams, seek, resize, flush | dump, restore, archives |
| pma, `pma` | arenas and the free pointer | allocate, deallocate | every container |
| status, `status` | thread-local code, message and hook; registry of codes | set, get, hook | streams, DNA |
| terse archives, `terse` | position in a stream or a text buffer; pending offsets and sizes; malformed, first member, transparent | load and save any object, by version | dump, restore, DNA |
| DNA documents, `dna` | eleven layers, index of the file, unknown layers, cache of derived data | getters, setters, `setFrom`, `write`, `read`, `unload` | archives, factories |
| DNA filters, `dna/filters` | LOD constraint, and a mapping of indices for each kind of element | load layer by layer, keeping some LODs | archives, DNA documents |

The library starts no thread and schedules nothing: every step is a call by its user. What is hard
about it is *order and staleness*. All stages share one input buffer per instance, each stage is a
public call, each one touches only what the current LOD names, and the buffers survive from frame
to frame. Whether an evaluation is right depends on what earlier calls, LODs and masks left. The
correctness of each component, and how it can go wrong, is the list of hazards in `PROJECT.json`;
the main ones are

* controls and outputs: nothing of another LOD is left where the current LOD or the caller reads it;
* `calculate`: a complete evaluation, whatever was called before;
* joint groups: calculated one by one, in any order or by several threads, they yield what the
  whole stage yields;
* conditional tables: each curve counts once, and the reverse mapping inverts the forward one;
* snapshot: a restored rig evaluates as the dumped one did, and reads the archive in step;
* machine learned operations and joint groups: what is compiled to shared buffers and padded blocks
  gives, in any order of calls, what the graph and the matrices of the file say;
* streams: bytes are read back where they were written, whatever the mix of reads, writes and seeks;
* archives: what was saved is loaded, and a text that is damaged is noticed;
* documents: what was set is shown after writing and reading, in every version, and by every copy;
* filters: an index that is rewritten names the element it named in the file;
* arena: blocks do not overlap, are aligned, and go back upstream with the size they came with.

## Modules

### The rig

* `ConditionalTable` - the algorithms of `ConditionalTable.cpp` as operators: the skip map, the
  forward loop (as the set of rows that contribute, a recursive function over the rows), the
  grouping by interval and the reverse search. `CurveTables` grows every table row by row and says what
  it means: which curves it holds, and what they are worth. `MCConditionalTable` gives the segments of
  which the rows are made, one of them in reverse order; `CurveTablesProofs` has the theorems.
* `RigPipeline` - one `RigInstance` and one `RigLogic`. Variables are the buffers of the instance
  (`gui`, `input`, `clamp`, `masks`, `joints`, `blendShapes`, `animatedMaps`) and its `lod`; there
  is one action per call that changes one of them. A stage is an operator from buffers to the
  buffer it writes (`MLStage`, `RBFStage`, `PSDStage`, `GroupStage`, ...), so that `Calculate` composes
  the operators the single-stage actions use, in the order of `RigLogicImpl::calculate`.
  `MCRigPipeline` is a rig with two LODs; `RigPipelineProofs` has the theorems.
* `PaddedBlocks` - how the vectorized evaluators cut a matrix into blocks and pad it, and what a loop
  over the blocks computes for a LOD that ends inside one.
* `MLOperations` - the graph of machine learned operations as the file has it (gathers, scatters,
  networks, weighted sums with dependencies) is compiled by the factory to networks and sums over
  one work buffer, and evaluated set by set, or one operation at a time, at a LOD and with masks. It
  details what `RigPipeline` has as `MLStage` and `Infer`. Beside it stands what the graph means,
  without buffers, offsets or padding.
* `JointGroups` - joint groups as the file has them are filtered, defragmented, laid out in blocks and
  multiplied, as Euler angles or as quaternions. It details `GroupStage` and `Linear`. `MCEvaluators`
  composes the two: operations set controls that joint groups read.
* `RigSnapshot` - `RigLogic::create`, `dump` and `restore` on one stream. A step of `create` or
  `restore` is one factory: it pushes the type of its evaluator (`Null` or `Concrete`) to the queue of
  the metadata, and on restore takes one from the front first. A step of `dump` is one part that saves.
  The archive is a sequence of chunks, one for what each part saves; a part that reads the chunk of
  another one reads garbage from then on (`aligned`). `dumped` keeps each dumped rig and where each of
  its parts was saved. Several rigs may be dumped to the stream and restored from anywhere in it, by builds
  that lack rotation orders. `MCRigSnapshot` gives rigs that have, and configurations that load,
  everything or all but one thing; `RigSnapshotProofs` has the theorems.

### Below and beside the rig

* `Arena` - `ArenaMemoryResource`. `request` is the call of `allocate` under way: it is served from the
  current region (`Serve`), or a region is obtained and the allocation is retried (`Grow`), which is
  the recursion in the code. Upstream is external: it returns any memory apart from what it has
  handed out (`Available`). `MCArena` fixes addresses and a growth factor of 2; `MemoryProofs` has the
  theorems.
* `BoundedStream` - the abstract specification of a stream: bytes, a position, and one action per call
  of the interface. `MemoryStream`, `FileStream` and `MappedFileStream` are the implementations of
  `trio`, each with its own `Stream` instance of the contract; `StreamCalls` holds what callers pass.
  `std::fstream` is external in `FileStream`, the mapping calls of the system in `MappedFileStream`,
  where a read or write is cut into chunks with a new view in between, and any of these calls
  may fail. `MCStreams` runs the three against one contract. `StreamsProofs` and, for mapped
  streams, `MappedFileStreamProofs` prove that each of them implements it, and what `MCStreams` composes does.
* `ArchiveTypes`, `JSONText`, `JSONOutputArchive`, `JSONInputArchive`, `BinaryArchive`, `Archives` - the
  `terse` library. A type is a tree of the kinds of values that `process()` has overloads for; an
  archive maps objects to text or bytes and back, with its stream buffer, flags, offsets, sizes and
  anchors. `Archives` saves, damages and loads; `MCArchives` has a file like a DNA file and a
  document of every kind of member.
* `ArchiveMarkers` - offsets, sizes and anchors point at the proxies that fill them in, and the proxies
  at them; both are moved about, and each move tells the other side. `MemoryProofs` has the
  theorem.
* `LODMapping`, `DNAFilter` - a file is loaded layer after layer by `FilteredBinaryInputArchive` under a
  LOD constraint, a choice of layers and a policy for unknown ones. Each step filters and remaps what
  the layer holds, with the filters of `dna/filters`. `MCDNAFilter` makes files with three LODs.
* `DNALayers`, `DNADocument` - the layers of a document with their setters, getters and copies, and the
  document between writers, files and readers: `write`, `read`, `unload`, `setFrom` getter by getter
  or raw. `MCDNADocument` gives a new document and a full one; `DNADocumentProofs` has the theorems.

A snapshot is taken of what `create` built, which no call on an instance changes; every container may
take its memory from an arena; archives work on any bounded stream. So these parts are checked on
their own, each against what it promises to its callers. The per-LOD tables which the assumptions of
`RigPipeline` speak about are those that `DNAFilter` leaves.

### Abstractions and assumptions

`RigPipeline` - a control takes integer values, 1 standing for 1.0f; networks (`Infer`), RBF solvers
(`Solve`), joint group products (`Linear`), twist and swing (`Twist`), rotation conversions
(`ToQuaternion`), composition with ML joints (`Combine`) and the change of coordinate system
(`Transform`) are constant operators, since the properties are about which buffer entries they read
and write, and when. ML operations have no dependencies on each other; those are in `MLOperations`.
The order in which the LOD's rows appear in a group is abstracted to the set `GroupRows[g][l]`.
What the model assumes of a rig is stated as named assumptions, which TLC evaluates on every run.
`MLAssumption` and `RBFAssumption` say that operations and solvers read raw controls and own what they
write, `PSDAssumption` that PSDs do not read PSDs, `JointsAssumption` that joint groups own their
joints, and `LODAssumption` that a control which a LOD uses is written by every evaluation of the
LOD's operations or by none. None of them is enforced by the code; rig files are built so.

`MLOperations`, `JointGroups` - small integers stand for floats, activations are linear or ReLU. A
rotation is known by three angles, and blending rotations adds them, so that the order in which
quaternions are multiplied does not show. Graphs and matrices are those the factories handle:
dependencies name operations of earlier sets that run at the same LODs, a scatter has one, a gather
has none beside its controls; networks that others depend on keep all their rows at every LOD;
skipped operations come last in their set; sizes fit `Width`. The rows of a joint are contiguous, and
whole at each LOD; the rotation rows of a joint are in one group; no LOD has more rows than the one
before; no cell is pruned. What happens otherwise is listed under the disagreements below.

`RigSnapshot` - the contents of a part are `empty`, `built` or `garbage`; of the configuration and the
DNA it keeps what the factories decide on or what the archive leaves out. What an evaluator does with
rotations is its `kernel`: whether it converts between representations or transforms ML controls, and
in which unit. `Supported` stands for the strategy factories, one branch per rotation order that the
build has.

Streams - a byte is 0 or 1, callers write 1, 0, 1, ..., and new space is 0. Four conditions name what
the run excludes, each a constant that is `FALSE` in it: a mapping that fails where the code does not
look (`Unhandled`), a source with fewer bytes than the write asks for (`ShortSources`), a resize that
cuts a mapped file before the position or comes on a closed stream (`Careless`), and a copy that is
larger than the copy buffer or the file (`LargeCopies`).

Archives - a number, a member's name and a letter are one character of a text; a word has two bytes;
white space is left out. Strings contain no quotes, since the writer escapes nothing. A text may be
cut at any character, a binary file is complete, since the binary reader's `isOk()` is always true.
An object is loaded into a new one.

DNA filters - files are consistent: indices are in range, a LOD is listed once in a request, each
channel has one row, the extension layer of the RBF behavior is there (`RequestsAssumption`). Layers
speak of the same elements: a joint has one parent and one representation, a twist or swing moves at
least one joint, a mesh has its number, and an operation depends on operations of earlier sets, which
the LODs that have it have too (`DependentsAssumption`). `ChannelsInOrder` says that the channels and
animated maps of each LOD are the first ones.

DNA documents - arrays are empty or hold one value. `SetFrom` and `RawCopy` follow a `Read` directly;
`CanPopulate` excludes documents without the arrays that a reader subscripts when it derives its
cache, `CanShowAll` those whose LOD mappings are shorter than the getters take them to be, `attached`
loads into a container whose document is gone, and `lods` a document with more LODs than the one
loaded before, to which the archive's constraint was clamped. Coordinate systems are not converted, and the JSON format is left out here.

## Runs

| run | result | bounds | shows |
|---|---|---|---|
| `ConditionalTable` | holds | all tables of at most 3 rows over 2 inputs, 2 outputs and 6 segments, inputs -1..2 | `ForwardIsSumOfCurves`, `ReverseInverts` |
| `RigPipelineControls` | holds | 1 GUI, 2 raw, 1 PSD, 2 ML, 2 RBF controls, 2 LODs, levels 0..2, blend shapes and maps | `TypeOK`, `AtRest`, `CalculateIsComplete` |
| `RigPipelineJoints` | holds | the same controls, 2 joint groups, twist and ML joints, Euler angles | `OffLODOutputsNeutral`, `CalculateIsComplete`, `GroupMatchesStage` |
| `RigPipelineQuaternions` | violated | as above with quaternion outputs | a group on its own depends on the previous frame |
| `Evaluators` | holds | 3 graphs, 240 rigs of joint groups, 2 LODs, lanes of 2 values, 1 single operation, 2 settings of controls or masks | `EvaluatesGraph`, `OwnBufferOnly`, `JointGroupsMultiply` |
| `RigSnapshot` | holds | 13 sets of features, 7 sets of loaded parts, both rotation types and units, both floating point types, ML joints as is or transformed, 2 dumps, 2 builds | `LoadsInStep`, `RestoredAsDumped`, `SnapshotsAgree` |
| `Arena` | holds | sizes 0, 1, 3, 7, alignments 1 and 4, regions of 8, 4, 8, ... bytes at 16 places, 3 blocks | `TypeOK`, `BlocksApart`, `RegionsReturned`, `AllocationReturns` |
| `Streams` | holds | 3 kinds, both platforms, files of at most 4 bytes, pages of 2, mappings of at most 3 bytes, calls for 0, 1 and 3 bytes, faults in 4 system calls | `TypeOK`, `InStep`, `AccessInView`, `ViewInFile`, `ImplementsStream`, `CallReturns` |
| `Archives` | holds | stream buffers of 4 characters, blocks of 2 numbers, 2 versions, 2 markers and an anchor in 4 slots, 2 proxies | `LoadsWhatWasSaved`, `OkMeansWhole`, `ProxyFollowsMarker` |
| `DNAFilter` | holds | 3 LODs, 3 joints and 2 of everything else, 3 sets of operations, 8 LOD constraints, several layer masks, both policies | `NothingThrown`, `LODsKeepElements`, `RowsKeepElements`, `MeshesKeepElements`, `SkinSumsToOne`, `JointsKeepElements`, `OperationsKeepDependencies` |
| `DNAFilterChannels` | violated | as above, with channels in any order | a mesh's targets name channels that are not theirs |
| `DNADocument` | holds | 10 file versions, one call on a new or a full document, 4 operations, subscripts and LODs 0 and 1 | `TypeOK`, `ReadShowsWritten`, `UnloadTakesDependents`, `CopyShowsSource`, `RawCopyKeepsLayers`, `RawCopyAddsNothing` |

Two LODs suffice for anything that one LOD leaves to another, and each kind of control, mask, row
and output that differs between LODs occurs in the rig of `MCRigPipeline`: a solver, an operation
output, a joint row, a blend shape and a map row that only LOD 0 has, and a joint group column of
LOD 1 whose control only LOD 0 drives. Three rows suffice for a curve of two segments beside another
curve, in any order, and for two intervals of one input. `Levels` includes a level that does not
exist. Two dumps suffice for a snapshot that is not the first of its stream, for a restored rig that
is dumped again and for its snapshot to be restored. Three blocks of those sizes fill a region, leave
one unused and need one of the second size. `InputValues` bounds what a caller stores, `MaxDumps`,
`MaxBlocks` and `Addresses` are the other bounds.

The rigs of `MCEvaluators` have matrices that end before, at and after half a block and a whole one;
the graphs have a set without networks, operations that are not built or run at one LOD only, a
network with fewer rows at the other LOD and one without layers. A file of four bytes has two pages, so that a call of three bytes crosses a page
whatever its position, and a mapping of at most three bytes cannot show the whole file. The texts of
`MCArchives` are longer than the stream buffer, and its stream is empty or holds a longer file. Three
LODs suffice to drop the first, the middle or the last; the constraints are all sets of them and a
range that goes beyond them. With 10 versions, every layer and every extension of one occurs as known, missing and unknown.
A document is filled or new, so that one call on it is enough to make a file that has, or lacks, one
thing; `Rows` lets a call leave a gap before what it sets.

The state spaces are searched completely. `CHECK_DEADLOCK FALSE` is used where a table is full, an
arena has been destroyed, a file has been loaded, or a bound on operations has been reached.

Each property of a run that holds is refuted when the definition that `mutants` names is replaced
by its faulty variant (`SetLODKeepingInput`, `CalculatePSDFirst`, `RemainingOfInput`, ...), which
stands next to the definition in the module.

Fairness is assumed in two places. In `Arena`, of `Serve` and `Grow`: a call of `allocate` that has
begun runs until it returns, and nothing else runs in between, since an arena is not shared between
threads. In `Streams`, of `Proceed`: a read or write of a mapped stream that has begun goes on from
chunk to chunk. Callers need not call anything. The liveness properties `AllocationReturns` and
`CallReturns` say that the retries and the chunks end; upstream always has memory within the bounds of
the run, and the system may map less than was asked for, or nothing where the code looks for it.
Elsewhere the library makes no progress of its own, and what an evaluation guarantees is stated as an
invariant or as a property of the step.

### Disagreements with the documentation, and limits of the code

The first two are what the runs that are violated show. The others were met while modelling; they are
why a run has the assumption that is named with them.

Rig:

* `RigLogic.h` offers `calculateJoints(instance, jointGroupIndex)` as a way to split
  `calculateJoints(instance)` over threads. With quaternion outputs it reads components of the
  quaternion an earlier call left as angles, for joints with fewer than three rotation rows
  (`RigPipelineQuaternions`); a caller cannot reset the buffer other than by `setLOD`.
* A LOD constraint renumbers meshes and joints but leaves the channel indices of blend shape targets,
  and the output indices of blend shapes and animated maps, as the file has them
  (`DNAFilterChannels`; `FilteredBinaryInputArchive.cpp:205-234, 326`). If the kept channels are not
  the first ones, they name others. Line 480 bounds the index of a control off by one.
* `ConditionalTable.cpp:173` says that comparing ranges gets "the original input values back". It does
  not when the outputs that distinguish an interval are zero: with o1 = a on [0, 1], o1 = -a on [-1, 0]
  and o2 = a on [0, 1], the input a = -1 gives o1 = 1, o2 = 0, which no other input gives; both ranges
  count one solution and the first one wins (lines 166, 189). `ReverseInverts` is about tables whose
  curves have one segment.
* `calculateJoints` is documented to calculate only joint outputs, and converts ML controls in place
  where ML joints are in another coordinate system.
* `calculateRBFControls(instance, solverIndex)` and the same call for ML operations ask only that
  the index exists; evaluated outside its LOD, one leaves controls behind that a later `calculate`
  reads. All runs, and two theorems, assume `CallsFollowLOD`.
* `restore` is documented to load the dumped state back; what the archive does not hold is lost: the
  rotation unit, the floating point type, and the rotation type and coordinate system of ML joints,
  which choose the evaluator before the archive is read. `RestoredAsDumped` holds for rigs that do
  not depend on these (`Restorable`). The two properties that do not need `Restorable` assume, as it
  does, that the build supports what the snapshot contains: with a build that lacks the rotation
  order, the archive is read out of step.

Machine learned operations and joint groups (`CPUMachineLearnedBehaviorFactory.cpp`,
`BPCMJointsBuilder.cpp`):

* An intermediate network with fewer rows at a LOD leaves the rest of its outputs from an earlier
  evaluation to the operations that depend on it (341-345); a count for a single layer and a single
  LOD is ignored (243, 259).
* Operations that are skipped while compiling move the later ones of their set to other indices than
  the dependencies name (309); dependencies of a kind that is not handled leave weights and outputs
  out of line; a gather that also has dependencies gathers its controls only; a second dependency of a
  scatter overwrites the first.
* A layer of more than 32767 rows gets a work buffer of a truncated size (357); a scatter with more
  parameters than rows writes past its defaults (157-161).
* Interleaved rows of joints break the prefix of rotation joints at a LOD (410). Moving columns while
  defragmenting changes the order in which quaternions multiply, so that the result at LOD 0 depends
  on which LODs were loaded.

Streams:

* On Unix, a mapping that fails is `MAP_FAILED`, which the check for null lets pass
  (`MemoryMappedFileStreamUnix.cpp:262`; `Unhandled`). A seek to a page boundary at the end of the
  file maps nothing. Reopening an empty file keeps the old position.
* A file stream copies in chunks of 4096 bytes and returns the size of the last one, where
  `Concepts.h:30` promises the number of bytes written; past the end it writes a whole chunk
  (`LargeCopies`). After the end of the file, it refuses all calls until it is opened again.
* Writing from a source that ends early never returns (`MemoryMappedFileStreamUnix.cpp:329`;
  `ShortSources`).

Archives:

* The overloads for bytes and characters do not look whether the text is malformed: a byte read
  after the damage is 0, and only `isOk()` tells. Whatever stands between two elements is taken for a
  comma. A transparent object that is not a struct makes the next struct transparent.
* Reading an empty array leaves the destination's old elements, which the DNA readers below run into.
* An unknown layer sets its size from the index even when it is saved. Assigning a marker over another
  one does not tell the proxy of the latter, and the assignment of proxies leaves the old pointers to
  the source's destructor. The library does either only where there is no such proxy, which is the
  guard of `MoveAssign`.

DNA documents:

* A second `read`, or a raw `setFrom`, of a file with an empty array keeps the old array, so that a
  LOD mapping, for one, names lists that are not there any more. The model loads as the code does;
  `ReadShowsWritten` and `RawCopyKeepsLayers` are about the layers that are clean of this (`Clean`).
* `unload` of everything, or of the descriptor, assigns a temporary whose containers stay pointed at
  (`BinaryStreamReaderImpl.cpp:102`, `JSONStreamReaderImpl.cpp:53`); the next `read` uses what no longer
  exists (`attached`). `unload` of a combination of layers does nothing. A load clamps the reader's LOD
  constraint for good (`lods`).
* The cache of derived data is not reset by a second load: implied operations are repeated. It
  subscripts rows of RBF poses by solver, rows of animated maps by name, and divides by the number of
  ML joint attributes, which may be 0.
* `Writer.h:33` says that `setFrom` "copies all the data". It leaves the LOD mappings of networks and
  solvers that the target has, and pose control names; geometry without vertices, trailing types and
  sets without operations are not copied; lists of indices are entered once. `CopyShowsSource` is
  about the layers that are `Preserved`.
* Files below version 2.1 are read by the latest serializer, and have none of its layers.

Memory:

* `ArenaMemoryResource.h:31` lists the sizes of regions; when the unused first region is discarded
  (`ArenaMemoryResource.cpp:104`), the code takes the next one for the first additional region once
  more (line 79). A request larger than `regionSize` that meets this state is retried for ever,
  whatever the growth factor; `Serviceable` is the condition under which `AllocationReturns` holds.

## Theorems

`CurveTablesProofs` proves, for any numbers of inputs, outputs and rows and any segments of whole numbers
(`SegmentsAssumption`, `InputValuesAssumption`):

* `ForwardSumsCurves`: `ForwardIsSumOfCurves`, at every LOD. The loop jumps from a row that contributes
  over the rows that the skip map counts; the specification looks at whole curves. Both are reduced to
  which rows are `Joined`, all rows from one to the other being of one curve: the rows that the loop
  takes are those that are hit before any row they are joined to (`LoopTakesFirst`, since the recursion of
  the loop has one solution), and those are the first hits of the curves (`FirstOfCurveIsFirstHit`, since
  every row is in the curve `CurveOf` it).
* `ReverseFindsInputs`: `ReverseInverts`, for tables that are `WellFormed`, with curves of one segment. If an
  output of an input is not 0, the interval that wins has a row that the output speaks for, so it holds
  the input, which any of its rows gives back (`DrivenInputFound`). If all are 0, no interval has any
  `Evidence`, so the first wins, which holds the neutral and gives it back (`IdleInputFound`).

`RigPipelineProofs` proves, for every rig that satisfies the assumptions of `RigPipeline`:

* `TypeCorrect`: `TypeOK` is inductive. The work is in the stages, each of which yields a control
  buffer of values: a masked operation indexes its defaults within their length, for example.
* `DrivenAtRest` (`CallsFollowLOD`): `AtRest`, from `TypeOK` and itself. A stage writes only controls
  the LOD drives; a LOD switch resets all computed controls; the in-place transformation of an
  undriven ML control keeps its resting value (`JointsAssumption`).
* `CompleteEvaluation` (`CallsFollowLOD`): `CalculateIsComplete`. `AtRest` is the reason why: the
  controls that the stages of a LOD read are raw, or rewritten by this very evaluation whatever
  the masks (`LODAssumption`), or at rest; so the buffer agrees with that of a fresh instance on
  everything the output stages read (`Read(l)`), and each stage depends on its reads alone.
* `OffLODNeutral`: `OffLODOutputsNeutral`, where the case of a single joint group uses that it
  writes only rows, and joints with rotation rows, of its LOD.
* `GroupsAloneSuffice` (no quaternions, disjoint rows): `GroupMatchesStage`.

`MemoryProofs` proves for `Arena`, from `ArenaAssumption` (sizes and alignments are positive where the code needs
it) and for any growth function:

* `ArenaTypes`: `TypeOK`, with the free pointer in the current region.
* `ArenaBlocksApart` and `ArenaRegionsReturned`: `BlocksApart` and `RegionsReturned`, from `ArenaInv`.
  `BlocksApart` alone is not inductive: that a new block is apart from an old one follows for the
  current region from `BlocksBeforePtr`, and for the others from `RegionsApart`; that a discarded
  region holds no block follows from `BlocksBeforePtr` too. `Available` is all that is used of
  upstream.

`RigSnapshotProofs` proves, for any readers and configurations of the types that `DnasAssumption` and
`ConfigsAssumption` give, any builds, any number of dumps and any order of calls:

* `SnapshotsInvariant`: the invariant that the other three need, `SnapshotsInv`. `LoadsInStep` alone is
  not inductive: that a part finds its chunk follows from where it was saved, from which parts saved,
  and from the restored evaluators having the types of the dumped ones, and these follow from the
  queue while the factories run. So `RigInv` says what the queue holds at each step: during `create`
  the types of the evaluators made so far, during `restore` what is left of the dumped queue, followed
  by what was put back. `SnapshotInv` says that each snapshot lies in the archive part by part, as far
  as it is written (`SavedUpTo`), and `RestoredInv` that the parts made or loaded so far are the dumped ones
  as far as the builders' defaults determine them. Without joints two factories are not called; the
  queue is then shorter (`Pushing`, `Taken`).
* `PartsLoadInStep`, `RestoredSnapshotsAgree`, `RigsRestoredAsDumped`: `LoadsInStep`, `SnapshotsAgree` and
  `RestoredAsDumped`. `KernelDetermined` is why `Restorable` is enough for the last one.

The proofs of streams use `CallsAssumption`: sources are sequences of bytes, at most as long as the
bound, sizes are natural numbers, and a caller may ask for nothing. They hold for any bytes, sources,
sizes and bound.

* Memory streams (`StreamsProofs`): the array holds bytes, and the position is one of its indices or its length
  (`PositionStaysInData`), which is what lets `read` and `write` index the array without another check.
  Each call is then a step of the contract (`MemoryImplementsStream`); `WriteOverwrites` says that the array
  after a write, whether it grew or not, is the old one overwritten at the position.
* File streams (`StreamsProofs`), for copies that fit the buffer (`CopiesFit`): the position and size that the stream
  keeps are those of its `fstream` whenever it can be used (`FileStaysInStep`), and every call is a step
  of the contract (`FileImplementsStream`). `InStep` becomes inductive with the cursor lying in the file.
  `FileCopyIsRead` says that a copy to a stream of one chunk does what a read to a buffer does.
* `MappedFileStreamProofs`, for callers and systems as the code expects them (`Handled`): the invariant
  `MappedInv` says of the file that its size is cached (`FileKnown`), of the view that a stream without
  one is at the end of the file (`ViewKnown`, with `ViewInFile`), and of a call under way that it has read
  a slice of the old file, or overwritten it with the first bytes of the source (`CallKnown`). From it
  follow `CopiesStayInView`, `ViewsStayInFile` and `MappedImplementsStream`: a call that returns has done at
  once what it did chunk by chunk, `SliceJoin` and `OverwriteJoin`. The size of a view comes from a loop
  that halves it, any number of times, until the system grants it; that a largest one granted exists
  rests on `LeastNumber`, from the library's well-founded order on numbers, and `ViewsAssumption` says
  that the system grants some view of any part of a file within the bounds.
* Their composition (`StreamsProofs`), under both conditions (`Fits`): the stream that the run `Streams` checks, of whatever
  kind, satisfies the invariant of its kind (`StreamsInvariant`), since its steps are those of the
  component's own module. So all of the run's properties but `CallReturns` hold for every instance:
  `FilesStayInStep`, `CopiesInView`, `ViewsInFile`, `StreamTypes` and `StreamsImplementStream`.

`MemoryProofs` proves for `ArchiveMarkers`, for any numbers of markers, slots and proxies:

* `ProxiesFollowMarkers`: a proxy's pointers are the places of the markers it was made for. The
  inductive invariant `Agree` says more: markers live apart in built slots (`Apart`), a proxy points at
  what its aims occupy (`PointsThere`), what is pointed at points back (`PointsBack`), and no marker
  is the aim of two proxies (`OneAim`). Without the way back, a marker that moves could not find the
  proxy to tell.

`DNADocumentProofs` proves, for any versions, values and documents that `DocumentsAssumption` admits, and any
sequence of calls:

* `DocumentInvariant`: documents and copies have their layers and fields, and a file holds what was
  written (`HoldsWritten`): a layer that is in the file as its version has it, and one that is not was empty,
  or is not of this version. It is what a read relies on, which only sees the file.
* `DocumentTypes`: `TypeOK`, a part of it.
* `ReadsWhatWasWritten`: `ReadShowsWritten`. A layer that is loaded is the stored one where the reader's was
  clean of it (`LoadedIsStored`); the two layers of the RBF behavior are loaded together.
* `UnloadsDependents`: `UnloadTakesDependents`. Contents of masks are closed under dependence, so the
  layers emptied with one are those that every mask with it holds (`Dependents`).
* `RawCopiesKeepLayers`, `RawCopiesAddNothing`: `RawCopyKeepsLayers` and `RawCopyAddsNothing`. A raw copy is a
  write to memory and a load from there, so both follow from what a file of the copy's version holds.

`DNAFilterProofs` proves, for any documents, LODs and choices of layers that `RequestsAssumption` admits (a
document is `Consistent` and a configuration lists LODs in order), if `ChannelsInOrder`:

* `FilterInvariant`: `FilterInv`, the invariant that the other three need. Each of its parts says of a layer
  that is loaded that every LOD that is kept shows the elements it has in the file (`Shows`). That is not
  inductive by itself: how meshes and controls are filtered depends on the LODs that the descriptor set
  (`LODsInv`); rows are looked up by numbers that only hold as long as names that no LOD has are gone from the end
  alone (`SameLists`); a row is removed once all layers are loaded if the control that drives it is not,
  which the controls of the layers before tell (`ControlsInv`, `UnreferencedMeans`).
* `NeverThrows`: `NothingThrown`. An attribute of a joint group is found, since its joint is one of a LOD that is
  kept (`JointIsFound`, `NoGroupThrows`).
* `KeepsElementsOfLODs`: `LODsKeepElements`, for meshes, joints, channels, animated maps, networks, solvers and
  operations.
* `KeepsRows`: `RowsKeepElements`, for joint groups, channels and animated maps (`FilteredGroupCells`, `MapRowsAre`).

* `ElementsInvariant`: `ElementsInv`, a second invariant, which is inductive where `FilterInv` holds before and
  after a step. It adds `DependentsAssumption`. What is left of joints, meshes, channels and networks is named
  by an increasing list of numbers, which the filter finds again (`Renumbers`), so what lies in tables
  beside them is cut alike (`EntriesOfKept`, `KeptTogether`), and what names them is rewritten to the same
  names (`NamesOfKept`, `PairsOfMeshes`, `PairsOfChannels`). A step loads one layer and leaves alone what the others
  brought along (`WhatStepsKeep`), so each part of the invariant has one lemma for the step that loads it.
  Channels are filtered twice: `MeshesKeep` and `PairsKeep` follow targets and pairs through the removal.
* `KeepsDependencies`: `OperationsKeepDependencies`. A dependency is of a LOD that is kept whenever the
  operation is, so it passes the filter of its own set (`DependencyIsKept`, `FollowedGives`).
* `KeepsJoints`: `JointsKeepElements`. A twist is moved with its weights (`FilteredTwistMoves`, `FilteredTwistsMove`); an
  attribute is divided into joint and rest in one way only (`DivisionIsUnique`), so that machine learned
  outputs can be renumbered by joints (`FilteredMLJointsPut`).
* `KeepsMeshes`: `MeshesKeepElements`.

`ChannelsInOrder` is needed because the reader keeps the numbers of channels and maps that rows and
targets name: if the channels of a LOD are not the first ones, these name others. The reader does not
check it. Without it TLC finds `NothingThrown`, `LODsKeepElements` and `RowsKeepElements` violated on `MCDNAFilter`, by the cause that
the run `DNAFilterChannels` shows. The lemmas say of the operators what holds for all tables: a list of
what passes is increasing and without gaps (`AscendingLists`, `KeepPositionsKeeps`), an element's new
number is its place (`RemappedIsPlace`), and a mapping that is cut, discarded or rewritten gives each
LOD the elements it should have (`DiscardKeepsLists`, `MapIndicesGives`, `FilteredShows`). None of them
is an induction over data: positions are counted, as cardinalities of sets.

Only model-checked: `SkinSumsToOne` of `DNAFilter`, where a fold adds up weights; `CopyShowsSource`, `MLOperations` and `JointGroups`, and the contents of archives, which
fold over data or select from sequences, where a proof is an induction over the data that the
installed provers cannot do; `AllocationReturns` and `CallReturns`, since liveness under fairness is
out of the prover's reach; what the violated runs show; and streams outside of `Fits`.

## Not modelled, and the plan

What the model could still gain, in this order:

1. Proofs: of `CopyShowsSource` layer by layer.
2. `Status`: the thread-local code, message and hook, and the registry of codes. In the model
   each stream has the status that its calls set.
3. The builders of twist and swing and of ML joints, and the selection of solvers and poses in the
   RBF behavior, which `RigPipeline` has as what they read and write.
4. Coordinate system conversion of DNA documents, and documents in JSON.

Not modelled: the SIMD wrappers (`trimd`), vector and quaternion arithmetic (`tdm`), the arithmetic
of activations and solvers, and rounding of floats are numerical, without control flow or state of
their own. The aligned and default memory resources, and the streams of other platforms, forward.
Python bindings, benchmarks, examples and build files wrap or use the library.
