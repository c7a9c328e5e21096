---------------------------- MODULE MLOperations ----------------------------
(***************************************************************************)
(* The machine learned behavior: the graph of operations a file holds is    *)
(* compiled to sets of networks and weighted sums over one work buffer, and *)
(* evaluated set by set, or one operation at a time, at a LOD.              *)
(*                                                                          *)
(* An operation of the file is a gather or a scatter of controls, a network *)
(* or a weighted sum, and names its dependencies as pairs <<set, operation>>*)
(* of its type.  Indices start at 1; an index of 0 is no mask.  Values are  *)
(* small integers, and the weights of a sum are read as such.               *)
(***************************************************************************)
EXTENDS PaddedBlocks, SequencesExt, FiniteSetsExt

CONSTANTS Lanes128,    \* values of half a vector register; a whole one has twice as many
          Width        \* work buffer sizes are truncated below this bound

ASSUME MLConstantsAssumption == Lanes128 \in Nat \ {0} /\ Width \in Nat \ {0}

VARIABLES file, evaluator, instance, controls

mlVars == <<file, evaluator, instance, controls>>

Overlay(memory, start, values) ==
    SubSeq(memory, 1, start) \o values \o SubSeq(memory, start + Len(values) + 1, Len(memory))

-----------------------------------------------------------------------------
(* Compilation of a file. *)

OpAt(f, t, id) == f.types[t][id[1]].ops[id[2]]

InputControls(f, t, op) ==
    Joined([i \in DOMAIN op.deps |->
        LET dep == OpAt(f, t, op.deps[i]) IN IF dep.kind = "Gather" THEN dep.params ELSE <<>>])

\* The controls that the scatters of later sets give to an operation, in the
\* order of the scatters.
OutputControls(f, t, id) ==
    LET later == Joined([s \in 1 .. Len(f.types[t]) - id[1] |-> f.types[t][id[1] + s].ops])
        Given(op) == Joined([i \in DOMAIN op.deps |->
                                    IF op.deps[i] = id THEN op.params ELSE <<>>])
    IN  Joined([k \in DOMAIN later |->
            IF later[k].kind = "Scatter" THEN Given(later[k]) ELSE <<>>])

\* A masked network leaves its joints where they are: the w of a quaternion,
\* seventh of ten attributes, is 1.
DefaultValues(f, outputs, count) ==
    LET Position(c) == {i \in DOMAIN f.mlJoints.inputs : f.mlJoints.inputs[i] = c}
        W(c) == Position(c) # {} /\ f.mlJoints.outputs[Min(Position(c))] % 10 = 6
    IN  [i \in 1 .. count |->
            IF f.mlJoints.quaternions /\ i <= Len(outputs) /\ W(outputs[i]) THEN 1 ELSE 0]

\* A file may give every layer of a network a number of rows for every LOD.
RowsPerLOD(f, op, layer) ==
    LET counts == Tail(op.params)
    IN  [l \in 1 .. f.lodCount |->
            IF Len(counts) > 1 THEN counts[(layer - 1) * f.lodCount + l]
            ELSE Len(f.nets[op.params[1]][layer].biases)]

Layer(f, op, k) ==
    LET source == f.nets[op.params[1]][k]
        rows == Len(source.biases)
        cols == Len(source.weights) \div rows
        padded == RoundUp(rows, Lanes128)
        perLOD == RowsPerLOD(f, op, k)
    IN  [rows |-> rows, cols |-> cols, padded |-> padded, relu |-> source.relu,
         views |-> [l \in DOMAIN perLOD |->
                       PaddedBlockView(perLOD[l], padded, 2 * Lanes128, Lanes128)],
         weights |-> Optimized(source.weights, rows, cols, 2 * Lanes128, Lanes128, 1, 0),
         biases |-> Optimized(source.biases, rows, 1, 2 * Lanes128, Lanes128, 1, 0)]

\* The mask of the first region, over all meshes, that a network belongs to.
MaskIndex(f, net) ==
    LET regions == Joined(f.regions)
        holding == {r \in DOMAIN regions : net \in regions[r]}
    IN  IF holding = {} THEN 0 ELSE Min(holding)

Built(op, f) == op.kind = "MLP" /\ f.nets[op.params[1]] # <<>>

SetKind(f, t, s) ==
    LET evaluated == SelectSeq(f.types[t][s].ops, LAMBDA op : op.kind \in {"MLP", "WeightedSum"})
    IN  IF evaluated = <<>> THEN "empty" ELSE evaluated[1].kind

\* What later operations take to be the length of an operation's result.
OutputCount(f, t, id) ==
    LET op == OpAt(f, t, id)
    IN  CASE SetKind(f, t, id[1]) = "WeightedSum" -> op.params[1]
          [] SetKind(f, t, id[1]) = "MLP" /\ Built(op, f) ->
                 Len(Last(f.nets[op.params[1]]).biases)
          [] OTHER -> 0

MLPOperation(f, t, id) ==
    LET op == OpAt(f, t, id)
        outputs == OutputControls(f, t, id)
        layers == [k \in DOMAIN f.nets[op.params[1]] |-> Layer(f, op, k)]
        rows == Last(layers).rows
    IN  [layers |-> layers, maskIndex |-> MaskIndex(f, op.params[1]), inputDeps |-> op.deps,
         inputs |-> InputControls(f, t, op), outputs |-> outputs,
         outputCounts |-> [i \in DOMAIN op.deps |-> OutputCount(f, t, op.deps[i])],
         outputCountsPerLOD |-> [l \in 1 .. f.lodCount |->
                                    IF outputs = <<>> THEN rows ELSE Last(layers).views[l].size],
         defaults |-> DefaultValues(f, outputs, rows)]

WeightedSumOperation(op) ==
    [inputDeps |-> op.deps, weights |-> Tail(op.params), outputCount |-> op.params[1]]

\* Faulty variant of BufferSize: rows are not padded.
UnpaddedBufferSize(f, t, id) ==
    LET op == OpAt(f, t, id)
    IN  IF SetKind(f, t, id[1]) = "MLP" /\ Built(op, f)
        THEN 2 * Max({Len(f.nets[op.params[1]][k].biases) : k \in DOMAIN f.nets[op.params[1]]})
        ELSE OutputCount(f, t, id)

\* A network evaluates from one half of its buffer to the other.
BufferSize(f, t, id) ==
    LET op == OpAt(f, t, id)
        layers == [k \in DOMAIN f.nets[op.params[1]] |-> Layer(f, op, k)]
    IN  IF SetKind(f, t, id[1]) = "MLP" /\ Built(op, f)
        THEN (2 * Max({layers[1].cols} \cup {layers[k].padded : k \in DOMAIN layers})) % Width
        ELSE OutputCount(f, t, id)

\* The operations of a set: those that are not networks leave no gap behind.
BuiltSet(f, t, s) ==
    LET ops == f.types[t][s].ops
        ids == [o \in DOMAIN ops |-> <<s, o>>]
    IN  CASE SetKind(f, t, s) = "MLP" ->
                 LET nets == SelectSeq(ids, LAMBDA id : Built(OpAt(f, t, id), f))
                 IN  [kind |-> "MLP", ops |-> [i \in DOMAIN nets |-> MLPOperation(f, t, nets[i])]]
          [] SetKind(f, t, s) = "WeightedSum" ->
                 [kind |-> "WeightedSum",
                  ops |-> [o \in DOMAIN ops |-> WeightedSumOperation(ops[o])]]
          [] OTHER -> [kind |-> "empty", ops |-> <<>>]

RemapSetIndices(deps, deleted) ==
    LET kept == SelectSeq(deps, LAMBDA d : d[1] \notin deleted)
    IN  [i \in DOMAIN kept |->
            <<kept[i][1] - Cardinality({d \in deleted : d < kept[i][1]}), kept[i][2]>>]

\* Factory::create for one type.
BuiltType(f, t) ==
    LET all == [s \in DOMAIN f.types[t] |-> BuiltSet(f, t, s)]
        kept == SelectSeq([s \in DOMAIN all |-> s], LAMBDA s : all[s].ops # <<>>)
        deleted == DOMAIN all \ ToSet(kept)
        Remapped(op) == [op EXCEPT !.inputDeps = RemapSetIndices(@, deleted)]
    IN  [lods |-> [s \in DOMAIN kept |-> f.types[t][kept[s]].lods],
         sets |-> [s \in DOMAIN kept |->
                      [kind |-> all[kept[s]].kind,
                       ops |-> [o \in DOMAIN all[kept[s]].ops |-> Remapped(all[kept[s]].ops[o])]]],
         bufferSizes |-> [s \in DOMAIN kept |->
                             [o \in DOMAIN f.types[t][kept[s]].ops |->
                                 BufferSize(f, t, <<kept[s], o>>)]]]

HasMasks(set) == set.kind = "MLP" /\ \E o \in DOMAIN set.ops : set.ops[o].maskIndex # 0

Create(f) == [types |-> [t \in DOMAIN f.types |-> BuiltType(f, t)],
              regionCount |-> Len(Joined(f.regions))]

-----------------------------------------------------------------------------
(* An instance: one work buffer, cut up in the order of types, sets and operations. *)

SetOffset(e, t, s) == Sum([k \in 1 .. s - 1 |-> Len(e.types[t].bufferSizes[k])])

SizesOf(e, t) == Joined(e.types[t].bufferSizes)

NewInstance(e) ==
    LET total(t) == Sum(SizesOf(e, t))
        before(t) == Sum([k \in 1 .. t - 1 |-> total(k)])
        types == DOMAIN e.types
    IN  [work |-> [i \in 1 .. Sum([t \in types |-> total(t)]) |-> 0],
         masks |-> [r \in 1 .. e.regionCount |-> 1],
         start |-> [t \in types |-> [i \in DOMAIN SizesOf(e, t) |->
                       before(t) + Sum(SubSeq(SizesOf(e, t), 1, i - 1))]],
         half |-> [t \in types |-> [i \in DOMAIN SizesOf(e, t) |-> SizesOf(e, t)[i] \div 2]]]

Start(e, inst, t, id) == inst.start[t][SetOffset(e, t, id[1]) + id[2]]

-----------------------------------------------------------------------------
(* Evaluation, on a memory of the controls and the work buffer. *)

\* One layer, from one place of the work buffer to another: whole blocks are
\* computed and stored, those that reach past the rows of the LOD too.
LayerEvaluated(layer, l, work, from, to) ==
    LET view == layer.views[l]
        At(row, col, cols) == EntryAt(view, row, col, cols, 2 * Lanes128, Lanes128, 1)
        Row(row) == layer.biases[At(row, 0, 1)]
                      + Sum([c \in 1 .. layer.cols |->
                                layer.weights[At(row, c - 1, layer.cols)] * work[from + c]])
        Activated(v) == IF layer.relu /\ v < 0 THEN 0 ELSE v
    IN  Overlay(work, to, [r \in 1 .. ComputedRows(view, Lanes128) |-> Activated(Row(r - 1))])

Gathered(e, inst, t, op, start, m) ==
    IF op.inputs # <<>>
    THEN Overlay(m.work, start, [i \in DOMAIN op.inputs |-> m.controls[op.inputs[i]]])
    ELSE FoldLeft(LAMBDA w, i :
                      LET dep == Start(e, inst, t, op.inputDeps[i])
                          offset == Sum(SubSeq(op.outputCounts, 1, i - 1))
                      IN  Overlay(w, start + offset, SubSeq(w, dep + 1, dep + op.outputCounts[i])),
                  m.work, [i \in DOMAIN op.inputDeps |-> i])

Scattered(ctrls, outputs, values) ==
    [c \in DOMAIN ctrls |->
        LET written == {i \in DOMAIN outputs : i <= Len(values) /\ outputs[i] = c}
        IN  IF written = {} THEN ctrls[c] ELSE values[Max(written)]]

\* Faulty variant of MaskedExecuted: what the network computed last is left in its buffer.
MaskedExecutedStale(op, start, m) ==
    IF op.outputs = <<>> THEN m
    ELSE [m EXCEPT !.controls = Scattered(@, op.outputs, op.defaults)]

MaskedExecuted(op, start, m) ==
    IF op.outputs = <<>> THEN [m EXCEPT !.work = Overlay(@, start, op.defaults)]
    ELSE [m EXCEPT !.controls = Scattered(@, op.outputs, op.defaults)]

MLPExecuted(e, inst, t, id, l, m) ==
    LET op == e.types[t].sets[id[1]].ops[id[2]]
        start == Start(e, inst, t, id)
        half == inst.half[t][SetOffset(e, t, id[1]) + id[2]]
        Flip(at) == IF at = start THEN start + half ELSE start
        result == FoldLeft(LAMBDA b, layer :
                               [work |-> LayerEvaluated(layer, l, b.work, b.at, Flip(b.at)),
                                at |-> Flip(b.at)],
                           [work |-> Gathered(e, inst, t, op, start, m), at |-> start], op.layers)
        values == SubSeq(result.work, result.at + 1, result.at + op.outputCountsPerLOD[l])
    IN  CASE HasMasks(e.types[t].sets[id[1]]) /\ op.maskIndex # 0 /\ inst.masks[op.maskIndex] = 0 ->
                 MaskedExecuted(op, start, m)
          [] op.outputs # <<>> ->
                 [work |-> result.work, controls |-> Scattered(m.controls, op.outputs, values)]
          [] OTHER ->
                 [work |-> Overlay(result.work, start, values), controls |-> m.controls]

WeightedSumExecuted(e, inst, t, id, m) ==
    LET op == e.types[t].sets[id[1]].ops[id[2]]
        Dep(i) == Start(e, inst, t, op.inputDeps[i])
        Summed(k) == Sum([i \in DOMAIN op.inputDeps |-> op.weights[i] * m.work[Dep(i) + k]])
    IN  IF op.inputDeps = <<>> THEN m
        ELSE [m EXCEPT !.work = Overlay(@, Start(e, inst, t, id),
                                        [k \in 1 .. op.outputCount |-> Summed(k)])]

Executed(e, inst, t, id, l, m) ==
    IF e.types[t].sets[id[1]].kind = "MLP" THEN MLPExecuted(e, inst, t, id, l, m)
    ELSE WeightedSumExecuted(e, inst, t, id, m)

\* All types, their sets and the operations of the LOD, in order.
Evaluated(e, inst, l, m) ==
    LET ActiveOf(t) == Joined([s \in DOMAIN e.types[t].sets |->
                           LET active == e.types[t].lods[s][l]
                           IN  [i \in DOMAIN active |-> <<t, <<s, active[i]>>>>]])
        all == Joined([t \in DOMAIN e.types |-> ActiveOf(t)])
    IN  FoldLeft(LAMBDA memory, x : Executed(e, inst, x[1], x[2], l, memory), m, all)

Memory == [work |-> instance.work, controls |-> controls]

-----------------------------------------------------------------------------
(* Restoring. *)

\* The counts per LOD are not dumped: loading derives them again.
Loaded(op) ==
    LET views == Last(op.layers).views
    IN  [op EXCEPT !.outputCountsPerLOD =
            [l \in DOMAIN views |-> IF op.outputs = <<>> THEN views[1].size ELSE views[l].size]]

LoadedEvaluator(e) ==
    LET LoadedSet(set) == IF set.kind = "MLP"
                          THEN [set EXCEPT !.ops = [o \in DOMAIN set.ops |-> Loaded(set.ops[o])]]
                          ELSE set
    IN  [e EXCEPT !.types = [t \in DOMAIN e.types |->
            [e.types[t] EXCEPT !.sets = [s \in DOMAIN @ |-> LoadedSet(@[s])]]]]

-----------------------------------------------------------------------------
(* Actions. *)

BuildBehavior ==
    /\ evaluator' = Create(file)
    /\ instance' = NewInstance(evaluator')
    /\ UNCHANGED <<file, controls>>

\* Setting a raw control.
SetControl(c, v) ==
    /\ controls' = [controls EXCEPT ![c] = v]
    /\ UNCHANGED <<file, evaluator, instance>>

SetMask(r, v) ==
    /\ r \in DOMAIN instance.masks
    /\ instance' = [instance EXCEPT !.masks[r] = v]
    /\ UNCHANGED <<file, evaluator, controls>>

Calculate(l) ==
    LET m == Evaluated(evaluator, instance, l, Memory)
    IN  /\ instance' = [instance EXCEPT !.work = m.work]
        /\ controls' = m.controls
        /\ UNCHANGED <<file, evaluator>>

CalculateOperation(t, id, l) ==
    LET m == Executed(evaluator, instance, t, id, l, Memory)
    IN  /\ instance' = [instance EXCEPT !.work = m.work]
        /\ controls' = m.controls
        /\ UNCHANGED <<file, evaluator>>

\* The evaluator is dumped and loaded, and gets a new instance.
Restore ==
    /\ evaluator' = LoadedEvaluator(evaluator)
    /\ instance' = NewInstance(evaluator')
    /\ UNCHANGED <<file, controls>>

-----------------------------------------------------------------------------
(* What the graph of a file says: the value of every operation, given the controls *)
(* the type starts from, whatever the LOD, and what the scatters of a LOD write.   *)

NetResult(layers, input) ==
    FoldLeft(LAMBDA v, layer :
                 [r \in DOMAIN layer.biases |->
                     LET x == layer.biases[r] + Sum([c \in DOMAIN v |->
                                 layer.weights[(r - 1) * Len(v) + c] * v[c]])
                     IN  IF layer.relu /\ x < 0 THEN 0 ELSE x],
             input, layers)

Off(f, op, masks) ==
    LET r == MaskIndex(f, op.params[1]) IN op.kind = "MLP" /\ r # 0 /\ masks[r] = 0

GraphValues(f, t, ctrls, masks) ==
    LET Inputs(values, op) == Joined([i \in DOMAIN op.deps |-> values[op.deps[i]]])
        Summed(values, op, k) == Sum([i \in DOMAIN op.deps |->
                                         op.params[i + 1] * values[op.deps[i]][k]])
        Value(values, op) ==
            CASE op.kind = "Gather" -> [i \in DOMAIN op.params |-> ctrls[op.params[i]]]
              [] op.kind = "Scatter" -> Inputs(values, op)
              [] op.kind = "WeightedSum" -> [k \in 1 .. op.params[1] |-> Summed(values, op, k)]
              [] op.kind = "MLP" /\ Off(f, op, masks) ->
                     [r \in DOMAIN Last(f.nets[op.params[1]]).biases |-> 0]
              [] OTHER -> NetResult(f.nets[op.params[1]], Inputs(values, op))
    IN  FoldLeft(LAMBDA values, s :
                     values @@ [id \in {<<s, o>> : o \in DOMAIN f.types[t][s].ops} |->
                                   Value(values, OpAt(f, t, id))],
                 <<>>, [s \in DOMAIN f.types[t] |-> s])

\* Scatters of networks that run at the LOD write as many values as the last
\* layer has rows there; networks switched off write the neutral ones.
GraphTypeControls(f, t, ctrls, masks, l) ==
    LET values == GraphValues(f, t, ctrls, masks)
        ids == UNION {{<<s, o>> : o \in DOMAIN f.types[t][s].ops} : s \in DOMAIN f.types[t]}
        scatters == {id \in ids : OpAt(f, t, id).kind = "Scatter"}
        Net(id) == OpAt(f, t, id).deps[1]
        Runs(id) == Net(id)[2] \in ToSet(f.types[t][Net(id)[1]].lods[l])
        Rows(op) == RowsPerLOD(f, op, Len(f.nets[op.params[1]]))[l]
        Position(id, c) == {i \in DOMAIN OpAt(f, t, id).params : OpAt(f, t, id).params[i] = c}
        IsOff(id) == Off(f, OpAt(f, t, Net(id)), masks)
        Writes(id, c) == /\ Runs(id) /\ Position(id, c) # {}
                         /\ IsOff(id) \/ Min(Position(id, c)) <= Rows(OpAt(f, t, Net(id)))
        NeutralValue(c) == IF f.mlJoints.quaternions /\ \E i \in DOMAIN f.mlJoints.inputs :
                               f.mlJoints.inputs[i] = c /\ f.mlJoints.outputs[i] % 10 = 6
                           THEN 1 ELSE 0
    IN  [c \in DOMAIN ctrls |->
            IF \A id \in scatters : ~Writes(id, c) THEN ctrls[c]
            ELSE LET id == CHOOSE x \in scatters : Writes(x, c)
                 IN  IF IsOff(id) THEN NeutralValue(c) ELSE values[id][Min(Position(id, c))]]

GraphControls(f, ctrls, masks, l) ==
    FoldLeft(LAMBDA c, t : GraphTypeControls(f, t, c, masks, l), ctrls,
             [t \in DOMAIN f.types |-> t])
=============================================================================
