---------------------------- MODULE JointGroups ----------------------------
(***************************************************************************)
(* The joint groups of a rig, compiled and evaluated: the matrices of the   *)
(* joints whose rotations the file gives as Euler angles (BPCM), and those  *)
(* of the joints whose rotations are blended as quaternions.                *)
(*                                                                          *)
(* A group of the file has input controls, rows of an attribute (nine for   *)
(* every joint: translation, rotation, scale) and a cell for every input,   *)
(* and takes a number of its rows at every LOD.  Joints and attributes      *)
(* count from 0.  A rotation is known by three angles: as a quaternion it   *)
(* is Quaternion(angles), and blending rotations adds their weighted angles;*)
(* the order in which rotations are multiplied is abstracted.               *)
(***************************************************************************)
EXTENDS PaddedBlocks, SequencesExt, FiniteSetsExt

CONSTANTS Lanes,              \* values of half a vector register
          PruningThreshold    \* by kind of attribute: cells up to it count as empty

VARIABLES rig,        \* what the file says of joints and joint groups, and the output wanted
          storage,    \* the groups as they were built from it
          attributes  \* the joint outputs of an instance

jointVars == <<rig, storage, attributes>>

Joint(attr) == attr \div 9
Kind(attr) == (attr % 9) \div 3
RotationKind == 1

Quaternion(angles) == IF angles = <<0, 0, 0>> THEN <<0, 0, 0, 1>>
                      ELSE <<10 + angles[1], 10 + angles[2], 10 + angles[3], 2>>
Angles(q) == IF q[4] = 2 THEN <<q[1] - 10, q[2] - 10, q[3] - 10>> ELSE <<0, 0, 0>>

\* The attribute of a joint of ten attributes; w has no counterpart.
Remapped(attr) == 10 * Joint(attr) + IF attr % 9 < 6 THEN attr % 9 ELSE (attr % 9) + 1

-----------------------------------------------------------------------------
(* Reading: rows are filtered by how the file represents what they move. *)

\* The first filter of a kind of attribute decides.
Enabled(filters, attr) ==
    LET ofKind == SelectSeq(filters, LAMBDA x : x.kind = Kind(attr))
    IN  ofKind # <<>> /\ ofKind[1].repr = rig.joints[Joint(attr)][Kind(attr)]

AllFilters == <<[kind |-> 0, repr |-> "vector"], [kind |-> 1, repr |-> "euler"],
                [kind |-> 1, repr |-> "quaternion"], [kind |-> 2, repr |-> "vector"]>>
Excluded(filters, x) == SelectSeq(filters, LAMBDA y : y # x)
Euler == [kind |-> 1, repr |-> "euler"]
Quaternions == [kind |-> 1, repr |-> "quaternion"]

Filtered(filters, group) ==
    LET Rows(n) == SelectSeq(SubSeq(group.rows, 1, n), LAMBDA r : Enabled(filters, r.attr))
    IN  [inputs |-> group.inputs, rows |-> Rows(Len(group.rows)),
         lods |-> [l \in DOMAIN group.lods |-> Len(Rows(group.lods[l]))]]

-----------------------------------------------------------------------------
(* Defragmentation: rows and columns without effect go, and columns without effect *)
(* at a LOD and below it go to the end, where that LOD does not reach them.        *)

HasDelta(row, c) == row.cells[c] > PruningThreshold[Kind(row.attr)]
                        \/ -row.cells[c] > PruningThreshold[Kind(row.attr)]

PurgedRows(group) ==
    LET Kept(n) == SelectSeq(SubSeq(group.rows, 1, n),
                             LAMBDA r : \E c \in DOMAIN group.inputs : HasDelta(r, c))
    IN  [group EXCEPT !.rows = Kept(Len(group.rows)), !.lods = [l \in DOMAIN @ |-> Len(Kept(@[l]))]]

PurgedColumns(group) ==
    SelectSeq([c \in DOMAIN group.inputs |-> c],
              LAMBDA c : \E r \in DOMAIN group.rows : HasDelta(group.rows[r], c))

Swapped(s, i, j) == [s EXCEPT ![i] = s[j], ![j] = s[i]]

\* From the last column that is left to the first, those without effect on the
\* LOD's rows change places with the last one left.
ColumnsNarrowed(group, columns, left, rows) ==
    FoldLeft(LAMBDA a, k :
                 LET c == left + 1 - k
                 IN  IF \E r \in 1 .. rows : HasDelta(group.rows[r], a.columns[c]) THEN a
                     ELSE [columns |-> Swapped(a.columns, c, a.left), left |-> a.left - 1],
             [columns |-> columns, left |-> left], [k \in 1 .. left |-> k])

\* Faulty variant of Defragmented: columns are judged by the rows of the last LOD.
DefragmentedForLast(group) ==
    LET purged == PurgedRows(group)
        columns == PurgedColumns(purged)
        last == ColumnsNarrowed(purged, columns, Len(columns), Last(purged.lods))
    IN  [rows |-> purged.rows, lods |-> purged.lods, columns |-> last.columns,
         inputs |-> [c \in DOMAIN columns |-> group.inputs[last.columns[c]]],
         inputLODs |-> [l \in DOMAIN purged.lods |-> last.left]]

Defragmented(group) ==
    LET purged == PurgedRows(group)
        columns == PurgedColumns(purged)
        steps == FoldLeft(LAMBDA a, l :
                     Append(a, ColumnsNarrowed(purged, Last(a).columns, Last(a).left,
                                               purged.lods[l])),
                 <<[columns |-> columns, left |-> Len(columns)]>>,
                 [l \in DOMAIN purged.lods |-> l])
        order == Last(steps).columns
    IN  [rows |-> purged.rows, lods |-> purged.lods, columns |-> order,
         inputs |-> [c \in DOMAIN order |-> group.inputs[order[c]]],
         inputLODs |-> [l \in DOMAIN purged.lods |-> steps[l + 1].left]]

-----------------------------------------------------------------------------
(* Storage. *)

\* Of indices that occur more than once the last one stays.
LastOccurrences(s) ==
    LET kept == SelectSeq([i \in DOMAIN s |-> i], LAMBDA i : \A j \in i + 1 .. Len(s) : s[j] # s[i])
    IN  [i \in DOMAIN kept |-> s[kept[i]]]

Cells(d) == Joined([r \in DOMAIN d.rows |->
                     [c \in DOMAIN d.columns |-> d.rows[r].cells[d.columns[c]]]])

\* The rotations to convert once the rows are written: the joints of the
\* group's rotation rows, and for every LOD those up to the joint of its last one.
RotationIndices(group) ==
    LET d == Defragmented(Filtered(<<Euler>>, group))
        base == [r \in DOMAIN d.rows |-> 10 * Joint(d.rows[r].attr) + 3]
        bases == LastOccurrences(base)
    IN  [indices |-> bases,
         lods |-> [l \in DOMAIN d.lods |->
                      IF d.lods[l] = 0 THEN 0
                      ELSE Min({i \in DOMAIN bases : bases[i] = base[d.lods[l]]})]]

BPCMGroup(group) ==
    LET d == Defragmented(Filtered(Excluded(AllFilters, Quaternions), group))
        rows == Len(d.rows)
        padded == RoundUp(rows, Lanes)
        Output(r) == IF r > rows THEN 0
                     ELSE IF rig.quaternions THEN Remapped(d.rows[r].attr) ELSE d.rows[r].attr
    IN  [values |-> Optimized(Cells(d), rows, Len(d.inputs), 2 * Lanes, Lanes, 1, 0),
         inputs |-> d.inputs, inputLODs |-> d.inputLODs,
         outputs |-> [r \in 1 .. padded |-> Output(r)],
         views |-> [l \in DOMAIN d.lods |-> PaddedBlockView(d.lods[l], padded, 2 * Lanes, Lanes)],
         rotations |-> IF rig.quaternions THEN RotationIndices(group)
                       ELSE [indices |-> <<>>, lods |-> [l \in DOMAIN d.lods |-> 0]]]

\* Runs of rows of one joint, one after the other.
Runs(rows) ==
    FoldLeft(LAMBDA a, r : IF a # <<>> /\ Joint(Last(a)[1].attr) = Joint(r.attr)
                           THEN [a EXCEPT ![Len(a)] = Append(@, r)] ELSE Append(a, <<r>>),
             <<>>, rows)

RunAngles(run, c) ==
    [axis \in 1 .. 3 |->
        LET of == {i \in DOMAIN run : run[i].attr % 3 = axis - 1}
        IN  IF of = {} THEN 0 ELSE run[Max(of)].cells[c]]

\* Four rows for every joint, which a block deals out by component.
QuaternionGroup(group) ==
    LET d == Defragmented(Filtered(<<Quaternions>>, group))
        joints == LastOccurrences([r \in DOMAIN d.rows |-> Joint(d.rows[r].attr)])
        runs == Runs(d.rows)
        rows == 4 * Len(joints)
        padded == RoundUp(rows, 4 * Lanes)
        cells == Joined([row \in 1 .. rows |->
                     [c \in DOMAIN d.inputs |->
                         Quaternion(RunAngles(runs[((row - 1) \div 4) + 1], d.columns[c]))
                             [((row - 1) % 4) + 1]]])
        Position(joint) == Min({j \in DOMAIN joints : joints[j] = joint})
        size == [l \in DOMAIN d.lods |-> IF d.lods[l] = 0 THEN 0
                                         ELSE 4 * Position(Joint(d.rows[d.lods[l]].attr))]
        Output(j, k) == IF rig.quaternions THEN 10 * joints[j] + 2 + k
                        ELSE IF k = 4 THEN 0 ELSE 9 * joints[j] + 2 + k
        filled == Filtered(<<Quaternions>>, group)
        empty == filled.lods[1] = 0 \/ filled.inputs = <<>>
    IN  [values |-> Optimized(cells, rows, Len(d.inputs), 8 * Lanes, 4 * Lanes, 4, 0),
         inputs |-> d.inputs,
         inputLODs |-> IF empty THEN [l \in DOMAIN size |-> 0] ELSE d.inputLODs,
         outputs |-> [row \in 1 .. rows |-> Output(((row - 1) \div 4) + 1, ((row - 1) % 4) + 1)],
         views |-> [l \in DOMAIN size |->
                       PaddedBlockView(IF empty THEN 0 ELSE size[l], padded, 8 * Lanes, 4 * Lanes)]]

Storage == [bpcm |-> [g \in DOMAIN rig.groups |-> BPCMGroup(rig.groups[g])],
            quaternions |-> [g \in DOMAIN rig.groups |-> QuaternionGroup(rig.groups[g])]]

-----------------------------------------------------------------------------
(* Calculation. *)

NeutralOutputs ==
    [a \in 0 .. Cardinality(DOMAIN rig.joints) * (IF rig.quaternions THEN 10 ELSE 9) - 1 |->
        IF rig.quaternions /\ a % 10 = 6 THEN 1 ELSE 0]

\* Rows written one after the other: the last one that writes an attribute stays.
Stored(outputs, rows, indices, value) ==
    [a \in DOMAIN outputs |->
        LET written == {r \in rows : indices[r + 1] = a}
        IN  IF written = {} THEN outputs[a] ELSE value[Max(written)]]

\* The rotations of a LOD, from angles to quaternions.
Converted(outputs, group, l) ==
    FoldLeft(LAMBDA o, base :
                 LET q == Quaternion(<<o[base], o[base + 1], o[base + 2]>>)
                 IN  [o EXCEPT ![base] = q[1], ![base + 1] = q[2],
                               ![base + 2] = q[3], ![base + 3] = q[4]],
             outputs, SubSeq(group.rotations.indices, 1, group.rotations.lods[l]))

BPCMCalculated(outputs, group, controls, l) ==
    LET view == group.views[l]
        cols == Len(group.inputs)
        rows == StoredRows(view, 2 * Lanes)
        Cell(row, c) == group.values[EntryAt(view, row, c - 1, cols, 2 * Lanes, Lanes, 1)]
        value == [row \in rows |-> Sum([c \in 1 .. group.inputLODs[l] |->
                                             Cell(row, c) * controls[group.inputs[c]]])]
    IN  Converted(Stored(outputs, rows, group.outputs, value), group, l)

\* A block holds x of all its quaternions, then y, z and w.
QuaternionCalculated(outputs, group, controls, l) ==
    LET view == group.views[l]
        cols == Len(group.inputs)
        first == {row \in StoredRows(view, 8 * Lanes) : row % 4 = 0}
        Cell(row, c) == group.values[EntryAt(view, row, c - 1, cols, 8 * Lanes, 4 * Lanes, 4)]
        Blended(row) == [axis \in 1 .. 3 |-> Sum([c \in 1 .. group.inputLODs[l] |->
            controls[group.inputs[c]] * Angles([k \in 1 .. 4 |-> Cell(row + k - 1, c)])[axis]])]
        result == [row \in first |-> IF rig.quaternions THEN Quaternion(Blended(row))
                                     ELSE Blended(row) \o <<0>>]
        value == [row \in UNION {r .. r + 3 : r \in first} |-> result[row - (row % 4)][(row % 4) + 1]]
        rows == {row \in DOMAIN value : rig.quaternions \/ row % 4 # 3}
    IN  Stored(outputs, rows, group.outputs, value)

JointsCalculated(controls, l) ==
    LET bpcm == FoldLeft(LAMBDA o, group : BPCMCalculated(o, group, controls, l),
                         NeutralOutputs, storage.bpcm)
    IN  FoldLeft(LAMBDA o, group : QuaternionCalculated(o, group, controls, l),
                 bpcm, storage.quaternions)

BuildJoints ==
    /\ storage' = Storage
    /\ attributes' = NeutralOutputs
    /\ UNCHANGED rig

CalculateJoints(controls, l) ==
    /\ attributes' = JointsCalculated(controls, l)
    /\ UNCHANGED <<rig, storage>>

-----------------------------------------------------------------------------
(* What the groups of the file say. *)

AttributeDelta(attr, controls, l) ==
    LET rows == Joined([g \in DOMAIN rig.groups |->
                    [r \in 1 .. rig.groups[g].lods[l] |->
                        IF rig.groups[g].rows[r].attr # attr THEN 0
                        ELSE Sum([c \in DOMAIN rig.groups[g].inputs |->
                                 rig.groups[g].rows[r].cells[c] * controls[rig.groups[g].inputs[c]]])]])
    IN  Sum(rows)

JointsOfFile(controls, l) ==
    LET Delta(attr) == AttributeDelta(attr, controls, l)
        Rotation(j) == Quaternion(<<Delta(9 * j + 3), Delta(9 * j + 4), Delta(9 * j + 5)>>)
    IN  [a \in DOMAIN NeutralOutputs |->
            IF ~rig.quaternions THEN Delta(a)
            ELSE IF a % 10 \in 3 .. 6 THEN Rotation(a \div 10)[(a % 10) - 2]
            ELSE Delta(9 * (a \div 10) + IF a % 10 < 3 THEN a % 10 ELSE (a % 10) - 1)]
=============================================================================
