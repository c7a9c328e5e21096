----------------------------- MODULE LODMapping -----------------------------
(***************************************************************************)
(* The table that says which elements (joints, meshes, networks ...) belong *)
(* to which level of detail: lods gives for each LOD the number of an index *)
(* list, so that LODs with the same elements share one.  Subscripts start   *)
(* at 0, as in the code; Nth reads them.                                   *)
(***************************************************************************)
EXTENDS Integers, Sequences, FiniteSets, SequencesExt

Nth(s, i) == s[i + 1]
Positions(s) == 0 .. Len(s) - 1

\* The numbers of a set, from the least to the greatest.
Ascending(P) == [k \in 1 .. Cardinality(P) |-> CHOOSE i \in P : Cardinality({j \in P : j < i}) = k - 1]

\* The elements of s at the positions P, and those that are in S, in the order of s.
KeepPositions(s, P) ==
    LET kept == Ascending(P \cap Positions(s))
    IN  [k \in DOMAIN kept |-> Nth(s, kept[k])]

Among(s, S) == KeepPositions(s, {i \in Positions(s) : Nth(s, i) \in S})

\* Where each kept index is found once the others are gone.
Remapped(count, kept) ==
    [i \in kept \cap (0 .. count - 1) |-> Cardinality({j \in kept : j < i})]

Mapped(s, map) == [i \in 1 .. Len(s) |-> map[s[i]]]

\* s with n elements at least, the new ones equal to x.
Grown(s, n, x) == [i \in 1 .. (IF n > Len(s) THEN n ELSE Len(s)) |-> IF i <= Len(s) THEN s[i] ELSE x]
-----------------------------------------------------------------------------
(* A constraint is the sorted sequence of the LODs to be loaded.            *)

LODRange(maxLOD, minLOD) == [i \in 1 .. minLOD - maxLOD + 1 |-> maxLOD + i - 1]
LODList(lods) == SortSeq(lods, <)

HasImpactOn(constraint, lodCount) ==
    LET lod[k \in 0 .. Len(constraint)] ==
            IF k = 0 THEN 0
            ELSE IF lod[k - 1] < lodCount /\ lod[k - 1] = constraint[k] THEN lod[k - 1] + 1
            ELSE lod[k - 1]
    IN  lodCount # lod[Len(constraint)]

MaxLOD(constraint) == IF constraint = <<>> THEN 0 ELSE Head(constraint)

ClampTo(constraint, lodCount) == Among(constraint, 0 .. lodCount - 1)

ApplyTo(constraint, lods) == KeepPositions(lods, ToSet(constraint))
-----------------------------------------------------------------------------
EmptyMapping == [lods |-> <<>>, indices |-> <<>>]

\* lods[lod] < indices.size(), which getIndices asserts
InTable(m, lod) == Nth(m.lods, lod) < Len(m.indices)

GetIndices(m, lod) == IF lod >= Len(m.lods) THEN <<>> ELSE Nth(m.indices, Nth(m.lods, lod))

\* As if LODs kept the numbers of their lists.
CleanupBehindLODs(m) ==
    [m EXCEPT !.indices = KeepPositions(@, ToSet(m.lods))]

\* Lists that no LOD uses go, and the others move up.
CleanupIndices(m) ==
    LET unused == Positions(m.indices) \ ToSet(m.lods)
    IN  [lods |-> [l \in 1 .. Len(m.lods) |->
                      m.lods[l] - Cardinality({i \in unused : i < m.lods[l]})],
         indices |-> KeepPositions(m.indices, Positions(m.indices) \ unused)]

DiscardLODs(m, constraint) == CleanupIndices([m EXCEPT !.lods = ApplyTo(constraint, @)])

MapIndices(m, map) ==
    [m EXCEPT !.indices = [i \in 1 .. Len(@) |-> Mapped(@[i], map)]]

FilterIndices(m, kept) ==
    [m EXCEPT !.indices = [i \in 1 .. Len(@) |-> Among(@[i], kept)]]

CombinedDistinctIndices(m) == UNION {ToSet(m.indices[i]) : i \in 1 .. Len(m.indices)}

ClearIndices(m, index) ==
    [m EXCEPT !.indices = IF index < Len(@) THEN [@ EXCEPT ![index + 1] = <<>>]
                          ELSE Grown(@, index + 1, <<>>)]

AddIndices(m, index, source) ==
    [m EXCEPT !.indices = [Grown(@, index + 1, <<>>) EXCEPT ![index + 1] = @ \o source]]

AssociateLODWithIndices(m, lod, index) ==
    [lods |-> [Grown(m.lods, lod + 1, 0) EXCEPT ![lod + 1] = index],
     indices |-> Grown(m.indices, index + 1, <<>>)]
=============================================================================
