----------------------------- MODULE CurveTables -----------------------------
(***************************************************************************)
(* Conditional tables grown row by row, as the factories read them from a   *)
(* DNA file, and every assignment of values to their inputs.                *)
(***************************************************************************)
EXTENDS ConditionalTable

CONSTANTS Inputs, Outputs,
          Segments,     \* what a row may be: <<from, to, slope, cut>>
          InputValues,
          MaxRows

VARIABLES table, inputs
vars == <<table, inputs>>

ASSUME SegmentsAssumption == Segments \subseteq Int \X Int \X Int \X Int

ASSUME InputValuesAssumption == InputValues \subseteq Int

Row(c, o, s) ==
    [in |-> c, out |-> o, from |-> s[1], to |-> s[2], slope |-> s[3], cut |-> s[4]]

Init ==
    /\ table = << >>
    /\ inputs \in [Inputs -> InputValues]

AddRow(row) ==
    /\ Len(table) < MaxRows
    /\ table' = Append(table, Ordered(row))
    /\ UNCHANGED inputs

Next == \E c \in Inputs, o \in Outputs, s \in Segments : AddRow(Row(c, o, s))

Spec == Init /\ [][Next]_vars
-----------------------------------------------------------------------------
\* Curves: maximal runs of consecutive rows with the same input and output
Curves ==
    {run \in (1 .. Len(table)) \X (1 .. Len(table)) :
        /\ run[1] <= run[2]
        /\ \A i \in run[1] .. run[2] : SameCurve(table[run[1]], table[i])
        /\ run[1] > 1 => ~SameCurve(table[run[1]], table[run[1] - 1])
        /\ run[2] < Len(table) => ~SameCurve(table[run[2]], table[run[2] + 1])}

\* The rows of a curve that a LOD has and whose segment holds the input
Hits(run, rowCount) ==
    {i \in run[1] .. run[2] : i <= rowCount /\ InInterval(table[i], inputs[table[i].in])}

\* A curve is worth its first segment that holds the input.
FirstHits(o, rowCount) ==
    {Min(Hits(run, rowCount)) :
        run \in {r \in Curves : table[r[1]].out = o /\ Hits(r, rowCount) # {}}}

Reference(rowCount) ==
    [o \in Outputs |-> Clamp01(SumOfRows(table, FirstHits(o, rowCount), inputs))]

\* At every LOD, an output is the clamped sum of its curves, each of which counts
\* once, also where two of its segments meet and where the LOD cuts it short.
ForwardIsSumOfCurves ==
    \A rowCount \in 0 .. Len(table) :
        CalculateForward(table, rowCount, inputs, Outputs) = Reference(rowCount)

Forward(in) == CalculateForward(table, Len(table), in, Outputs)
Reverse(out) == CalculateReverse(table, Len(table), out, Inputs)

Neutral == [c \in Inputs |-> 0]

\* Segments run from 0 to 1 or from 1 to 0.
FullSlope ==
    \A i \in 1 .. Len(table) :
        /\ table[i].slope \in {-1, 1}
        /\ \A x \in table[i].from .. table[i].to : table[i].slope * x + table[i].cut \in {0, 1}

\* What the reverse mapping was written for: segments at full slope, every input
\* up to the last that has rows has some, every output has one curve
\* whose segments agree where they meet, the neutral inputs drive no output, and
\* the first segment of an input holds its neutral.
WellFormed ==
    /\ FullSlope
    /\ \A c, d \in Inputs : c < d /\ RangesOf(table, d) # {} => RangesOf(table, c) # {}
    /\ \A run, other \in Curves : table[run[1]].out = table[other[1]].out => run = other
    /\ \A i, j \in 1 .. Len(table), v \in InputValues :
          LET in == [c \in Inputs |-> v]
          IN  SameCurve(table[i], table[j]) /\ InInterval(table[i], v) /\ InInterval(table[j], v)
                  => RowValue(table[i], in) = RowValue(table[j], in)
    /\ Forward(Neutral) = [o \in Outputs |-> 0]
    /\ \A i \in 1 .. Len(table) :
          (\A j \in 1 .. i - 1 : table[j].in # table[i].in) => InInterval(table[i], 0)

\* Every curve has one segment: an output that is not zero tells the interval
\* its input was in.
OneSegmentPerCurve == \A run \in Curves : run[1] = run[2]

\* The reverse mapping finds inputs that lead to the outputs it was given.
ReverseInverts ==
    WellFormed /\ OneSegmentPerCurve => Forward(Reverse(Forward(inputs))) = Forward(inputs)
=============================================================================
