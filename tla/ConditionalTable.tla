-------------------------- MODULE ConditionalTable --------------------------
(***************************************************************************)
(* The piecewise linear table that maps GUI controls to raw controls (and   *)
(* back) and that drives the animated maps.  A table is a sequence of rows  *)
(*   [in, out, from, to, slope, cut]:                                       *)
(* a row contributes slope * input + cut to its output when the input lies  *)
(* in [from, to].  Consecutive rows with the same input and output are the  *)
(* intervals of one curve, of which at most one contributes.                *)
(*                                                                         *)
(* Values are integers and 1 stands for 1.0f; rounding is not modelled.     *)
(***************************************************************************)
EXTENDS Integers, Sequences, FiniteSetsExt

\* clamp(x, 0.0f, 1.0f) of an integer x
Clamp01(x) == IF x < 1 THEN 0 ELSE 1

\* DNA files may hold a row's interval in reverse order: the factories swap it.
Ordered(row) ==
    IF row.from > row.to
    THEN [row EXCEPT !.from = row.to, !.to = row.from]
    ELSE row

SameCurve(r, s) == r.in = s.in /\ r.out = s.out

\* Faulty variant of IntervalsRemaining: curves are told apart by input alone.
RemainingOfInput(table, i) ==
    Max({j \in i .. Len(table) : \A k \in i .. j : table[k].in = table[i].in}) - i

\* intervalsRemaining[i]: how many rows of i's curve follow row i directly
IntervalsRemaining(table, i) ==
    LET after == {j \in i .. Len(table) :
                    \A k \in i .. j : SameCurve(table[i], table[k])}
    IN  Max(after) - i

InInterval(row, x) == row.from <= x /\ x <= row.to

(***************************************************************************)
(* Forward evaluation: rows are visited in order, and a row that            *)
(* contributes makes the loop jump over the intervals left in its curve.    *)
(***************************************************************************)
Contributing(table, rowCount, inputs) ==
    LET fires[i \in 1 .. rowCount] ==
            /\ InInterval(table[i], inputs[table[i].in])
            /\ \A j \in 1 .. i - 1 :
                   fires[j] => j + IntervalsRemaining(table, j) < i
    IN  {i \in 1 .. rowCount : fires[i]}

RowValue(row, inputs) == row.slope * inputs[row.in] + row.cut

SumOfRows(table, rows, inputs) == MapThenSumSet(LAMBDA i : RowValue(table[i], inputs), rows)

CalculateForward(table, rowCount, inputs, Outputs) ==
    LET rows == Contributing(table, rowCount, inputs)
    IN  [o \in Outputs |-> Clamp01(SumOfRows(table, {i \in rows : table[i].out = o}, inputs))]

(***************************************************************************)
(* Reverse evaluation.  The rows that share an input are grouped by         *)
(* interval, in order of first appearance; the interval most of whose rows  *)
(* could have produced the given outputs is taken, and its first row that   *)
(* admits a solution is inverted.  slope is 1 or -1 here, so that the       *)
(* quotient (output - cut) / slope is (output - cut) * slope.               *)
(***************************************************************************)
Solution(row, outputs) == (outputs[row.out] - row.cut) * row.slope

Solvable(row, outputs) == InInterval(row, Solution(row, outputs))

\* Faulty variant of ValidOutput: a zero output counts.
AnyOutput(row, outputs) == Solvable(row, outputs)

\* isValidOutput: a zero output is no evidence that the row was used
ValidOutput(row, outputs) == outputs[row.out] # 0 /\ Solvable(row, outputs)

\* The rows of the interval that row i belongs to
RangeRows(table, i) ==
    {j \in 1 .. Len(table) : /\ table[j].in = table[i].in
                             /\ table[j].from = table[i].from
                             /\ table[j].to = table[i].to}

\* Intervals of an input, each named by its first row
RangesOf(table, c) ==
    {i \in 1 .. Len(table) : table[i].in = c /\ i = Min(RangeRows(table, i))}

WinningRange(table, rowCount, c, outputs) ==
    LET Solutions(i) ==
            Cardinality({j \in RangeRows(table, i) :
                            j <= rowCount /\ ValidOutput(table[j], outputs)})
    IN  CHOOSE i \in RangesOf(table, c) :
            \A j \in RangesOf(table, c) \ {i} :
                \/ Solutions(j) < Solutions(i)
                \/ Solutions(j) = Solutions(i) /\ i < j

\* An input without rows keeps 0: the code relies on every input up to the last
\* one that the table names having a row.
CalculateReverse(table, rowCount, outputs, Inputs) ==
    LET Rows(c) ==
            {j \in RangeRows(table, WinningRange(table, rowCount, c, outputs)) :
                j <= rowCount /\ Solvable(table[j], outputs)}
    IN  [c \in Inputs |->
            IF RangesOf(table, c) = {} \/ Rows(c) = {} THEN 0
            ELSE Solution(table[Min(Rows(c))], outputs)]
=============================================================================
