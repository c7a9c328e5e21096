---------------------------- MODULE PaddedBlocks ----------------------------
(***************************************************************************)
(* Matrices as the vectorized evaluators hold them: cut into blocks of      *)
(* height rows, the last of which may be half as high, each block stored    *)
(* column by column, and the rows padded to whole blocks.  Rows, columns    *)
(* and offsets count from 0, as in the code; sequences start at 1.          *)
(***************************************************************************)
EXTENDS Integers, Sequences

Sum(values) ==
    LET upTo[i \in 0 .. Len(values)] == IF i = 0 THEN 0 ELSE upTo[i - 1] + values[i]
    IN  upTo[Len(values)]

Joined(seqs) ==
    LET upTo[i \in 0 .. Len(seqs)] == IF i = 0 THEN <<>> ELSE upTo[i - 1] \o seqs[i]
    IN  upTo[Len(seqs)]

RoundUp(n, multiple) == ((n + multiple - 1) \div multiple) * multiple

\* Which rows a LOD of size rows takes from a matrix of padded rows: blocks up
\* to lastFull are evaluated whole, those from secondLast on are masked, and what
\* is left goes by half blocks of padTo rows.
PaddedBlockView(size, padded, height, padTo) ==
    LET inLastPadToBlock == (padded % height) = padTo /\ (padded - size) < padTo
        end == RoundUp(size, IF inLastPadToBlock THEN padTo ELSE height)
        lastFull == end - (end % height)
    IN  [size |-> size, lastFull |-> lastFull,
         secondLast |-> IF end # size /\ ~inLastPadToBlock THEN lastFull - height
                        ELSE lastFull]

\* Optimizer: the blocks of a matrix given row by row.  With a stride the rows
\* of a block are dealt out: rows 0, stride, 2 * stride, ... come first.
Optimized(source, rows, cols, height, padTo, stride, pad) ==
    LET target == rows - (rows % height)
        rest == RoundUp(rows % height, padTo)
        Entry(first, h, n) ==
            LET col == n \div h
                group == (n % h) \div (h \div stride)
                row == first + group + ((n % h) % (h \div stride)) * stride
            IN  IF row < rows THEN source[row * cols + col + 1] ELSE pad
    IN  [i \in 1 .. (target + rest) * cols |->
            IF i <= target * cols
            THEN Entry(((i - 1) \div (height * cols)) * height, height,
                       (i - 1) % (height * cols))
            ELSE Entry(target, rest, i - 1 - target * cols)]

\* Where the evaluation, which goes by full blocks up to lastFull and by half
\* blocks from there, finds row and column of a matrix of cols columns.
BlockHeight(view, row, height, padTo) == IF row < view.lastFull THEN height ELSE padTo

BlockStart(view, row, height, padTo) ==
    LET h == BlockHeight(view, row, height, padTo)
    IN  IF row < view.lastFull THEN (row \div h) * h
        ELSE view.lastFull + ((row - view.lastFull) \div h) * h

EntryAt(view, row, col, cols, height, padTo, stride) ==
    LET h == BlockHeight(view, row, height, padTo)
        start == BlockStart(view, row, height, padTo)
        inside == row - start
    IN  start * cols + col * h + ((inside % stride) * (h \div stride)) + (inside \div stride) + 1

\* The rows whose results are stored when full blocks are masked ...
StoredRows(view, height) ==
    {row \in 0 .. view.size - 1 : row >= view.lastFull}
        \cup (0 .. view.secondLast - 1)
        \cup {row \in view.secondLast .. view.lastFull - 1 :
                  (row - view.secondLast) % height < view.size % height}

\* ... and how many are computed when they are not.
ComputedRows(view, padTo) ==
    IF view.size <= view.lastFull THEN view.lastFull
    ELSE view.lastFull + RoundUp(view.size - view.lastFull, padTo)
=============================================================================
