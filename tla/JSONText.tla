------------------------------ MODULE JSONText ------------------------------
(***************************************************************************)
(* The text of the JSON archives: a sequence of characters, where a number,  *)
(* a member's name and a letter of a string count as one.  The white space   *)
(* that the writer lays out and the reader skips is left out.  Both sides    *)
(* keep a buffer between the archive and its stream.                        *)
(***************************************************************************)
EXTENDS ArchiveTypes, TLC

CONSTANT BufferSize  \* characters of a stream buffer

ASSUME BufferIsUsable == BufferSize \in Nat /\ BufferSize > 1

Quote == "quote"
Digits == {ToString(n) : n \in 0 .. 300}
Letter(c) == "c" \o ToString(c)
CodeOf(ch) == IF \E c \in 0 .. 63 : Letter(c) = ch THEN CHOOSE c \in 0 .. 63 : Letter(c) = ch ELSE Unset

-----------------------------------------------------------------------------
\* Bytes as characters of six bits each

\* The width bits that start at a bit, from pieces of size bits
Bits(pieces, size, bit, width) ==
    LET Piece(i) == IF i <= Len(pieces) THEN pieces[i] ELSE 0
        first    == (bit \div size) + 1
        two      == Piece(first) * (2 ^ size) + Piece(first + 1)
    IN  (two \div (2 ^ (2 * size - width - (bit % size)))) % (2 ^ width)

Encoded(bytes) ==
    LET sextets == (8 * Len(bytes) + 5) \div 6
        padded  == 4 * ((((4 * Len(bytes)) \div 3) + 3) \div 4)
    IN  [k \in 1 .. padded |-> IF k <= sextets THEN Letter(Bits(bytes, 8, 6 * (k - 1), 6)) ELSE "="]

\* Decoding stops at the first character outside the alphabet, and writes to
\* the front of the destination.
Decoded(chars, dest) ==
    LET codes == [k \in DOMAIN chars |-> CodeOf(chars[k])]
        valid == CHOOSE n \in 0 .. Len(codes) :
                     /\ \A k \in 1 .. n : codes[k] # Unset
                     /\ n < Len(codes) => codes[n + 1] = Unset
        bytes == [j \in 1 .. (6 * valid) \div 8 |-> Bits(SubSeq(codes, 1, valid), 6, 8 * (j - 1), 8)]
    IN  [i \in DOMAIN dest |-> IF i <= Len(bytes) THEN bytes[i] ELSE dest[i]]

=============================================================================
