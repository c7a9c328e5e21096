---------------------------- MODULE ArchiveTypes ----------------------------
(***************************************************************************)
(* What an archive saves and loads.  An overload of process() is chosen by   *)
(* the type of its argument: here a type is a record with the field kind,    *)
(* and an object is a number, or a sequence of the objects of its parts.     *)
(*                                                                          *)
(* A struct is a sequence of calls [label, type, since]: a label, the member *)
(* passed to the archive, and the first version that has it.  Its object is  *)
(* the sequence of what it passes.                                          *)
(***************************************************************************)
EXTENDS Integers, Sequences, SequencesExt

\* Scalars: of several bytes, of one byte (std::uint8_t), or a character
Number == [kind |-> "number"]
Byte   == [kind |-> "byte"]
Char   == [kind |-> "char"]

Text           == [kind |-> "string"]
Vector(type)   == [kind |-> "vector", of |-> type]
DynArray(type) == [kind |-> "dynarray", of |-> type]
Array(type, n) == [kind |-> "array", of |-> type, count |-> n]
Pair(a, b)     == [kind |-> "pair", of |-> <<a, b>>]

\* A blob has the size its owner sets before it is processed, here the size
\* mark of its index.
Blob(mark) == [kind |-> "blob", mark |-> mark]

Record(calls)     == [kind |-> "record", calls |-> calls]
Versioned(type)   == [kind |-> "versioned", of |-> type]
Transparent(type) == [kind |-> "transparent", of |-> type]

\* Where a section starts and how long it is, known once it is written
Offset(mark)      == [kind |-> "offset", mark |-> mark]
HereOf(mark)      == [kind |-> "here", mark |-> mark]
Anchor(mark)      == [kind |-> "anchor", mark |-> mark]
Size(mark)        == [kind |-> "size", mark |-> mark]
EndOf(mark, base) == [kind |-> "end", mark |-> mark, base |-> base]

Markers == {"offset", "here", "anchor", "size", "end"}

\* Scalars are read and written in one piece.
IsScalar(type) == type.kind \in {"number", "byte", "char"}

\* Bytes that nothing was written to
Unset == -1

Mark == [position |-> 0, value |-> 0]

\* The calls a serializer makes, in order: one for versions makes those its
\* version has.
CallsOf(type, version) ==
    IF type.kind = "versioned"
    THEN SelectSeq([i \in DOMAIN type.of.calls |-> i], LAMBDA i : type.of.calls[i].since <= version)
    ELSE [i \in DOMAIN type.calls |-> i]

-----------------------------------------------------------------------------
RECURSIVE Blank(_)

\* An object as its constructor leaves it
Blank(type) ==
    CASE IsScalar(type) \/ type.kind \in Markers -> 0
      [] type.kind \in {"string", "vector", "dynarray", "blob"} -> <<>>
      [] type.kind = "array" -> [i \in 1 .. type.count |-> Blank(type.of)]
      [] type.kind = "pair" -> [i \in 1 .. 2 |-> Blank(type.of[i])]
      [] type.kind = "record" -> [i \in DOMAIN type.calls |-> Blank(type.calls[i].type)]
      [] type.kind \in {"versioned", "transparent"} -> Blank(type.of)

\* A list that was resized without a value for its new elements
Resized(list, n) == [i \in 1 .. n |-> IF i <= Len(list) THEN list[i] ELSE Unset]

=============================================================================
