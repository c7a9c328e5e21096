---------------------------- MODULE BinaryArchive ---------------------------
(***************************************************************************)
(* The binary archive over a stream of bytes.  Labels mean nothing here: an  *)
(* object is found where the objects before it end, and a section where the  *)
(* offset that was left for it points.                                      *)
(***************************************************************************)
EXTENDS ArchiveTypes

CONSTANTS
    BlockWidth    \* numbers that are swapped at once: as many as a block holds

ASSUME BlocksAreUsable == BlockWidth \in Nat \ {0}

-----------------------------------------------------------------------------
\* A number of several bytes, here two, on a machine that keeps the low byte
\* first; the archive's order is the other one.
WordBytes == 2
InMemory(n)     == <<n % 256, n \div 256>>
FromMemory(raw) == raw[1] + 256 * raw[2]
Swap(n)         == FromMemory(Reverse(InMemory(n)))

WidthOf(type) == IF type.kind \in {"byte", "char"} THEN 1 ELSE WordBytes

-----------------------------------------------------------------------------
\* The archive: [bytes, at, marks, version], the stream and its position

Archive(bytes, marks, version) ==
    [bytes |-> bytes, at |-> 0, marks |-> marks, version |-> version]

Put(b, bytes) ==
    [b EXCEPT !.at = @ + Len(bytes),
              !.bytes = [i \in 1 .. Max({Len(@), b.at + Len(bytes)}) |->
                            IF i \in b.at + 1 .. b.at + Len(bytes) THEN bytes[i - b.at] ELSE b.bytes[i]]]

SeekTo(b, at) == [b EXCEPT !.at = at]

SaveWord(b, n) == Put(b, InMemory(Swap(n)))

SaveScalar(b, type, value) == IF WidthOf(type) = 1 THEN Put(b, <<value>>) ELSE SaveWord(b, value)

\* The place of an offset or a size is kept, and filled with zeros.
SaveMark(b, mark) == SaveWord([b EXCEPT !.marks[mark].position = b.at], 0)

\* Its value is written there once it is known, and writing goes on from here.
FillMark(b, mark, value) ==
    LET filled == SaveWord(SeekTo([b EXCEPT !.marks[mark].value = value], b.marks[mark].position), value)
    IN  SeekTo(filled, b.at)

\* Where this is, or how far from the anchor
SaveMarker(b, type) ==
    CASE type.kind = "anchor" -> [b EXCEPT !.marks[type.mark].value = b.at]
      [] type.kind \in {"offset", "size"} -> SaveMark(b, type.mark)
      [] type.kind = "here" -> FillMark(b, type.mark, b.at)
      [] type.kind = "end" -> FillMark(b, type.mark, b.at - b.marks[type.base].value)

SaveBlob(b, type, bytes) == Put(b, Resized(bytes, b.marks[type.mark].value))

RECURSIVE Save(_, _, _)

SaveEach(b, types, values) ==
    LET element(done, i) == Save(done, types[i], values[i])
    IN  FoldLeft(element, b, [i \in DOMAIN values |-> i])

\* Arrays have a size of their own; lists are preceded by theirs.
SaveList(b, type, values) ==
    LET sized == IF type.kind = "array" THEN b ELSE SaveWord(b, Len(values))
    IN  SaveEach(sized, [i \in DOMAIN values |-> IF type.kind = "string" THEN Char ELSE type.of], values)

SaveCalls(b, type, calls, value) ==
    LET call(done, i) == Save(done, calls[i].type, value[i])
    IN  FoldLeft(call, b, CallsOf(type, b.version))

SaveVersioned(b, type, value) ==
    IF type.of.kind = "record" THEN SaveCalls(b, type, type.of.calls, value) ELSE Save(b, type.of, value)

Save(b, type, value) ==
    CASE IsScalar(type) -> SaveScalar(b, type, value)
      [] type.kind \in Markers -> SaveMarker(b, type)
      [] type.kind \in {"string", "vector", "dynarray", "array"} -> SaveList(b, type, value)
      [] type.kind = "blob" -> SaveBlob(b, type, value)
      [] type.kind = "pair" -> SaveEach(b, type.of, value)
      [] type.kind = "record" -> SaveCalls(b, type, type.calls, value)
      [] type.kind = "versioned" -> SaveVersioned(b, type, value)
      [] type.kind = "transparent" -> Save(b, type.of, value)

-----------------------------------------------------------------------------
\* Loading: the archive and the object, [b, v]

NextBytes(b, n) == SubSeq(b.bytes, b.at + 1, b.at + n)

LoadWord(b) == [b |-> SeekTo(b, b.at + WordBytes), v |-> Swap(FromMemory(NextBytes(b, WordBytes)))]

LoadScalar(b, type) ==
    IF WidthOf(type) = 1 THEN [b |-> SeekTo(b, b.at + 1), v |-> NextBytes(b, 1)[1]] ELSE LoadWord(b)

\* Offsets and sizes are read where they stand, and sought when their section
\* starts and ends.
LoadMarker(b, type) ==
    CASE type.kind = "anchor" -> [b EXCEPT !.marks[type.mark].value = b.at]
      [] type.kind \in {"offset", "size"} ->
             [LoadWord(b).b EXCEPT !.marks[type.mark].value = LoadWord(b).v]
      [] type.kind = "here" -> SeekTo(b, b.marks[type.mark].value)
      [] type.kind = "end" -> SeekTo(b, b.marks[type.base].value + b.marks[type.mark].value)

LoadBlob(b, type) ==
    LET size == b.marks[type.mark].value
    IN  [b |-> SeekTo(b, b.at + size), v |-> NextBytes(b, size)]

\* Faulty variant of LoadWords: the numbers behind the last whole block stay
\* as they were read.
LoadWordBlocks(b, n) ==
    [b |-> SeekTo(b, b.at + n * WordBytes),
     v |-> [i \in 1 .. n |->
               LET raw == FromMemory(SubSeq(b.bytes, b.at + (i - 1) * WordBytes + 1, b.at + i * WordBytes))
               IN  IF i <= n - (n % BlockWidth) THEN Swap(raw) ELSE raw]]

\* Numbers are read in one piece and swapped in place: whole blocks first, then
\* the rest.
LoadWords(b, n) ==
    LET raw     == [i \in 1 .. n |->
                       FromMemory(SubSeq(b.bytes, b.at + (i - 1) * WordBytes + 1, b.at + i * WordBytes))]
        aligned == n - (n % BlockWidth)
        block(words, k) ==
            [i \in DOMAIN words |-> IF i \in k * BlockWidth + 1 .. (k + 1) * BlockWidth
                                    THEN Swap(words[i]) ELSE words[i]]
        blocks  == FoldLeft(block, raw, [k \in 1 .. aligned \div BlockWidth |-> k - 1])
    IN  [b |-> SeekTo(b, b.at + n * WordBytes),
         v |-> [i \in 1 .. n |-> IF i > aligned THEN Swap(blocks[i]) ELSE blocks[i]]]

RECURSIVE Load(_, _, _)

LoadEach(b, types, dest) ==
    LET element(done, i) ==
            LET got == Load(done.b, types[i], done.v[i])
            IN  [b |-> got.b, v |-> [done.v EXCEPT ![i] = got.v]]
    IN  FoldLeft(element, [b |-> b, v |-> dest], [i \in DOMAIN dest |-> i])

\* A list of scalars keeps what it has if there are none; other lists are
\* cleared.
LoadList(b, type, dest) ==
    LET size == LoadWord(b)
        elem == IF type.kind = "string" THEN Char ELSE type.of
        rest == [size.b EXCEPT !.at = @ + size.v]
    IN  IF IsScalar(elem) /\ size.v = 0 THEN [b |-> size.b, v |-> dest]
        ELSE IF ~IsScalar(elem)
        THEN LoadEach(size.b, [i \in 1 .. size.v |-> elem], [i \in 1 .. size.v |-> Blank(elem)])
        ELSE IF WidthOf(elem) = 1 THEN [b |-> rest, v |-> NextBytes(size.b, size.v)]
        ELSE LoadWords(size.b, size.v)

LoadCalls(b, type, calls, dest) ==
    LET call(done, i) ==
            LET got == Load(done.b, calls[i].type, done.v[i])
            IN  [b |-> got.b, v |-> [done.v EXCEPT ![i] = got.v]]
    IN  FoldLeft(call, [b |-> b, v |-> dest], CallsOf(type, b.version))

LoadVersioned(b, type, dest) ==
    IF type.of.kind = "record" THEN LoadCalls(b, type, type.of.calls, dest) ELSE Load(b, type.of, dest)

Load(b, type, dest) ==
    CASE IsScalar(type) -> LoadScalar(b, type)
      [] type.kind \in Markers -> [b |-> LoadMarker(b, type), v |-> dest]
      [] type.kind \in {"string", "vector", "dynarray"} -> LoadList(b, type, dest)
      [] type.kind = "array" -> LoadEach(b, [i \in DOMAIN dest |-> type.of], dest)
      [] type.kind = "blob" -> LoadBlob(b, type)
      [] type.kind = "pair" -> LoadEach(b, type.of, dest)
      [] type.kind = "record" -> LoadCalls(b, type, type.calls, dest)
      [] type.kind = "versioned" -> LoadVersioned(b, type, dest)
      [] type.kind = "transparent" -> Load(b, type.of, dest)

=============================================================================
