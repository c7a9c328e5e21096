-------------------------- MODULE JSONInputArchive --------------------------
(***************************************************************************)
(* Reading JSON.  Members are expected in the order of their calls.  The     *)
(* first character that is not the expected one marks the text as malformed, *)
(* for good.  An operator that reads an object returns the reader and the    *)
(* object: [r, v].                                                          *)
(***************************************************************************)
EXTENDS JSONText

\* The buffer is [buffer, next]: what was fetched, from the one character that
\* could be put back, and the character to read next.
Reader(text, marks, version) ==
    [source |-> text, at |-> 0, buffer |-> <<>>, next |-> 1, failed |-> FALSE,
     malformed |-> FALSE, first |-> FALSE, transparent |-> FALSE,
     marks |-> marks, version |-> version]

\* underflow(): an exhausted buffer is filled behind its last character.
Fetched(r) ==
    LET kept  == IF r.buffer = <<>> THEN <<>> ELSE <<Last(r.buffer)>>
        count == Min({BufferSize - Len(kept), Len(r.source) - r.at})
        new   == SubSeq(r.source, r.at + 1, r.at + count)
    IN  IF r.next <= Len(r.buffer) \/ count = 0 THEN r
        ELSE [r EXCEPT !.buffer = kept \o new, !.next = Len(kept) + 1, !.at = @ + count]

\* std::ws and peek() look at the next character, if there is one.
AtEnd(r) == Fetched(r).next > Len(Fetched(r).buffer)
Seen(r)  == Fetched(r).buffer[Fetched(r).next]

\* xsgetn() of one character: the buffer comes first, then the stream itself;
\* then the buffer is filled for the next call.
Advanced(r) ==
    IF r.next <= Len(r.buffer) THEN Fetched([r EXCEPT !.next = @ + 1])
    ELSE Fetched([r EXCEPT !.at = @ + 1])
Taken(r) == IF r.next <= Len(r.buffer) THEN r.buffer[r.next] ELSE r.source[r.at + 1]

\* A character cannot be read at the end, or once a number could not be.
Readable(r) == ~r.failed /\ (r.next <= Len(r.buffer) \/ r.at < Len(r.source))

ReadChar(r) == IF Readable(r) THEN Advanced(r) ELSE [r EXCEPT !.failed = TRUE, !.malformed = TRUE]

Meets(r, ch) == Readable(r) /\ Taken(r) = ch

\* Faulty variant of Expect: the end of the text is not a wrong character.
ExpectUnlessEnd(r, ch) ==
    IF Readable(r) THEN [Advanced(r) EXCEPT !.malformed = @ \/ Taken(r) # ch] ELSE [r EXCEPT !.failed = TRUE]

\* expectChar(): a wrong character is taken, too.
Expect(r, ch) == [ReadChar(r) EXCEPT !.malformed = @ \/ ~Meets(r, ch)]

\* Each expectation is checked only if those before it were met.
ExpectAll(r, chars) ==
    LET next(done, ch) == IF done.malformed THEN done ELSE Expect(done, ch)
    IN  FoldLeft(next, r, chars)

ReadLabel(r, name) ==
    IF r.malformed THEN r
    ELSE LET comma == IF r.first THEN <<>> ELSE <<",">>
         IN  ExpectAll([Fetched(r) EXCEPT !.first = FALSE], comma \o <<Quote, name, Quote, ":">>)

-----------------------------------------------------------------------------
\* A number is zero if there is something else, and stays what it was if there
\* is nothing.  A byte goes through a variable of its own, so that it is
\* overwritten in any case, even in a text known to be malformed.
ReadNumber(r, type, dest) ==
    LET missing == r.failed \/ AtEnd(r)
        found   == ~missing /\ Seen(r) \in Digits
    IN  IF r.malformed /\ type.kind = "number" THEN [r |-> r, v |-> dest]
        ELSE [r |-> IF found THEN Advanced(Fetched(r)) ELSE [Fetched(r) EXCEPT !.failed = TRUE],
              v |-> IF found THEN CHOOSE n \in 0 .. 300 : ToString(n) = Seen(r)
                    ELSE IF missing /\ type.kind = "number" THEN dest ELSE 0]

\* process(char&)
ReadQuoted(r, dest) ==
    LET open == Expect(r, Quote)
        got  == ReadChar(open)
    IN  IF ~Meets(r, Quote) THEN [r |-> open, v |-> dest]
        ELSE IF ~Readable(open) THEN [r |-> got, v |-> dest]
        ELSE [r |-> Expect(got, Quote), v |-> CodeOf(Taken(open))]

RECURSIVE ReadLetters(_, _)

\* Letters up to the closing quote; a text that ends first is malformed.
ReadLetters(r, letters) ==
    IF ~Readable(r) THEN [r |-> ReadChar(r), v |-> letters]
    ELSE IF Taken(r) = Quote THEN [r |-> Advanced(r), v |-> letters]
    ELSE ReadLetters(Advanced(r), Append(letters, Taken(r)))

\* The characters of a string, if it is opened
ReadString(r, dest) ==
    LET open == Expect(r, Quote)
    IN  IF r.malformed THEN [r |-> r, v |-> dest]
        ELSE IF open.malformed THEN [r |-> open, v |-> dest]
        ELSE ReadLetters(open, <<>>)

\* A blob has the size its owner gives it, whatever the string holds.
ReadBlob(r, type, dest) ==
    LET text == ReadString(r, <<>>)
    IN  [r |-> text.r, v |-> Decoded(text.v, Resized(dest, r.marks[type.mark].value))]

\* Offsets and sizes are plain members; anchors and proxies are ignored.
ReadMarker(r, type) ==
    LET got == ReadNumber(r, Number, r.marks[type.mark].value)
    IN  IF type.kind \notin {"offset", "size"} THEN r
        ELSE [got.r EXCEPT !.marks[type.mark].value = got.v]

-----------------------------------------------------------------------------
RECURSIVE Read(_, _, _)
RECURSIVE ReadElements(_, _, _)

\* The elements of a list up to the bracket that closes it.  What stands
\* between two of them is taken for a comma.
ReadElements(r, type, list) ==
    LET new     == IF type.kind = "dynarray" THEN Unset ELSE Blank(type.of)
        element == Read(r, type.of, new)
        longer  == IF element.r.malformed /\ type.kind = "dynarray" THEN list
                   ELSE Append(list, element.v)
    IN  IF element.r.malformed THEN [r |-> element.r, v |-> longer]
        ELSE IF Readable(element.r) /\ Taken(element.r) # "]"
        THEN ReadElements(ReadChar(element.r), type, longer)
        ELSE [r |-> ReadChar(element.r), v |-> longer]

\* An empty list leaves its destination as it is.
ReadList(r, type, dest) ==
    LET open == Expect(r, "[")
    IN  IF r.malformed THEN [r |-> r, v |-> dest]
        ELSE IF open.malformed THEN [r |-> open, v |-> dest]
        ELSE IF ~AtEnd(open) /\ Seen(open) = "]" THEN [r |-> ReadChar(Fetched(open)), v |-> dest]
        ELSE ReadElements(open, type, <<>>)

\* An array reads as many elements as it has, or as there are.
ReadArray(r, type, dest) ==
    LET open == Expect(r, "[")
        element(done, i) ==
            LET got == Read(done.r, type.of, done.v[i])
            IN  IF done.closed THEN done
                ELSE [r |-> IF got.r.malformed THEN got.r ELSE ReadChar(got.r),
                      v |-> [done.v EXCEPT ![i] = got.v],
                      closed |-> got.r.malformed \/ ~Readable(got.r) \/ Taken(got.r) = "]"]
        all == FoldLeft(element, [r |-> open, v |-> dest, closed |-> FALSE], [i \in DOMAIN dest |-> i])
    IN  IF r.malformed THEN [r |-> r, v |-> dest]
        ELSE IF open.malformed THEN [r |-> open, v |-> dest]
        ELSE IF ~AtEnd(open) /\ Seen(open) = "]" THEN [r |-> ReadChar(Fetched(open)), v |-> dest]
        ELSE [r |-> all.r, v |-> all.v]

ReadPair(r, type, dest) ==
    LET open   == Expect(r, "[")
        first  == Read(open, type.of[1], dest[1])
        comma  == Expect(first.r, ",")
        second == Read(comma, type.of[2], dest[2])
    IN  IF r.malformed THEN [r |-> r, v |-> dest]
        ELSE IF open.malformed THEN [r |-> open, v |-> dest]
        ELSE IF ~Meets(first.r, ",") THEN [r |-> comma, v |-> <<first.v, dest[2]>>]
        ELSE [r |-> Expect(second.r, "]"), v |-> <<first.v, second.v>>]

ReadCalls(r, type, calls, dest) ==
    LET call(done, i) ==
            LET at  == IF calls[i].label = "" THEN done.r ELSE ReadLabel(done.r, calls[i].label)
                got == Read(at, calls[i].type, done.v[i])
            IN  [r |-> got.r, v |-> [done.v EXCEPT ![i] = got.v]]
    IN  FoldLeft(call, [r |-> r, v |-> dest], CallsOf(type, r.version))

\* The members are passed to the archive even if the struct was not opened.
ReadRecord(r, type, calls, dest) ==
    LET open   == IF r.transparent THEN [r EXCEPT !.transparent = FALSE]
                  ELSE Expect([Fetched(r) EXCEPT !.first = TRUE], "{")
        inside == ReadCalls(open, type, calls, dest)
    IN  IF r.malformed THEN [r |-> r, v |-> dest]
        ELSE [r |-> IF r.transparent THEN inside.r ELSE Expect(inside.r, "}"), v |-> inside.v]

ReadVersioned(r, type, dest) ==
    IF type.of.kind = "record" THEN ReadRecord(r, type, type.of.calls, dest)
    ELSE Read(r, type.of, dest)

Read(r, type, dest) ==
    CASE type.kind \in {"number", "byte"} -> ReadNumber(r, type, dest)
      [] type.kind = "char" -> ReadQuoted(r, dest)
      [] type.kind \in Markers -> [r |-> ReadMarker(r, type), v |-> dest]
      [] type.kind = "string" ->
             LET got == ReadString(r, [i \in DOMAIN dest |-> Letter(dest[i])])
             IN  [r |-> got.r, v |-> [i \in DOMAIN got.v |-> CodeOf(got.v[i])]]
      [] type.kind = "blob" -> ReadBlob(r, type, dest)
      [] type.kind \in {"vector", "dynarray"} -> ReadList(r, type, dest)
      [] type.kind = "array" -> ReadArray(r, type, dest)
      [] type.kind = "pair" -> ReadPair(r, type, dest)
      [] type.kind = "record" -> ReadRecord(r, type, type.calls, dest)
      [] type.kind = "versioned" -> ReadVersioned(r, type, dest)
      [] type.kind = "transparent" -> Read([r EXCEPT !.transparent = TRUE], type.of, dest)

=============================================================================
