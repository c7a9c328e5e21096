------------------------- MODULE JSONOutputArchive --------------------------
(***************************************************************************)
(* Writing JSON.  The archive keeps whether the next member is the first of  *)
(* its struct, and whether the next struct is written without braces.       *)
(***************************************************************************)
EXTENDS JSONText

Writer(marks, version) ==
    [sink |-> <<>>, buffer |-> <<>>, first |-> FALSE, transparent |-> FALSE,
     marks |-> marks, version |-> version]

\* CharOutputStreamBuf::sync()
Flushed(w) == [w EXCEPT !.sink = @ \o w.buffer, !.buffer = <<>>]

\* xsputn(): what does not fit is written behind the buffer's contents.
PutAll(w, chars) ==
    IF Len(chars) < BufferSize - 1 - Len(w.buffer)
    THEN [w EXCEPT !.buffer = @ \o chars]
    ELSE [Flushed(w) EXCEPT !.sink = @ \o chars]

\* One character: a full buffer has one place left for it.
PutChar(w, ch) ==
    LET put == [w EXCEPT !.buffer = Append(@, ch)]
    IN  IF Len(w.buffer) < BufferSize - 1 THEN put ELSE Flushed(put)

\* A label is preceded by a comma unless it is the first of its struct.
WriteLabel(w, name) ==
    LET comma == IF w.first THEN w ELSE PutAll(w, <<",">>)
        named == PutAll(PutAll(PutAll(comma, <<Quote>>), <<name>>), <<Quote>>)
    IN  PutAll([named EXCEPT !.first = FALSE], <<":">>)

WriteString(w, chars) == PutAll(PutAll(PutAll(w, <<Quote>>), chars), <<Quote>>)

WriteScalar(w, type, value) ==
    IF type.kind = "char" THEN WriteString(w, <<Letter(value)>>) ELSE PutChar(w, ToString(value))

RECURSIVE Write(_, _, _)

\* The elements of a list or a pair, in brackets
WriteList(w, types, values) ==
    LET element(done, i) ==
            Write(IF i = 1 THEN done ELSE PutAll(done, <<",">>), types[i], values[i])
    IN  PutAll(FoldLeft(element, PutAll(w, <<"[">>), [i \in DOMAIN values |-> i]), <<"]">>)

WriteCalls(w, type, calls, value) ==
    LET call(done, i) ==
            Write(IF calls[i].label = "" THEN done ELSE WriteLabel(done, calls[i].label),
                  calls[i].type, value[i])
    IN  FoldLeft(call, w, CallsOf(type, w.version))

\* A struct writes its members in braces, unless it was passed transparently.
WriteRecord(w, type, calls, value) ==
    LET inside == WriteCalls(IF w.transparent THEN [w EXCEPT !.transparent = FALSE]
                             ELSE PutAll([w EXCEPT !.first = TRUE], <<"{">>), type, calls, value)
    IN  IF w.transparent THEN inside ELSE PutAll(inside, <<"}">>)

\* Without a serializer for versions the object is written as it is.
WriteVersioned(w, type, value) ==
    IF type.of.kind = "record" THEN WriteRecord(w, type, type.of.calls, value)
    ELSE Write(w, type.of, value)

\* A blob is resized by its owner, then written as a string.
WriteBlob(w, type, bytes) ==
    WriteString(w, Encoded(Resized(bytes, w.marks[type.mark].value)))

\* Offsets and sizes are plain members, and what would fill them is ignored.
WriteMarker(w, type) ==
    IF type.kind \in {"offset", "size"} THEN PutChar(w, ToString(w.marks[type.mark].value)) ELSE w

Write(w, type, value) ==
    CASE IsScalar(type) -> WriteScalar(w, type, value)
      [] type.kind \in Markers -> WriteMarker(w, type)
      [] type.kind = "string" -> WriteString(w, [i \in DOMAIN value |-> Letter(value[i])])
      [] type.kind = "blob" -> WriteBlob(w, type, value)
      [] type.kind \in {"vector", "dynarray", "array"} ->
             WriteList(w, [i \in DOMAIN value |-> type.of], value)
      [] type.kind = "pair" -> WriteList(w, type.of, value)
      [] type.kind = "record" -> WriteRecord(w, type, type.calls, value)
      [] type.kind = "versioned" -> WriteVersioned(w, type, value)
      [] type.kind = "transparent" -> Write([w EXCEPT !.transparent = TRUE], type.of, value)

=============================================================================
