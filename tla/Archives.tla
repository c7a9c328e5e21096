------------------------------ MODULE Archives ------------------------------
(***************************************************************************)
(* An object is saved by either archive, and what was saved is loaded into a *)
(* new object: by a reader of the same version or an older one, and, where   *)
(* it is text, also after it was cut short.                                 *)
(***************************************************************************)
EXTENDS JSONOutputArchive, JSONInputArchive, BinaryArchive

CONSTANTS
    Types,          \* the types that are saved, by name
    Objects,        \* the objects of each type, [object, bytes]: bytes of its blob
    Versions,       \* versions of the file format
    OldBytes        \* what the stream may hold before

ASSUME VersionsAreNumbers == Versions \subseteq Nat
ASSUME ObjectsOfTypes == DOMAIN Objects = DOMAIN Types

VARIABLES
    format,   \* the archive in use
    type,     \* the type's name
    source,   \* what is saved: the object, and how long its blob is
    version,  \* the version it is saved in
    stream,   \* the bytes or the text
    cut,      \* whether the text was cut short
    loaded,   \* the object that was loaded
    loadedAs, \* the version it was read as
    ok,       \* isOk() of the archive that read it
    phase

vars == <<format, type, source, version, stream, cut, loaded, loadedAs, ok, phase>>

\* The index of the table that is written with the object: it knows the size of
\* a blob, as the index it was read with does.
MarkNames == {"layer", "layerSize", "layerBase", "unknown", "unknownSize", "unknownBase"}

MarksFor(bytes) == [m \in MarkNames |-> [Mark EXCEPT !.value = IF m = "unknownSize" THEN bytes ELSE 0]]

NoMarks == MarksFor(0)

RECURSIVE Known(_, _, _)

\* What a version has of an object; the rest is blank.
Known(t, v, object) ==
    CASE t.kind = "versioned" /\ t.of.kind = "record" ->
             [i \in DOMAIN object |-> IF Contains(CallsOf(t, v), i)
                                      THEN Known(t.of.calls[i].type, v, object[i])
                                      ELSE Blank(t.of.calls[i].type)]
      [] t.kind = "record" -> [i \in DOMAIN object |-> Known(t.calls[i].type, v, object[i])]
      [] t.kind \in {"vector", "array"} -> [i \in DOMAIN object |-> Known(t.of, v, object[i])]
      [] t.kind = "pair" -> [i \in DOMAIN object |-> Known(t.of[i], v, object[i])]
      [] t.kind = "transparent" -> Known(t.of, v, object)
      [] t.kind = "versioned" /\ t.of.kind # "record" -> Known(t.of, v, object)
      [] OTHER -> object

-----------------------------------------------------------------------------
Init ==
    /\ format \in {"json", "binary"}
    /\ type \in DOMAIN Types
    /\ source \in Objects[type]
    /\ version \in Versions
    /\ stream \in IF format = "binary" THEN OldBytes ELSE {<<>>}
    /\ cut = FALSE
    /\ loaded = Blank(Types[type])
    /\ loadedAs = version
    /\ ok = TRUE
    /\ phase = "new"

\* archive << object; what the archive's buffer still holds is written when it
\* is destroyed.
SaveObject ==
    /\ phase = "new"
    /\ stream' =
           IF format = "json"
           THEN Flushed(Write(Writer(MarksFor(source.bytes), version),
                                        Types[type], source.object)).sink
           ELSE Save(Archive(stream, MarksFor(source.bytes), version), Types[type], source.object).bytes
    /\ phase' = "saved"
    /\ UNCHANGED <<format, type, source, version, cut, loaded, loadedAs, ok>>

\* Only the start of the text arrives.
CutShort(n) ==
    /\ phase = "saved"
    /\ format = "json"
    /\ ~cut
    /\ n < Len(stream)
    /\ stream' = SubSeq(stream, 1, n)
    /\ cut' = TRUE
    /\ UNCHANGED <<format, type, source, version, loaded, loadedAs, ok, phase>>

\* archive >> object, by a reader that knows no version after v
LoadObject(v) ==
    /\ phase = "saved"
    /\ v <= version
    /\ phase' = "loaded"
    /\ loadedAs' = v
    /\ IF format = "json"
       THEN LET got == Read(Reader(stream, NoMarks, v), Types[type], loaded)
            IN  loaded' = got.v /\ ok' = ~got.r.malformed
       ELSE LET got == Load(Archive(stream, NoMarks, v), Types[type], loaded)
            IN  loaded' = got.v /\ ok' = TRUE
    /\ UNCHANGED <<format, type, source, version, stream, cut>>

Next ==
    \/ SaveObject
    \/ \E n \in 0 .. 100 : CutShort(n)
    \/ \E v \in Versions : LoadObject(v)

Spec == Init /\ [][Next]_vars

-----------------------------------------------------------------------------
\* What was saved is loaded again, by both archives, and a reader of an older
\* version finds in the bytes all that its version knows: offsets and sizes,
\* written before they are known and filled in later, lead it past the rest,
\* also when the stream held a longer file before.
LoadsWhatWasSaved ==
    phase = "loaded" /\ ~cut /\ (format = "json" => loadedAs = version) =>
        ok /\ loaded = Known(Types[type], loadedAs, source.object)

\* A reader that finds nothing wrong with a text has read all of it: a text
\* that was cut anywhere, or has members the reader does not know, is noticed.
OkMeansWhole ==
    format = "json" /\ phase = "loaded" /\ ok =>
        ~cut /\ loaded = Known(Types[type], version, source.object)

=============================================================================
