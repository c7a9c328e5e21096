----------------------------- MODULE MCStreams -----------------------------
(***************************************************************************)
(* The three kinds of streams, each over a small file or array, and one     *)
(* abstract stream that all of them implement.                              *)
(***************************************************************************)
EXTENDS StreamCalls

CONSTANTS Kinds, BufferSize, LargeCopies,
          Page, MinView, Limits, Faults, Unhandled, ShortSources, Careless

VARIABLES kind, contents, position, status, result,
          isOpen, mode, fileSize, cursor, bits,
          platform, data, viewOffset, viewSize, delayedMapping, dirty, call

fileOnly == <<cursor, bits>>
mappedOnly == <<platform, data, viewOffset, viewSize, delayedMapping, dirty, call>>
vars == <<kind, contents, position, status, result, isOpen, mode, fileSize, fileOnly, mappedOnly>>

\* Callers write 1, 0, 1, ..., so that a byte in a wrong place shows.
MCSources == {[i \in 1 .. n |-> i % 2] : n \in Counts}

Memory == INSTANCE MemoryStream WITH data <- contents
File == INSTANCE FileStream WITH filePos <- position
Mapped == INSTANCE MappedFileStream

ASSUME ViewsAssumption == Mapped!ViewsAssumption

Seen ==
    CASE kind = "memory" -> [contents |-> contents, position |-> position,
                             broken |-> FALSE, failed |-> status # "Ok"]
      [] kind = "file"   -> [contents |-> contents, position |-> File!StreamPosition,
                             broken |-> bits # "good", failed |-> status # "Ok"]
      [] kind = "mapped" -> Mapped!Seen

Abstract == INSTANCE BoundedStream WITH
    contents <- Seen.contents, position <- Seen.position, broken <- Seen.broken,
    failed <- Seen.failed, isOpen <- (kind = "memory" \/ isOpen)

NoFile == cursor = 0 /\ bits = "good"
NoMapping ==
    /\ platform = "unix" /\ data = "null" /\ viewOffset = 0 /\ viewSize = 0
    /\ delayedMapping = FALSE /\ dirty = FALSE /\ call = Mapped!None

\* A mapped stream for writing only would differ in that it refuses to read.
Init ==
    \/ /\ kind = "memory" /\ Memory!Init
       /\ isOpen = FALSE /\ mode = {} /\ fileSize = 0 /\ NoFile /\ NoMapping
    \/ kind = "file" /\ File!Init /\ NoMapping
    \/ kind = "mapped" /\ Mapped!Init /\ "in" \in mode /\ NoFile

Next ==
    /\ kind \in Kinds
    /\ UNCHANGED kind
    /\ \/ kind = "memory" /\ Memory!Next
          /\ UNCHANGED <<isOpen, mode, fileSize, fileOnly, mappedOnly>>
       \/ kind = "file" /\ File!Next /\ UNCHANGED mappedOnly
       \/ kind = "mapped" /\ Mapped!Next /\ UNCHANGED fileOnly

Proceed == kind = "mapped" /\ Mapped!Proceed /\ UNCHANGED <<kind, fileOnly>>

Spec == Init /\ [][Next]_vars /\ WF_vars(Proceed)
-----------------------------------------------------------------------------
Codes == {"Ok", "OpenError", "AlreadyOpenError", "SeekError", "ReadError", "WriteError"}

TypeOK ==
    /\ contents \in UNION {[1 .. n -> Bytes] : n \in 0 .. MaxSize}
    /\ position \in 0 .. MaxSize /\ (kind = "memory" => position <= Len(contents))
    /\ status \in Codes
    /\ isOpen \in BOOLEAN /\ fileSize \in 0 .. MaxSize
    /\ cursor \in 0 .. MaxSize /\ bits \in {"good", "eof", "fail"}
    /\ data \in {"null", "failed", "view"}
    /\ viewOffset \in 0 .. MaxSize /\ viewSize \in 0 .. MaxSize

\* Whatever the kind of stream, the calls of its user are those of a bounded stream:
\* chunks, views, buffers and cached sizes do not show.
ImplementsStream == Abstract!Spec

\* What tell() and size() of a file stream say is where the fstream is, and ends.
InStep == kind = "file" => File!InStep

\* A mapped stream copies bytes within its view, never elsewhere in memory.
AccessInView == kind = "mapped" => Mapped!AccessInView

\* A view starts on a page and ends within the file, and holds the position or
\* ends with it.
ViewInFile == kind = "mapped" => Mapped!ViewInFile

\* A read or a write that has begun returns, however often it needs another view.
CallReturns == Mapped!Busy ~> ~Mapped!Busy
=============================================================================
