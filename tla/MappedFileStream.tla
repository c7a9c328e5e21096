-------------------------- MODULE MappedFileStream --------------------------
(***************************************************************************)
(* A stream over views of a file that are mapped into memory.  A view       *)
(* starts at a multiple of Page and may be shorter than the rest of the     *)
(* file, so that a call may take several chunks with a new view in between: *)
(* call is the read or write under way.  The Unix and Windows streams       *)
(* differ in when they flush and in what a failed mapping leaves.           *)
(*                                                                         *)
(* The file and the mapping calls of the system are external.  A mapping is *)
(* granted up to a limit, which may be another one each time.  Faults are   *)
(* the calls that may fail otherwise, "open", "mmap", "msync", "ftruncate", *)
(* where the code handles it or, if Unhandled, anywhere.                    *)
(***************************************************************************)
EXTENDS StreamCalls, FiniteSetsExt

CONSTANTS Page,         \* positive
          MinView, Limits, Faults, Unhandled,
          ShortSources, \* streams that are written may have fewer bytes
          Careless      \* resizing may cut a file before the position, or be asked
                        \* of a stream that is not open

VARIABLES platform, mode,
          contents, isOpen,                 \* the file
          data,                             \* "null", "failed" (MAP_FAILED) or "view"
          viewOffset, viewSize,
          fileSize, position, delayedMapping, dirty,
          call, status, result

view == <<data, viewOffset, viewSize>>
file == <<contents, isOpen, fileSize>>
mappedVars == <<platform, mode, view, file, position, delayedMapping, dirty, call, status, result>>

None == [op |-> "none"]
Busy == call # None

\* What the caller sees of the stream.  A call under way counts as not begun, so
\* that its chunks and views are invisible: call.before is what it began with.
Visible == [contents |-> contents, position |-> IF isOpen THEN position ELSE 0,
            broken |-> data # "view" /\ ~delayedMapping, failed |-> status # "Ok"]
Seen == IF Busy THEN call.before ELSE Visible

Stream == INSTANCE BoundedStream WITH
    contents <- Seen.contents, position <- Seen.position,
    broken <- Seen.broken, failed <- Seen.failed

Init ==
    /\ platform \in {"unix", "windows"}
    /\ mode \in {{"in"}, {"out"}, {"in", "out"}}
    /\ contents \in Sources
    /\ isOpen = FALSE
    /\ data = "null" /\ viewOffset = 0 /\ viewSize = 0
    /\ fileSize = Len(contents)
    /\ position = 0
    /\ delayedMapping = FALSE
    /\ dirty = FALSE
    /\ call = None
    /\ status = "Ok"
    /\ result = Stream!Nothing("none")
-----------------------------------------------------------------------------
(* The helpers of the code, as actions on the variables they assign.        *)

Unmapped == data' = "null" /\ viewOffset' = 0 /\ viewSize' = 0

\* Faulty variant of ViewFor: the size is not enlarged by what alignment adds.
ViewNotEnlarged(offset, size, limit) ==
    [offset |-> (offset \div Page) * Page, size |-> Stream!Least(size, limit)]

\* Faulty variant of ViewFor: the offset is not aligned.
ViewUnaligned(offset, size, limit) == [offset |-> offset, size |-> Stream!Least(size, limit)]

\* The mapping asked for is enlarged by what alignment puts in front of it, and
\* halved until it is granted or would not exceed MinView; size 0 is refused.
ViewFor(offset, size, limit) ==
    LET aligned  == (offset \div Page) * Page
        safeSize == size + (offset - aligned)
        granted  == {t \in 1 .. Stream!Least(safeSize, limit) :
                        \/ t = safeSize
                        \/ t > MinView /\ \E k \in 1 .. safeSize : t = safeSize \div 2^k}
    IN  [offset |-> aligned, size |-> IF granted = {} THEN 0 ELSE Max(granted)]

\* What views need: one that was halved still reaches the offset that was asked for
\* (the code's smallest view is 64 KiB, the largest page), and the system grants one.
ViewsAssumption ==
    /\ Page \in Nat \ {0} /\ MinView \in Nat /\ Page <= MinView + 1
    /\ Limits \subseteq Nat
    /\ \A offset \in 0 .. MaxSize, size \in 1 .. MaxSize, limit \in Limits :
           offset + size <= MaxSize => ViewFor(offset, size, limit).size > 0

\* A mapping that fails leaves MAP_FAILED on Unix.
NoView ==
    /\ data' = IF platform = "unix" THEN "failed" ELSE "null"
    /\ viewOffset' = 0 /\ viewSize' = 0

\* Only the Windows stream notices a missing view, and only a read can do without
\* when the file was not empty when it was opened: data = "null" stands for a file
\* that is still empty otherwise.
MapMayFail ==
    "mmap" \in Faults /\ \/ Unhandled
                         \/ Busy /\ call.op = "read" /\ platform = "windows" /\ ~delayedMapping

\* mapFile, after unmapFile
MapFile(offset, size) ==
    \E limit \in Limits \cup (IF MapMayFail THEN {0} ELSE {}) :
        LET v == ViewFor(offset, size, limit)
        IN  IF v.size = 0 THEN NoView
            ELSE data' = "view" /\ viewOffset' = v.offset /\ viewSize' = v.size

InView(p) == viewOffset <= p /\ p < viewOffset + viewSize

\* flush: whether it fails.  msync of MAP_FAILED fails.  When the flush for a seek
\* fails, the position stays outside of the view.
Flushes == IF platform = "unix" THEN data # "null" ELSE data = "view" /\ "out" \in mode
FlushMay(fail) ==
    IF fail THEN Flushes /\ (data = "failed" \/ "msync" \in Faults) ELSE ~Flushes \/ data = "view"
FlushForSeekMay(fail) == FlushMay(fail) /\ (fail /\ dirty => Unhandled)

Report(fail, code) == status' = IF fail THEN code ELSE status
-----------------------------------------------------------------------------
Return(r) == result' = r /\ call' = None

Fail(op, code) ==
    /\ status' = code
    /\ Return(Stream!Nothing(op))
    /\ UNCHANGED <<platform, mode, view, file, position, delayedMapping, dirty>>

AlreadyOpen == isOpen /\ Fail("open", "AlreadyOpenError")

\* An empty file is not mapped, and the position is left as it is.
Open ==
    /\ ~isOpen
    /\ isOpen' = TRUE
    /\ fileSize' = Len(contents)
    /\ status' = "Ok"
    /\ delayedMapping' = (contents = << >>)
    /\ \/ contents = << >> /\ UNCHANGED <<view, position, dirty>>
       \/ /\ contents # << >>
          /\ MapFile(0, Len(contents))
          /\ data' = "view"
          /\ position' = 0
          /\ dirty' = FALSE
    /\ Return(Stream!Nothing("open"))
    /\ UNCHANGED <<platform, mode, contents>>

\* The file cannot be opened, or not be mapped.
OpenFails ==
    /\ ~isOpen
    /\ \/ "open" \in Faults /\ fileSize' \in {0, fileSize}
       \/ "mmap" \in Faults /\ contents # << >> /\ fileSize' = Len(contents)
    /\ status' = "OpenError"
    /\ delayedMapping' = FALSE
    /\ Return(Stream!Nothing("open"))
    /\ UNCHANGED <<platform, mode, view, contents, isOpen, position, dirty>>

Close ==
    \E fail \in BOOLEAN :
        /\ FlushMay(fail)
        /\ Report(fail, "WriteError")
        /\ dirty' = (fail /\ dirty)
        /\ delayedMapping' = FALSE
        /\ Unmapped
        /\ isOpen' = FALSE
        /\ Return(Stream!Nothing("close"))
        /\ UNCHANGED <<platform, mode, contents, fileSize, position>>

\* Faulty variant of Seek: the last view is kept.
SeekInView(p) ==
    /\ p <= fileSize /\ data # "null"
    /\ position' = p
    /\ Return(Stream!Nothing("seek"))
    /\ UNCHANGED <<platform, mode, file, view, delayedMapping, dirty, status>>

\* A position outside of the view needs another view, to the end of the file.
Seek(p) ==
    /\ p <= fileSize /\ data # "null"
    /\ position' = p
    /\ \/ InView(p) /\ UNCHANGED <<view, dirty, status>>
       \/ /\ ~InView(p)
          /\ \E fail \in BOOLEAN :
                /\ FlushForSeekMay(fail)
                /\ Report(fail, "WriteError")
                /\ dirty' = (fail /\ dirty)
          /\ IF dirty' THEN UNCHANGED view ELSE MapFile(p, fileSize - p)
    /\ Return(Stream!Nothing("seek"))
    /\ UNCHANGED <<platform, mode, file, delayedMapping>>

SeekFails(p) == (p > fileSize \/ data = "null") /\ Fail("seek", "SeekError")

Flush ==
    \E fail \in BOOLEAN :
        /\ FlushMay(fail)
        /\ Report(fail, "WriteError")
        /\ dirty' = (fail /\ dirty)
        /\ Return(Stream!Nothing("flush"))
        /\ UNCHANGED <<platform, mode, view, file, position, delayedMapping>>

\* resize: the file is flushed, unmapped, cut or extended, and mapped again from
\* the position.  done says whether the file got its size.
ResizeTo(size, done) ==
    /\ \E fail \in BOOLEAN :
          /\ FlushMay(fail)
          /\ dirty' = (fail /\ dirty)
          /\ \/ /\ dirty' /\ ~done
                /\ status' = "WriteError"
                /\ UNCHANGED <<view, contents, fileSize>>
             \/ /\ ~dirty' /\ ~done
                /\ size # fileSize /\ (~isOpen \/ ("ftruncate" \in Faults /\ (Unhandled \/ ~delayedMapping)))
                /\ status' = "WriteError"
                /\ Unmapped
                /\ UNCHANGED <<contents, fileSize>>
             \/ /\ ~dirty' /\ done
                /\ isOpen \/ size = fileSize
                /\ contents' = IF isOpen THEN Stream!Resized(contents, size) ELSE contents
                /\ fileSize' = size
                /\ IF isOpen THEN MapFile(position, size - position) ELSE NoView
                /\ Report(fail \/ data' = "null", "WriteError")

Resize(size) ==
    /\ "out" \in mode
    /\ size <= MaxSize
    /\ Careless \/ (isOpen /\ position <= size)
    /\ \E done \in BOOLEAN : ResizeTo(size, done)
    /\ Return(Stream!Nothing("resize"))
    /\ UNCHANGED <<platform, mode, isOpen, position, delayedMapping>>

ResizeRefused == mode = {"in"} /\ Fail("resize", "WriteError")
-----------------------------------------------------------------------------
(* Reads and writes begin, copy chunks, and change views until they are done. *)

\* size: bytes to transfer; supply: bytes that the source of a write has
Begin(op, bytes, size, supply) ==
    call' = [op |-> op, bytes |-> bytes, size |-> size, supply |-> supply,
             done |-> 0, before |-> Visible]

Read(n) ==
    /\ "in" \in mode /\ data # "null"
    /\ Begin("read", << >>, Stream!Least(n, fileSize - position), 0)
    /\ UNCHANGED <<platform, mode, view, file, position, delayedMapping, dirty, status, result>>

\* A stream that is not mapped yet has nothing to read; without a destination, or
\* unless opened for reading, reading is an error.
ReadRefused ==
    \/ /\ "in" \in mode /\ data = "null" /\ delayedMapping
       /\ Return(Stream!Nothing("read"))
       /\ UNCHANGED <<platform, mode, view, file, position, delayedMapping, dirty, status>>
    \/ Fail("read", "ReadError")

Write(d, supply) ==
    /\ "out" \in mode /\ (data # "null" \/ delayedMapping)
    /\ d # << >> /\ position + Len(d) <= MaxSize
    /\ \/ /\ position + Len(d) <= fileSize
          /\ Begin("write", d, Len(d), supply)
          /\ UNCHANGED <<view, contents, fileSize, dirty, status, result>>
       \/ /\ position + Len(d) > fileSize
          /\ ResizeTo(position + Len(d), TRUE)
          /\ Begin("write", d, Len(d), supply)
          /\ UNCHANGED result
       \/ /\ position + Len(d) > fileSize
          /\ ResizeTo(position + Len(d), FALSE)
          /\ Return(Stream!Nothing("write"))
    /\ UNCHANGED <<platform, mode, isOpen, position, delayedMapping>>

WriteNothing ==
    /\ "out" \in mode /\ (data # "null" \/ delayedMapping)
    /\ Return(Stream!Nothing("write"))
    /\ UNCHANGED <<platform, mode, view, file, position, delayedMapping, dirty, status>>

WriteRefused == Fail("write", "WriteError")

\* The bytes from the position to the end of the view: the code takes any number
\* but 0, also one that wrapped around, for bytes that can be copied.
InViewBehind == viewSize - (position - viewOffset)
Exhausted == Busy /\ call.done < call.size /\ InViewBehind = 0

\* Faulty variant of Chunk: the place in the last view is not computed anew.
ChunkAtViewStart ==
    /\ Busy /\ call.done < call.size
    /\ data = "view" /\ InView(position)
    /\ LET copied == Stream!Least(call.size - call.done, InViewBehind)
       IN  /\ position' = position + copied
           /\ call' = [call EXCEPT
                          !.done = @ + copied,
                          !.bytes = IF call.op = "read"
                                    THEN @ \o Stream!Slice(contents, viewOffset, copied) ELSE @]
    /\ UNCHANGED <<platform, mode, view, file, delayedMapping, dirty, status, result>>

\* Copying needs a position in the view; what happens otherwise is undefined.
Chunk ==
    /\ Busy /\ call.done < call.size
    /\ data = "view" /\ InView(position)
    /\ LET wanted == Stream!Least(call.size - call.done, InViewBehind)
           copied == IF call.op = "read" THEN wanted
                     ELSE Stream!Least(wanted, call.supply - call.done)
       IN  /\ position' = position + copied
           /\ call' = [call EXCEPT
                          !.done = @ + copied,
                          !.bytes = IF call.op = "read"
                                    THEN @ \o Stream!Slice(contents, position, copied) ELSE @]
           /\ contents' = IF call.op = "read" THEN contents
                          ELSE Stream!Overwrite(contents, position,
                                   SubSeq(call.bytes, call.done + 1, call.done + copied))
    /\ UNCHANGED <<platform, mode, view, isOpen, fileSize, delayedMapping, dirty, status, result>>

\* The view is exhausted: the next one starts at the position.
Remap ==
    /\ Exhausted
    /\ \/ call.op = "read" /\ UNCHANGED <<dirty, status>>
       \/ /\ call.op = "write"
          /\ \E fail \in BOOLEAN :
                /\ FlushMay(fail)
                /\ Report(fail, "WriteError")
                /\ dirty' = (fail /\ dirty)
          /\ ~dirty'
    /\ MapFile(position, fileSize - position)
    /\ data' # "null"
    /\ UNCHANGED <<platform, mode, file, position, delayedMapping, call, result>>

Finished == [op |-> call.op, count |-> call.done, bytes |-> SubSeq(call.bytes, 1, call.done)]

\* The next view cannot be had, or the last one not be flushed: the call ends early.
GiveUp ==
    /\ Exhausted
    /\ \/ /\ MapFile(position, fileSize - position)
          /\ data' = "null"
       \/ call.op = "write" /\ dirty /\ FlushMay(TRUE) /\ UNCHANGED view
    /\ status' = IF call.op = "read" THEN "ReadError" ELSE "WriteError"
    /\ dirty' = IF call.op = "read" THEN dirty ELSE call.done > 0
    /\ Return(Finished)
    /\ UNCHANGED <<platform, mode, file, position, delayedMapping>>

Finish ==
    /\ Busy /\ call.done = call.size
    /\ dirty' = IF call.op = "read" THEN dirty ELSE TRUE
    /\ Return(Finished)
    /\ UNCHANGED <<platform, mode, view, file, position, delayedMapping, status>>

Begun ==
    \/ AlreadyOpen \/ Open \/ OpenFails \/ Close \/ Flush
    \/ ResizeRefused \/ ReadRefused \/ WriteNothing \/ WriteRefused
    \/ \E n \in Counts : Seek(n) \/ SeekFails(n) \/ Resize(n) \/ Read(n)
    \/ \E d \in Sources : \E supply \in 0 .. Len(d) :
          (supply = Len(d) \/ ShortSources) /\ Write(d, supply)

Proceed == Chunk \/ Remap \/ GiveUp \/ Finish

Next == (~Busy /\ Begun) \/ Proceed

\* A call that has begun runs until it returns: nothing else uses the stream.
Spec == Init /\ [][Next]_mappedVars /\ WF_mappedVars(Proceed)

\* Bytes are copied within the mapped view, never elsewhere in memory.
AccessInView ==
    Busy /\ call.done < call.size /\ ~Exhausted => data = "view" /\ InView(position)

\* A view shows the file from a page on and ends with it, so that the position of
\* a stream that can be used is in its view or at the view's end.
ViewInFile ==
    data = "view" =>
        /\ viewOffset % Page = 0
        /\ viewOffset + viewSize <= Len(contents)
        /\ viewOffset <= position /\ position <= viewOffset + viewSize

\* A read or a write returns.
CallReturns == Busy ~> ~Busy

\* The calls of the stream's user are those of a bounded stream.
ImplementsStream == Stream!Spec
=============================================================================
