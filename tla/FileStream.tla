----------------------------- MODULE FileStream -----------------------------
(***************************************************************************)
(* A stream over std::fstream, which is external: it has the contents of    *)
(* the file, one position for reading and writing (cursor), and state bits. *)
(* Reading past the end sets "eof", anything else that fails sets "fail",   *)
(* and only a successful open clears the bits.  The stream keeps a position *)
(* and a size of its own beside those of the file.                          *)
(***************************************************************************)
EXTENDS StreamCalls

CONSTANTS BufferSize,   \* of the buffer through which streams are copied
          LargeCopies   \* copies may be larger than the buffer, or than the file

VARIABLES mode,         \* the accesses the stream was created for
          contents, cursor, bits, isOpen,          \* std::fstream and the file
          fileSize, filePos, status, result

fileVars == <<mode, contents, cursor, bits, isOpen, fileSize, filePos, status, result>>

StreamPosition == IF isOpen THEN filePos ELSE 0

Stream == INSTANCE BoundedStream WITH
    position <- StreamPosition, broken <- (bits # "good"), failed <- (status # "Ok")

Init ==
    /\ mode \in {{"in"}, {"out"}, {"in", "out"}}
    /\ contents \in Sources
    /\ cursor = 0
    /\ bits = "good"
    /\ isOpen = FALSE
    /\ fileSize = Len(contents)
    /\ filePos = 0
    /\ status = "Ok"
    /\ result = Stream!Nothing("none")

Fail(op, code) ==
    /\ status' = code
    /\ result' = Stream!Nothing(op)
    /\ UNCHANGED <<mode, contents, cursor, isOpen, fileSize, filePos>>

\* A file opened for writing only is truncated, as by fopen with "w".
Open ==
    \/ isOpen /\ Fail("open", "AlreadyOpenError") /\ UNCHANGED bits
    \/ /\ ~isOpen
       /\ contents' = IF mode = {"out"} THEN << >> ELSE contents
       /\ isOpen' = TRUE
       /\ bits' = "good"
       /\ fileSize' = Len(contents')
       /\ filePos' = 0
       /\ cursor' = 0
       /\ status' = "Ok"
       /\ result' = Stream!Nothing("open")
       /\ UNCHANGED mode
    \/ ~isOpen /\ Fail("open", "OpenError") /\ bits' = "fail"

Close ==
    /\ isOpen' = FALSE
    /\ bits' = IF isOpen THEN bits ELSE "fail"
    /\ result' = Stream!Nothing("close")
    /\ UNCHANGED <<mode, contents, cursor, fileSize, filePos, status>>

\* Seeking a file that is not open moves filePos before it fails.
Seek(p) ==
    LET seekable == p <= fileSize /\ bits = "good"
    IN  \/ ~seekable /\ Fail("seek", "SeekError") /\ UNCHANGED bits
        \/ /\ seekable
           /\ filePos' = p
           /\ cursor' = IF isOpen THEN p ELSE cursor
           /\ bits' = IF isOpen THEN "good" ELSE "fail"
           /\ status' = IF isOpen THEN status ELSE "SeekError"
           /\ result' = Stream!Nothing("seek")
           /\ UNCHANGED <<mode, contents, isOpen, fileSize>>

Readable == bits = "good" /\ isOpen /\ "in" \in mode

\* A read that is not Readable, or that has no destination
RefuseRead ==
    \/ /\ bits = "eof"
       /\ result' = Stream!Nothing("read")
       /\ UNCHANGED <<mode, contents, cursor, bits, isOpen, fileSize, filePos, status>>
    \/ bits # "eof" /\ Fail("read", "ReadError") /\ UNCHANGED bits

\* Faulty variant of ReadBuffer: the file's size is not compared.
ReadBufferQuietly(n) ==
    LET bytes == Stream!Slice(contents, cursor, n)
    IN  /\ Readable
        /\ cursor' = cursor + Len(bytes)
        /\ filePos' = filePos + n
        /\ result' = Stream!Transferred("read", bytes)
        /\ UNCHANGED <<mode, contents, bits, isOpen, fileSize, status>>

\* read into a buffer of the caller
ReadBuffer(n) ==
    LET bytes == Stream!Slice(contents, cursor, n)
    IN  /\ Readable
        /\ cursor' = cursor + Len(bytes)
        /\ bits' = IF Len(bytes) < n THEN "eof" ELSE "good"
        /\ filePos' = filePos + Len(bytes)
        /\ result' = Stream!Transferred("read", bytes)
        /\ UNCHANGED <<mode, contents, isOpen, fileSize, status>>

\* read into another stream: the buffer is filled and passed on as often as it
\* takes, always all of it ("garbage" where the file had no more bytes), and what
\* is counted is what the last filling got from the file.
ReadStream(n) ==
    LET bytes  == Stream!Slice(contents, cursor, n)
        last   == IF n = 0 THEN 0 ELSE ((n - 1) % BufferSize) + 1
        before == n - last
        count  == IF Len(bytes) < before THEN 0 ELSE Len(bytes) - before
    IN  /\ Readable
        /\ LargeCopies \/ (n <= BufferSize /\ n <= Len(contents) - cursor)
        /\ cursor' = cursor + Len(bytes)
        /\ bits' = IF Len(bytes) < n THEN "eof" ELSE "good"
        /\ filePos' = filePos + count
        /\ result' = [op |-> "read", count |-> count,
                      bytes |-> [i \in 1 .. n |-> IF i <= Len(bytes) THEN bytes[i] ELSE "garbage"]]
        /\ UNCHANGED <<mode, contents, isOpen, fileSize, status>>

Writable == bits = "good" /\ isOpen /\ "out" \in mode

\* A write that is not Writable, or that has no source
RefuseWrite == Fail("write", "WriteError") /\ UNCHANGED bits

\* From a buffer, or through the copy buffer from a stream that has enough bytes
Write(d) ==
    /\ Writable
    /\ cursor + Len(d) <= MaxSize
    /\ contents' = Stream!Overwrite(contents, cursor, d)
    /\ cursor' = cursor + Len(d)
    /\ fileSize' = IF fileSize < filePos + Len(d) THEN filePos + Len(d) ELSE fileSize
    /\ filePos' = filePos + Len(d)
    /\ result' = Stream!Transferred("write", d)
    /\ UNCHANGED <<mode, bits, isOpen, status>>

\* When the disk is full some of the bytes may be in the file all the same.
WriteFails(d) ==
    /\ Writable
    /\ cursor + Len(d) > MaxSize
    /\ \E written \in 0 .. MaxSize - cursor :
          /\ contents' = Stream!Overwrite(contents, cursor, SubSeq(d, 1, written))
          /\ cursor' = cursor + written
    /\ bits' = "fail"
    /\ status' = "WriteError"
    /\ result' = Stream!Nothing("write")
    /\ UNCHANGED <<mode, isOpen, fileSize, filePos>>

Next ==
    \/ Open
    \/ Close
    \/ RefuseRead
    \/ RefuseWrite
    \/ \E n \in Counts : Seek(n) \/ ReadBuffer(n) \/ ReadStream(n)
    \/ \E d \in Sources : Write(d) \/ WriteFails(d)

Spec == Init /\ [][Next]_fileVars

\* The stream's own position and size are those of the file whenever the file can
\* be used: what tell() and size() say is where the next byte goes, and where it ends.
InStep ==
    isOpen /\ bits = "good" => filePos = cursor /\ fileSize = Len(contents)

\* The calls of the stream's user are those of a bounded stream.
ImplementsStream == Stream!Spec
=============================================================================
