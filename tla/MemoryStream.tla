---------------------------- MODULE MemoryStream ----------------------------
(***************************************************************************)
(* A stream over a growing array.  It needs no opening: open and close go   *)
(* back to its start.                                                       *)
(***************************************************************************)
EXTENDS StreamCalls

VARIABLES data, position, status, result

memoryVars == <<data, position, status, result>>

\* A memory stream is always open and never breaks.
Stream == INSTANCE BoundedStream WITH
    contents <- data, isOpen <- TRUE, broken <- FALSE, failed <- (status # "Ok")

Init ==
    /\ \E size \in Counts : size <= MaxSize /\ data = [i \in 1 .. size |-> 0]
    /\ position = 0
    /\ status = "Ok"
    /\ result = Stream!Nothing("none")

\* open() and close()
Rewind(op) ==
    /\ position' = 0
    /\ result' = Stream!Nothing(op)
    /\ UNCHANGED <<data, status>>

Fail(op, code) ==
    /\ status' = code
    /\ result' = Stream!Nothing(op)
    /\ UNCHANGED <<data, position>>

Seek(p) ==
    \/ /\ p <= Len(data)
       /\ position' = p
       /\ result' = Stream!Nothing("seek")
       /\ UNCHANGED <<data, status>>
    \/ p > Len(data) /\ Fail("seek", "SeekError")

\* A call without a source or destination
NullBuffer == Fail("read", "ReadError") \/ Fail("write", "WriteError")

\* Faulty variant of Read: the position moves by the size asked for.
ReadAsked(n) ==
    /\ result' = Stream!Transferred("read", Stream!Slice(data, position, n))
    /\ position' = position + n
    /\ UNCHANGED <<data, status>>

Read(n) ==
    /\ result' = Stream!Transferred("read", Stream!Slice(data, position, n))
    /\ position' = position + Len(Stream!Slice(data, position, n))
    /\ UNCHANGED <<data, status>>

\* The array grows by what the bytes behind the position do not hold.
Write(d) ==
    LET available == Len(data) - position
        newSize   == IF available < Len(d) THEN Len(data) + (Len(d) - available) ELSE Len(data)
    IN  \/ /\ newSize <= MaxSize
           /\ data' = [i \in 1 .. newSize |->
                          IF position < i /\ i <= position + Len(d) THEN d[i - position] ELSE data[i]]
           /\ position' = position + Len(d)
           /\ result' = Stream!Transferred("write", d)
           /\ UNCHANGED status
        \/ newSize > MaxSize /\ Fail("write", "WriteError")

Next ==
    \/ Rewind("open") \/ Rewind("close")
    \/ NullBuffer
    \/ \E n \in Counts : Seek(n) \/ Read(n)
    \/ \E d \in Sources : Write(d)

Spec == Init /\ [][Next]_memoryVars

\* The calls of the stream's user are those of a bounded stream.
ImplementsStream == Stream!Spec
=============================================================================
