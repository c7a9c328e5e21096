--------------------------- MODULE BoundedStream ---------------------------
(***************************************************************************)
(* What a bounded, seekable stream promises its caller: bytes are read back *)
(* where they were written, a call moves the position by the bytes it       *)
(* transfers, and a call that does not do its work is reported.             *)
(*                                                                         *)
(* A stream may refuse a call when it is closed, when its access mode rules *)
(* the call out, when the position is past the end, or when it is broken.   *)
(* It breaks only at its end or by a call that fails, and a broken stream   *)
(* may refuse to read without a report.                                     *)
(***************************************************************************)
EXTENDS StreamCalls

VARIABLES contents, position, isOpen,
          broken,      \* calls may fail until the stream is opened again
          failed,      \* an error was reported since the stream was opened
          result       \* of the last call: bytes counted, bytes transferred

vars == <<contents, position, isOpen, broken, failed, result>>

Nothing(op) == [op |-> op, count |-> 0, bytes |-> << >>]
Transferred(op, bytes) == [op |-> op, count |-> Len(bytes), bytes |-> bytes]

Least(m, n) == IF m < n THEN m ELSE n

\* The n bytes of s from position p on, or those there are
Slice(s, p, n) == SubSeq(s, p + 1, p + Least(n, Len(s) - p))

\* s with the bytes from position p on replaced by d, and extended where d is longer
Overwrite(s, p, d) ==
    [i \in 1 .. IF Len(s) < p + Len(d) THEN p + Len(d) ELSE Len(s) |->
        IF p < i /\ i <= p + Len(d) THEN d[i - p] ELSE s[i]]

\* s cut to n bytes or extended with zeros
Resized(s, n) == [i \in 1 .. n |-> IF i <= Len(s) THEN s[i] ELSE 0]

Init ==
    /\ contents \in Seq(Bytes)
    /\ position = 0
    /\ isOpen \in BOOLEAN
    /\ broken \in BOOLEAN
    /\ ~failed
    /\ result = Nothing("none")

Sticky == failed => failed'

\* A stream that was not broken breaks only at its end, or by a call that fails.
BreaksAtEnd == broken' => broken \/ failed' \/ position' = Len(contents')

Open ==
    /\ contents' \in {contents, << >>}
    /\ position' = 0
    /\ isOpen'
    /\ Sticky \/ ~failed'
    /\ BreaksAtEnd
    /\ result' = Nothing("open")

\* A stream that needs no opening stays open.
Close ==
    /\ position' = 0
    /\ isOpen' => isOpen
    /\ Sticky
    /\ result' = Nothing("close")
    /\ UNCHANGED contents

Seek(p) ==
    /\ isOpen /\ Sticky
    /\ p <= Len(contents)
    /\ position' = p
    /\ BreaksAtEnd
    /\ result' = Nothing("seek")
    /\ UNCHANGED <<contents, isOpen>>

Read(n) ==
    /\ isOpen /\ Sticky
    /\ result' = Transferred("read", Slice(contents, position, n))
    /\ position' = position + Len(Slice(contents, position, n))
    /\ BreaksAtEnd
    /\ UNCHANGED <<contents, isOpen>>

\* A read or a write that fails on the way counts what it transferred.
ReadFails(n) ==
    /\ isOpen /\ failed'
    /\ \E m \in 0 .. n :
          /\ result' = Transferred("read", Slice(contents, position, m))
          /\ position' = position + Len(Slice(contents, position, m))
    /\ UNCHANGED <<contents, isOpen>>

Write(d) ==
    /\ isOpen /\ Sticky
    /\ result' = Transferred("write", d)
    /\ contents' = Overwrite(contents, position, d)
    /\ position' = position + Len(d)
    /\ BreaksAtEnd
    /\ UNCHANGED isOpen

\* A write that fails may leave more of its bytes, and the space for them.
WriteFails(d) ==
    /\ isOpen /\ failed'
    /\ \E counted \in 0 .. Len(d) : \E written \in counted .. Len(d),
                                      size \in {Len(contents), position + Len(d)} :
          /\ result' = Transferred("write", SubSeq(d, 1, counted))
          /\ position' = position + counted
          /\ size >= Len(contents)
          /\ contents' = Overwrite(Resized(contents, size), position, SubSeq(d, 1, written))
    /\ UNCHANGED isOpen

Resize(n) ==
    /\ isOpen /\ Sticky
    /\ contents' = Resized(contents, n)
    /\ BreaksAtEnd
    /\ result' = Nothing("resize")
    /\ UNCHANGED <<position, isOpen>>

Flush ==
    /\ Sticky
    /\ result' = Nothing("flush")
    /\ UNCHANGED <<contents, position, isOpen, broken>>

\* A call that is not carried out is reported, except a read that is refused.
Refuse(op) ==
    /\ result' = Nothing(op)
    /\ Sticky
    /\ failed' \/ (op = "read" /\ (~isOpen \/ broken))
    /\ broken' => broken \/ failed'
    /\ UNCHANGED <<contents, position, isOpen>>

Next ==
    \/ Open
    \/ Close
    \/ Flush
    \/ \E n \in Counts : Seek(n) \/ Read(n) \/ ReadFails(n) \/ Resize(n)
    \/ \E d \in Sources : Write(d) \/ WriteFails(d)
    \/ \E op \in {"open", "seek", "read", "write", "resize"} : Refuse(op)

Spec == Init /\ [][Next]_vars
=============================================================================
