----------------------------- MODULE StreamsProofs -----------------------------
(***************************************************************************)
(* Memory and file streams implement the bounded stream, as mapped streams  *)
(* do (MappedFileStreamProofs).  What is proved of the three, each on its   *)
(* own, then holds of the streams that are checked together: whatever the   *)
(* kind, the stream is a bounded stream, in step with its file and within   *)
(* its view.                                                                *)
(***************************************************************************)
EXTENDS MCStreams, TLAPS

MappedP == INSTANCE MappedFileStreamProofs

\* The condition under which all three do what they promise: copies fit the buffer,
\* callers do not cut a file before the position or write from sources that end early,
\* and mappings fail only where the code looks.
Fits ==
    /\ BufferSize \in Nat /\ ~LargeCopies
    /\ ~Careless /\ ~ShortSources /\ ~Unhandled

\* The array holds bytes and the position never leaves it: seek, read and write
\* index the array without another check.
PositionInData == contents \in Seq(Bytes) /\ position \in 0 .. Len(contents)

\* What the calls rely on: the fstream is somewhere in the file, and a closed file
\* has left the stream's size and state bits as they were.
FileInv ==
    /\ contents \in Seq(Bytes)
    /\ cursor \in 0 .. Len(contents)
    /\ bits \in {"good", "eof", "fail"}
    /\ isOpen \in BOOLEAN
    /\ position \in Nat /\ fileSize \in Nat
    /\ Len(contents) <= MaxSize /\ position <= MaxSize /\ fileSize <= MaxSize
    /\ File!InStep

\* Copies to streams fit the buffer: a larger one passes on more than it read.
CopiesFit == BufferSize \in Nat /\ ~LargeCopies

\* Each kind of stream satisfies the inductive invariant of its own proof.
StreamsInv ==
    /\ kind \in {"memory", "file", "mapped"}
    /\ kind = "memory" => PositionInData
    /\ kind = "file" => FileInv
    /\ kind = "mapped" => MappedP!MappedInv
-----------------------------------------------------------------------------
(* A memory stream implements the bounded stream, for all bytes,            *)
(* sources, sizes and bounds.                                               *)

\* A slice of a sequence of bytes has the bytes that are there, at most n.
LEMMA SliceLength ==
    ASSUME NEW s \in Seq(Bytes), NEW p \in 0 .. Len(s), NEW n \in Nat
    PROVE  /\ Len(Memory!Stream!Slice(s, p, n)) \in Nat
           /\ p + Len(Memory!Stream!Slice(s, p, n)) \in 0 .. Len(s)
<1> DEFINE k == IF n < Len(s) - p THEN n ELSE Len(s) - p
<1>1. k \in Nat /\ p + k \in 0 .. Len(s)
  OBVIOUS
<1>2. Memory!Stream!Slice(s, p, n) = SubSeq(s, p + 1, p + k)
  BY DEF Memory!Stream!Slice, Memory!Stream!Least
<1>3. Len(SubSeq(s, p + 1, p + k)) = k
  BY <1>1
<1> QED  BY <1>1, <1>2, <1>3

\* The array after a write is the array overwritten at the position.
LEMMA WriteOverwrites ==
    ASSUME NEW s \in Seq(Bytes), NEW p \in 0 .. Len(s), NEW d \in Seq(Bytes),
           NEW newSize,
           newSize = IF Len(s) - p < Len(d) THEN Len(s) + (Len(d) - (Len(s) - p)) ELSE Len(s)
    PROVE  /\ [i \in 1 .. newSize |-> IF p < i /\ i <= p + Len(d) THEN d[i - p] ELSE s[i]]
                  = Memory!Stream!Overwrite(s, p, d)
           /\ Memory!Stream!Overwrite(s, p, d) \in Seq(Bytes)
           /\ p + Len(d) \in 0 .. Len(Memory!Stream!Overwrite(s, p, d))
<1>1. newSize \in Nat /\ newSize = IF Len(s) < p + Len(d) THEN p + Len(d) ELSE Len(s)
  OBVIOUS
<1> DEFINE f == [i \in 1 .. newSize |-> IF p < i /\ i <= p + Len(d) THEN d[i - p] ELSE s[i]]
<1>2. f = Memory!Stream!Overwrite(s, p, d)
  BY <1>1 DEF Memory!Stream!Overwrite
<1>3. \A i \in 1 .. newSize : f[i] \in Bytes
  <2> TAKE i \in 1 .. newSize
  <2>1. CASE p < i /\ i <= p + Len(d)
    <3>1. i - p \in 1 .. Len(d)
      BY <1>1, <2>1
    <3> QED  BY <3>1, <2>1
  <2>2. CASE ~(p < i /\ i <= p + Len(d))
    <3>1. i \in 1 .. Len(s)
      BY <1>1, <2>2
    <3> QED  BY <3>1, <2>2
  <2> QED  BY <2>1, <2>2
<1>4. f \in Seq(Bytes) /\ Len(f) = newSize
  <2>1. f \in [1 .. newSize -> Bytes]
    BY <1>3
  <2> QED  BY <1>1, <2>1
<1>5. p + Len(d) \in 0 .. newSize
  BY <1>1
<1> HIDE DEF f
<1>6. Memory!Stream!Overwrite(s, p, d) \in Seq(Bytes) /\ p + Len(d) \in 0 .. Len(Memory!Stream!Overwrite(s, p, d))
  BY <1>2, <1>4, <1>5
<1> QED  BY <1>2, <1>6 DEF f

\* A memory stream starts at the first of its bytes, and no call moves it off the array.
LEMMA MemoryInvInit == Memory!Init => PositionInData
<1> SUFFICES ASSUME Memory!Init PROVE PositionInData
  OBVIOUS
<1>1. PICK size \in Counts : size <= MaxSize /\ contents = [i \in 1 .. size |-> 0]
  BY DEF Memory!Init
<1>2. size \in Nat /\ contents \in Seq(Bytes) /\ Len(contents) = size
  BY <1>1, CallsAssumption
<1>3. position = 0
  BY DEF Memory!Init
<1> QED  BY <1>2, <1>3 DEF PositionInData

LEMMA MemoryInvStep == PositionInData /\ [Memory!Next]_(Memory!memoryVars) => PositionInData'
<1> SUFFICES ASSUME PositionInData, [Memory!Next]_(Memory!memoryVars) PROVE PositionInData'
  OBVIOUS
<1>1. CASE Memory!Rewind("open") \/ Memory!Rewind("close")
  BY <1>1 DEF Memory!Rewind, PositionInData
<1>2. CASE Memory!NullBuffer
  BY <1>2 DEF Memory!NullBuffer, Memory!Fail, PositionInData
<1>3. ASSUME NEW n \in Counts, Memory!Seek(n) PROVE PositionInData'
  BY <1>3, CallsAssumption DEF Memory!Seek, Memory!Fail, PositionInData
<1>4. ASSUME NEW n \in Counts, Memory!Read(n) PROVE PositionInData'
  BY <1>4, SliceLength, CallsAssumption DEF Memory!Read, PositionInData
<1>5. ASSUME NEW d \in Sources, Memory!Write(d) PROVE PositionInData'
  <2> DEFINE newSize == IF Len(contents) - position < Len(d)
                        THEN Len(contents) + (Len(d) - (Len(contents) - position)) ELSE Len(contents)
  <2>1. d \in Seq(Bytes)
    BY CallsAssumption
  <2>2. CASE Memory!Fail("write", "WriteError")
    BY <2>2 DEF Memory!Fail, PositionInData
  <2>3. CASE /\ contents' = [i \in 1 .. newSize |->
                          IF position < i /\ i <= position + Len(d) THEN d[i - position] ELSE contents[i]]
             /\ position' = position + Len(d)
    BY <2>1, <2>3, WriteOverwrites DEF PositionInData
  <2> QED  BY <1>5, <2>2, <2>3 DEF Memory!Write
<1>6. CASE UNCHANGED Memory!memoryVars
  BY <1>6 DEF Memory!memoryVars, PositionInData
<1> QED  BY <1>1, <1>2, <1>3, <1>4, <1>5, <1>6 DEF Memory!Next

\* The position is an index of the array, or its length, in every reachable state.
THEOREM PositionStaysInData == Memory!Spec => []PositionInData
  BY MemoryInvInit, MemoryInvStep, PTL DEF Memory!Spec

\* Its initial states are those of the contract, and each of its calls is one of the contract's.
LEMMA MemoryInitImplements == Memory!Init => Memory!Stream!Init
<1> SUFFICES ASSUME Memory!Init PROVE Memory!Stream!Init
  OBVIOUS
<1>1. PICK size \in Counts : size <= MaxSize /\ contents = [i \in 1 .. size |-> 0]
  BY DEF Memory!Init
<1>2. contents \in Seq(Bytes)
  BY <1>1, CallsAssumption
<1> QED  BY <1>2 DEF Memory!Init, Memory!Stream!Init, Memory!Stream!Nothing

LEMMA MemoryStepImplements ==
    PositionInData /\ [Memory!Next]_(Memory!memoryVars) => [Memory!Stream!Next]_(Memory!Stream!vars)
<1> SUFFICES ASSUME PositionInData, [Memory!Next]_(Memory!memoryVars)
             PROVE  Memory!Stream!Next \/ UNCHANGED Memory!Stream!vars
  OBVIOUS
<1>1. CASE Memory!Rewind("open")
  BY <1>1 DEF Memory!Rewind, Memory!Stream!Next, Memory!Stream!Open, Memory!Stream!Sticky,
              Memory!Stream!BreaksAtEnd
<1>2. CASE Memory!Rewind("close")
  BY <1>2 DEF Memory!Rewind, Memory!Stream!Next, Memory!Stream!Close, Memory!Stream!Sticky
<1>3. ASSUME NEW op \in {"seek", "read", "write"}, NEW code \in {"SeekError", "ReadError", "WriteError"},
             Memory!Fail(op, code)
      PROVE  Memory!Stream!Next
  <2>1. Memory!Stream!Refuse(op)
    BY <1>3 DEF Memory!Fail, Memory!Stream!Refuse, Memory!Stream!Sticky
  <2> QED  BY <2>1 DEF Memory!Stream!Next
<1>4. CASE Memory!NullBuffer
  BY <1>3, <1>4 DEF Memory!NullBuffer
<1>5. ASSUME NEW n \in Counts, Memory!Seek(n) PROVE Memory!Stream!Next
  <2>1. CASE Memory!Fail("seek", "SeekError")
    BY <1>3, <2>1
  <2>2. CASE n <= Len(contents) /\ ~Memory!Fail("seek", "SeekError")
    <3>1. Memory!Stream!Seek(n)
      BY <1>5, <2>2 DEF Memory!Seek, Memory!Stream!Seek, Memory!Stream!Sticky, Memory!Stream!BreaksAtEnd
    <3> QED  BY <3>1 DEF Memory!Stream!Next
  <2> QED  BY <1>5, <2>1, <2>2 DEF Memory!Seek
<1>6. ASSUME NEW n \in Counts, Memory!Read(n) PROVE Memory!Stream!Next
  <2>1. Memory!Stream!Read(n)
    BY <1>6 DEF Memory!Read, Memory!Stream!Read, Memory!Stream!Sticky, Memory!Stream!BreaksAtEnd
  <2> QED  BY <2>1 DEF Memory!Stream!Next
<1>7. ASSUME NEW d \in Sources, Memory!Write(d) PROVE Memory!Stream!Next
  <2> DEFINE newSize == IF Len(contents) - position < Len(d)
                        THEN Len(contents) + (Len(d) - (Len(contents) - position)) ELSE Len(contents)
  <2>1. CASE Memory!Fail("write", "WriteError")
    BY <1>3, <2>1
  <2>2. CASE /\ contents' = [i \in 1 .. newSize |->
                          IF position < i /\ i <= position + Len(d) THEN d[i - position] ELSE contents[i]]
             /\ position' = position + Len(d)
             /\ result' = Memory!Stream!Transferred("write", d)
             /\ UNCHANGED status
    <3>1. d \in Seq(Bytes)
      BY CallsAssumption
    <3>2. contents' = Memory!Stream!Overwrite(contents, position, d)
      BY <2>2, <3>1, WriteOverwrites DEF PositionInData
    <3>3. Memory!Stream!Write(d)
      BY <2>2, <3>2 DEF Memory!Stream!Write, Memory!Stream!Sticky, Memory!Stream!BreaksAtEnd
    <3> QED  BY <3>3 DEF Memory!Stream!Next
  <2> QED  BY <1>7, <2>1, <2>2 DEF Memory!Write
<1>8. CASE UNCHANGED Memory!memoryVars
  BY <1>8 DEF Memory!memoryVars, Memory!Stream!vars
<1> QED  BY <1>1, <1>2, <1>4, <1>5, <1>6, <1>7, <1>8 DEF Memory!Next

\* Every step of a memory stream is a step of the bounded stream: reads return what
\* was written where the position says, and what cannot be done is reported.
THEOREM MemoryImplementsStream == Memory!Spec => Memory!ImplementsStream
  BY MemoryInvInit, MemoryInvStep, MemoryInitImplements, MemoryStepImplements, PTL
     DEF Memory!Spec, Memory!ImplementsStream, Memory!Stream!Spec
-----------------------------------------------------------------------------
(* A buffered file stream does if its copies to streams take one chunk.     *)

\* A slice of a sequence of bytes has the bytes that are there, at most n.
LEMMA FileSlice ==
    ASSUME NEW s \in Seq(Bytes), NEW p \in 0 .. Len(s), NEW n \in Nat
    PROVE  /\ File!Stream!Slice(s, p, n) \in Seq(Bytes)
           /\ Len(File!Stream!Slice(s, p, n)) \in Nat
           /\ p + Len(File!Stream!Slice(s, p, n)) \in 0 .. Len(s)
           /\ n <= Len(s) - p => Len(File!Stream!Slice(s, p, n)) = n
           /\ n > Len(s) - p => Len(File!Stream!Slice(s, p, n)) = Len(s) - p
<1> DEFINE k == IF n < Len(s) - p THEN n ELSE Len(s) - p
<1>1. k \in Nat /\ p + k \in 0 .. Len(s)
  OBVIOUS
<1>2. File!Stream!Slice(s, p, n) = SubSeq(s, p + 1, p + k)
  BY DEF File!Stream!Slice, File!Stream!Least
<1>3. Len(SubSeq(s, p + 1, p + k)) = k /\ SubSeq(s, p + 1, p + k) \in Seq(Bytes)
  BY <1>1
<1>4. (n <= Len(s) - p => k = n) /\ (n > Len(s) - p => k = Len(s) - p)
  OBVIOUS
<1> HIDE DEF k
<1> QED  BY <1>1, <1>2, <1>3, <1>4

\* Overwriting keeps a sequence of bytes that one, and ends behind its last byte.
LEMMA FileOverwrite ==
    ASSUME NEW s \in Seq(Bytes), NEW p \in 0 .. Len(s), NEW d \in Seq(Bytes)
    PROVE  /\ File!Stream!Overwrite(s, p, d) \in Seq(Bytes)
           /\ Len(File!Stream!Overwrite(s, p, d)) \in Nat
           /\ p + Len(d) \in 0 .. Len(File!Stream!Overwrite(s, p, d))
           /\ Len(s) < p + Len(d) => Len(File!Stream!Overwrite(s, p, d)) = p + Len(d)
           /\ Len(s) >= p + Len(d) => Len(File!Stream!Overwrite(s, p, d)) = Len(s)
<1> DEFINE n == IF Len(s) < p + Len(d) THEN p + Len(d) ELSE Len(s)
           f == [i \in 1 .. n |-> IF p < i /\ i <= p + Len(d) THEN d[i - p] ELSE s[i]]
<1>1. n \in Nat
  OBVIOUS
<1>2. \A i \in 1 .. n : f[i] \in Bytes
  <2> TAKE i \in 1 .. n
  <2>1. CASE p < i /\ i <= p + Len(d)
    <3>1. i - p \in 1 .. Len(d)
      BY <1>1, <2>1
    <3> QED  BY <3>1, <2>1
  <2>2. CASE ~(p < i /\ i <= p + Len(d))
    <3>1. i \in 1 .. Len(s)
      BY <1>1, <2>2
    <3> QED  BY <3>1, <2>2
  <2> QED  BY <2>1, <2>2
<1>3. f \in [1 .. n -> Bytes]
  BY <1>2
<1>4. f \in Seq(Bytes) /\ Len(f) = n
  BY <1>1, <1>3
<1>5. File!Stream!Overwrite(s, p, d) = f
  BY DEF File!Stream!Overwrite
<1>6. (Len(s) < p + Len(d) => n = p + Len(d)) /\ (Len(s) >= p + Len(d) => n = Len(s))
  OBVIOUS
<1> HIDE DEF f, n
<1> QED  BY <1>1, <1>4, <1>5, <1>6

\* A copy that fits the buffer is read in one piece, and counted in full.
LEMMA FileCopyIsRead ==
    ASSUME CopiesFit, FileInv, NEW n \in Counts, File!ReadStream(n)
    PROVE  File!ReadBuffer(n)
<1> DEFINE bytes == File!Stream!Slice(contents, cursor, n)
           last == IF n = 0 THEN 0 ELSE ((n - 1) % BufferSize) + 1
           copied == [i \in 1 .. n |-> IF i <= Len(bytes) THEN bytes[i] ELSE "garbage"]
<1>1. n \in Nat /\ n <= BufferSize /\ n <= Len(contents) - cursor
  BY CallsAssumption DEF File!ReadStream, CopiesFit
<1>2. bytes \in Seq(Bytes) /\ Len(bytes) = n
  BY <1>1, FileSlice DEF FileInv
<1>3. last = n
  <2>1. CASE n = 0
    BY <2>1
  <2>2. CASE n > 0
    <3>1. (n - 1) % BufferSize = n - 1
      BY <1>1, <2>2 DEF CopiesFit
    <3> QED  BY <3>1, <2>2, <1>1
  <2> QED  BY <1>1, <2>1, <2>2
<1>4. copied = bytes
  BY <1>1, <1>2
<1>5. /\ File!Readable
      /\ cursor' = cursor + Len(bytes)
      /\ bits' = IF Len(bytes) < n THEN "eof" ELSE "good"
      /\ position' = position + (IF Len(bytes) < n - last THEN 0 ELSE Len(bytes) - (n - last))
      /\ result' = [op |-> "read",
                    count |-> IF Len(bytes) < n - last THEN 0 ELSE Len(bytes) - (n - last),
                    bytes |-> copied]
      /\ UNCHANGED <<mode, contents, isOpen, fileSize, status>>
  BY DEF File!ReadStream
<1> HIDE DEF last, copied
<1>6. (IF Len(bytes) < n - last THEN 0 ELSE Len(bytes) - (n - last)) = Len(bytes)
  BY <1>1, <1>2, <1>3
<1>7. result' = File!Stream!Transferred("read", bytes)
  BY <1>4, <1>5, <1>6 DEF File!Stream!Transferred
<1> QED  BY <1>5, <1>6, <1>7 DEF File!ReadBuffer

\* The invariant holds of a stream that was not opened yet, and each call keeps it.
LEMMA FileInvInit == File!Init => FileInv
<1> SUFFICES ASSUME File!Init PROVE FileInv
  OBVIOUS
<1>1. contents \in Seq(Bytes)
  BY CallsAssumption DEF File!Init
<1>2. Len(contents) \in Nat
  BY <1>1
<1>3. isOpen = FALSE /\ cursor = 0 /\ bits = "good" /\ fileSize = Len(contents) /\ position = 0
  BY DEF File!Init
<1>4. File!InStep
  BY <1>3 DEF File!InStep
<1>5. isOpen \in BOOLEAN /\ bits \in {"good", "eof", "fail"}
  BY <1>3
<1>6. cursor \in 0 .. Len(contents) /\ position \in Nat /\ fileSize \in Nat
  BY <1>2, <1>3
<1>7. Len(contents) <= MaxSize /\ position <= MaxSize /\ fileSize <= MaxSize
  BY <1>3, CallsAssumption DEF File!Init
<1> QED  BY <1>1, <1>4, <1>5, <1>6, <1>7 DEF FileInv

LEMMA FileInvStep == CopiesFit /\ FileInv /\ [File!Next]_(File!fileVars) => FileInv'
<1> SUFFICES ASSUME CopiesFit, FileInv, [File!Next]_(File!fileVars) PROVE FileInv'
  OBVIOUS
<1>1. CASE File!Open
  <2>1. CASE isOpen /\ File!Fail("open", "AlreadyOpenError") /\ UNCHANGED bits
    BY <2>1 DEF File!Fail, FileInv, File!InStep
  <2>2. CASE /\ contents' = IF mode = {"out"} THEN << >> ELSE contents
             /\ isOpen' = TRUE /\ bits' = "good" /\ fileSize' = Len(contents')
             /\ position' = 0 /\ cursor' = 0
    <3>1. contents' \in Seq(Bytes)
      BY <2>2 DEF FileInv
    <3>2. Len(contents') \in Nat /\ Len(contents') <= MaxSize /\ 0 <= MaxSize
      BY <2>2, <3>1, CallsAssumption DEF FileInv
    <3> QED  BY <2>2, <3>1, <3>2 DEF FileInv, File!InStep
  <2>3. CASE ~isOpen /\ File!Fail("open", "OpenError") /\ bits' = "fail"
    BY <2>3 DEF File!Fail, FileInv, File!InStep
  <2> QED  BY <1>1, <2>1, <2>2, <2>3 DEF File!Open
<1>2. CASE File!Close
  BY <1>2 DEF File!Close, FileInv, File!InStep
<1>3. CASE File!RefuseRead \/ File!RefuseWrite
  BY <1>3 DEF File!RefuseRead, File!RefuseWrite, File!Fail, FileInv, File!InStep
<1>4. ASSUME NEW n \in Counts, File!Seek(n) PROVE FileInv'
  BY <1>4, CallsAssumption DEF File!Seek, File!Fail, FileInv, File!InStep
<1>5. ASSUME NEW n \in Counts, File!ReadBuffer(n) PROVE FileInv'
  <2>1. n \in Nat /\ position = cursor /\ isOpen
    BY <1>5, CallsAssumption DEF File!ReadBuffer, File!Readable, FileInv, File!InStep
  <2> DEFINE bytes == File!Stream!Slice(contents, cursor, n)
  <2>2. Len(bytes) \in Nat /\ cursor + Len(bytes) <= Len(contents)
        /\ Len(contents) \in Nat /\ Len(contents) <= MaxSize /\ MaxSize \in Nat /\ cursor \in Nat
    BY <2>1, FileSlice, CallsAssumption DEF FileInv
  <2>3. /\ cursor' = cursor + Len(bytes) /\ position' = position + Len(bytes)
        /\ bits' \in {"good", "eof"}
        /\ UNCHANGED <<contents, isOpen, fileSize>>
    BY <1>5 DEF File!ReadBuffer
  <2> HIDE DEF bytes
  <2> QED  BY <1>5, <2>1, <2>2, <2>3 DEF File!ReadBuffer, File!Readable, FileInv, File!InStep
<1>6. ASSUME NEW n \in Counts, File!ReadStream(n) PROVE FileInv'
  <2>1. n \in Nat /\ File!ReadBuffer(n)
    BY <1>6, FileCopyIsRead, CallsAssumption
  <2> QED  BY <2>1, <1>5
<1>7. ASSUME NEW d \in Sources, File!Write(d) PROVE FileInv'
  BY <1>7, FileOverwrite, CallsAssumption DEF File!Write, File!Writable, FileInv, File!InStep
<1>8. ASSUME NEW d \in Sources, File!WriteFails(d) PROVE FileInv'
  <2>1. PICK written \in 0 .. MaxSize - cursor :
               /\ contents' = File!Stream!Overwrite(contents, cursor, SubSeq(d, 1, written))
               /\ cursor' = cursor + written
    BY <1>8 DEF File!WriteFails
  <2>2. written \in 0 .. Len(d) /\ d \in Seq(Bytes)
    BY <1>8, CallsAssumption DEF File!WriteFails, FileInv
  <2>3. SubSeq(d, 1, written) \in Seq(Bytes) /\ Len(SubSeq(d, 1, written)) = written
    BY <2>2
  <2>4. contents' \in Seq(Bytes) /\ cursor' \in 0 .. Len(contents')
    BY <2>1, <2>2, <2>3, FileOverwrite DEF FileInv
  <2>5. bits' = "fail" /\ UNCHANGED <<isOpen, fileSize, position>>
    BY <1>8 DEF File!WriteFails
  <2>6. Len(contents') \in Nat /\ Len(contents') <= MaxSize
    <3> DEFINE w == SubSeq(d, 1, written)
    <3>1. /\ contents \in Seq(Bytes) /\ cursor \in 0 .. Len(contents) /\ cursor \in Nat
          /\ Len(contents) \in Nat /\ Len(contents) <= MaxSize
          /\ cursor + written <= MaxSize
      BY <2>2, CallsAssumption DEF FileInv
    <3>2. w \in Seq(Bytes) /\ Len(w) = written
      BY <2>3
    <3> HIDE DEF w
    <3>3. /\ Len(File!Stream!Overwrite(contents, cursor, w)) \in Nat
          /\ Len(contents) < cursor + Len(w) => Len(File!Stream!Overwrite(contents, cursor, w)) = cursor + Len(w)
          /\ Len(contents) >= cursor + Len(w) => Len(File!Stream!Overwrite(contents, cursor, w)) = Len(contents)
      BY <3>1, <3>2, FileOverwrite
    <3>4. contents' = File!Stream!Overwrite(contents, cursor, w)
      BY <2>1 DEF w
    <3> QED  BY <2>2, <3>1, <3>2, <3>3, <3>4
  <2> QED  BY <2>4, <2>5, <2>6 DEF FileInv, File!InStep
<1>9. CASE UNCHANGED File!fileVars
  BY <1>9 DEF File!fileVars, FileInv, File!InStep
<1> QED  BY <1>1, <1>2, <1>3, <1>4, <1>5, <1>6, <1>7, <1>8, <1>9 DEF File!Next

\* The stream's own position and size are those of the file in every reachable state
\* in which it can be used, whatever the calls that failed before.
THEOREM FileStaysInStep == CopiesFit => (File!Spec => []File!InStep)
<1>1. ASSUME CopiesFit PROVE File!Spec => []File!InStep
  <2>1. File!Init => FileInv
    BY FileInvInit
  <2>2. FileInv /\ [File!Next]_(File!fileVars) => FileInv'
    BY <1>1, FileInvStep
  <2>3. FileInv => File!InStep
    BY DEF FileInv
  <2> QED  BY <2>1, <2>2, <2>3, PTL DEF File!Spec
<1> QED  BY <1>1

\* The initial states, and the steps of the stream, are those of the contract.
LEMMA FileInitImplements == File!Init => File!Stream!Init
<1> SUFFICES ASSUME File!Init PROVE File!Stream!Init
  OBVIOUS
<1>1. contents \in Seq(Bytes)
  BY CallsAssumption DEF File!Init
<1>2. isOpen \in BOOLEAN
  BY DEF File!Init
<1>3. File!StreamPosition = 0 /\ ~(status # "Ok") /\ result = File!Stream!Nothing("none")
  BY DEF File!Init, File!StreamPosition
<1> QED  BY <1>1, <1>2, <1>3 DEF File!Stream!Init

\* A call that reports an error and moves nothing is a refused one.
LEMMA FileFailRefuses ==
    ASSUME NEW op \in {"open", "seek", "read", "write"},
           NEW code \in {"OpenError", "AlreadyOpenError", "SeekError", "ReadError", "WriteError"},
           File!Fail(op, code)
    PROVE  File!Stream!Next
<1>1. File!Stream!Refuse(op)
  BY DEF File!Fail, File!StreamPosition, File!Stream!Refuse, File!Stream!Sticky
<1> QED  BY <1>1 DEF File!Stream!Next

LEMMA FileStepImplements ==
    CopiesFit /\ FileInv /\ [File!Next]_(File!fileVars) => [File!Stream!Next]_(File!Stream!vars)
<1> SUFFICES ASSUME CopiesFit, FileInv, [File!Next]_(File!fileVars)
             PROVE  File!Stream!Next \/ UNCHANGED File!Stream!vars
  OBVIOUS
<1>1. CASE File!Open
  <2>1. CASE File!Fail("open", "AlreadyOpenError") \/ File!Fail("open", "OpenError")
    BY <2>1, FileFailRefuses
  <2>2. CASE /\ contents' = IF mode = {"out"} THEN << >> ELSE contents
             /\ isOpen' = TRUE /\ bits' = "good" /\ position' = 0 /\ status' = "Ok"
             /\ result' = File!Stream!Nothing("open")
    <3>1. File!Stream!Open
      BY <2>2 DEF File!Stream!Open, File!Stream!BreaksAtEnd, File!StreamPosition
    <3> QED  BY <3>1 DEF File!Stream!Next
  <2> QED  BY <1>1, <2>1, <2>2 DEF File!Open
<1>2. CASE File!Close
  <2>1. File!Stream!Close
    BY <1>2 DEF File!Close, File!Stream!Close, File!Stream!Sticky, File!StreamPosition
  <2> QED  BY <2>1 DEF File!Stream!Next
<1>3. CASE File!RefuseWrite
  BY <1>3, FileFailRefuses DEF File!RefuseWrite
<1>4. CASE File!RefuseRead
  <2>1. CASE File!Fail("read", "ReadError")
    BY <2>1, FileFailRefuses
  <2>2. CASE /\ bits = "eof"
             /\ result' = File!Stream!Nothing("read")
             /\ UNCHANGED <<mode, contents, cursor, bits, isOpen, fileSize, position, status>>
    <3>1. File!Stream!Refuse("read")
      BY <2>2 DEF File!Stream!Refuse, File!Stream!Sticky, File!StreamPosition
    <3> QED  BY <3>1 DEF File!Stream!Next
  <2> QED  BY <1>4, <2>1, <2>2 DEF File!RefuseRead
<1>5. ASSUME NEW n \in Counts, File!Seek(n) PROVE File!Stream!Next
  <2>1. CASE File!Fail("seek", "SeekError")
    BY <2>1, FileFailRefuses
  <2>2. CASE ~File!Fail("seek", "SeekError") /\ isOpen
    <3>1. n <= Len(contents)
      BY <1>5, <2>2 DEF File!Seek, FileInv, File!InStep
    <3>2. File!Stream!Seek(n)
      BY <1>5, <2>2, <3>1 DEF File!Seek, File!Stream!Seek, File!Stream!Sticky, File!Stream!BreaksAtEnd, File!StreamPosition
    <3> QED  BY <3>2 DEF File!Stream!Next
  <2>3. CASE ~File!Fail("seek", "SeekError") /\ ~isOpen
    <3>1. File!Stream!Refuse("seek")
      BY <1>5, <2>3 DEF File!Seek, File!Stream!Refuse, File!Stream!Sticky, File!StreamPosition
    <3> QED  BY <3>1 DEF File!Stream!Next
  <2> QED  BY <2>1, <2>2, <2>3
<1>6. ASSUME NEW n \in Counts, File!ReadBuffer(n) PROVE File!Stream!Next
  <2> DEFINE bytes == File!Stream!Slice(contents, cursor, n)
  <2>1. n \in Nat /\ position = cursor /\ isOpen /\ bits = "good"
    BY <1>6, CallsAssumption DEF File!ReadBuffer, File!Readable, FileInv, File!InStep
  <2>2. /\ contents \in Seq(Bytes) /\ cursor \in 0 .. Len(contents)
        /\ Len(bytes) \in Nat
        /\ n <= Len(contents) - cursor => Len(bytes) = n
        /\ n > Len(contents) - cursor => Len(bytes) = Len(contents) - cursor
    BY <2>1, FileSlice DEF FileInv
  <2>3. /\ position' = cursor + Len(bytes)
        /\ bits' = IF Len(bytes) < n THEN "eof" ELSE "good"
        /\ result' = File!Stream!Transferred("read", bytes)
        /\ UNCHANGED <<mode, contents, isOpen, fileSize, status>>
    BY <1>6, <2>1 DEF File!ReadBuffer
  <2>4. File!StreamPosition = cursor /\ File!StreamPosition' = cursor + Len(bytes)
    BY <2>1, <2>3 DEF File!StreamPosition
  <2> HIDE DEF bytes
  <2>5. bits' # "good" => File!StreamPosition' = Len(contents')
    BY <2>1, <2>2, <2>3, <2>4
  <2>6. bytes = File!Stream!Slice(contents, File!StreamPosition, n)
    BY <2>4 DEF bytes
  <2>7. File!Stream!Read(n)
    BY <2>1, <2>3, <2>4, <2>5, <2>6 DEF File!Stream!Read, File!Stream!Sticky, File!Stream!BreaksAtEnd
  <2> QED  BY <2>7 DEF File!Stream!Next
<1>7. ASSUME NEW n \in Counts, File!ReadStream(n) PROVE File!Stream!Next
  <2>1. File!ReadBuffer(n)
    BY <1>7, FileCopyIsRead
  <2> QED  BY <2>1, <1>6
<1>8. ASSUME NEW d \in Sources, File!Write(d) PROVE File!Stream!Next
  <2>1. position = cursor /\ isOpen /\ bits = "good"
    BY <1>8 DEF File!Write, File!Writable, FileInv, File!InStep
  <2>2. File!Stream!Write(d)
    BY <1>8, <2>1 DEF File!Write, File!Stream!Write, File!Stream!Sticky, File!Stream!BreaksAtEnd, File!StreamPosition
  <2> QED  BY <2>2 DEF File!Stream!Next
<1>9. ASSUME NEW d \in Sources, File!WriteFails(d) PROVE File!Stream!Next
  <2>1. position = cursor /\ isOpen /\ bits = "good"
    BY <1>9 DEF File!WriteFails, File!Writable, FileInv, File!InStep
  <2>2. PICK written \in 0 .. MaxSize - cursor :
               contents' = File!Stream!Overwrite(contents, cursor, SubSeq(d, 1, written))
    BY <1>9 DEF File!WriteFails
  <2>3. d \in Seq(Bytes) /\ Len(d) \in Nat /\ contents \in Seq(Bytes) /\ Len(contents) \in Nat
    BY CallsAssumption DEF FileInv
  <2>4. written \in 0 .. Len(d)
    BY <1>9, <2>3, CallsAssumption DEF File!WriteFails, FileInv
  <2>5. File!Stream!Resized(contents, Len(contents)) = contents
    BY <2>3 DEF File!Stream!Resized
  <2>6. SubSeq(d, 1, 0) = << >>
    BY <2>3
  <2>7. File!StreamPosition = cursor /\ File!StreamPosition' = cursor + 0 /\ isOpen' = isOpen /\ status' # "Ok"
        /\ result' = File!Stream!Nothing("write")
    BY <1>9, <2>1, <2>3 DEF File!WriteFails, File!StreamPosition, FileInv
  <2>8. result' = File!Stream!Transferred("write", SubSeq(d, 1, 0))
    BY <2>6, <2>7 DEF File!Stream!Transferred, File!Stream!Nothing
  <2>9. File!Stream!WriteFails(d)
    <3>1. /\ 0 \in 0 .. Len(d) /\ written \in 0 .. Len(d)
          /\ Len(contents) \in {Len(contents), File!StreamPosition + Len(d)}
          /\ Len(contents) >= Len(contents)
      BY <2>3, <2>4
    <3>2. contents' = File!Stream!Overwrite(File!Stream!Resized(contents, Len(contents)), File!StreamPosition,
                                       SubSeq(d, 1, written))
      BY <2>2, <2>5, <2>7
    <3>3. File!StreamPosition' = File!StreamPosition + 0
      BY <2>7
    <3> HIDE DEF File!StreamPosition
    <3> QED  BY <2>1, <2>7, <2>8, <3>1, <3>2, <3>3 DEF File!Stream!WriteFails
  <2> QED  BY <2>9 DEF File!Stream!Next
<1>10. CASE UNCHANGED File!fileVars
  BY <1>10 DEF File!fileVars, File!Stream!vars, File!StreamPosition
<1> QED  BY <1>1, <1>2, <1>3, <1>4, <1>5, <1>6, <1>7, <1>8, <1>9, <1>10 DEF File!Next

\* Every step of a file stream is a step of the bounded stream: what is read is what
\* was written at the position the caller sees, and a call that fails reports it.
THEOREM FileImplementsStream == CopiesFit => (File!Spec => File!ImplementsStream)
<1>1. ASSUME CopiesFit PROVE File!Spec => File!ImplementsStream
  <2>1. FileInv /\ [File!Next]_(File!fileVars) => FileInv'
    BY <1>1, FileInvStep
  <2>2. FileInv /\ [File!Next]_(File!fileVars) => [File!Stream!Next]_(File!Stream!vars)
    BY <1>1, FileStepImplements
  <2> QED  BY <2>1, <2>2, FileInvInit, FileInitImplements, PTL DEF File!Spec, File!ImplementsStream, File!Stream!Spec
<1> QED  BY <1>1
-----------------------------------------------------------------------------
(* The steps of the streams here are those of the proofs.                   *)

LEMMA FitsEach == Fits => CopiesFit /\ MappedP!Handled
<1>1. MappedP!ViewsAssumption
  BY ViewsAssumption DEF Mapped!ViewsAssumption, MappedP!ViewsAssumption, Mapped!ViewFor, MappedP!ViewFor,
       Mapped!Max, MappedP!Max,
       Mapped!Stream!Least, MappedP!Stream!Least
<1> QED  BY <1>1 DEF Fits, CopiesFit, MappedP!Handled

\* The modules with the proofs are instances of their own, so that the steps of the
\* composition and theirs are matched definition by definition.
LEMMA MappedSteps ==
    /\ Mapped!Init <=> MappedP!Init
    /\ Mapped!Next <=> MappedP!Next
<1>1. Mapped!Init <=> MappedP!Init
  BY DEF Mapped!Init, MappedP!Init, Mapped!Stream!Nothing, MappedP!Stream!Nothing, Mapped!None, MappedP!None
<1>2. Mapped!Next <=> MappedP!Next
  BY DEF Mapped!Next, MappedP!Next, Mapped!Begun, MappedP!Begun, Mapped!Proceed, MappedP!Proceed,
       Mapped!AlreadyOpen, MappedP!AlreadyOpen, Mapped!Open, MappedP!Open, Mapped!OpenFails, MappedP!OpenFails,
       Mapped!Close, MappedP!Close, Mapped!Flush, MappedP!Flush, Mapped!ResizeRefused, MappedP!ResizeRefused,
       Mapped!ReadRefused, MappedP!ReadRefused, Mapped!WriteNothing, MappedP!WriteNothing,
       Mapped!WriteRefused, MappedP!WriteRefused, Mapped!Seek, MappedP!Seek, Mapped!SeekFails, MappedP!SeekFails,
       Mapped!Resize, MappedP!Resize, Mapped!ResizeTo, MappedP!ResizeTo, Mapped!Read, MappedP!Read,
       Mapped!Write, MappedP!Write, Mapped!Begin, MappedP!Begin, Mapped!Chunk, MappedP!Chunk,
       Mapped!Remap, MappedP!Remap, Mapped!GiveUp, MappedP!GiveUp, Mapped!Finish, MappedP!Finish,
       Mapped!Finished, MappedP!Finished, Mapped!Exhausted, MappedP!Exhausted,
       Mapped!InViewBehind, MappedP!InViewBehind, Mapped!Return, MappedP!Return, Mapped!Fail, MappedP!Fail,
       Mapped!Report, MappedP!Report, Mapped!FlushForSeekMay, MappedP!FlushForSeekMay,
       Mapped!FlushMay, MappedP!FlushMay, Mapped!Flushes, MappedP!Flushes, Mapped!InView, MappedP!InView,
       Mapped!MapFile, MappedP!MapFile, Mapped!MapMayFail, MappedP!MapMayFail, Mapped!NoView, MappedP!NoView,
       Mapped!ViewFor, MappedP!ViewFor, Mapped!Max, MappedP!Max,
       Mapped!Unmapped, MappedP!Unmapped, Mapped!Visible, MappedP!Visible,
       Mapped!Busy, MappedP!Busy, Mapped!None, MappedP!None, Mapped!view, MappedP!view, Mapped!file, MappedP!file,
       Mapped!Stream!Nothing, MappedP!Stream!Nothing, Mapped!Stream!Least, MappedP!Stream!Least,
       Mapped!Stream!Slice, MappedP!Stream!Slice, Mapped!Stream!Overwrite, MappedP!Stream!Overwrite,
       Mapped!Stream!Resized, MappedP!Stream!Resized
<1> QED  BY <1>1, <1>2

\* A step of the streams is a step of the kind that it is, or changes nothing of it.
LEMMA StepOfKind ==
    ASSUME [Next]_vars
    PROVE  /\ kind' = kind
           /\ kind = "memory" => [Memory!Next]_(Memory!memoryVars)
           /\ kind = "file" => [File!Next]_(File!fileVars)
           /\ kind = "mapped" => [MappedP!Next]_(MappedP!mappedVars)
<1>1. CASE Next
  BY <1>1, MappedSteps DEF Next
<1>2. CASE UNCHANGED vars
  BY <1>2 DEF vars, fileOnly, mappedOnly, Memory!memoryVars, File!fileVars, MappedP!mappedVars,
              MappedP!view, MappedP!file
<1> QED  BY <1>1, <1>2

\* The invariant holds at first, and every step keeps it.
LEMMA StreamsInvInit == Init => StreamsInv
<1> SUFFICES ASSUME Init PROVE StreamsInv
  OBVIOUS
<1>1. CASE kind = "memory" /\ Memory!Init
  BY <1>1, MemoryInvInit, CallsAssumption DEF StreamsInv
<1>2. CASE kind = "file" /\ File!Init
  BY <1>2, FileInvInit, CallsAssumption DEF StreamsInv
<1>3. CASE kind = "mapped" /\ Mapped!Init
  BY <1>3, MappedSteps, MappedP!MappedInvInit, CallsAssumption DEF StreamsInv
<1> QED  BY <1>1, <1>2, <1>3 DEF Init

LEMMA StreamsInvStep == Fits /\ StreamsInv /\ [Next]_vars => StreamsInv'
<1> SUFFICES ASSUME Fits, StreamsInv, [Next]_vars PROVE StreamsInv'
  OBVIOUS
<1>1. kind' = kind /\ kind' \in {"memory", "file", "mapped"}
  BY StepOfKind DEF StreamsInv
<1>2. CASE kind = "memory"
  BY <1>1, <1>2, StepOfKind, MemoryInvStep, CallsAssumption DEF StreamsInv
<1>3. CASE kind = "file"
  BY <1>1, <1>3, StepOfKind, FitsEach, FileInvStep, CallsAssumption DEF StreamsInv
<1>4. CASE kind = "mapped"
  BY <1>1, <1>4, StepOfKind, FitsEach, MappedP!MappedInvStep, CallsAssumption DEF StreamsInv
<1> QED  BY <1>2, <1>3, <1>4 DEF StreamsInv

\* In every reachable state a stream satisfies the invariant of its own kind.
THEOREM StreamsInvariant == Fits => (Spec => []StreamsInv)
<1>1. ASSUME Fits PROVE Spec => []StreamsInv
  BY <1>1, StreamsInvInit, StreamsInvStep, PTL DEF Spec
<1> QED  BY <1>1

\* A file stream tells and sizes its file where the fstream is, and ends.
THEOREM FilesStayInStep == Fits => (Spec => []InStep)
<1>1. ASSUME Fits PROVE Spec => []InStep
  <2>1. StreamsInv => InStep
    BY DEF StreamsInv, InStep, FileInv, File!InStep
  <2>2. Spec => []StreamsInv
    BY <1>1, StreamsInvariant
  <2> QED  BY <2>1, <2>2, PTL
<1> QED  BY <1>1

\* Whatever chunks a call takes and whatever views the system grants, bytes are copied
\* within the view.
THEOREM CopiesInView == Fits => (Spec => []AccessInView)
<1>1. ASSUME Fits PROVE Spec => []AccessInView
  <2>1. StreamsInv => AccessInView
    <3>1. kind = "mapped" /\ StreamsInv => MappedP!AccessInView
      BY MappedP!UnfinishedHasView, CallsAssumption DEF StreamsInv, MappedP!AccessInView
    <3>2. MappedP!AccessInView => Mapped!AccessInView
      BY DEF MappedP!AccessInView, Mapped!AccessInView, MappedP!Busy, Mapped!Busy, MappedP!None, Mapped!None,
             MappedP!Exhausted, Mapped!Exhausted, MappedP!InViewBehind, Mapped!InViewBehind,
             MappedP!InView, Mapped!InView
    <3> QED  BY <3>1, <3>2 DEF AccessInView
  <2>2. Spec => []StreamsInv
    BY <1>1, StreamsInvariant
  <2> QED  BY <2>1, <2>2, PTL
<1> QED  BY <1>1

\* A view starts on a page, ends within the file and has the position in it or at its
\* end, whatever the file was cut or extended to.
THEOREM ViewsInFile == Fits => (Spec => []ViewInFile)
<1>1. ASSUME Fits PROVE Spec => []ViewInFile
  <2>1. StreamsInv => ViewInFile
    BY DEF StreamsInv, ViewInFile, MappedP!MappedInv, MappedP!ViewKnown, MappedP!ViewInFile, Mapped!ViewInFile
  <2>2. Spec => []StreamsInv
    BY <1>1, StreamsInvariant
  <2> QED  BY <2>1, <2>2, PTL
<1> QED  BY <1>1
-----------------------------------------------------------------------------
(* Files and arrays stay within their bound, and so do positions and views. *)

\* What TypeOK says beyond StreamsInv, and that the variables of the other kinds rest
Bounded ==
    /\ status \in Codes
    /\ Len(contents) <= MaxSize
    /\ fileSize \in 0 .. MaxSize
    /\ kind = "memory" => isOpen = FALSE
    /\ kind # "file" => NoFile
    /\ kind # "mapped" => data = "null" /\ viewOffset = 0 /\ viewSize = 0

\* The bounds hold at first, and calls of each kind keep them.
LEMMA BoundedInit == Init => Bounded
<1> SUFFICES ASSUME Init PROVE Bounded
  OBVIOUS
<1>1. CASE kind = "memory" /\ Memory!Init /\ isOpen = FALSE /\ fileSize = 0 /\ NoFile /\ NoMapping
  <2>1. PICK size \in Counts : size <= MaxSize /\ contents = [i \in 1 .. size |-> 0]
    BY <1>1 DEF Memory!Init
  <2>2. Len(contents) <= MaxSize /\ status \in Codes
    BY <1>1, <2>1, CallsAssumption DEF Memory!Init, Codes
  <2> QED  BY <1>1, <2>2, CallsAssumption DEF Bounded, NoMapping
<1>2. CASE kind = "file" /\ File!Init /\ NoMapping
  <2>1. Len(contents) \in Nat /\ Len(contents) <= MaxSize /\ status \in Codes
    BY <1>2, CallsAssumption DEF File!Init, Codes
  <2> QED  BY <1>2, <2>1, CallsAssumption DEF File!Init, Bounded, NoMapping
<1>3. CASE kind = "mapped" /\ Mapped!Init /\ NoFile
  <2>1. Len(contents) \in Nat /\ Len(contents) <= MaxSize /\ status \in Codes
    BY <1>3, CallsAssumption DEF Mapped!Init, Codes
  <2> QED  BY <1>3, <2>1, CallsAssumption DEF Mapped!Init, Bounded
<1> QED  BY <1>1, <1>2, <1>3 DEF Init

LEMMA MemoryBounded ==
    ASSUME kind = "memory", StreamsInv, Bounded, Memory!Next
    PROVE  status' \in Codes /\ Len(contents') <= MaxSize
<1> USE DEF StreamsInv, Bounded, Codes
<1>1. CASE Memory!Rewind("open") \/ Memory!Rewind("close") \/ Memory!NullBuffer
  BY <1>1 DEF Memory!Rewind, Memory!NullBuffer, Memory!Fail
<1>2. ASSUME NEW n \in Counts, Memory!Seek(n) \/ Memory!Read(n)
      PROVE  status' \in Codes /\ Len(contents') <= MaxSize
  BY <1>2 DEF Memory!Seek, Memory!Read, Memory!Fail
<1>3. ASSUME NEW d \in Sources, Memory!Write(d)
      PROVE  status' \in Codes /\ Len(contents') <= MaxSize
  <2> DEFINE available == Len(contents) - position
             newSize == IF available < Len(d) THEN Len(contents) + (Len(d) - available) ELSE Len(contents)
  <2>1. newSize \in Nat
    BY CallsAssumption DEF PositionInData
  <2>2. CASE Memory!Fail("write", "WriteError")
    BY <2>2 DEF Memory!Fail
  <2>3. CASE /\ newSize <= MaxSize
             /\ contents' = [i \in 1 .. newSize |->
                    IF position < i /\ i <= position + Len(d) THEN d[i - position] ELSE contents[i]]
             /\ UNCHANGED status
    <3> HIDE DEF newSize
    <3> QED  BY <2>1, <2>3
  <2> QED  BY <1>3, <2>2, <2>3 DEF Memory!Write
<1> QED  BY <1>1, <1>2, <1>3 DEF Memory!Next

LEMMA FileBounded ==
    ASSUME kind = "file", File!Next, status \in Codes
    PROVE  status' \in Codes
<1> USE DEF Codes
<1>1. CASE File!Open \/ File!Close \/ File!RefuseRead \/ File!RefuseWrite
  BY <1>1 DEF File!Open, File!Close, File!RefuseRead, File!RefuseWrite, File!Fail
<1>2. ASSUME NEW n \in Counts, File!Seek(n) \/ File!ReadBuffer(n) \/ File!ReadStream(n)
      PROVE  status' \in Codes
  BY <1>2 DEF File!Seek, File!ReadBuffer, File!ReadStream, File!Fail
<1>3. ASSUME NEW d \in Sources, File!Write(d) \/ File!WriteFails(d)
      PROVE  status' \in Codes
  BY <1>3 DEF File!Write, File!WriteFails
<1> QED  BY <1>1, <1>2, <1>3 DEF File!Next

\* A closed stream remembers the size the file had, or none.
LEMMA MappedBounded ==
    ASSUME Fits, MappedP!Next, status \in Codes
    PROVE  /\ status' \in Codes
           /\ isOpen' \/ fileSize' \in {0, fileSize, Len(contents)}
<1> DEFINE Goal == status' \in Codes /\ (isOpen' \/ fileSize' \in {0, fileSize, Len(contents)})
<1> USE DEF Codes, MappedP!file, MappedP!Fail, MappedP!Report
<1>1. CASE MappedP!AlreadyOpen \/ MappedP!Open \/ MappedP!OpenFails
  BY <1>1 DEF MappedP!AlreadyOpen, MappedP!Open, MappedP!OpenFails
<1>2. CASE MappedP!Close \/ MappedP!Flush
  BY <1>2 DEF MappedP!Close, MappedP!Flush
<1>3. CASE MappedP!ResizeRefused \/ MappedP!ReadRefused \/ MappedP!WriteNothing \/ MappedP!WriteRefused
  BY <1>3 DEF MappedP!ResizeRefused, MappedP!ReadRefused, MappedP!WriteNothing, MappedP!WriteRefused
<1>4. ASSUME NEW n \in Counts, MappedP!Seek(n) \/ MappedP!SeekFails(n) \/ MappedP!Read(n) PROVE Goal
  BY <1>4 DEF MappedP!Seek, MappedP!SeekFails, MappedP!Read
<1>5. ASSUME NEW size, NEW done \in BOOLEAN, MappedP!ResizeTo(size, done)
      PROVE  status' \in Codes /\ (isOpen \/ fileSize' = fileSize)
  BY <1>5 DEF MappedP!ResizeTo
<1>6. ASSUME NEW n \in Counts, MappedP!Resize(n) PROVE Goal
  BY <1>5, <1>6 DEF MappedP!Resize
<1>7. ASSUME NEW d \in Sources, NEW supply, MappedP!Write(d, supply) PROVE Goal
  BY <1>5, <1>7 DEF MappedP!Write
<1>8. CASE MappedP!Chunk \/ MappedP!Remap \/ MappedP!GiveUp \/ MappedP!Finish
  BY <1>8 DEF MappedP!Chunk, MappedP!Remap, MappedP!GiveUp, MappedP!Finish
<1> QED
  BY <1>1, <1>2, <1>3, <1>4, <1>6, <1>7, <1>8 DEF MappedP!Next, MappedP!Begun, MappedP!Proceed

LEMMA BoundedStep == Fits /\ StreamsInv /\ StreamsInv' /\ Bounded /\ [Next]_vars => Bounded'
<1> SUFFICES ASSUME Fits, StreamsInv, StreamsInv', Bounded, [Next]_vars PROVE Bounded'
  OBVIOUS
<1>1. CASE UNCHANGED vars
  BY <1>1 DEF vars, fileOnly, mappedOnly, Bounded, NoFile
<1>2. CASE kind = "memory" /\ Memory!Next /\ UNCHANGED <<kind, isOpen, fileSize, fileOnly, mappedOnly>>
  BY <1>2, MemoryBounded DEF Bounded, NoFile, fileOnly, mappedOnly
<1>3. CASE kind = "file" /\ File!Next /\ UNCHANGED <<kind, mappedOnly>>
  <2>1. Len(contents') <= MaxSize /\ fileSize' \in Nat /\ fileSize' <= MaxSize
    BY <1>3 DEF StreamsInv, FileInv
  <2>2. status' \in Codes
    BY <1>3, FileBounded DEF Bounded
  <2> QED  BY <1>3, <2>1, <2>2, CallsAssumption DEF Bounded, mappedOnly
<1>4. CASE kind = "mapped" /\ MappedP!Next /\ UNCHANGED <<kind, fileOnly>>
  <2>1. status' \in Codes /\ (isOpen' \/ fileSize' \in {0, fileSize, Len(contents)})
    BY <1>4, MappedBounded DEF Bounded
  <2>2. /\ contents \in Seq(Bytes) /\ contents' \in Seq(Bytes) /\ Len(contents') <= MaxSize
        /\ isOpen' => fileSize' = Len(contents')
    BY <1>4 DEF StreamsInv, MappedP!MappedInv, MappedP!FileKnown
  <2>3. Len(contents) \in Nat /\ Len(contents') \in Nat
    BY <2>2
  <2>4. fileSize' \in 0 .. MaxSize
    BY <2>1, <2>2, <2>3, CallsAssumption DEF Bounded
  <2> QED  BY <1>4, <2>1, <2>2, <2>4 DEF Bounded, NoFile, fileOnly
<1> QED
  BY <1>1, <1>2, <1>3, <1>4, MappedSteps DEF Next

\* With the invariant of its kind they give the types.
LEMMA BoundedTypes == StreamsInv /\ Bounded => TypeOK
<1> SUFFICES ASSUME StreamsInv, Bounded PROVE TypeOK
  OBVIOUS
<1>1. contents \in Seq(Bytes) /\ isOpen \in BOOLEAN
  BY DEF StreamsInv, Bounded, PositionInData, FileInv, MappedP!MappedInv, MappedP!FileKnown
<1>2. Len(contents) \in 0 .. MaxSize /\ contents \in [1 .. Len(contents) -> Bytes]
  BY <1>1, CallsAssumption DEF Bounded
<1>3. contents \in UNION {[1 .. n -> Bytes] : n \in 0 .. MaxSize}
  BY <1>2
<1>4. position \in 0 .. MaxSize
  <2>1. CASE kind = "memory"
    BY <1>2, <2>1, CallsAssumption DEF StreamsInv, PositionInData
  <2>2. CASE kind = "file"
    BY <2>2, CallsAssumption DEF StreamsInv, FileInv
  <2>3. CASE kind = "mapped"
    BY <1>2, <2>3, CallsAssumption DEF StreamsInv, MappedP!MappedInv, MappedP!FileKnown
  <2> QED  BY <2>1, <2>2, <2>3 DEF StreamsInv
<1>5. cursor \in 0 .. MaxSize /\ bits \in {"good", "eof", "fail"}
  BY <1>2, CallsAssumption DEF StreamsInv, Bounded, NoFile, FileInv
<1>6. data \in {"null", "failed", "view"} /\ viewOffset \in 0 .. MaxSize /\ viewSize \in 0 .. MaxSize
  <2>1. CASE kind # "mapped"
    BY <2>1, CallsAssumption DEF Bounded
  <2>2. CASE kind = "mapped"
    BY <1>2, <2>2, CallsAssumption DEF StreamsInv, MappedP!MappedInv, MappedP!ViewKnown, MappedP!ViewInFile
  <2> QED  BY <2>1, <2>2
<1>7. kind = "memory" => position <= Len(contents)
  BY <1>2 DEF StreamsInv, PositionInData
<1> QED  BY <1>1, <1>3, <1>4, <1>5, <1>6, <1>7 DEF Bounded, TypeOK

\* Files and arrays stay within their bound, and positions, sizes and views within them,
\* whatever was seeked, resized, written past the end or left by a call that failed.
THEOREM StreamTypes == Fits => (Spec => []TypeOK)
<1>1. ASSUME Fits PROVE Spec => []TypeOK
  <2>1. StreamsInv /\ StreamsInv' /\ Bounded /\ [Next]_vars => Bounded'
    BY <1>1, BoundedStep
  <2>2. Spec => []StreamsInv
    BY <1>1, StreamsInvariant
  <2> QED  BY <2>1, <2>2, BoundedInit, BoundedTypes, PTL DEF Spec
<1> QED  BY <1>1
-----------------------------------------------------------------------------
(* The bounded stream that a kind of stream implements is the one of the     *)
(* composition, with what the caller sees of that kind.                      *)

LEMMA MemorySeen ==
    ASSUME kind = "memory", kind' = "memory"
    PROVE  /\ Seen.contents = contents /\ Seen'.contents = contents'
           /\ Seen.position = position /\ Seen'.position = position'
           /\ Seen.broken = FALSE /\ Seen'.broken = FALSE
           /\ Seen.failed = (status # "Ok") /\ Seen'.failed = (status' # "Ok")
  BY DEF Seen

LEMMA FileSeen ==
    ASSUME kind = "file", kind' = "file"
    PROVE  /\ Seen.contents = contents /\ Seen'.contents = contents'
           /\ Seen.position = File!StreamPosition /\ Seen'.position = File!StreamPosition'
           /\ Seen.broken = (bits # "good") /\ Seen'.broken = (bits' # "good")
           /\ Seen.failed = (status # "Ok") /\ Seen'.failed = (status' # "Ok")
  BY DEF Seen, File!StreamPosition

LEMMA MappedSeen ==
    ASSUME kind = "mapped", kind' = "mapped"
    PROVE  Seen = MappedP!Seen /\ Seen' = MappedP!Seen'
  BY DEF Seen, Mapped!Seen, MappedP!Seen, Mapped!Busy, MappedP!Busy, Mapped!Visible, MappedP!Visible,
         Mapped!None, MappedP!None

\* The three instances of the contract are about the same bytes.
LEMMA MemoryOperators ==
    /\ \A op : Memory!Stream!Nothing(op) = Abstract!Nothing(op)
    /\ \A op, bytes : Memory!Stream!Transferred(op, bytes) = Abstract!Transferred(op, bytes)
    /\ \A s, p, n : Memory!Stream!Slice(s, p, n) = Abstract!Slice(s, p, n)
    /\ \A s, n : Memory!Stream!Resized(s, n) = Abstract!Resized(s, n)
    /\ \A s, p, d : Memory!Stream!Overwrite(s, p, d) = Abstract!Overwrite(s, p, d)
  BY DEF Memory!Stream!Nothing, Abstract!Nothing, Memory!Stream!Transferred, Abstract!Transferred,
         Memory!Stream!Slice, Abstract!Slice, Memory!Stream!Resized, Abstract!Resized,
         Memory!Stream!Overwrite, Abstract!Overwrite, Memory!Stream!Least, Abstract!Least

LEMMA FileOperators ==
    /\ \A op : File!Stream!Nothing(op) = Abstract!Nothing(op)
    /\ \A op, bytes : File!Stream!Transferred(op, bytes) = Abstract!Transferred(op, bytes)
    /\ \A s, p, n : File!Stream!Slice(s, p, n) = Abstract!Slice(s, p, n)
    /\ \A s, n : File!Stream!Resized(s, n) = Abstract!Resized(s, n)
    /\ \A s, p, d : File!Stream!Overwrite(s, p, d) = Abstract!Overwrite(s, p, d)
  BY DEF File!Stream!Nothing, Abstract!Nothing, File!Stream!Transferred, Abstract!Transferred,
         File!Stream!Slice, Abstract!Slice, File!Stream!Resized, Abstract!Resized,
         File!Stream!Overwrite, Abstract!Overwrite, File!Stream!Least, Abstract!Least

LEMMA MappedOperators ==
    /\ \A op : MappedP!Stream!Nothing(op) = Abstract!Nothing(op)
    /\ \A op, bytes : MappedP!Stream!Transferred(op, bytes) = Abstract!Transferred(op, bytes)
    /\ \A s, p, n : MappedP!Stream!Slice(s, p, n) = Abstract!Slice(s, p, n)
    /\ \A s, n : MappedP!Stream!Resized(s, n) = Abstract!Resized(s, n)
    /\ \A s, p, d : MappedP!Stream!Overwrite(s, p, d) = Abstract!Overwrite(s, p, d)
  BY DEF MappedP!Stream!Nothing, Abstract!Nothing, MappedP!Stream!Transferred, Abstract!Transferred,
         MappedP!Stream!Slice, Abstract!Slice, MappedP!Stream!Resized, Abstract!Resized,
         MappedP!Stream!Overwrite, Abstract!Overwrite, MappedP!Stream!Least, Abstract!Least

\* A step of the contract of one kind is a step of the common contract.
LEMMA MemoryShows ==
    ASSUME kind = "memory", kind' = "memory", Memory!Stream!Next PROVE Abstract!Next
<1>1. ASSUME Memory!Stream!Open PROVE Abstract!Open
  BY <1>1, MemorySeen, MemoryOperators
     DEF Memory!Stream!Open, Abstract!Open,
         Memory!Stream!Sticky, Abstract!Sticky,
         Memory!Stream!BreaksAtEnd, Abstract!BreaksAtEnd
<1>2. ASSUME Memory!Stream!Close PROVE Abstract!Close
  BY <1>2, MemorySeen, MemoryOperators
     DEF Memory!Stream!Close, Abstract!Close, Memory!Stream!Sticky, Abstract!Sticky
<1>3. ASSUME Memory!Stream!Flush PROVE Abstract!Flush
  BY <1>3, MemorySeen, MemoryOperators
     DEF Memory!Stream!Flush, Abstract!Flush, Memory!Stream!Sticky, Abstract!Sticky
<1>4. ASSUME NEW n \in Counts, Memory!Stream!Seek(n) PROVE Abstract!Seek(n)
  BY <1>4, MemorySeen, MemoryOperators
     DEF Memory!Stream!Seek, Abstract!Seek,
         Memory!Stream!Sticky, Abstract!Sticky,
         Memory!Stream!BreaksAtEnd, Abstract!BreaksAtEnd
<1>5. ASSUME NEW n \in Counts, Memory!Stream!Read(n) PROVE Abstract!Read(n)
  BY <1>5, MemorySeen, MemoryOperators
     DEF Memory!Stream!Read, Abstract!Read,
         Memory!Stream!Sticky, Abstract!Sticky,
         Memory!Stream!BreaksAtEnd, Abstract!BreaksAtEnd
<1>6. ASSUME NEW n \in Counts, Memory!Stream!ReadFails(n) PROVE Abstract!ReadFails(n)
  BY <1>6, MemorySeen, MemoryOperators
     DEF Memory!Stream!ReadFails, Abstract!ReadFails
<1>7. ASSUME NEW n \in Counts, Memory!Stream!Resize(n) PROVE Abstract!Resize(n)
  BY <1>7, MemorySeen, MemoryOperators
     DEF Memory!Stream!Resize, Abstract!Resize,
         Memory!Stream!Sticky, Abstract!Sticky,
         Memory!Stream!BreaksAtEnd, Abstract!BreaksAtEnd
<1>8. ASSUME NEW d \in Sources, Memory!Stream!Write(d) PROVE Abstract!Write(d)
  BY <1>8, MemorySeen, MemoryOperators
     DEF Memory!Stream!Write, Abstract!Write,
         Memory!Stream!Sticky, Abstract!Sticky,
         Memory!Stream!BreaksAtEnd, Abstract!BreaksAtEnd
<1>9. ASSUME NEW d \in Sources, Memory!Stream!WriteFails(d) PROVE Abstract!WriteFails(d)
  BY <1>9, MemorySeen, MemoryOperators
     DEF Memory!Stream!WriteFails, Abstract!WriteFails
<1>10. ASSUME NEW op \in {"open", "seek", "read", "write", "resize"}, Memory!Stream!Refuse(op)
       PROVE  Abstract!Refuse(op)
  BY <1>10, MemorySeen, MemoryOperators
     DEF Memory!Stream!Refuse, Abstract!Refuse, Memory!Stream!Sticky, Abstract!Sticky
<1> QED  BY <1>1, <1>2, <1>3, <1>4, <1>5, <1>6, <1>7, <1>8, <1>9, <1>10
         DEF Memory!Stream!Next, Abstract!Next

LEMMA FileShows ==
    ASSUME kind = "file", kind' = "file", File!Stream!Next PROVE Abstract!Next
<1>1. ASSUME File!Stream!Open PROVE Abstract!Open
  BY <1>1, FileSeen, FileOperators
     DEF File!Stream!Open, Abstract!Open,
         File!Stream!Sticky, Abstract!Sticky,
         File!Stream!BreaksAtEnd, Abstract!BreaksAtEnd
<1>2. ASSUME File!Stream!Close PROVE Abstract!Close
  BY <1>2, FileSeen, FileOperators
     DEF File!Stream!Close, Abstract!Close, File!Stream!Sticky, Abstract!Sticky
<1>3. ASSUME File!Stream!Flush PROVE Abstract!Flush
  BY <1>3, FileSeen, FileOperators
     DEF File!Stream!Flush, Abstract!Flush, File!Stream!Sticky, Abstract!Sticky
<1>4. ASSUME NEW n \in Counts, File!Stream!Seek(n) PROVE Abstract!Seek(n)
  BY <1>4, FileSeen, FileOperators
     DEF File!Stream!Seek, Abstract!Seek,
         File!Stream!Sticky, Abstract!Sticky,
         File!Stream!BreaksAtEnd, Abstract!BreaksAtEnd
<1>5. ASSUME NEW n \in Counts, File!Stream!Read(n) PROVE Abstract!Read(n)
  BY <1>5, FileSeen, FileOperators
     DEF File!Stream!Read, Abstract!Read,
         File!Stream!Sticky, Abstract!Sticky,
         File!Stream!BreaksAtEnd, Abstract!BreaksAtEnd
<1>6. ASSUME NEW n \in Counts, File!Stream!ReadFails(n) PROVE Abstract!ReadFails(n)
  BY <1>6, FileSeen, FileOperators
     DEF File!Stream!ReadFails, Abstract!ReadFails
<1>7. ASSUME NEW n \in Counts, File!Stream!Resize(n) PROVE Abstract!Resize(n)
  BY <1>7, FileSeen, FileOperators
     DEF File!Stream!Resize, Abstract!Resize,
         File!Stream!Sticky, Abstract!Sticky,
         File!Stream!BreaksAtEnd, Abstract!BreaksAtEnd
<1>8. ASSUME NEW d \in Sources, File!Stream!Write(d) PROVE Abstract!Write(d)
  BY <1>8, FileSeen, FileOperators
     DEF File!Stream!Write, Abstract!Write,
         File!Stream!Sticky, Abstract!Sticky,
         File!Stream!BreaksAtEnd, Abstract!BreaksAtEnd
<1>9. ASSUME NEW d \in Sources, File!Stream!WriteFails(d) PROVE Abstract!WriteFails(d)
  BY <1>9, FileSeen, FileOperators
     DEF File!Stream!WriteFails, Abstract!WriteFails
<1>10. ASSUME NEW op \in {"open", "seek", "read", "write", "resize"}, File!Stream!Refuse(op)
       PROVE  Abstract!Refuse(op)
  BY <1>10, FileSeen, FileOperators
     DEF File!Stream!Refuse, Abstract!Refuse, File!Stream!Sticky, Abstract!Sticky
<1> QED  BY <1>1, <1>2, <1>3, <1>4, <1>5, <1>6, <1>7, <1>8, <1>9, <1>10
         DEF File!Stream!Next, Abstract!Next

LEMMA MappedShows ==
    ASSUME kind = "mapped", kind' = "mapped", MappedP!Stream!Next PROVE Abstract!Next
<1>1. ASSUME MappedP!Stream!Open PROVE Abstract!Open
  BY <1>1, MappedSeen, MappedOperators
     DEF MappedP!Stream!Open, Abstract!Open,
         MappedP!Stream!Sticky, Abstract!Sticky,
         MappedP!Stream!BreaksAtEnd, Abstract!BreaksAtEnd
<1>2. ASSUME MappedP!Stream!Close PROVE Abstract!Close
  BY <1>2, MappedSeen, MappedOperators
     DEF MappedP!Stream!Close, Abstract!Close, MappedP!Stream!Sticky, Abstract!Sticky
<1>3. ASSUME MappedP!Stream!Flush PROVE Abstract!Flush
  BY <1>3, MappedSeen, MappedOperators
     DEF MappedP!Stream!Flush, Abstract!Flush, MappedP!Stream!Sticky, Abstract!Sticky
<1>4. ASSUME NEW n \in Counts, MappedP!Stream!Seek(n) PROVE Abstract!Seek(n)
  BY <1>4, MappedSeen, MappedOperators
     DEF MappedP!Stream!Seek, Abstract!Seek,
         MappedP!Stream!Sticky, Abstract!Sticky,
         MappedP!Stream!BreaksAtEnd, Abstract!BreaksAtEnd
<1>5. ASSUME NEW n \in Counts, MappedP!Stream!Read(n) PROVE Abstract!Read(n)
  BY <1>5, MappedSeen, MappedOperators
     DEF MappedP!Stream!Read, Abstract!Read,
         MappedP!Stream!Sticky, Abstract!Sticky,
         MappedP!Stream!BreaksAtEnd, Abstract!BreaksAtEnd
<1>6. ASSUME NEW n \in Counts, MappedP!Stream!ReadFails(n) PROVE Abstract!ReadFails(n)
  BY <1>6, MappedSeen, MappedOperators
     DEF MappedP!Stream!ReadFails, Abstract!ReadFails
<1>7. ASSUME NEW n \in Counts, MappedP!Stream!Resize(n) PROVE Abstract!Resize(n)
  BY <1>7, MappedSeen, MappedOperators
     DEF MappedP!Stream!Resize, Abstract!Resize,
         MappedP!Stream!Sticky, Abstract!Sticky,
         MappedP!Stream!BreaksAtEnd, Abstract!BreaksAtEnd
<1>8. ASSUME NEW d \in Sources, MappedP!Stream!Write(d) PROVE Abstract!Write(d)
  BY <1>8, MappedSeen, MappedOperators
     DEF MappedP!Stream!Write, Abstract!Write,
         MappedP!Stream!Sticky, Abstract!Sticky,
         MappedP!Stream!BreaksAtEnd, Abstract!BreaksAtEnd
<1>9. ASSUME NEW d \in Sources, MappedP!Stream!WriteFails(d) PROVE Abstract!WriteFails(d)
  BY <1>9, MappedSeen, MappedOperators
     DEF MappedP!Stream!WriteFails, Abstract!WriteFails
<1>10. ASSUME NEW op \in {"open", "seek", "read", "write", "resize"}, MappedP!Stream!Refuse(op)
       PROVE  Abstract!Refuse(op)
  BY <1>10, MappedSeen, MappedOperators
     DEF MappedP!Stream!Refuse, Abstract!Refuse, MappedP!Stream!Sticky, Abstract!Sticky
<1> QED  BY <1>1, <1>2, <1>3, <1>4, <1>5, <1>6, <1>7, <1>8, <1>9, <1>10
         DEF MappedP!Stream!Next, Abstract!Next

\* What a caller sees of a new stream of any kind is a new bounded stream, and each step
\* is one of its steps or is hidden.
LEMMA InitShows == Init => Abstract!Init
<1> SUFFICES ASSUME Init PROVE Abstract!Init
  OBVIOUS
<1>1. CASE kind = "memory" /\ Memory!Init
  <2>1. Memory!Stream!Init
    BY <1>1, MemoryInitImplements, CallsAssumption
  <2>2. Seen.contents = contents /\ Seen.position = position /\ Seen.broken = FALSE
        /\ Seen.failed = (status # "Ok")
    BY <1>1 DEF Seen
  <2> QED  BY <1>1, <2>1, <2>2, MemoryOperators DEF Memory!Stream!Init, Abstract!Init
<1>2. CASE kind = "file" /\ File!Init
  <2>1. File!Stream!Init
    BY <1>2, FileInitImplements, CallsAssumption
  <2>2. Seen.contents = contents /\ Seen.position = File!StreamPosition
        /\ Seen.broken = (bits # "good") /\ Seen.failed = (status # "Ok")
    BY <1>2 DEF Seen, File!StreamPosition
  <2>3. (kind = "memory" \/ isOpen) \in BOOLEAN
    OBVIOUS
  <2> QED  BY <2>1, <2>2, <2>3, FileOperators DEF File!Stream!Init, Abstract!Init
<1>3. CASE kind = "mapped" /\ Mapped!Init
  <2>1. MappedP!Stream!Init
    BY <1>3, MappedSteps, MappedP!MappedInitImplements, CallsAssumption
  <2>2. Seen = MappedP!Seen
    BY <1>3 DEF Seen, Mapped!Seen, MappedP!Seen, Mapped!Busy, MappedP!Busy, Mapped!Visible, MappedP!Visible,
                Mapped!None, MappedP!None
  <2>3. (kind = "memory" \/ isOpen) \in BOOLEAN
    OBVIOUS
  <2> QED  BY <2>1, <2>2, <2>3, MappedOperators DEF MappedP!Stream!Init, Abstract!Init
<1> QED  BY <1>1, <1>2, <1>3 DEF Init

\* Every step does what the contract allows, or does not show.
LEMMA StepShows == Fits /\ StreamsInv /\ [Next]_vars => [Abstract!Next]_(Abstract!vars)
<1> SUFFICES ASSUME Fits, StreamsInv, [Next]_vars
             PROVE  Abstract!Next \/ UNCHANGED Abstract!vars
  OBVIOUS
<1>1. kind' = kind
  BY StepOfKind
<1>2. CASE kind = "memory"
  <2>1. Memory!Stream!Next \/ UNCHANGED Memory!Stream!vars
    BY <1>2, StepOfKind, FitsEach, MemoryStepImplements, CallsAssumption DEF StreamsInv
  <2>2. UNCHANGED Memory!Stream!vars => UNCHANGED Abstract!vars
    BY <1>1, <1>2, MemorySeen DEF Memory!Stream!vars, Abstract!vars
  <2> QED  BY <1>1, <1>2, <2>1, <2>2, MemoryShows
<1>3. CASE kind = "file"
  <2>1. File!Stream!Next \/ UNCHANGED File!Stream!vars
    BY <1>3, StepOfKind, FitsEach, FileStepImplements, CallsAssumption DEF StreamsInv
  <2>2. UNCHANGED File!Stream!vars => UNCHANGED Abstract!vars
    BY <1>1, <1>3, FileSeen DEF File!Stream!vars, Abstract!vars
  <2> QED  BY <1>1, <1>3, <2>1, <2>2, FileShows
<1>4. CASE kind = "mapped"
  <2>1. MappedP!Stream!Next \/ UNCHANGED MappedP!Stream!vars
    BY <1>4, StepOfKind, FitsEach, MappedP!MappedStepImplements, CallsAssumption DEF StreamsInv
  <2>2. UNCHANGED MappedP!Stream!vars => UNCHANGED Abstract!vars
    BY <1>1, <1>4, MappedSeen DEF MappedP!Stream!vars, Abstract!vars
  <2> QED  BY <1>1, <1>4, <2>1, <2>2, MappedShows
<1> QED  BY <1>2, <1>3, <1>4 DEF StreamsInv

\* Whatever the kind of stream, and whatever it caches or maps, its user calls a bounded
\* stream.
THEOREM StreamsImplementStream == Fits => (Spec => ImplementsStream)
<1>1. ASSUME Fits PROVE Spec => ImplementsStream
  <2>1. StreamsInv /\ [Next]_vars => [Abstract!Next]_(Abstract!vars)
    BY <1>1, StepShows
  <2>2. Spec => []StreamsInv
    BY <1>1, StreamsInvariant
  <2> QED  BY <2>1, <2>2, InitShows, PTL DEF Spec, ImplementsStream, Abstract!Spec
<1> QED  BY <1>1
=============================================================================
