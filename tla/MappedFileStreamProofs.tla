------------------------ MODULE MappedFileStreamProofs ------------------------
(***************************************************************************)
(* A mapped stream copies bytes within its view, a view lies in the file,   *)
(* and views and chunks do not show: the stream implements the bounded      *)
(* stream, for all files, accesses, pages, views, sizes and bounds.         *)
(***************************************************************************)
EXTENDS MappedFileStream, SequenceTheorems, WellFoundedInduction, TLAPS

\* The stream is used as its callers use it: it is not resized before its position or
\* before it is opened, a source has the bytes it is asked for, a call of the system
\* fails only where the code handles it, and views are granted.
Handled == ~Careless /\ ~ShortSources /\ ~Unhandled /\ ViewsAssumption

FileKnown ==
    /\ contents \in Seq(Bytes) /\ Len(contents) <= MaxSize
    /\ position \in 0 .. Len(contents)
    /\ isOpen \in BOOLEAN
    /\ isOpen => fileSize = Len(contents)

\* A stream without a view is at the end of the file, unless it refuses every call,
\* and has forgotten where its last view was.
ViewKnown ==
    /\ data \in {"null", "failed", "view"}
    /\ data # "null" \/ delayedMapping => isOpen
    /\ data = "failed" \/ (data = "null" /\ delayedMapping) => position = Len(contents)
    /\ data # "view" => viewOffset = 0 /\ viewSize = 0
    /\ data = "view" => viewOffset \in Nat /\ viewSize \in Nat \ {0}
    /\ ViewInFile

\* What a write under way wants the file to have been before it
Extended(d) ==
    Stream!Resized(call.before.contents,
                   IF Len(call.before.contents) < call.before.position + Len(d)
                   THEN call.before.position + Len(d) ELSE Len(call.before.contents))

Reading ==
    /\ call.op = "read"
    /\ contents = call.before.contents
    /\ call.bytes = Stream!Slice(contents, call.before.position, call.done)
    /\ \E n \in Counts : call.size = Stream!Least(n, Len(contents) - call.before.position)

Writing ==
    /\ call.op = "write"
    /\ call.bytes \in Sources
    /\ call.size = Len(call.bytes) /\ call.supply = call.size
    /\ contents = Stream!Overwrite(Extended(call.bytes), call.before.position,
                                   SubSeq(call.bytes, 1, call.done))

\* A call under way has transferred the first bytes of what it was asked for.
CallKnown ==
    Busy =>
        /\ call = [op |-> call.op, bytes |-> call.bytes, size |-> call.size,
                   supply |-> call.supply, done |-> call.done, before |-> call.before]
        /\ data # "null"
        /\ call.before.contents \in Seq(Bytes)
        /\ call.before.position \in 0 .. Len(call.before.contents)
        /\ call.size \in Nat /\ call.done \in 0 .. call.size
        /\ call.before.position + call.size <= Len(contents)
        /\ position = call.before.position + call.done
        /\ call.before.failed => status # "Ok"
        /\ Reading \/ Writing

MappedInv == FileKnown /\ ViewKnown /\ CallKnown
-----------------------------------------------------------------------------
(* Sequences of bytes: slices and overwriting, piece by piece.              *)

\* A slice of a sequence of bytes has the bytes that are there, at most n.
LEMMA SliceLength ==
    ASSUME NEW s \in Seq(Bytes), NEW p \in 0 .. Len(s), NEW n \in Nat
    PROVE  LET k == Stream!Least(n, Len(s) - p)
           IN  /\ k \in Nat /\ p + k \in 0 .. Len(s)
               /\ Stream!Slice(s, p, n) = SubSeq(s, p + 1, p + k)
               /\ Stream!Slice(s, p, n) \in Seq(Bytes) /\ Len(Stream!Slice(s, p, n)) = k
<1> DEFINE k == Stream!Least(n, Len(s) - p)
<1>1. k \in Nat /\ p + k \in 0 .. Len(s)
  BY DEF Stream!Least
<1>2. Stream!Slice(s, p, n) = SubSeq(s, p + 1, p + k)
  BY DEF Stream!Slice
<1> HIDE DEF k
<1>3. Len(SubSeq(s, p + 1, p + k)) = k /\ SubSeq(s, p + 1, p + k) \in Seq(Bytes)
  BY <1>1
<1> QED  BY <1>1, <1>2, <1>3 DEF k

\* Two slices that follow each other are one.
LEMMA SliceJoin ==
    ASSUME NEW s \in Seq(Bytes), NEW p \in 0 .. Len(s), NEW m \in Nat, NEW n \in Nat,
           p + m + n <= Len(s)
    PROVE  Stream!Slice(s, p, m) \o Stream!Slice(s, p + m, n) = Stream!Slice(s, p, m + n)
<1>1. ASSUME NEW q \in 0 .. Len(s), NEW k \in Nat, q + k <= Len(s)
      PROVE  Stream!Slice(s, q, k) = SubSeq(s, q + 1, q + k)
  <2>1. ~(k < Len(s) - q) => k = Len(s) - q
    BY <1>1
  <2>2. Stream!Least(k, Len(s) - q) = k
    BY <2>1 DEF Stream!Least
  <2> QED  BY <2>2 DEF Stream!Slice
<1>2. p + m \in 0 .. Len(s) /\ (p + m) + n = p + (m + n) /\ m + n \in Nat
  OBVIOUS
<1>3. /\ Stream!Slice(s, p, m) = SubSeq(s, p + 1, p + m)
      /\ Stream!Slice(s, p + m, n) = SubSeq(s, (p + m) + 1, p + (m + n))
      /\ Stream!Slice(s, p, m + n) = SubSeq(s, p + 1, p + (m + n))
  BY <1>1, <1>2
<1>4. /\ p + 1 \in 1 .. Len(s) + 1 /\ p + m \in (p + 1) - 1 .. Len(s)
      /\ p + (m + n) \in p + m .. Len(s)
  OBVIOUS
<1> QED  BY <1>3, <1>4, ConcatAdjacentSubSeq

\* A slice depends on the number of bytes that are there alone.
LEMMA SliceLeast ==
    ASSUME NEW s \in Seq(Bytes), NEW p \in 0 .. Len(s), NEW n \in Nat
    PROVE  Stream!Slice(s, p, Stream!Least(n, Len(s) - p)) = Stream!Slice(s, p, n)
  BY SliceLength DEF Stream!Least, Stream!Slice

\* Bytes overwrite a sequence that has room for them without changing its length.
LEMMA OverwriteRoom ==
    ASSUME NEW s \in Seq(Bytes), NEW p \in 0 .. Len(s), NEW d \in Seq(Bytes), p + Len(d) <= Len(s)
    PROVE  LET f == [i \in 1 .. Len(s) |-> IF p < i /\ i <= p + Len(d) THEN d[i - p] ELSE s[i]]
           IN  /\ Stream!Overwrite(s, p, d) = f
               /\ f \in Seq(Bytes) /\ Len(f) = Len(s)
<1> DEFINE f == [i \in 1 .. Len(s) |-> IF p < i /\ i <= p + Len(d) THEN d[i - p] ELSE s[i]]
<1>1. ~(Len(s) < p + Len(d))
  OBVIOUS
<1>2. Stream!Overwrite(s, p, d) = f
  BY <1>1 DEF Stream!Overwrite
<1>3. \A i \in 1 .. Len(s) : f[i] \in Bytes
  <2> TAKE i \in 1 .. Len(s)
  <2>1. CASE p < i /\ i <= p + Len(d)
    <3>1. i - p \in 1 .. Len(d)
      BY <2>1
    <3> QED  BY <3>1, <2>1
  <2>2. CASE ~(p < i /\ i <= p + Len(d))
    BY <2>2
  <2> QED  BY <2>1, <2>2
<1>4. f \in Seq(Bytes) /\ Len(f) = Len(s)
  <2>1. f \in [1 .. Len(s) -> Bytes]
    BY <1>3
  <2> QED  BY <2>1
<1> QED  BY <1>2, <1>4

\* Overwriting within a sequence keeps its length.
LEMMA OverwriteKeeps ==
    ASSUME NEW s \in Seq(Bytes), NEW p \in 0 .. Len(s), NEW d \in Seq(Bytes), p + Len(d) <= Len(s)
    PROVE  Stream!Overwrite(s, p, d) \in Seq(Bytes) /\ Len(Stream!Overwrite(s, p, d)) = Len(s)
<1> DEFINE f == [i \in 1 .. Len(s) |-> IF p < i /\ i <= p + Len(d) THEN d[i - p] ELSE s[i]]
<1>1. Stream!Overwrite(s, p, d) = f /\ f \in Seq(Bytes) /\ Len(f) = Len(s)
  BY OverwriteRoom
<1> HIDE DEF f
<1> QED  BY <1>1

\* Overwriting with the first m bytes of d and then with the next n is overwriting
\* with the first m + n.
LEMMA OverwriteJoin ==
    ASSUME NEW s \in Seq(Bytes), NEW p \in 0 .. Len(s), NEW d \in Seq(Bytes),
           NEW m \in Nat, NEW n \in Nat, m + n <= Len(d), p + m + n <= Len(s)
    PROVE  Stream!Overwrite(Stream!Overwrite(s, p, SubSeq(d, 1, m)), p + m, SubSeq(d, m + 1, m + n))
               = Stream!Overwrite(s, p, SubSeq(d, 1, m + n))
<1> DEFINE a == SubSeq(d, 1, m)
           b == SubSeq(d, m + 1, m + n)
           c == SubSeq(d, 1, m + n)
           f == [i \in 1 .. Len(s) |-> IF p < i /\ i <= p + m THEN a[i - p] ELSE s[i]]
           g == [i \in 1 .. Len(s) |-> IF p + m < i /\ i <= p + m + n THEN b[i - (p + m)] ELSE f[i]]
           h == [i \in 1 .. Len(s) |-> IF p < i /\ i <= p + (m + n) THEN c[i - p] ELSE s[i]]
<1>1. /\ a \in Seq(Bytes) /\ Len(a) = m
      /\ b \in Seq(Bytes) /\ Len(b) = n
      /\ c \in Seq(Bytes) /\ Len(c) = m + n
  OBVIOUS
<1>2. /\ \A i \in 1 .. m : a[i] = d[i]
      /\ \A i \in 1 .. n : b[i] = d[m + i]
      /\ \A i \in 1 .. m + n : c[i] = d[i]
  OBVIOUS
<1> HIDE DEF a, b, c
<1>3. Stream!Overwrite(s, p, a) = f /\ f \in Seq(Bytes) /\ Len(f) = Len(s)
  BY <1>1, OverwriteRoom
<1>4. Stream!Overwrite(s, p, c) = h
  BY <1>1, OverwriteRoom
<1> HIDE DEF f
<1>5. Stream!Overwrite(f, p + m, b) = g
  <2>1. p + m \in 0 .. Len(f) /\ p + m + Len(b) <= Len(f)
    BY <1>1, <1>3
  <2>2. ~(Len(f) < p + m + Len(b))
    BY <1>1, <1>3, <2>1
  <2>3. Stream!Overwrite(f, p + m, b)
            = [i \in 1 .. Len(f) |-> IF p + m < i /\ i <= p + m + Len(b) THEN b[i - (p + m)] ELSE f[i]]
    BY <2>2 DEF Stream!Overwrite
  <2> QED  BY <1>1, <1>3, <2>3
<1>6. \A i \in 1 .. Len(s) : g[i] = h[i]
  <2> TAKE i \in 1 .. Len(s)
  <2>1. CASE p < i /\ i <= p + m
    <3>1. g[i] = a[i - p] /\ h[i] = c[i - p] /\ i - p \in 1 .. m /\ i - p \in 1 .. m + n
      BY <2>1 DEF f
    <3>2. a[i - p] = d[i - p] /\ c[i - p] = d[i - p]
      BY <3>1, <1>2
    <3> QED  BY <3>1, <3>2
  <2>2. CASE p + m < i /\ i <= p + m + n
    <3>1. g[i] = b[i - (p + m)] /\ h[i] = c[i - p] /\ i - (p + m) \in 1 .. n /\ i - p \in 1 .. m + n
      BY <2>2
    <3>2. m + (i - (p + m)) = i - p
      OBVIOUS
    <3>3. b[i - (p + m)] = d[i - p] /\ c[i - p] = d[i - p]
      BY <3>1, <3>2, <1>2
    <3> QED  BY <3>1, <3>3
  <2>3. CASE ~(p < i /\ i <= p + m + n)
    BY <2>3 DEF f
  <2> QED  BY <2>1, <2>2, <2>3
<1>7. g = h
  BY <1>6
<1> QED  BY <1>3, <1>4, <1>5, <1>7 DEF a, b, c

\* A resized sequence of bytes is one, of the size asked for.
LEMMA ResizedLength ==
    ASSUME NEW s \in Seq(Bytes), NEW n \in Nat
    PROVE  Stream!Resized(s, n) \in Seq(Bytes) /\ Len(Stream!Resized(s, n)) = n
<1> DEFINE r == [i \in 1 .. n |-> IF i <= Len(s) THEN s[i] ELSE 0]
<1>1. \A i \in 1 .. n : r[i] \in Bytes
  BY CallsAssumption
<1>2. r \in [1 .. n -> Bytes]
  BY <1>1
<1>3. r \in Seq(Bytes) /\ Len(r) = n
  BY <1>2
<1>4. Stream!Resized(s, n) = r
  BY DEF Stream!Resized
<1> QED  BY <1>3, <1>4

\* Resizing a sequence to its length or overwriting it with no bytes changes nothing.
LEMMA Unchanging ==
    ASSUME NEW s \in Seq(Bytes), NEW p \in 0 .. Len(s)
    PROVE  Stream!Resized(s, Len(s)) = s /\ Stream!Overwrite(s, p, << >>) = s
<1>1. Stream!Resized(s, Len(s)) = s
  BY DEF Stream!Resized
<1>2. Stream!Overwrite(s, p, << >>) = s
  BY DEF Stream!Overwrite
<1> QED  BY <1>1, <1>2

\* Extending a sequence by what is written to it and overwriting that is one write.
LEMMA OverwriteExtended ==
    ASSUME NEW s \in Seq(Bytes), NEW p \in 0 .. Len(s), NEW d \in Seq(Bytes)
    PROVE  LET n == IF Len(s) < p + Len(d) THEN p + Len(d) ELSE Len(s)
           IN  /\ Stream!Resized(s, n) \in Seq(Bytes) /\ Len(Stream!Resized(s, n)) = n
               /\ p + Len(d) <= n /\ Len(s) <= n
               /\ Stream!Overwrite(Stream!Resized(s, n), p, d) = Stream!Overwrite(s, p, d)
<1> DEFINE n == IF Len(s) < p + Len(d) THEN p + Len(d) ELSE Len(s)
           r == [i \in 1 .. n |-> IF i <= Len(s) THEN s[i] ELSE 0]
           f == [i \in 1 .. n |-> IF p < i /\ i <= p + Len(d) THEN d[i - p] ELSE r[i]]
           g == [i \in 1 .. n |-> IF p < i /\ i <= p + Len(d) THEN d[i - p] ELSE s[i]]
<1>1. n \in Nat /\ p + Len(d) <= n /\ Len(s) <= n
  OBVIOUS
<1>2. Stream!Resized(s, n) = r
  BY DEF Stream!Resized
<1>3. Stream!Overwrite(s, p, d) = g
  BY DEF Stream!Overwrite
<1>4. n = Len(s) \/ n = p + Len(d)
  OBVIOUS
<1> HIDE DEF n
<1>5. r \in Seq(Bytes) /\ Len(r) = n
  BY <1>1, <1>2, ResizedLength
<1>6. Stream!Overwrite(r, p, d) = f
  <2>1. p \in 0 .. Len(r) /\ p + Len(d) <= Len(r)
    BY <1>1, <1>5
  <2> HIDE DEF r
  <2>2. Stream!Overwrite(r, p, d)
            = [i \in 1 .. Len(r) |-> IF p < i /\ i <= p + Len(d) THEN d[i - p] ELSE r[i]]
    BY <2>1, <1>5, OverwriteRoom
  <2> QED  BY <1>5, <2>2
<1>7. \A i \in 1 .. n : f[i] = g[i]
  <2> TAKE i \in 1 .. n
  <2>1. CASE p < i /\ i <= p + Len(d)
    BY <2>1
  <2>2. CASE ~(p < i /\ i <= p + Len(d))
    <3>1. i <= Len(s)
      BY <1>1, <1>4, <2>2
    <3> QED  BY <2>2, <3>1
  <2> QED  BY <2>1, <2>2
<1>8. f = g
  BY <1>7
<1> HIDE DEF r, f, g
<1> QED  BY <1>1, <1>2, <1>3, <1>5, <1>6, <1>8 DEF n
-----------------------------------------------------------------------------
(* Views.                                                                   *)

\* A set of natural numbers that is not empty has a least one.
LEMMA LeastNumber ==
    ASSUME NEW T \in SUBSET Nat, T # {}
    PROVE  \E x \in T : \A y \in T : x <= y
<1> DEFINE R == {pair \in Nat \X Nat : pair[1] < pair[2]}
<1>1. IsWellFoundedOn(R, Nat)
  BY NatLessThanWellFounded DEF OpToRel
<1> HIDE DEF R
<1>2. PICK x \in T : \A y \in T : ~(<<y, x>> \in R)
  BY <1>1, WFMin
<1>3. \A y \in T : x <= y
  <2> TAKE y \in T
  <2>1. <<y, x>> \in R <=> y < x
    BY DEF R
  <2> QED  BY <1>2, <2>1
<1> QED  BY <1>3

\* Max picks a member of a set of bounded natural numbers.
LEMMA MaxOfBounded ==
    ASSUME NEW n \in Nat, NEW S \in SUBSET (1 .. n), S # {}
    PROVE  Max(S) \in S
<1> DEFINE T == {n - t : t \in S}
<1>1. T \in SUBSET Nat /\ T # {}
  <2>1. \A t \in S : n - t \in Nat
    OBVIOUS
  <2>2. PICK t \in S : TRUE
    OBVIOUS
  <2>3. n - t \in T
    BY <2>2
  <2>4. \A x \in T : x \in Nat
    BY <2>1
  <2> QED  BY <2>3, <2>4
<1>2. PICK x \in T : \A y \in T : x <= y
  BY <1>1, LeastNumber
<1>3. PICK t \in S : x = n - t
  BY <1>2
<1>4. \A u \in S : t >= u
  <2> TAKE u \in S
  <2>1. n - t <= n - u
    BY <1>2, <1>3
  <2> QED  BY <2>1
<1> QED  BY <1>4 DEF Max

\* An offset is aligned to the last page that starts before it or at it.
LEMMA Alignment ==
    ASSUME NEW page \in Nat \ {0}, NEW offset \in Nat
    PROVE  LET aligned == (offset \div page) * page
           IN  /\ aligned \in 0 .. offset /\ offset - aligned < page
               /\ aligned % page = 0
<1> DEFINE q == offset \div page
           r == offset % page
<1>1. q \in Nat /\ r \in 0 .. page - 1 /\ offset = page * q + r
  OBVIOUS
<1> HIDE DEF q, r
<1>2. q * page = page * q /\ page * q \in Nat
  BY <1>1
<1>3. (q * page) % page = 0
  <2> DEFINE x == q * page
             k == q - (x \div page)
             rest == x % page
  <2>1. x \in Nat
    BY <1>1
  <2>2. k \in Int /\ rest \in 0 .. page - 1 /\ x = page * (x \div page) + rest
    BY <1>1, <2>1
  <2>3. rest = page * k
    BY <1>1, <2>1, <2>2
  <2> HIDE DEF x, k, rest
  <2>4. k = 0
    <3>1. CASE k > 0
      <4>1. page * k >= page
        BY <2>2, <3>1
      <4> QED  BY <2>2, <2>3, <4>1
    <3>2. CASE k < 0
      <4>1. page * k < 0
        BY <2>2, <3>2
      <4> QED  BY <2>2, <2>3, <4>1
    <3> QED  BY <2>2, <3>1, <3>2
  <2> QED  BY <2>3, <2>4 DEF x, rest
<1> QED  BY <1>1, <1>2, <1>3 DEF q

\* The view for an offset starts on a page before it, ends within the bytes asked
\* for, and reaches the offset; if bytes were asked for, it has the first of them.
LEMMA ViewReaches ==
    ASSUME ViewsAssumption, NEW offset \in Nat, NEW size \in Nat, NEW limit \in Nat
    PROVE  LET v == ViewFor(offset, size, limit)
           IN  /\ v.offset \in Nat /\ v.size \in Nat
               /\ v.offset % Page = 0
               /\ v.offset <= offset
               /\ v.size > 0 => /\ v.offset + v.size <= offset + size
                                /\ offset <= v.offset + v.size
                                /\ size > 0 => offset < v.offset + v.size
<1> DEFINE aligned  == (offset \div Page) * Page
           safeSize == size + (offset - aligned)
           granted  == {t \in 1 .. Stream!Least(safeSize, limit) :
                            \/ t = safeSize
                            \/ t > MinView /\ \E k \in 1 .. safeSize : t = safeSize \div 2^k}
           v == ViewFor(offset, size, limit)
<1>1. v = [offset |-> aligned, size |-> IF granted = {} THEN 0 ELSE Max(granted)]
  BY DEF ViewFor
<1>2. aligned \in 0 .. offset /\ offset - aligned < Page /\ aligned % Page = 0
  BY Alignment DEF ViewsAssumption
<1>3. Page \in Nat \ {0} /\ MinView \in Nat /\ Page <= MinView + 1
  BY DEF ViewsAssumption
<1> HIDE DEF aligned
<1>4. safeSize \in Nat /\ safeSize = size + (offset - aligned)
  BY <1>2
<1>5. Stream!Least(safeSize, limit) \in Nat /\ Stream!Least(safeSize, limit) <= safeSize
  BY <1>4 DEF Stream!Least
<1>6. granted \in SUBSET (1 .. Stream!Least(safeSize, limit))
  OBVIOUS
<1>7. \A t \in granted : t \in 1 .. safeSize /\ (t = safeSize \/ t > MinView)
  BY <1>4, <1>5
<1> HIDE DEF granted, safeSize, v
<1>8. CASE granted = {}
  BY <1>1, <1>2, <1>8 DEF v
<1>9. CASE granted # {}
  <2>1. Max(granted) \in granted
    BY <1>5, <1>6, <1>9, MaxOfBounded
  <2>2. v.offset = aligned /\ v.size = Max(granted)
    BY <1>1, <1>9
  <2>3. v.size \in 1 .. safeSize /\ (v.size = safeSize \/ v.size > MinView)
    BY <1>7, <2>1, <2>2
  <2> QED  BY <1>2, <1>3, <1>4, <2>2, <2>3 DEF v
<1> QED  BY <1>8, <1>9

\* Mapping finds a view that reaches the offset; only at the end of the file, or where
\* the code handles that mapping fails, is there none.
LEMMA MapFileFinds ==
    ASSUME Handled, NEW offset \in Nat, NEW size \in Nat, offset + size <= MaxSize,
           MapFile(offset, size)
    PROVE  \/ /\ data' = "view"
              /\ viewOffset' \in Nat /\ viewSize' \in Nat \ {0}
              /\ viewOffset' % Page = 0
              /\ viewOffset' <= offset /\ offset <= viewOffset' + viewSize'
              /\ viewOffset' + viewSize' <= offset + size
              /\ size > 0 => offset < viewOffset' + viewSize'
           \/ /\ NoView
              /\ size = 0 \/ MapMayFail
<1>1. PICK limit \in Limits \cup (IF MapMayFail THEN {0} ELSE {}) :
             IF ViewFor(offset, size, limit).size = 0 THEN NoView
             ELSE /\ data' = "view"
                  /\ viewOffset' = ViewFor(offset, size, limit).offset
                  /\ viewSize' = ViewFor(offset, size, limit).size
  BY DEF MapFile
<1>2. limit \in Nat /\ MaxSize \in Nat
  BY CallsAssumption DEF Handled, ViewsAssumption
<1> DEFINE v == ViewFor(offset, size, limit)
<1>3. /\ v.offset \in Nat /\ v.size \in Nat
      /\ v.offset % Page = 0
      /\ v.offset <= offset
      /\ v.size > 0 => /\ v.offset + v.size <= offset + size
                       /\ offset <= v.offset + v.size
                       /\ size > 0 => offset < v.offset + v.size
  BY <1>2, ViewReaches DEF Handled
<1>4. v.size = 0 => size = 0 \/ MapMayFail
  <2>1. SUFFICES ASSUME size # 0, ~MapMayFail PROVE v.size > 0
    BY <1>3
  <2>2. limit \in Limits
    BY <2>1
  <2>3. offset \in 0 .. MaxSize /\ size \in 1 .. MaxSize
    BY <1>2, <2>1
  <2> QED  BY <2>2, <2>3 DEF Handled, ViewsAssumption
<1> HIDE DEF v
<1>5. CASE v.size = 0
  BY <1>1, <1>4, <1>5 DEF v
<1>6. CASE v.size # 0
  <2>1. data' = "view" /\ viewOffset' = v.offset /\ viewSize' = v.size
    BY <1>1, <1>6 DEF v
  <2> QED  BY <1>3, <1>6, <2>1
<1> QED  BY <1>5, <1>6

\* A view from the position to the end of the file is as ViewKnown says.
LEMMA MapKeepsView ==
    ASSUME Handled, NEW offset \in Nat, NEW size \in Nat, offset + size <= MaxSize,
           MapFile(offset, size),
           Len(contents') = offset + size, position' = offset, isOpen',
           delayedMapping' => delayedMapping
    PROVE  /\ ViewKnown'
           /\ size > 0 /\ ~MapMayFail => data' = "view"
           /\ data' = "failed" => size = 0
<1>1. CASE NoView /\ (size = 0 \/ MapMayFail)
  <2>1. /\ data' \in {"null", "failed"} /\ viewOffset' = 0 /\ viewSize' = 0
        /\ data' = "failed" => platform = "unix"
    BY <1>1 DEF NoView
  <2>2. MapMayFail => platform = "windows" /\ ~delayedMapping
    BY DEF MapMayFail, Handled
  <2>3. data' = "failed" \/ (data' = "null" /\ delayedMapping') => size = 0
    BY <1>1, <2>1, <2>2
  <2>4. ViewInFile'
    BY <2>1 DEF ViewInFile
  <2> QED  BY <1>1, <2>1, <2>3, <2>4 DEF ViewKnown
<1>2. CASE data' = "view"
  BY <1>2, MapFileFinds DEF ViewKnown, ViewInFile, NoView
<1> QED  BY <1>1, <1>2, MapFileFinds
-----------------------------------------------------------------------------
(* The inductive invariant.                                                 *)

LEMMA MappedInvInit == Init => MappedInv
<1> SUFFICES ASSUME Init PROVE MappedInv
  OBVIOUS
<1>1. /\ contents \in Seq(Bytes) /\ Len(contents) <= MaxSize /\ Len(contents) \in Nat
      /\ position = 0 /\ isOpen = FALSE /\ data = "null" /\ delayedMapping = FALSE
      /\ viewOffset = 0 /\ viewSize = 0 /\ ~Busy
  BY CallsAssumption DEF Init, Busy
<1>2. FileKnown
  <2>1. position \in 0 .. Len(contents)
    BY <1>1
  <2>2. isOpen \in BOOLEAN /\ ~isOpen
    BY <1>1
  <2> QED  BY <1>1, <2>1, <2>2 DEF FileKnown
<1>3. ViewKnown
  BY <1>1 DEF ViewKnown, ViewInFile
<1>4. CallKnown
  BY <1>1 DEF CallKnown
<1> QED  BY <1>2, <1>3, <1>4 DEF MappedInv

\* What returns and leaves the file, the view and the position alone keeps it.
LEMMA QuietReturn ==
    ASSUME MappedInv, call' = None,
           UNCHANGED <<view, file, position, delayedMapping>>
    PROVE  MappedInv'
<1>1. FileKnown'
  BY DEF MappedInv, FileKnown, file
<1>2. ViewKnown'
  BY DEF MappedInv, ViewKnown, ViewInFile, file, view
<1>3. CallKnown'
  BY DEF CallKnown, Busy
<1> QED  BY <1>1, <1>2, <1>3 DEF MappedInv

\* Every call keeps the invariant, and every chunk of one.
LEMMA OpenKeepsInv == ASSUME Handled, MappedInv, Open PROVE MappedInv'
<1>1. /\ ~isOpen /\ isOpen' = TRUE /\ fileSize' = Len(contents)
      /\ delayedMapping' = (contents = << >>) /\ call' = None /\ contents' = contents
  BY DEF Open, Return
<1>2. CallKnown'
  BY <1>1 DEF CallKnown, Busy
<1>3. /\ contents \in Seq(Bytes) /\ Len(contents) \in Nat /\ Len(contents) <= MaxSize
      /\ position \in 0 .. Len(contents)
      /\ data = "null" /\ ~delayedMapping /\ viewOffset = 0 /\ viewSize = 0
  BY <1>1 DEF MappedInv, FileKnown, ViewKnown
<1>4. CASE contents = << >> /\ UNCHANGED <<view, position, dirty>>
  <2>1. FileKnown'
    BY <1>1, <1>3, <1>4 DEF FileKnown
  <2>2. ViewKnown'
    BY <1>1, <1>3, <1>4 DEF ViewKnown, ViewInFile, view
  <2> QED  BY <1>2, <2>1, <2>2 DEF MappedInv
<1>5. CASE contents # << >> /\ MapFile(0, Len(contents)) /\ position' = 0
  <2>1. FileKnown'
    BY <1>1, <1>3, <1>5 DEF FileKnown
  <2>2. ~delayedMapping' /\ isOpen'
    BY <1>1, <1>5
  <2>3. ViewKnown'
    BY <1>1, <1>3, <1>5, <2>2, MapKeepsView
  <2> QED  BY <1>2, <2>1, <2>3 DEF MappedInv
<1> QED  BY <1>4, <1>5 DEF Open

LEMMA CloseKeepsInv == ASSUME MappedInv, Close \/ OpenFails PROVE MappedInv'
<1>1. CASE Close
  <2>1. /\ data' = "null" /\ viewOffset' = 0 /\ viewSize' = 0 /\ isOpen' = FALSE
        /\ delayedMapping' = FALSE /\ call' = None /\ contents' = contents /\ position' = position
    BY <1>1 DEF Close, Unmapped, Return
  <2>2. FileKnown'
    BY <2>1 DEF MappedInv, FileKnown
  <2>3. ViewKnown' /\ CallKnown'
    BY <2>1 DEF ViewKnown, ViewInFile, CallKnown, Busy
  <2> QED  BY <2>2, <2>3 DEF MappedInv
<1>2. CASE OpenFails
  <2>1. /\ ~isOpen /\ isOpen' = isOpen /\ delayedMapping' = FALSE /\ call' = None
        /\ UNCHANGED <<data, viewOffset, viewSize, contents, position>>
    BY <1>2 DEF OpenFails, Return, view
  <2>2. FileKnown'
    BY <2>1 DEF MappedInv, FileKnown
  <2>3. ViewKnown' /\ CallKnown'
    BY <2>1 DEF MappedInv, ViewKnown, ViewInFile, CallKnown, Busy
  <2> QED  BY <2>2, <2>3 DEF MappedInv
<1> QED  BY <1>1, <1>2

LEMMA SeekKeepsInv == ASSUME Handled, MappedInv, NEW p \in Counts, Seek(p) PROVE MappedInv'
<1>1. /\ p <= fileSize /\ data # "null" /\ position' = p /\ call' = None
      /\ UNCHANGED <<contents, isOpen, fileSize, delayedMapping>>
  BY DEF Seek, Return, file
<1>2. /\ p \in Nat /\ isOpen /\ contents \in Seq(Bytes) /\ Len(contents) \in Nat
      /\ fileSize = Len(contents) /\ Len(contents) <= MaxSize /\ p \in 0 .. Len(contents)
  BY <1>1, CallsAssumption DEF MappedInv, FileKnown, ViewKnown
<1>3. FileKnown' /\ CallKnown'
  BY <1>1, <1>2 DEF MappedInv, FileKnown, CallKnown, Busy
<1>4. CASE InView(p) /\ UNCHANGED view
  <2>1. data = "view"
    BY <1>1, <1>2, <1>4 DEF InView, MappedInv, ViewKnown
  <2>2. ViewKnown'
    BY <1>1, <1>2, <1>4, <2>1 DEF InView, MappedInv, ViewKnown, ViewInFile, view
  <2> QED  BY <1>3, <2>2 DEF MappedInv
<1>5. CASE ~InView(p)
  <2>1. PICK fail \in BOOLEAN : FlushForSeekMay(fail) /\ dirty' = (fail /\ dirty)
    BY <1>5 DEF Seek
  <2>2. ~(fail /\ dirty)
    BY <2>1 DEF FlushForSeekMay, Handled
  <2>3. ~dirty'
    BY <2>1, <2>2
  <2>4. MapFile(p, fileSize - p)
    BY <1>5, <2>3 DEF Seek
  <2>5. fileSize - p \in Nat /\ p + (fileSize - p) = Len(contents')
    BY <1>1, <1>2
  <2>6. ViewKnown'
    BY <1>1, <1>2, <2>4, <2>5, MapKeepsView
  <2> QED  BY <1>3, <2>6 DEF MappedInv
<1> QED  BY <1>4, <1>5 DEF Seek

\* Resizing gives the file its size and a view of what follows the position, or fails.
LEMMA ResizeKeepsView ==
    ASSUME Handled, MappedInv, ~Busy, NEW size \in Nat, NEW done \in BOOLEAN,
           isOpen, position <= size, size <= MaxSize, ResizeTo(size, done),
           UNCHANGED <<isOpen, position, delayedMapping>>
    PROVE  /\ FileKnown' /\ ViewKnown'
           /\ done => /\ contents' = Stream!Resized(contents, size)
                      /\ fileSize' = size
                      /\ position < size => data' = "view"
           /\ ~done => contents' = contents /\ status' = "WriteError"
           /\ status # "Ok" => status' # "Ok"
<1>1. /\ contents \in Seq(Bytes) /\ Len(contents) \in Nat /\ Len(contents) <= MaxSize
      /\ position \in Nat /\ position \in 0 .. Len(contents)
      /\ fileSize = Len(contents)
  BY DEF MappedInv, FileKnown
<1>2. PICK fail \in BOOLEAN :
          \/ /\ dirty' /\ ~done
             /\ status' = "WriteError"
             /\ UNCHANGED <<view, contents, fileSize>>
          \/ /\ ~dirty' /\ ~done
             /\ size # fileSize /\ (~isOpen \/ ("ftruncate" \in Faults /\ (Unhandled \/ ~delayedMapping)))
             /\ status' = "WriteError"
             /\ Unmapped
             /\ UNCHANGED <<contents, fileSize>>
          \/ /\ ~dirty' /\ done
             /\ isOpen \/ size = fileSize
             /\ contents' = IF isOpen THEN Stream!Resized(contents, size) ELSE contents
             /\ fileSize' = size
             /\ IF isOpen THEN MapFile(position, size - position) ELSE NoView
             /\ Report(fail \/ data' = "null", "WriteError")
  BY DEF ResizeTo
<1>3. CASE ~done /\ status' = "WriteError" /\ UNCHANGED <<view, contents, fileSize>>
  <2>1. FileKnown' /\ ViewKnown'
    BY <1>1, <1>3 DEF MappedInv, FileKnown, ViewKnown, ViewInFile, view
  <2> QED  BY <1>3, <2>1
<1>4. CASE ~done /\ status' = "WriteError" /\ ~delayedMapping /\ Unmapped /\ UNCHANGED <<contents, fileSize>>
  <2>1. FileKnown'
    BY <1>1, <1>4 DEF MappedInv, FileKnown
  <2>2. ViewKnown'
    BY <1>4 DEF Unmapped, ViewKnown, ViewInFile
  <2> QED  BY <1>4, <2>1, <2>2
<1>5. CASE /\ done
           /\ contents' = Stream!Resized(contents, size)
           /\ fileSize' = size
           /\ MapFile(position, size - position)
           /\ Report(fail \/ data' = "null", "WriteError")
  <2>1. contents' \in Seq(Bytes) /\ Len(contents') = size
    BY <1>1, <1>5, ResizedLength
  <2>2. FileKnown'
    BY <1>1, <1>5, <2>1 DEF MappedInv, FileKnown
  <2>3. size - position \in Nat /\ position + (size - position) = size
    BY <1>1
  <2>4. ~MapMayFail
    BY DEF MapMayFail, Handled
  <2>5. ViewKnown' /\ (size - position > 0 => data' = "view")
    BY <1>1, <1>5, <2>1, <2>3, <2>4, MapKeepsView
  <2>6. position < size => size - position > 0
    BY <1>1
  <2>7. status # "Ok" => status' # "Ok"
    BY <1>5 DEF Report
  <2> QED  BY <1>5, <2>2, <2>5, <2>6, <2>7
<1> QED  BY <1>2, <1>3, <1>4, <1>5 DEF Handled

LEMMA ResizeKeepsInv ==
    ASSUME Handled, MappedInv, ~Busy, NEW size \in Counts, Resize(size)
    PROVE  MappedInv'
<1>1. /\ size \in Nat /\ size <= MaxSize /\ isOpen /\ position <= size /\ call' = None
      /\ UNCHANGED <<isOpen, position, delayedMapping>>
      /\ \E done \in BOOLEAN : ResizeTo(size, done)
  BY CallsAssumption DEF Resize, Handled, Return
<1>2. FileKnown' /\ ViewKnown'
  BY <1>1, ResizeKeepsView
<1>3. CallKnown'
  BY <1>1 DEF CallKnown, Busy
<1> QED  BY <1>2, <1>3 DEF MappedInv

\* A read or write that begins has transferred nothing yet.
LEMMA ReadBeginsKnown ==
    ASSUME Handled, MappedInv, ~Busy, NEW n \in Counts, Read(n)
    PROVE  MappedInv'
<1>1. /\ data # "null"
      /\ call' = [op |-> "read", bytes |-> << >>, size |-> Stream!Least(n, fileSize - position),
                  supply |-> 0, done |-> 0, before |-> Visible]
      /\ UNCHANGED <<view, file, position, delayedMapping, status>>
  BY DEF Read, Begin
<1>2. /\ isOpen /\ contents \in Seq(Bytes) /\ Len(contents) \in Nat /\ fileSize = Len(contents)
      /\ position \in 0 .. Len(contents) /\ n \in Nat
  BY <1>1, CallsAssumption DEF MappedInv, FileKnown, ViewKnown
<1>3. FileKnown'
  BY <1>1 DEF MappedInv, FileKnown, file
<1>4. ViewKnown'
  BY <1>1 DEF MappedInv, ViewKnown, ViewInFile, file, view
<1>5. /\ Visible.contents = contents /\ Visible.position = position
      /\ Visible.failed => status # "Ok"
  BY <1>2 DEF Visible
<1>6. Reading'
  <2>1. Stream!Slice(contents, position, 0) = << >>
    BY <1>2, SliceLength DEF Stream!Least
  <2> QED  BY <1>1, <1>2, <1>5, <2>1 DEF Reading, file
<1>7. CallKnown'
  <2>1. Stream!Least(n, Len(contents) - position) \in 0 .. Len(contents) - position
    BY <1>2 DEF Stream!Least
  <2>2. /\ call'.size = Stream!Least(n, Len(contents) - position) /\ call'.done = 0
        /\ call'.before.contents = contents /\ call'.before.position = position
        /\ call'.before.failed => status # "Ok"
        /\ UNCHANGED <<data, contents, position, status>>
        /\ call' = [op |-> call'.op, bytes |-> call'.bytes, size |-> call'.size,
                    supply |-> call'.supply, done |-> call'.done, before |-> call'.before]
    BY <1>1, <1>2, <1>5 DEF view, file
  <2>3. /\ call'.size \in Nat /\ call'.done \in 0 .. call'.size
        /\ call'.before.position + call'.size <= Len(contents')
        /\ position' = call'.before.position + call'.done
    BY <1>2, <2>1, <2>2
  <2> QED  BY <1>1, <1>2, <1>6, <2>2, <2>3 DEF CallKnown
<1> QED  BY <1>3, <1>4, <1>7 DEF MappedInv

LEMMA WriteBeginsKnown ==
    ASSUME Handled, MappedInv, ~Busy, NEW d \in Sources, Write(d, Len(d))
    PROVE  MappedInv'
<1>1. /\ data # "null" \/ delayedMapping
      /\ d # << >> /\ position + Len(d) <= MaxSize
      /\ UNCHANGED <<platform, mode, isOpen, position, delayedMapping>>
  BY DEF Write
<1>2. /\ isOpen /\ contents \in Seq(Bytes) /\ Len(contents) \in Nat /\ fileSize = Len(contents)
      /\ position \in 0 .. Len(contents) /\ position \in Nat
      /\ d \in Seq(Bytes) /\ Len(d) \in Nat \ {0}
  BY <1>1, CallsAssumption DEF MappedInv, FileKnown, ViewKnown
<1>3. /\ Visible.contents = contents /\ Visible.position = position
      /\ Visible.failed => status # "Ok"
  BY <1>2 DEF Visible
<1> DEFINE n == IF Len(contents) < position + Len(d) THEN position + Len(d) ELSE Len(contents)
<1>4. ASSUME Begin("write", d, Len(d), Len(d)), FileKnown', ViewKnown', data' # "null",
             contents' = Stream!Resized(contents, n), status # "Ok" => status' # "Ok"
      PROVE  MappedInv'
  <2>1. /\ call' = [op |-> call'.op, bytes |-> call'.bytes, size |-> call'.size,
                    supply |-> call'.supply, done |-> call'.done, before |-> call'.before]
        /\ call'.op = "write" /\ call'.bytes = d /\ call'.size = Len(d) /\ call'.supply = Len(d)
        /\ call'.done = 0 /\ call'.before = Visible
    BY <1>4 DEF Begin
  <2>2. /\ contents' \in Seq(Bytes) /\ Len(contents') = n /\ position + Len(d) <= n
        /\ position \in 0 .. Len(contents')
    <3>1. n \in Nat /\ position + Len(d) <= n
      BY <1>2
    <3> HIDE DEF n
    <3>2. contents' \in Seq(Bytes) /\ Len(contents') = n
      BY <1>2, <1>4, <3>1, ResizedLength
    <3> QED  BY <1>2, <3>1, <3>2
  <2>3. Stream!Overwrite(contents', position, << >>) = contents'
    BY <2>2, Unchanging
  <2>4. SubSeq(d, 1, 0) = << >>
    BY <1>2
  <2>5. Extended(d)' = contents'
    BY <1>3, <1>4, <2>1 DEF Extended
  <2>6. Writing'
    BY <1>3, <2>1, <2>3, <2>4, <2>5 DEF Writing
  <2>7. /\ call'.size \in Nat /\ call'.done \in 0 .. call'.size
        /\ call'.before.position + call'.size <= Len(contents')
        /\ position' = call'.before.position + call'.done
    BY <1>1, <1>2, <1>3, <2>1, <2>2
  <2>8. CallKnown'
    BY <1>2, <1>3, <1>4, <2>1, <2>6, <2>7 DEF CallKnown
  <2> QED  BY <1>4, <2>8 DEF MappedInv
<1>5. CASE /\ position + Len(d) <= fileSize
           /\ Begin("write", d, Len(d), Len(d))
           /\ UNCHANGED <<view, contents, fileSize, dirty, status, result>>
  <2>1. n = Len(contents)
    BY <1>2, <1>5
  <2>2. contents' = Stream!Resized(contents, n)
    BY <1>2, <1>5, <2>1, Unchanging
  <2>3. data # "null"
    BY <1>1, <1>2, <1>5 DEF MappedInv, ViewKnown
  <2>4. FileKnown' /\ ViewKnown' /\ data' # "null"
    BY <1>1, <1>5, <2>3 DEF MappedInv, FileKnown, ViewKnown, ViewInFile, view
  <2> QED  BY <1>4, <1>5, <2>2, <2>4
<1>6. CASE /\ position + Len(d) > fileSize
           /\ ResizeTo(position + Len(d), TRUE)
           /\ Begin("write", d, Len(d), Len(d))
  <2>1. position + Len(d) \in Nat /\ n = position + Len(d) /\ position < position + Len(d)
    BY <1>2, <1>6
  <2>2. /\ FileKnown' /\ ViewKnown' /\ data' = "view"
        /\ contents' = Stream!Resized(contents, position + Len(d))
        /\ status # "Ok" => status' # "Ok"
    <3> DEFINE size == position + Len(d)
    <3>1. size \in Nat /\ position <= size /\ size <= MaxSize /\ position < size
      BY <1>1, <1>2, <2>1
    <3>2. PICK done \in BOOLEAN : done /\ ResizeTo(size, done)
      BY <1>6
    <3> HIDE DEF size, n
    <3>3. /\ FileKnown' /\ ViewKnown' /\ data' = "view"
          /\ contents' = Stream!Resized(contents, size)
          /\ status # "Ok" => status' # "Ok"
      BY <1>1, <1>2, <3>1, <3>2, ResizeKeepsView
    <3> QED  BY <3>3 DEF size
  <2> QED  BY <1>4, <1>6, <2>1, <2>2
<1>7. CASE /\ position + Len(d) > fileSize
           /\ ResizeTo(position + Len(d), FALSE)
           /\ Return(Stream!Nothing("write"))
  <2>1. position + Len(d) \in Nat /\ position <= position + Len(d)
    BY <1>2
  <2>2. FileKnown' /\ ViewKnown'
    BY <1>1, <1>2, <1>7, <2>1, ResizeKeepsView
  <2>3. CallKnown'
    BY <1>7 DEF CallKnown, Busy, Return
  <2> QED  BY <2>2, <2>3 DEF MappedInv
<1> QED  BY <1>5, <1>6, <1>7 DEF Write

\* Bytes are copied within the view: a call that is not finished has one, and its
\* position is in it unless the view is exhausted.
LEMMA UnfinishedHasView ==
    ASSUME MappedInv, Busy, call.done < call.size
    PROVE  /\ data = "view" /\ position < Len(contents)
           /\ ~Exhausted => InView(position)
           /\ InViewBehind \in Nat
<1>1. /\ call.size \in Nat /\ call.done \in 0 .. call.size
      /\ call.before.contents \in Seq(Bytes)
      /\ call.before.position \in 0 .. Len(call.before.contents)
      /\ call.before.position + call.size <= Len(contents)
      /\ position = call.before.position + call.done
      /\ data # "null" /\ Len(contents) \in Nat
  BY DEF MappedInv, CallKnown, FileKnown
<1>2. position < Len(contents) /\ position \in Nat
  BY <1>1
<1>3. data = "view"
  BY <1>1, <1>2 DEF MappedInv, ViewKnown
<1>4. /\ viewOffset \in Nat /\ viewSize \in Nat /\ viewOffset <= position
      /\ position <= viewOffset + viewSize
  BY <1>3 DEF MappedInv, ViewKnown, ViewInFile
<1>5. InViewBehind \in Nat /\ (InViewBehind # 0 => position < viewOffset + viewSize)
  BY <1>2, <1>4 DEF InViewBehind
<1> QED  BY <1>2, <1>3, <1>4, <1>5 DEF Exhausted, InView

\* A chunk extends what was transferred, and a new view or an end leaves it.
LEMMA ChunkKeepsInv == ASSUME MappedInv, Chunk PROVE MappedInv'
<1>1. /\ Busy /\ call.done < call.size /\ data = "view" /\ InView(position)
      /\ UNCHANGED <<platform, mode, view, isOpen, fileSize, delayedMapping, dirty, status, result>>
  BY DEF Chunk
<1> DEFINE c0 == call.before.contents
           p0 == call.before.position
<1>2. /\ call = [op |-> call.op, bytes |-> call.bytes, size |-> call.size,
                 supply |-> call.supply, done |-> call.done, before |-> call.before]
      /\ c0 \in Seq(Bytes) /\ Len(c0) \in Nat /\ p0 \in 0 .. Len(c0)
      /\ call.size \in Nat /\ call.done \in 0 .. call.size
      /\ p0 + call.size <= Len(contents) /\ position = p0 + call.done
      /\ call.before.failed => status # "Ok"
      /\ Reading \/ Writing
  BY <1>1 DEF MappedInv, CallKnown
<1>3. contents \in Seq(Bytes) /\ Len(contents) \in Nat /\ Len(contents) <= MaxSize
  BY DEF MappedInv, FileKnown
<1>4. InViewBehind \in Nat /\ InViewBehind = viewSize - (position - viewOffset)
  BY <1>1, UnfinishedHasView DEF InViewBehind
<1>5. /\ viewOffset \in Nat /\ viewSize \in Nat \ {0} /\ viewOffset <= position
      /\ viewOffset + viewSize <= Len(contents) /\ viewOffset % Page = 0 /\ isOpen
  BY <1>1 DEF MappedInv, ViewKnown, ViewInFile
<1> DEFINE wanted == Stream!Least(call.size - call.done, InViewBehind)
           copied == IF call.op = "read" THEN wanted
                     ELSE Stream!Least(wanted, call.supply - call.done)
           bytes == IF call.op = "read"
                    THEN call.bytes \o Stream!Slice(contents, position, copied) ELSE call.bytes
<1>6. wanted \in Nat /\ wanted <= call.size - call.done /\ wanted <= InViewBehind
  BY <1>2, <1>4 DEF Stream!Least
<1>7. copied = wanted
  <2>1. CASE call.op = "read"
    BY <2>1
  <2>2. CASE call.op # "read"
    <3>1. call.supply = call.size
      BY <1>2, <2>2 DEF Reading, Writing
    <3> HIDE DEF wanted
    <3>2. Stream!Least(wanted, call.supply - call.done) = wanted
      BY <1>2, <1>6, <3>1 DEF Stream!Least
    <3> QED  BY <2>2, <3>2
  <2> QED  BY <2>1, <2>2
<1>8. /\ position' = position + copied
      /\ call' = [call EXCEPT
                    !.done = @ + copied,
                    !.bytes = IF call.op = "read"
                              THEN @ \o Stream!Slice(contents, position, copied) ELSE @]
      /\ contents' = IF call.op = "read" THEN contents
                     ELSE Stream!Overwrite(contents, position,
                              SubSeq(call.bytes, call.done + 1, call.done + copied))
  BY DEF Chunk
<1> HIDE DEF wanted, copied, c0, p0
<1>9. /\ copied \in Nat /\ copied <= call.size - call.done
      /\ position' \in Nat /\ position' <= viewOffset + viewSize
  <2>1. position \in Nat
    BY <1>2
  <2>2. copied \in Nat /\ copied <= call.size - call.done
    BY <1>6, <1>7
  <2>3. copied <= viewSize - (position - viewOffset)
    BY <1>4, <1>6, <1>7
  <2> QED  BY <1>5, <1>8, <2>1, <2>2, <2>3
<1>10. call' = [op |-> call.op, bytes |-> bytes, size |-> call.size,
                supply |-> call.supply, done |-> call.done + copied, before |-> call.before]
  BY <1>2, <1>8
<1>11. /\ call'.op = call.op /\ call'.bytes = bytes /\ call'.size = call.size
       /\ call'.supply = call.supply /\ call'.done = call.done + copied
       /\ call'.before = call.before
       /\ call' = [op |-> call'.op, bytes |-> call'.bytes, size |-> call'.size,
                   supply |-> call'.supply, done |-> call'.done, before |-> call'.before]
  BY <1>10
<1> HIDE DEF bytes
<1>12. /\ call'.done \in 0 .. call'.size
       /\ position' = call'.before.position + call'.done
  BY SMTT(20), <1>2, <1>8, <1>9, <1>11 DEF p0
<1>13. contents' \in Seq(Bytes) /\ Len(contents') = Len(contents) /\ (Reading \/ Writing)'
  <2>1. CASE Reading
    <3>1. /\ call.op = "read" /\ contents = c0 /\ call.bytes = Stream!Slice(contents, p0, call.done)
          /\ \E n \in Counts : call.size = Stream!Least(n, Len(contents) - p0)
          /\ contents' = contents
      BY <2>1, <1>8 DEF Reading, c0, p0
    <3>2. bytes = Stream!Slice(contents, p0, call.done + copied)
      <4>1. p0 \in 0 .. Len(contents) /\ call.done \in Nat /\ p0 + call.done + copied <= Len(contents)
        BY <1>2, <1>3, <1>9, <3>1
      <4>2. bytes = Stream!Slice(contents, p0, call.done) \o Stream!Slice(contents, p0 + call.done, copied)
        BY <1>2, <3>1 DEF bytes
      <4>3. Stream!Slice(contents, p0, call.done) \o Stream!Slice(contents, p0 + call.done, copied)
                = Stream!Slice(contents, p0, call.done + copied)
        BY <1>3, <1>9, <4>1, SliceJoin
      <4> QED  BY <4>2, <4>3
    <3>3. Reading'
      BY <1>11, <3>1, <3>2 DEF Reading, c0, p0
    <3> QED  BY <1>3, <3>1, <3>3
  <2>2. CASE Writing
    <3> DEFINE d == call.bytes
               base == Extended(d)
    <3>1. /\ call.op = "write" /\ d \in Sources /\ d \in Seq(Bytes) /\ Len(d) = call.size
          /\ call.supply = call.size
          /\ contents = Stream!Overwrite(base, p0, SubSeq(d, 1, call.done))
      BY <2>2, CallsAssumption DEF Writing, p0
    <3>2. contents' = Stream!Overwrite(contents, position,
                                       SubSeq(d, call.done + 1, call.done + copied))
      BY <3>1, <1>8
    <3>3. base \in Seq(Bytes) /\ Len(base) \in Nat /\ p0 + Len(d) <= Len(base) /\ p0 \in 0 .. Len(base)
      <4> DEFINE n == IF Len(c0) < p0 + Len(d) THEN p0 + Len(d) ELSE Len(c0)
      <4>1. n \in Nat /\ p0 + Len(d) <= n /\ p0 \in 0 .. n
        BY <1>2, <3>1
      <4>2. base = Stream!Resized(c0, n)
        BY DEF Extended, c0, p0
      <4> HIDE DEF n, base
      <4> QED  BY <1>2, <4>1, <4>2, ResizedLength
    <3> HIDE DEF base
    <3>4. /\ call.done \in Nat /\ call.done + copied <= Len(d) /\ call.done + copied \in Nat
          /\ p0 + call.done + copied <= Len(base)
      BY <1>2, <1>9, <3>1, <3>3
    <3>5. contents' = Stream!Overwrite(base, p0, SubSeq(d, 1, call.done + copied))
      BY SMTT(20), <1>2, <1>9, <3>1, <3>2, <3>3, <3>4, OverwriteJoin
    <3>6. contents' \in Seq(Bytes) /\ Len(contents') = Len(base)
      <4>1. /\ SubSeq(d, 1, call.done + copied) \in Seq(Bytes)
            /\ Len(SubSeq(d, 1, call.done + copied)) = call.done + copied
        BY <3>1, <3>4
      <4>2. p0 + (call.done + copied) <= Len(base)
        BY <1>2, <1>9, <3>4
      <4> QED  BY <3>3, <3>5, <4>1, <4>2, OverwriteKeeps
    <3>7. Len(contents) = Len(base)
      <4>1. SubSeq(d, 1, call.done) \in Seq(Bytes) /\ Len(SubSeq(d, 1, call.done)) = call.done
        BY <1>2, <3>1
      <4>2. p0 + call.done <= Len(base)
        BY <1>2, <3>1, <3>3
      <4> QED  BY <3>1, <3>3, <4>1, <4>2, OverwriteKeeps
    <3>8. call'.bytes = d /\ Extended(d)' = base
      BY <1>11, <3>1 DEF bytes, base, Extended
    <3>9. Writing'
      BY <1>11, <3>1, <3>5, <3>8 DEF Writing, p0
    <3> QED  BY <3>6, <3>7, <3>9
  <2> QED  BY <1>2, <2>1, <2>2
<1>14. FileKnown'
  BY <1>1, <1>3, <1>5, <1>9, <1>13 DEF MappedInv, FileKnown
<1>15. ViewKnown'
  <2>1. UNCHANGED <<data, viewOffset, viewSize, isOpen, delayedMapping>> /\ viewOffset <= position'
    BY <1>1, <1>2, <1>5, <1>8, <1>9 DEF view
  <2> QED  BY <1>1, <1>5, <1>9, <1>13, <2>1 DEF ViewKnown, ViewInFile
<1>16. CallKnown'
  BY <1>1, <1>2, <1>11, <1>12, <1>13 DEF CallKnown, view, c0, p0
<1> QED  BY <1>14, <1>15, <1>16 DEF MappedInv

LEMMA RemapKeepsInv == ASSUME Handled, MappedInv, Remap PROVE MappedInv'
<1>1. /\ Busy /\ call.done < call.size
      /\ MapFile(position, fileSize - position) /\ data' # "null"
      /\ UNCHANGED <<platform, mode, file, position, delayedMapping, call, result>>
      /\ status # "Ok" => status' # "Ok"
  BY DEF Remap, Exhausted, Report
<1>2. /\ position < Len(contents) /\ position \in Nat /\ Len(contents) \in Nat
      /\ Len(contents) <= MaxSize /\ isOpen /\ fileSize = Len(contents)
  BY <1>1, UnfinishedHasView DEF MappedInv, FileKnown, ViewKnown
<1>3. FileKnown'
  BY <1>1 DEF MappedInv, FileKnown, file
<1>4. ViewKnown'
  <2>1. fileSize - position \in Nat /\ position + (fileSize - position) = Len(contents')
    BY <1>1, <1>2 DEF file
  <2> QED  BY <1>1, <1>2, <2>1, MapKeepsView DEF file
<1>5. CallKnown'
  BY <1>1 DEF MappedInv, CallKnown, Busy, Reading, Writing, Extended, file
<1> QED  BY <1>3, <1>4, <1>5 DEF MappedInv

LEMMA GiveUpKeepsInv == ASSUME Handled, MappedInv, GiveUp PROVE MappedInv'
<1>1. /\ Busy /\ call.done < call.size /\ call' = None
      /\ UNCHANGED <<platform, mode, file, position, delayedMapping>>
      /\ MapFile(position, fileSize - position) \/ UNCHANGED view
  BY DEF GiveUp, Exhausted, Return
<1>2. CASE UNCHANGED view
  BY <1>1, <1>2, QuietReturn
<1>3. CASE MapFile(position, fileSize - position)
  <2>1. /\ position < Len(contents) /\ position \in Nat /\ Len(contents) \in Nat
        /\ Len(contents) <= MaxSize /\ isOpen /\ fileSize = Len(contents)
    BY <1>1, UnfinishedHasView DEF MappedInv, FileKnown, ViewKnown
  <2>2. FileKnown'
    BY <1>1 DEF MappedInv, FileKnown, file
  <2>3. fileSize - position \in Nat /\ position + (fileSize - position) = Len(contents')
    BY <1>1, <2>1 DEF file
  <2>4. ViewKnown'
    BY <1>1, <1>3, <2>1, <2>3, MapKeepsView DEF file
  <2>5. CallKnown'
    BY <1>1 DEF CallKnown, Busy
  <2> QED  BY <2>2, <2>4, <2>5 DEF MappedInv
<1> QED  BY <1>1, <1>2, <1>3

LEMMA MappedInvStep == Handled /\ MappedInv /\ [Next]_mappedVars => MappedInv'
<1> SUFFICES ASSUME Handled, MappedInv, [Next]_mappedVars PROVE MappedInv'
  OBVIOUS
<1>1. CASE AlreadyOpen \/ ResizeRefused \/ ReadRefused \/ WriteNothing \/ WriteRefused
           \/ Flush \/ Finish
  BY <1>1, QuietReturn DEF AlreadyOpen, ResizeRefused, ReadRefused, WriteNothing, WriteRefused,
                           Flush, Finish, Fail, Return
<1>2. ASSUME NEW n \in Counts, SeekFails(n) PROVE MappedInv'
  BY <1>2, QuietReturn DEF SeekFails, Fail, Return
<1>3. CASE Open
  BY <1>3, OpenKeepsInv
<1>4. CASE OpenFails \/ Close
  BY <1>4, CloseKeepsInv
<1>5. ASSUME NEW n \in Counts, Seek(n) PROVE MappedInv'
  BY <1>5, SeekKeepsInv
<1>6. ASSUME ~Busy, NEW n \in Counts, Resize(n) PROVE MappedInv'
  BY <1>6, ResizeKeepsInv
<1>7. ASSUME ~Busy, NEW n \in Counts, Read(n) PROVE MappedInv'
  BY <1>7, ReadBeginsKnown
<1>8. ASSUME ~Busy, NEW d \in Sources, NEW supply \in 0 .. Len(d),
             supply = Len(d) \/ ShortSources, Write(d, supply)
      PROVE  MappedInv'
  <2>1. Write(d, Len(d))
    BY <1>8 DEF Handled
  <2> QED  BY <1>8, <2>1, WriteBeginsKnown
<1>9. CASE Chunk
  BY <1>9, ChunkKeepsInv
<1>10. CASE Remap
  BY <1>10, RemapKeepsInv
<1>11. CASE GiveUp
  BY <1>11, GiveUpKeepsInv
<1>12. CASE UNCHANGED mappedVars
  BY <1>12 DEF mappedVars, MappedInv, FileKnown, ViewKnown, ViewInFile, CallKnown, Busy, Reading,
               Writing, Extended, file, view
<1> QED  BY <1>1, <1>2, <1>3, <1>4, <1>5, <1>6, <1>7, <1>8, <1>9, <1>10, <1>11, <1>12
         DEF Next, Begun, Proceed

\* The inductive invariant holds in every reachable state.
THEOREM MappedInvariant == Handled => (Spec => []MappedInv)
<1>1. ASSUME Handled PROVE Spec => []MappedInv
  <2>1. MappedInv /\ [Next]_mappedVars => MappedInv'
    BY <1>1, MappedInvStep
  <2> QED  BY <2>1, MappedInvInit, PTL DEF Spec
<1> QED  BY <1>1

\* Whenever bytes are about to be copied there is a view, and the position is in it:
\* after a seek, a resize, a view that was shorter than asked for, or its end.
THEOREM CopiesStayInView == Handled => (Spec => []AccessInView)
<1>1. ASSUME Handled PROVE Spec => []AccessInView
  <2>1. MappedInv => AccessInView
    BY UnfinishedHasView DEF AccessInView
  <2>2. Spec => []MappedInv
    BY <1>1, MappedInvariant
  <2> QED  BY <2>1, <2>2, PTL
<1> QED  BY <1>1

\* A view starts on a page, ends within the file, and has the position in it or at
\* its end, whatever the file was cut or extended to since.
THEOREM ViewsStayInFile == Handled => (Spec => []ViewInFile)
<1>1. ASSUME Handled PROVE Spec => []ViewInFile
  <2>1. MappedInv => ViewInFile
    BY DEF MappedInv, ViewKnown
  <2>2. Spec => []MappedInv
    BY <1>1, MappedInvariant
  <2> QED  BY <2>1, <2>2, PTL
<1> QED  BY <1>1
-----------------------------------------------------------------------------
(* Views and chunks do not show: the stream implements the bounded stream.  *)

\* What the caller sees between calls, as of the variables
LEMMA SeenIdle ==
    ASSUME ~Busy
    PROVE  /\ Seen = Visible
           /\ Seen.contents = contents
           /\ Seen.position = IF isOpen THEN position ELSE 0
           /\ Seen.broken <=> data # "view" /\ ~delayedMapping
           /\ Seen.failed <=> status # "Ok"
  BY DEF Seen, Visible

\* What the caller sees after a call returned, and during one
LEMMA SeenReturned ==
    ASSUME call' = None
    PROVE  /\ Seen'.contents = contents'
           /\ Seen'.position = IF isOpen' THEN position' ELSE 0
           /\ Seen'.broken <=> data' # "view" /\ ~delayedMapping'
           /\ Seen'.failed <=> status' # "Ok"
  BY DEF Seen, Visible, Busy

LEMMA SeenBusy ==
    ASSUME Busy
    PROVE  Seen = call.before
  BY DEF Seen

LEMMA MappedInitImplements == Init => Stream!Init
<1> SUFFICES ASSUME Init PROVE Stream!Init
  OBVIOUS
<1>1. contents \in Seq(Bytes) /\ isOpen \in BOOLEAN /\ ~isOpen /\ status = "Ok" /\ ~Busy
      /\ result = Stream!Nothing("none")
  BY CallsAssumption DEF Init, Busy
<1>2. Seen.contents \in Seq(Bytes) /\ Seen.position = 0 /\ ~Seen.failed
  BY <1>1, SeenIdle
<1>3. isOpen \in BOOLEAN
  BY DEF Init
<1>4. Seen.broken \in BOOLEAN
  BY <1>1 DEF Seen, Visible
<1> QED  BY <1>1, <1>2, <1>3, <1>4 DEF Stream!Init

\* A call that leaves the stream as it was and reports an error is a refused one.
LEMMA MappedRefuses ==
    ASSUME ~Busy, NEW op \in {"open", "seek", "read", "write", "resize"},
           Return(Stream!Nothing(op)), status' # "Ok",
           contents' = contents, UNCHANGED <<position, isOpen>>
    PROVE  Stream!Next
<1>1. call' = None /\ result' = Stream!Nothing(op)
  BY DEF Return
<1>2. Seen'.contents = Seen.contents /\ Seen'.position = Seen.position /\ Seen'.failed
  BY <1>1, SeenIdle, SeenReturned
<1>3. Stream!Refuse(op)
  BY <1>1, <1>2 DEF Stream!Refuse, Stream!Sticky
<1> QED  BY <1>3 DEF Stream!Next

LEMMA FailRefuses ==
    ASSUME ~Busy, NEW op \in {"open", "seek", "read", "write", "resize"}, NEW code,
           code # "Ok", Fail(op, code)
    PROVE  Stream!Next
  BY MappedRefuses DEF Fail, file

\* Calls of one step are steps of the contract.
LEMMA OpenImplements == ASSUME MappedInv, ~Busy, Open PROVE Stream!Next
<1>1. /\ ~isOpen /\ isOpen' /\ status' = "Ok" /\ contents' = contents /\ call' = None
      /\ result' = Stream!Nothing("open")
      /\ data' = "view" \/ delayedMapping'
      /\ position' = 0
  <2>1. ~isOpen /\ delayedMapping' = (contents = << >>) /\ call' = None
        /\ isOpen' = TRUE /\ contents' = contents /\ status' = "Ok"
        /\ result' = Stream!Nothing("open")
    BY DEF Open, Return
  <2>2. CASE contents = << >> /\ UNCHANGED <<view, position, dirty>>
    <3>1. position = 0
      BY <2>2 DEF MappedInv, FileKnown
    <3> QED  BY <2>1, <2>2, <3>1
  <2>3. CASE data' = "view" /\ position' = 0
    BY <2>1, <2>3
  <2> QED  BY <2>2, <2>3 DEF Open
<1>2. Seen'.contents = Seen.contents /\ Seen'.position = 0 /\ ~Seen'.broken /\ ~Seen'.failed
  BY <1>1, SeenIdle, SeenReturned
<1>3. Stream!Open
  BY <1>1, <1>2 DEF Stream!Open, Stream!BreaksAtEnd
<1> QED  BY <1>3 DEF Stream!Next

LEMMA CloseImplements == ASSUME ~Busy, Close PROVE Stream!Next
<1>1. /\ isOpen' = FALSE /\ contents' = contents /\ call' = None
      /\ result' = Stream!Nothing("close") /\ (status # "Ok" => status' # "Ok")
  BY DEF Close, Return, Report
<1>2. Seen'.contents = Seen.contents /\ Seen'.position = 0 /\ (Seen.failed => Seen'.failed)
  BY <1>1, SeenIdle, SeenReturned
<1>3. Stream!Close
  BY <1>1, <1>2 DEF Stream!Close, Stream!Sticky
<1> QED  BY <1>3 DEF Stream!Next

LEMMA FlushImplements == ASSUME ~Busy, Flush PROVE Stream!Next
<1>1. /\ UNCHANGED <<view, file, position, delayedMapping>> /\ call' = None
      /\ result' = Stream!Nothing("flush") /\ (status # "Ok" => status' # "Ok")
  BY DEF Flush, Return, Report
<1>2. /\ Seen'.contents = Seen.contents /\ Seen'.position = Seen.position
      /\ Seen.failed => Seen'.failed
  BY <1>1, SeenIdle, SeenReturned DEF file
<1>3. Seen'.broken = Seen.broken
  BY <1>1 DEF Seen, Visible, view, Busy
<1>4. Stream!Flush
  BY <1>1, <1>2, <1>3 DEF Stream!Flush, Stream!Sticky, file
<1> QED  BY <1>4 DEF Stream!Next

\* No view is left only by a seek to the end.
LEMMA SeekImplements == ASSUME Handled, MappedInv, ~Busy, NEW p \in Counts, Seek(p) PROVE Stream!Next
<1>1. /\ p <= fileSize /\ data # "null" /\ position' = p /\ call' = None
      /\ result' = Stream!Nothing("seek")
      /\ UNCHANGED <<contents, isOpen, fileSize, delayedMapping>>
      /\ status # "Ok" => status' # "Ok"
  BY DEF Seek, Return, Report, file
<1>2. /\ p \in Nat /\ isOpen /\ isOpen' /\ contents \in Seq(Bytes) /\ Len(contents) \in Nat
      /\ fileSize = Len(contents) /\ position \in Nat
  BY <1>1, CallsAssumption DEF MappedInv, FileKnown, ViewKnown
<1>3. MappedInv'
  BY SeekKeepsInv
<1>4. data' # "view" /\ ~delayedMapping' => position' = Len(contents') \/ (data' = "null")
  BY <1>3 DEF MappedInv, ViewKnown
<1>5. data' = "null" => p = Len(contents)
  <2>1. CASE InView(p) /\ UNCHANGED view
    BY <1>1, <2>1 DEF view
  <2>2. CASE ~InView(p)
    <3>1. PICK fail \in BOOLEAN : FlushForSeekMay(fail) /\ dirty' = (fail /\ dirty)
      BY <2>2 DEF Seek
    <3>2. ~dirty'
      BY <3>1 DEF FlushForSeekMay, Handled
    <3>3. MapFile(p, fileSize - p)
      BY <2>2, <3>2 DEF Seek
    <3>4. fileSize - p \in Nat /\ p + (fileSize - p) <= MaxSize
      BY <1>1, <1>2 DEF MappedInv, FileKnown
    <3>5. ~MapMayFail
      BY DEF MapMayFail, Handled
    <3>6. data' = "view" \/ fileSize - p = 0
      BY <1>2, <3>3, <3>4, <3>5, MapFileFinds
    <3> QED  BY <1>1, <1>2, <3>6
  <2> QED  BY <2>1, <2>2 DEF Seek
<1>6. /\ Seen.contents = contents /\ Seen'.contents = contents /\ Seen'.position = p
      /\ Seen.failed => Seen'.failed
      /\ Seen'.broken => Seen'.position = Len(Seen'.contents)
  BY <1>1, <1>2, <1>4, <1>5, SeenIdle, SeenReturned
<1>7. Stream!Seek(p)
  BY <1>1, <1>2, <1>6 DEF Stream!Seek, Stream!Sticky, Stream!BreaksAtEnd
<1> QED  BY <1>7 DEF Stream!Next

LEMMA ResizeImplements ==
    ASSUME Handled, MappedInv, ~Busy, NEW size \in Counts, Resize(size)
    PROVE  Stream!Next
<1>1. /\ size \in Nat /\ size <= MaxSize /\ isOpen /\ isOpen' /\ position <= size
      /\ call' = None /\ result' = Stream!Nothing("resize") /\ Return(Stream!Nothing("resize"))
      /\ UNCHANGED <<isOpen, position, delayedMapping>>
  BY CallsAssumption DEF Resize, Handled, Return
<1>2. PICK done \in BOOLEAN : ResizeTo(size, done)
  BY DEF Resize
<1>3. /\ FileKnown' /\ ViewKnown'
      /\ done => contents' = Stream!Resized(contents, size) /\ (position < size => data' = "view")
      /\ ~done => contents' = contents /\ status' = "WriteError"
      /\ status # "Ok" => status' # "Ok"
  BY <1>1, <1>2, ResizeKeepsView
<1>4. CASE ~done
  BY <1>1, <1>3, <1>4, MappedRefuses
<1>5. CASE done
  <2>1. contents \in Seq(Bytes) /\ Len(contents') = size /\ position \in Nat
    BY <1>1, <1>3, <1>5, ResizedLength DEF MappedInv, FileKnown
  <2>2. /\ Seen.contents = contents /\ Seen'.contents = contents'
        /\ Seen.position = position /\ Seen'.position = position
        /\ Seen.failed => Seen'.failed
        /\ Seen'.broken => data' # "view"
    BY <1>1, <1>3, SeenIdle, SeenReturned
  <2>3. data' # "view" => position = Len(contents')
    BY <1>1, <1>3, <1>5, <2>1
  <2>4. Stream!Resize(size)
    BY <1>1, <1>3, <1>5, <2>2, <2>3 DEF Stream!Resize, Stream!Sticky, Stream!BreaksAtEnd
  <2> QED  BY <2>4 DEF Stream!Next
<1> QED  BY <1>4, <1>5

\* Reading an empty file that is not mapped yet reads the nothing that is there.
LEMMA ReadRefusedImplements == ASSUME MappedInv, ~Busy, ReadRefused PROVE Stream!Next
<1>1. CASE Fail("read", "ReadError")
  BY <1>1, FailRefuses
<1>2. CASE /\ data = "null" /\ delayedMapping
           /\ Return(Stream!Nothing("read"))
           /\ UNCHANGED <<platform, mode, view, file, position, delayedMapping, dirty, status>>
  <2>1. /\ isOpen /\ isOpen' /\ contents \in Seq(Bytes) /\ position = Len(contents)
        /\ position \in 0 .. Len(contents) /\ Len(contents) \in Nat /\ isOpen' = isOpen
    BY <1>2 DEF MappedInv, FileKnown, ViewKnown, file
  <2>2. /\ Seen.contents = contents /\ Seen'.contents = contents
        /\ Seen.position = position /\ Seen'.position = position
        /\ Seen.failed => Seen'.failed
        /\ ~Seen'.broken
        /\ result' = Stream!Nothing("read")
    BY <1>2, <2>1, SeenIdle, SeenReturned DEF Return, file
  <2>3. Stream!Slice(contents, position, 0) = << >> /\ 0 \in Counts
    <3>1. Stream!Least(0, Len(contents) - position) = 0
      BY <2>1 DEF Stream!Least
    <3>2. Stream!Slice(contents, position, 0) = SubSeq(contents, position + 1, position + 0)
      BY <3>1 DEF Stream!Slice
    <3> QED  BY <2>1, <3>2, CallsAssumption
  <2>4. result' = Stream!Transferred("read", Stream!Slice(contents, position, 0))
    BY <2>2, <2>3 DEF Stream!Nothing, Stream!Transferred
  <2>5. position = position + Len(Stream!Slice(contents, position, 0))
    BY <2>1, <2>3
  <2>6. Stream!Read(0)
    BY <2>1, <2>2, <2>4, <2>5 DEF Stream!Read, Stream!Sticky, Stream!BreaksAtEnd
  <2> QED  BY <2>3, <2>6 DEF Stream!Next
<1> QED  BY <1>1, <1>2 DEF ReadRefused

LEMMA WriteNothingImplements == ASSUME MappedInv, ~Busy, WriteNothing PROVE Stream!Next
<1>1. /\ isOpen /\ isOpen' /\ isOpen' = isOpen /\ contents \in Seq(Bytes)
      /\ position \in 0 .. Len(contents) /\ position \in Nat
      /\ UNCHANGED <<view, file, position, delayedMapping, status>>
      /\ call' = None /\ result' = Stream!Nothing("write")
  BY DEF WriteNothing, MappedInv, FileKnown, ViewKnown, file, Return
<1>2. /\ Seen.contents = contents /\ Seen'.contents = contents
      /\ Seen.position = position /\ Seen'.position = position
      /\ Seen.failed => Seen'.failed
      /\ Seen'.broken => Seen.broken
  BY <1>1, SeenIdle, SeenReturned DEF file, view
<1>3. /\ Stream!Overwrite(contents, position, << >>) = contents /\ << >> \in Sources
      /\ position + Len(<< >>) = position
      /\ Stream!Transferred("write", << >>) = Stream!Nothing("write")
  BY <1>1, Unchanging, CallsAssumption DEF Stream!Transferred, Stream!Nothing
<1>4. Stream!Write(<< >>)
  BY <1>1, <1>2, <1>3 DEF Stream!Write, Stream!Sticky, Stream!BreaksAtEnd
<1> QED  BY <1>3, <1>4 DEF Stream!Next

\* While a call is under way the caller sees the stream as the call found it.
LEMMA BeginHidden ==
    ASSUME ~Busy, NEW op \in {"read", "write"}, NEW bytes, NEW size, NEW supply,
           Begin(op, bytes, size, supply), UNCHANGED <<isOpen, result>>
    PROVE  UNCHANGED Stream!vars
<1>1. call'.before = Visible /\ call'.op = op
  BY DEF Begin
<1>2. Busy'
  BY <1>1 DEF Busy, None
<1>3. Seen' = Seen
  BY <1>1, <1>2 DEF Seen
<1> QED  BY <1>3 DEF Stream!vars

LEMMA UnderWayHidden ==
    ASSUME MappedInv, Busy, call'.before = call.before, call'.op = call.op,
           UNCHANGED <<isOpen, result>>
    PROVE  UNCHANGED Stream!vars
<1>1. call.op \in {"read", "write"}
  BY DEF MappedInv, CallKnown, Reading, Writing
<1>2. Busy'
  BY <1>1 DEF Busy, None
<1>3. Seen' = Seen
  BY <1>2 DEF Seen
<1> QED  BY <1>3 DEF Stream!vars

\* A write begins, or is refused if the file cannot be extended.
LEMMA WriteImplements ==
    ASSUME Handled, MappedInv, ~Busy, NEW d \in Sources, Write(d, Len(d))
    PROVE  Stream!Next \/ UNCHANGED Stream!vars
<1>1. /\ data # "null" \/ delayedMapping
      /\ d # << >> /\ position + Len(d) <= MaxSize
      /\ UNCHANGED <<platform, mode, isOpen, position, delayedMapping>>
  BY DEF Write
<1>2. /\ isOpen /\ position \in Nat /\ Len(d) \in Nat
  BY <1>1, CallsAssumption DEF MappedInv, FileKnown, ViewKnown
<1>3. CASE Begin("write", d, Len(d), Len(d)) /\ UNCHANGED result
  BY <1>1, <1>3, BeginHidden
<1>4. CASE ResizeTo(position + Len(d), FALSE) /\ Return(Stream!Nothing("write"))
  <2>1. position + Len(d) \in Nat /\ position <= position + Len(d)
    BY <1>2
  <2>2. contents' = contents /\ status' = "WriteError"
    BY <1>1, <1>2, <1>4, <2>1, ResizeKeepsView
  <2> QED  BY <1>1, <1>4, <2>2, MappedRefuses
<1> QED  BY <1>3, <1>4 DEF Write

\* What a call has transferred when it returns
LEMMA Transfers ==
    ASSUME MappedInv, Busy
    PROVE  LET c0 == call.before.contents
               p0 == call.before.position
           IN  /\ call.op = "read" =>
                      Finished = Stream!Transferred("read", Stream!Slice(c0, p0, call.done))
                      /\ position = p0 + Len(Stream!Slice(c0, p0, call.done))
               /\ call.op = "write" =>
                      Finished = Stream!Transferred("write", SubSeq(call.bytes, 1, call.done))
<1> DEFINE c0 == call.before.contents
           p0 == call.before.position
<1>1. /\ c0 \in Seq(Bytes) /\ p0 \in 0 .. Len(c0) /\ Len(c0) \in Nat
      /\ call.size \in Nat /\ call.done \in 0 .. call.size
      /\ p0 + call.size <= Len(contents) /\ position = p0 + call.done
      /\ Reading \/ Writing
  BY DEF MappedInv, CallKnown
<1>2. Finished = [op |-> call.op, count |-> call.done, bytes |-> SubSeq(call.bytes, 1, call.done)]
  BY DEF Finished
<1>3. ASSUME call.op = "read"
      PROVE  /\ Finished = Stream!Transferred("read", Stream!Slice(c0, p0, call.done))
             /\ position = p0 + Len(Stream!Slice(c0, p0, call.done))
  <2> DEFINE b == Stream!Slice(c0, p0, call.done)
  <2>1. call.bytes = b /\ contents = c0
    BY <1>1, <1>3 DEF Reading, Writing
  <2>2. call.done \in Nat /\ call.done <= Len(c0) - p0
    BY <1>1, <2>1
  <2>3. Stream!Least(call.done, Len(c0) - p0) = call.done
    BY <1>1, <2>2 DEF Stream!Least
  <2>4. b \in Seq(Bytes) /\ Len(b) = call.done
    BY <1>1, <2>2, <2>3, SliceLength
  <2> HIDE DEF b
  <2>5. SubSeq(b, 1, call.done) = b
    BY <2>4, SubSeqFull
  <2>6. Finished = Stream!Transferred("read", b)
    BY <1>2, <1>3, <2>1, <2>4, <2>5 DEF Stream!Transferred
  <2> QED  BY <1>1, <2>4, <2>6 DEF b
<1>4. ASSUME call.op = "write"
      PROVE  Finished = Stream!Transferred("write", SubSeq(call.bytes, 1, call.done))
  <2>1. call.bytes \in Seq(Bytes) /\ Len(call.bytes) = call.size
    BY <1>1, <1>4, CallsAssumption DEF Reading, Writing
  <2>2. Len(SubSeq(call.bytes, 1, call.done)) = call.done
    BY <1>1, <2>1
  <2> QED  BY <1>2, <1>4, <2>2 DEF Stream!Transferred
<1> QED  BY <1>3, <1>4

\* A call that returns does all at once.
LEMMA FinishImplements == ASSUME MappedInv, Busy, Finish PROVE Stream!Next
<1> DEFINE c0 == call.before.contents
           p0 == call.before.position
<1>1. /\ call.done = call.size /\ call' = None /\ result' = Finished
      /\ UNCHANGED <<view, file, position, delayedMapping, status>>
  BY DEF Finish, Return
<1>2. /\ c0 \in Seq(Bytes) /\ p0 \in 0 .. Len(c0) /\ Len(c0) \in Nat
      /\ call.size \in Nat /\ p0 + call.size <= Len(contents) /\ position = p0 + call.size
      /\ call.before.failed => status # "Ok"
      /\ data # "null" /\ isOpen /\ contents \in Seq(Bytes)
      /\ Reading \/ Writing
  BY <1>1 DEF MappedInv, CallKnown, ViewKnown, FileKnown
<1>3. /\ Seen.contents = c0 /\ Seen.position = p0
      /\ Seen.failed => call.before.failed
      /\ Seen'.contents = contents /\ Seen'.position = position
      /\ isOpen' = isOpen
  BY <1>1, <1>2, SeenBusy, SeenReturned DEF file
<1>4. Seen.failed => Seen'.failed
  BY <1>1, <1>2, <1>3, SeenReturned
<1>5. Seen'.broken => Seen'.position = Len(Seen'.contents)
  <2>1. data # "view" => position = Len(contents)
    BY <1>2 DEF MappedInv, ViewKnown
  <2>2. Seen'.broken => data # "view"
    BY <1>1, SeenReturned DEF view
  <2> QED  BY <1>3, <2>1, <2>2
<1>6. CASE Reading
  <2>1. PICK n \in Counts : call.size = Stream!Least(n, Len(contents) - p0)
    BY <1>6 DEF Reading
  <2>2. n \in Nat /\ call.op = "read" /\ contents = c0
    BY <1>6, CallsAssumption DEF Reading
  <2>3. Stream!Slice(c0, p0, call.done) = Stream!Slice(c0, p0, n)
    BY <1>1, <1>2, <2>1, <2>2, SliceLeast
  <2>4. result' = Stream!Transferred("read", Stream!Slice(c0, p0, n))
        /\ position = p0 + Len(Stream!Slice(c0, p0, n))
    BY <1>1, <2>2, <2>3, Transfers
  <2>5. Stream!Read(n)
    BY <1>2, <1>3, <1>4, <1>5, <2>2, <2>4 DEF Stream!Read, Stream!Sticky, Stream!BreaksAtEnd
  <2> QED  BY <2>5 DEF Stream!Next
<1>7. CASE Writing
  <2> DEFINE d == call.bytes
  <2>1. /\ call.op = "write" /\ d \in Sources /\ d \in Seq(Bytes) /\ call.size = Len(d)
        /\ contents = Stream!Overwrite(Extended(d), p0, SubSeq(d, 1, call.done))
    BY <1>7, CallsAssumption DEF Writing
  <2>2. SubSeq(d, 1, call.done) = d
    BY SMTT(20), <1>1, <2>1, SubSeqFull
  <2>3. contents = Stream!Overwrite(c0, p0, d)
    <3> DEFINE n == IF Len(c0) < p0 + Len(d) THEN p0 + Len(d) ELSE Len(c0)
    <3>1. Stream!Overwrite(Stream!Resized(c0, n), p0, d) = Stream!Overwrite(c0, p0, d)
      BY <1>2, <2>1, OverwriteExtended
    <3>2. Extended(d) = Stream!Resized(c0, n)
      BY DEF Extended
    <3> HIDE DEF n
    <3> QED  BY <2>1, <2>2, <3>1, <3>2
  <2>4. result' = Stream!Transferred("write", d)
    BY <1>1, <2>1, <2>2, Transfers
  <2>5. position = p0 + Len(d)
    BY <1>2, <2>1
  <2>6. Stream!Write(d)
    BY <1>2, <1>3, <1>4, <1>5, <2>1, <2>3, <2>4, <2>5 DEF Stream!Write, Stream!Sticky, Stream!BreaksAtEnd
  <2> QED  BY <2>1, <2>6 DEF Stream!Next
<1> QED  BY <1>2, <1>6, <1>7

\* A call that ends early reports it, and counts what it transferred.
LEMMA GiveUpImplements == ASSUME MappedInv, GiveUp PROVE Stream!Next
<1> DEFINE c0 == call.before.contents
           p0 == call.before.position
<1>1. /\ Busy /\ call.done < call.size /\ call' = None /\ result' = Finished
      /\ status' = IF call.op = "read" THEN "ReadError" ELSE "WriteError"
      /\ UNCHANGED <<file, position>>
  BY DEF GiveUp, Exhausted, Return
<1>2. /\ c0 \in Seq(Bytes) /\ p0 \in 0 .. Len(c0) /\ Len(c0) \in Nat
      /\ call.size \in Nat /\ call.done \in 0 .. call.size
      /\ p0 + call.size <= Len(contents) /\ position = p0 + call.done
      /\ isOpen
      /\ Reading \/ Writing
  BY <1>1 DEF MappedInv, CallKnown, ViewKnown
<1>3. /\ Seen.contents = c0 /\ Seen.position = p0
      /\ Seen'.contents = contents /\ Seen'.position = position /\ Seen'.failed
      /\ isOpen' = isOpen
  BY <1>1, <1>2, SeenBusy, SeenReturned DEF file
<1>4. CASE Reading
  <2>1. PICK n \in Counts : call.size = Stream!Least(n, Len(contents) - p0)
    BY <1>4 DEF Reading
  <2>2. n \in Nat /\ call.op = "read" /\ contents = c0
    BY <1>4, CallsAssumption DEF Reading
  <2>3. call.done \in 0 .. n
    BY <1>2, <2>1, <2>2 DEF Stream!Least
  <2>4. result' = Stream!Transferred("read", Stream!Slice(c0, p0, call.done))
        /\ position = p0 + Len(Stream!Slice(c0, p0, call.done))
    BY <1>1, <2>2, Transfers
  <2>5. Stream!ReadFails(n)
    BY <1>2, <1>3, <2>2, <2>3, <2>4 DEF Stream!ReadFails
  <2> QED  BY <2>5 DEF Stream!Next
<1>5. CASE Writing
  <2> DEFINE d == call.bytes
             n == IF Len(c0) < p0 + Len(d) THEN p0 + Len(d) ELSE Len(c0)
  <2>1. /\ call.op = "write" /\ d \in Sources /\ d \in Seq(Bytes) /\ call.size = Len(d)
        /\ contents = Stream!Overwrite(Extended(d), p0, SubSeq(d, 1, call.done))
    BY <1>5, CallsAssumption DEF Writing
  <2>2. Extended(d) = Stream!Resized(c0, n)
    BY DEF Extended
  <2>3. n \in {Len(c0), p0 + Len(d)} /\ n >= Len(c0)
    BY <1>2, <2>1
  <2>4. call.done \in 0 .. Len(d) /\ call.done \in call.done .. Len(d)
    BY <1>2, <2>1
  <2>5. result' = Stream!Transferred("write", SubSeq(d, 1, call.done))
    BY <1>1, <2>1, Transfers
  <2> HIDE DEF n
  <2>6. Stream!WriteFails(d)
    BY <1>2, <1>3, <2>1, <2>2, <2>3, <2>4, <2>5 DEF Stream!WriteFails
  <2> QED  BY <2>1, <2>6 DEF Stream!Next
<1> QED  BY <1>2, <1>4, <1>5

LEMMA MappedStepImplements ==
    Handled /\ MappedInv /\ [Next]_mappedVars => [Stream!Next]_(Stream!vars)
<1> SUFFICES ASSUME Handled, MappedInv, [Next]_mappedVars
             PROVE  Stream!Next \/ UNCHANGED Stream!vars
  OBVIOUS
<1>1. CASE ~Busy /\ (AlreadyOpen \/ ResizeRefused \/ WriteRefused)
  BY <1>1, FailRefuses DEF AlreadyOpen, ResizeRefused, WriteRefused
<1>2. ASSUME ~Busy, NEW n \in Counts, SeekFails(n) PROVE Stream!Next
  BY <1>2, FailRefuses DEF SeekFails
<1>3. CASE ~Busy /\ OpenFails
  BY <1>3, MappedRefuses DEF OpenFails
<1>4. CASE ~Busy /\ (Open \/ Close \/ Flush \/ ReadRefused \/ WriteNothing)
  BY <1>4, OpenImplements, CloseImplements, FlushImplements, ReadRefusedImplements,
     WriteNothingImplements
<1>5. ASSUME ~Busy, NEW n \in Counts, Seek(n) \/ Resize(n) PROVE Stream!Next
  BY <1>5, SeekImplements, ResizeImplements
<1>6. ASSUME ~Busy, NEW n \in Counts, Read(n) PROVE UNCHANGED Stream!vars
  BY <1>6, BeginHidden DEF Read, file
<1>7. ASSUME ~Busy, NEW d \in Sources, NEW supply \in 0 .. Len(d),
             supply = Len(d) \/ ShortSources, Write(d, supply)
      PROVE  Stream!Next \/ UNCHANGED Stream!vars
  <2>1. Write(d, Len(d))
    BY <1>7 DEF Handled
  <2> QED  BY <1>7, <2>1, WriteImplements
<1>8. CASE Chunk
  <2>1. call = [op |-> call.op, bytes |-> call.bytes, size |-> call.size,
                supply |-> call.supply, done |-> call.done, before |-> call.before]
    BY <1>8 DEF MappedInv, CallKnown, Chunk
  <2>2. \E done, bytes : call' = [call EXCEPT !.done = done, !.bytes = bytes]
    BY <1>8 DEF Chunk
  <2>3. call'.before = call.before /\ call'.op = call.op
    BY <2>1, <2>2
  <2> QED  BY <1>8, <2>3, UnderWayHidden DEF Chunk
<1>9. CASE Remap
  BY <1>9, UnderWayHidden DEF Remap, Exhausted, file
<1>10. CASE GiveUp
  BY <1>10, GiveUpImplements
<1>11. CASE Finish
  BY <1>11, FinishImplements DEF Finish
<1>12. CASE UNCHANGED mappedVars
  BY <1>12 DEF mappedVars, Stream!vars, Seen, Visible, Busy, view, file
<1> QED  BY <1>1, <1>2, <1>3, <1>4, <1>5, <1>6, <1>7, <1>8, <1>9, <1>10, <1>11, <1>12
         DEF Next, Begun, Proceed

\* Every step of a mapped stream is a step of the bounded stream or does not show in
\* it: however a call is cut into chunks and views, and wherever it is cut short, it
\* transfers the bytes at the position, or reports that it did not.
THEOREM MappedImplementsStream == Handled => (Spec => ImplementsStream)
<1>1. ASSUME Handled PROVE Spec => ImplementsStream
  <2>1. MappedInv /\ [Next]_mappedVars => [Stream!Next]_(Stream!vars)
    BY <1>1, MappedStepImplements
  <2>2. Spec => []MappedInv
    BY <1>1, MappedInvariant
  <2> QED  BY <2>1, <2>2, MappedInitImplements, PTL DEF Spec, ImplementsStream, Stream!Spec
<1> QED  BY <1>1
=============================================================================
