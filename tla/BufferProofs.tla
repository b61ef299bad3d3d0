---------------------------- MODULE BufferProofs ----------------------------
(***************************************************************************)
(* Proofs about the two kinds of buffers.                                  *)
(*                                                                         *)
(* Buffer, for any sizes: the indices stay inside buffer_, which is never  *)
(* larger than twice the most that was asked for at once, and the readable *)
(* bytes are those of ByteQueue.                                           *)
(*                                                                         *)
(* The log buffers of AsyncLogging with its LogFile, in the second half:   *)
(* the spare buffers suffice, and no line is lost.                         *)
(***************************************************************************)
EXTENDS Buffer, AsyncLogging, SequenceTheorems, TLAPS

\* a Buffer whose indices are in order; kCheapPrepend, to which they are reset, is
\* inside the vector as well
Good(b) ==
  /\ b \in [mem : Seq(Nat), readerIndex : Nat, writerIndex : Nat]
  /\ b.readerIndex <= b.writerIndex
  /\ b.writerIndex <= Len(b.mem)
  /\ kCheapPrepend <= Len(b.mem)

Bounded == Len(buf.mem) <= kCheapPrepend + Larger(kInitialSize, 2 * peak)

\* The inductive invariant.
BufferInv ==
  /\ Good(buf)
  /\ next \in Nat /\ peak \in Nat /\ crash \in BOOLEAN
  /\ Bounded

\* A vector of zeros has the length that was asked for.
LEMMA ZerosType ==
  ASSUME NEW n \in Nat
  PROVE  Zeros(n) \in Seq(Nat) /\ Len(Zeros(n)) = n
BY DEF Zeros

\* The bytes that are handed in are numbers.
LEMMA NewType ==
  ASSUME NEW n \in Nat, next \in Nat
  PROVE  New(n) \in Seq(Nat) /\ Len(New(n)) = n
BY DEF New

\* resize adds to the length.
LEMMA ResizeType ==
  ASSUME NEW m \in Seq(Nat), NEW n \in Nat
  PROVE  m \o Zeros(n) \in Seq(Nat) /\ Len(m \o Zeros(n)) = Len(m) + n
BY ZerosType, ConcatProperties

\* std::copy changes elements of the vector, not its size.
LEMMA CopyType ==
  ASSUME NEW m \in Seq(Nat), NEW data \in Seq(Nat), NEW at \in Nat
  PROVE  copy(m, data, at) \in Seq(Nat) /\ Len(copy(m, data, at)) = Len(m)
<1>1. DOMAIN m = 1 .. Len(m) /\ Len(m) \in Nat
  BY LenProperties
<1>2. DOMAIN data = 1 .. Len(data) /\ Len(data) \in Nat
  BY LenProperties
<1>3. \A i \in 1 .. Len(m) : m[i] \in Nat
  BY <1>1, ElementOfSeq
<1>4. \A i \in 1 .. Len(data) : data[i] \in Nat
  BY <1>2, ElementOfSeq
<1>5. copy(m, data, at) \in [1 .. Len(m) -> Nat]
  BY <1>1, <1>2, <1>3, <1>4 DEF copy
<1> DEFINE f == copy(m, data, at)
<1>6. f \in Seq(Nat)
  <2>1. f \in [1 .. Len(m) -> Nat]
    BY <1>5
  <2> HIDE DEF f
  <2> QED
    BY <1>1, <2>1, SeqDef, SMTT(30)
<1>7. DOMAIN f = 1 .. Len(m)
  BY <1>5
<1>8. Len(f) = Len(m)
  <2> HIDE DEF f
  <2> QED BY <1>1, <1>6, <1>7, LenProperties
<1> QED
  BY <1>6, <1>8

\* The contents are a sequence of bytes.
LEMMA ReadableType ==
  ASSUME NEW b, Good(b)
  PROVE  /\ Readable(b) \in Seq(Nat)
         /\ Len(Readable(b)) = readableBytes(b)
         /\ readableBytes(b) \in Nat
         /\ writableBytes(b) \in Nat
<1>1. /\ b.mem \in Seq(Nat)
      /\ b.readerIndex \in Nat /\ b.writerIndex \in Nat /\ Len(b.mem) \in Nat
      /\ b.readerIndex <= b.writerIndex /\ b.writerIndex <= Len(b.mem)
  BY LenProperties DEF Good
<1>2. b.readerIndex + 1 \in 1 .. Len(b.mem) + 1 /\ b.writerIndex \in b.readerIndex .. Len(b.mem)
  BY <1>1
<1>3. /\ SubSeq(b.mem, b.readerIndex + 1, b.writerIndex) \in Seq(Nat)
      /\ Len(SubSeq(b.mem, b.readerIndex + 1, b.writerIndex)) =
           IF b.readerIndex + 1 <= b.writerIndex THEN b.writerIndex - (b.readerIndex + 1) + 1 ELSE 0
  BY <1>1, SubSeqProperties
<1> QED
  BY <1>1, <1>3, SMTT(30) DEF Readable, readableBytes, writableBytes

\* A new Buffer is in order.
LEMMA NewBufferGood ==
  /\ Good(NewBuffer)
  /\ Len(NewBuffer.mem) = kCheapPrepend + kInitialSize
  /\ readableBytes(NewBuffer) = 0
  /\ NewBuffer.writerIndex = kCheapPrepend
<1>1. kCheapPrepend + kInitialSize \in Nat /\ kCheapPrepend \in Nat /\ kInitialSize \in Nat
  BY BufferAssumption
<1>2. /\ Zeros(kCheapPrepend + kInitialSize) \in Seq(Nat)
      /\ Len(Zeros(kCheapPrepend + kInitialSize)) = kCheapPrepend + kInitialSize
  BY <1>1, ZerosType
<1> QED
  BY <1>1, <1>2 DEF Good, NewBuffer, Buf, readableBytes

\* ensureWritableBytes keeps the contents, makes the room that was asked for, and
\* grows the vector to less than twice what is then needed.
LEMMA EnsureGood ==
  ASSUME NEW b, Good(b), NEW len \in Nat
  PROVE  LET e == ensureWritableBytes(b, len)
         IN  /\ Good(e)
             /\ readableBytes(e) = readableBytes(b)
             /\ len <= writableBytes(e)
             /\ \/ Len(e.mem) = Len(b.mem)
                \/ Len(e.mem) <= kCheapPrepend + 2 * (readableBytes(b) + len)
<1> DEFINE e == ensureWritableBytes(b, len)
<1>1. /\ b.mem \in Seq(Nat) /\ Len(b.mem) \in Nat
      /\ b.readerIndex \in Nat /\ b.writerIndex \in Nat /\ kCheapPrepend \in Nat
      /\ b.readerIndex <= b.writerIndex /\ b.writerIndex <= Len(b.mem)
      /\ kCheapPrepend <= Len(b.mem)
  BY LenProperties, BufferAssumption DEF Good
<1>2. CASE ~(writableBytes(b) < len)
  <2>1. e = b
    BY <1>2 DEF ensureWritableBytes
  <2> QED
    BY <1>1, <1>2, <2>1 DEF writableBytes
<1>3. CASE writableBytes(b) < len /\ MustGrow(b, len)
  <2> DEFINE k == len - writableBytes(b)
             mem == b.mem \o Zeros(k)
  <2>1. k \in Nat
    BY <1>1, <1>3 DEF writableBytes
  <2>2. mem \in Seq(Nat) /\ Len(mem) = Len(b.mem) + k
    BY <1>1, <2>1, ResizeType
  <2>3. e = Buf(mem, b.readerIndex, b.writerIndex)
    BY <1>1, <1>3 DEF ensureWritableBytes, makeSpace
  <2>4. Len(b.mem) + k = b.writerIndex + len
    BY <1>1 DEF writableBytes
  <2> HIDE DEF mem, k, e
  <2>5. e.mem = mem /\ e.readerIndex = b.readerIndex /\ e.writerIndex = b.writerIndex
    BY <2>3 DEF Buf
  <2>6. Len(e.mem) = b.writerIndex + len
    BY <2>2, <2>4, <2>5
  <2>7. e \in [mem : Seq(Nat), readerIndex : Nat, writerIndex : Nat]
    BY <1>1, <2>2, <2>3 DEF Buf
  <2>8. Good(e) /\ readableBytes(e) = readableBytes(b) /\ len <= writableBytes(e)
    BY <1>1, <2>1, <2>2, <2>5, <2>6, <2>7 DEF Good, readableBytes, writableBytes
  <2>9. Len(b.mem) - b.writerIndex + b.readerIndex < len + kCheapPrepend
    BY <1>3 DEF MustGrow, writableBytes, prependableBytes
  <2>10. b.writerIndex + len <= kCheapPrepend + 2 * ((b.writerIndex - b.readerIndex) + len)
    BY <1>1, <2>9, SMTT(30)
  <2> QED
    BY <2>6, <2>8, <2>10 DEF readableBytes, e
<1>4. CASE writableBytes(b) < len /\ ~MustGrow(b, len)
  <2> DEFINE mem == copy(b.mem, Readable(b), kCheapPrepend)
  <2>1. mem \in Seq(Nat) /\ Len(mem) = Len(b.mem)
    BY <1>1, ReadableType, CopyType
  <2>2. e = Buf(mem, kCheapPrepend, kCheapPrepend + readableBytes(b))
    BY <1>4 DEF ensureWritableBytes, makeSpace
  <2>3. b.readerIndex > kCheapPrepend
    BY <1>1, <1>4 DEF MustGrow, writableBytes, prependableBytes
  <2>4. /\ e.mem = mem /\ e.readerIndex = kCheapPrepend
        /\ e.writerIndex = kCheapPrepend + (b.writerIndex - b.readerIndex)
        /\ Len(e.mem) = Len(b.mem)
    BY <2>1, <2>2 DEF readableBytes, Buf
  <2>5. e.writerIndex \in Nat /\ e.writerIndex <= Len(e.mem) /\ e.readerIndex <= e.writerIndex
    BY <1>1, <2>3, <2>4
  <2>6. Good(e)
    <3> HIDE DEF mem
    <3> QED BY <1>1, <2>1, <2>2, <2>4, <2>5 DEF Good, Buf
  <2>7. readableBytes(e) = readableBytes(b) /\ len <= writableBytes(e)
    BY <1>1, <1>4, <2>4, SMTT(30) DEF MustGrow, readableBytes, writableBytes, prependableBytes
  <2> QED
    BY <2>4, <2>6, <2>7
<1> QED
  BY <1>2, <1>3, <1>4

\* Writing bytes for which there is room.
LEMMA HasWrittenGood ==
  ASSUME NEW b, Good(b), NEW data \in Seq(Nat), Len(data) <= writableBytes(b)
  PROVE  LET h == hasWritten(b, data)
         IN  /\ Good(h)
             /\ Len(h.mem) = Len(b.mem)
             /\ h.writerIndex = b.writerIndex + Len(data)
             /\ readableBytes(h) = readableBytes(b) + Len(data)
<1> DEFINE h == hasWritten(b, data)
           mem == copy(b.mem, data, b.writerIndex)
<1>1. /\ b.mem \in Seq(Nat) /\ Len(b.mem) \in Nat /\ Len(data) \in Nat
      /\ b.readerIndex \in Nat /\ b.writerIndex \in Nat /\ kCheapPrepend \in Nat
      /\ b.readerIndex <= b.writerIndex /\ b.writerIndex <= Len(b.mem)
      /\ kCheapPrepend <= Len(b.mem)
  BY LenProperties, BufferAssumption DEF Good
<1>2. mem \in Seq(Nat) /\ Len(mem) = Len(b.mem)
  BY <1>1, CopyType
<1>3. h = Buf(mem, b.readerIndex, b.writerIndex + Len(data))
  BY <1>1 DEF hasWritten
<1>4. b.writerIndex + Len(data) \in Nat /\ b.writerIndex + Len(data) <= Len(b.mem)
  BY <1>1 DEF writableBytes
<1> HIDE DEF mem
<1>5. Good(h)
  BY <1>1, <1>2, <1>3, <1>4 DEF Good, Buf
<1> QED
  BY <1>1, <1>2, <1>3, <1>5 DEF readableBytes, Buf

\* append is ensureWritableBytes and hasWritten.
LEMMA AppendGood ==
  ASSUME NEW b, Good(b), NEW data \in Seq(Nat)
  PROVE  LET a == append(b, data)
         IN  /\ Good(a)
             /\ \/ Len(a.mem) = Len(b.mem)
                \/ Len(a.mem) <= kCheapPrepend + 2 * (readableBytes(b) + Len(data))
<1> DEFINE e == ensureWritableBytes(b, Len(data))
<1>1. Len(data) \in Nat
  BY LenProperties
<1>2. /\ Good(e) /\ Len(data) <= writableBytes(e)
      /\ \/ Len(e.mem) = Len(b.mem)
         \/ Len(e.mem) <= kCheapPrepend + 2 * (readableBytes(b) + Len(data))
  BY <1>1, EnsureGood
<1>3. append(b, data) = hasWritten(e, data)
  BY DEF append
<1> HIDE DEF e
<1>4. Good(hasWritten(e, data)) /\ Len(hasWritten(e, data).mem) = Len(e.mem)
  BY <1>2, HasWrittenGood
<1> QED
  BY <1>2, <1>3, <1>4

\* readv fills the room behind writerIndex_, and extrabuf is appended.
LEMMA ReadFdGood ==
  ASSUME NEW b, Good(b), NEW data \in Seq(Nat)
  PROVE  LET f == readFd(b, data)
         IN  /\ Good(f)
             /\ \/ Len(f.mem) = Len(b.mem)
                \/ Len(f.mem) <= kCheapPrepend + 2 * (readableBytes(b) + Len(data))
<1> DEFINE w == writableBytes(b)
           first == SubSeq(data, 1, IF Len(data) < w THEN Len(data) ELSE w)
           rest == SubSeq(data, w + 1, Len(data))
           full == fill(b, data)
<1>1. w \in Nat /\ Len(data) \in Nat /\ readableBytes(b) \in Nat
  BY ReadableType, LenProperties
<1>2. \A i \in 1 .. Len(data) : data[i] \in Nat
  BY LenProperties, ElementOfSeq
<1> HIDE DEF w
<1>3. CASE Len(data) <= w
  <2>1. first \in Seq(Nat) /\ Len(first) = Len(data)
    <3> DEFINE n == IF Len(data) < w THEN Len(data) ELSE w
    <3>1. n = Len(data)
      BY <1>1, <1>3
    <3>2. SubSeq(data, 1, Len(data)) \in Seq(Nat) /\ Len(SubSeq(data, 1, Len(data))) = Len(data)
      BY <1>1, <1>2, SubSeqProperties
    <3> QED
      BY <3>1, <3>2
  <2>2. readFd(b, data) = hasWritten(b, first)
    BY <1>3 DEF readFd, fill, w
  <2> HIDE DEF first
  <2>3. Good(hasWritten(b, first)) /\ Len(hasWritten(b, first).mem) = Len(b.mem)
    BY <1>3, <2>1, HasWrittenGood DEF w
  <2> QED
    BY <2>2, <2>3
<1>4. CASE ~(Len(data) <= w)
  <2>1. first = SubSeq(data, 1, w)
    BY <1>1, <1>4
  <2>2. SubSeq(data, 1, w) \in Seq(Nat) /\ Len(SubSeq(data, 1, w)) = w
    BY <1>1, <1>2, <1>4, SubSeqProperties
  <2>3. rest \in Seq(Nat) /\ Len(rest) = Len(data) - w
    BY <1>1, <1>2, <1>4, SubSeqProperties
  <2>4. full = hasWritten(b, first)
    BY DEF fill, w
  <2>5. readFd(b, data) = append(full, rest)
    BY <1>4 DEF readFd, w
  <2>6. first \in Seq(Nat) /\ Len(first) = w
    BY <2>1, <2>2
  <2> HIDE DEF first, rest, full
  <2>7. /\ Good(full) /\ Len(full.mem) = Len(b.mem)
        /\ readableBytes(full) = readableBytes(b) + w
    <3>1. Len(first) <= writableBytes(b)
      BY <1>1, <2>6 DEF w
    <3> QED
      BY <2>4, <2>6, <3>1, HasWrittenGood
  <2>8. /\ Good(append(full, rest))
        /\ \/ Len(append(full, rest).mem) = Len(full.mem)
           \/ Len(append(full, rest).mem) <= kCheapPrepend + 2 * (readableBytes(full) + Len(rest))
    BY <2>3, <2>7, AppendGood
  <2>9. readableBytes(full) + Len(rest) = readableBytes(b) + Len(data)
    BY <1>1, <2>3, <2>7
  <2> QED
    BY <2>5, <2>7, <2>8, <2>9
<1> QED
  BY <1>3, <1>4

\* The new vector of shrink has room for the contents and the reserve.
LEMMA ShrinkGood ==
  ASSUME NEW b, Good(b), NEW reserve \in Nat
  PROVE  LET s == shrink(b, reserve)
         IN  /\ Good(s)
             /\ \/ Len(s.mem) <= kCheapPrepend + kInitialSize
                \/ Len(s.mem) <= kCheapPrepend + 2 * (readableBytes(b) + reserve)
<1> DEFINE n == readableBytes(b) + reserve
           other == ensureWritableBytes(NewBuffer, n)
<1>1. /\ Readable(b) \in Seq(Nat) /\ Len(Readable(b)) = readableBytes(b)
      /\ readableBytes(b) \in Nat /\ n \in Nat
  BY ReadableType
<1>2. n = readableBytes(b) + reserve
  OBVIOUS
<1>3. shrink(b, reserve) = append(other, Readable(b))
  BY DEF shrink
<1>4. shrink(b, reserve) = hasWritten(ensureWritableBytes(other, Len(Readable(b))), Readable(b))
  BY <1>3 DEF append
<1> HIDE DEF n
<1>5. /\ Good(other) /\ n <= writableBytes(other)
      /\ \/ Len(other.mem) = Len(NewBuffer.mem)
         \/ Len(other.mem) <= kCheapPrepend + 2 * (readableBytes(NewBuffer) + n)
  BY <1>1, NewBufferGood, EnsureGood
<1> HIDE DEF other
<1>6. Len(Readable(b)) <= writableBytes(other) /\ writableBytes(other) \in Nat
  BY <1>1, <1>2, <1>5, ReadableType
<1>7. ensureWritableBytes(other, Len(Readable(b))) = other
  BY <1>1, <1>6 DEF ensureWritableBytes
<1>8. /\ Good(hasWritten(other, Readable(b)))
      /\ Len(hasWritten(other, Readable(b)).mem) = Len(other.mem)
  BY <1>1, <1>5, <1>6, HasWrittenGood
<1>9. \/ Len(other.mem) <= kCheapPrepend + kInitialSize
      \/ Len(other.mem) <= kCheapPrepend + 2 * n
  <2>1. Len(NewBuffer.mem) = kCheapPrepend + kInitialSize /\ readableBytes(NewBuffer) = 0
    BY NewBufferGood
  <2>2. 0 + n = n /\ kCheapPrepend + kInitialSize \in Nat
    BY <1>1, BufferAssumption
  <2> QED
    BY <1>5, <2>1, <2>2
<1> QED
  BY <1>2, <1>4, <1>7, <1>8, <1>9

\* The bound on the size grows with the peak.
LEMMA GrowthBound ==
  ASSUME NEW c \in Nat, NEW i \in Nat, NEW p \in Nat, NEW q \in Nat, NEW n \in Nat,
         NEW old \in Nat, NEW size \in Nat,
         p <= q, n <= q, old <= c + Larger(i, 2 * p),
         size = old \/ size <= c + i \/ size <= c + 2 * n
  PROVE  size <= c + Larger(i, 2 * q)
<1>1. CASE i < 2 * q
  BY <1>1 DEF Larger
<1>2. CASE ~(i < 2 * q)
  BY <1>2 DEF Larger
<1> QED
  BY <1>1, <1>2

\* A call that may have made the vector grow keeps the invariant.
LEMMA GrownInv ==
  ASSUME BufferInv, NEW len \in Nat, Good(buf'), next' \in Nat, crash' = crash,
         peak' = Larger(peak, readableBytes(buf) + len),
         \/ Len(buf'.mem) = Len(buf.mem)
         \/ Len(buf'.mem) <= kCheapPrepend + kInitialSize
         \/ Len(buf'.mem) <= kCheapPrepend + 2 * (readableBytes(buf) + len)
  PROVE  BufferInv'
<1>1. readableBytes(buf) + len \in Nat /\ peak \in Nat /\ crash \in BOOLEAN
  BY ReadableType DEF BufferInv
<1>2. peak' \in Nat /\ peak <= peak' /\ readableBytes(buf) + len <= peak'
  BY <1>1 DEF Larger
<1>3. Len(buf'.mem) \in Nat /\ Len(buf.mem) \in Nat
  BY LenProperties DEF Good, BufferInv
<1>4. Len(buf.mem) <= kCheapPrepend + Larger(kInitialSize, 2 * peak)
  BY DEF BufferInv, Bounded
<1>5. Len(buf'.mem) <= kCheapPrepend + Larger(kInitialSize, 2 * peak')
  BY <1>1, <1>2, <1>3, <1>4, GrowthBound, BufferAssumption
<1>6. Good(buf)' /\ Bounded'
  BY <1>5 DEF Good, Bounded
<1> QED
  BY <1>1, <1>2, <1>6 DEF BufferInv

\* A call that leaves the size of the vector alone keeps the invariant.
LEMMA SameSizeInv ==
  ASSUME BufferInv, Good(buf'), Len(buf'.mem) = Len(buf.mem), next' \in Nat,
         UNCHANGED <<peak, crash>>
  PROVE  BufferInv'
<1>1. Good(buf)'
  BY DEF Good
<1>2. Bounded'
  BY DEF BufferInv, Bounded
<1> QED
  BY <1>1, <1>2 DEF BufferInv

LEMMA InitInv == Init => BufferInv
<1> SUFFICES ASSUME Init PROVE BufferInv
  OBVIOUS
<1>1. Good(buf) /\ Len(buf.mem) = kCheapPrepend + kInitialSize
  BY NewBufferGood DEF Init
<1>2. kCheapPrepend \in Nat /\ kInitialSize \in Nat
  BY BufferAssumption
<1>3. Bounded
  BY <1>1, <1>2 DEF Init, Bounded, Larger
<1> QED
  BY <1>1, <1>3 DEF Init, BufferInv

LEMMA NextInv == BufferInv /\ [Next]_vars => BufferInv'
<1> SUFFICES ASSUME BufferInv, [Next]_vars PROVE BufferInv'
  OBVIOUS
<1> USE BufferAssumption
<1>0. Good(buf) /\ next \in Nat /\ peak \in Nat /\ crash \in BOOLEAN
  BY DEF BufferInv
<1>1. ASSUME Fails PROVE BufferInv'
  <2>1. crash' \in BOOLEAN
    BY <1>1 DEF Fails
  <2>2. buf' = buf /\ next' = next /\ peak' = peak
    BY <1>1 DEF Fails
  <2>3. Good(buf)' /\ Bounded'
    BY <2>2 DEF BufferInv, Good, Bounded
  <2> QED
    BY <1>0, <2>1, <2>2, <2>3 DEF BufferInv
<1>2. ASSUME NEW n \in 1 .. MaxBytes, AppendBytes(n) PROVE BufferInv'
  <2>1. CASE Fails
    BY <1>1, <2>1
  <2>2. CASE Grown(n, append(buf, New(n))) /\ next' = next + n
    <3>1. n \in Nat /\ New(n) \in Seq(Nat) /\ Len(New(n)) = n
      BY <1>0, NewType
    <3>2. buf' = append(buf, New(n)) /\ crash' = crash /\ next' \in Nat
          /\ peak' = Larger(peak, readableBytes(buf) + n)
      BY <1>0, <2>2, <3>1 DEF Grown
    <3> QED
      BY <1>0, <3>1, <3>2, AppendGood, GrownInv
  <2> QED
    BY <1>2, <2>1, <2>2 DEF AppendBytes
<1>3. ASSUME NEW n \in 1 .. MaxBytes, ReadFd(n) PROVE BufferInv'
  <2>1. CASE Fails
    BY <1>1, <2>1
  <2>2. CASE Grown(n, readFd(buf, New(n))) /\ next' = next + n
    <3>1. n \in Nat /\ New(n) \in Seq(Nat) /\ Len(New(n)) = n
      BY <1>0, NewType
    <3>2. buf' = readFd(buf, New(n)) /\ crash' = crash /\ next' \in Nat
          /\ peak' = Larger(peak, readableBytes(buf) + n)
      BY <1>0, <2>2, <3>1 DEF Grown
    <3> QED
      BY <1>0, <3>1, <3>2, ReadFdGood, GrownInv
  <2> QED
    BY <1>3, <2>1, <2>2 DEF ReadFd
<1>4. ASSUME NEW n \in 1 .. MaxBytes, Prepend(n) PROVE BufferInv'
  <2> DEFINE at == buf.readerIndex - n
             mem == copy(buf.mem, New(n), at)
  <2>1. n \in Nat /\ New(n) \in Seq(Nat) /\ Len(New(n)) = n
    BY <1>0, NewType
  <2>2. /\ buf.mem \in Seq(Nat) /\ at \in Nat /\ buf.writerIndex \in Nat
        /\ at <= buf.writerIndex /\ buf.writerIndex <= Len(buf.mem)
        /\ kCheapPrepend <= Len(buf.mem)
    BY <1>0, <1>4, <2>1 DEF Good, Prepend, prependableBytes
  <2>3. mem \in Seq(Nat) /\ Len(mem) = Len(buf.mem)
    BY <2>1, <2>2, CopyType
  <2>4. buf' = Buf(mem, at, buf.writerIndex)
    BY <1>4, <2>1 DEF Prepend, prepend
  <2>5. next' \in Nat /\ UNCHANGED <<peak, crash>>
    BY <1>0, <1>4, <2>1 DEF Prepend
  <2> HIDE DEF mem, at
  <2>6. Good(buf') /\ Len(buf'.mem) = Len(buf.mem)
    BY <2>2, <2>3, <2>4 DEF Good, Buf
  <2> QED
    BY <2>5, <2>6, SameSizeInv
<1>5. ASSUME NEW n \in 1 .. MaxBytes, Retrieve(n) PROVE BufferInv'
  <2>1. Good(retrieve(buf, n)) /\ retrieve(buf, n).mem = buf.mem
    <3>1. CASE n < readableBytes(buf)
      <4>1. retrieve(buf, n) = Buf(buf.mem, buf.readerIndex + n, buf.writerIndex)
        BY <3>1 DEF retrieve
      <4> QED
        BY <1>0, <3>1, <4>1 DEF Good, Buf, readableBytes
    <3>2. CASE ~(n < readableBytes(buf))
      <4>1. retrieve(buf, n) = Buf(buf.mem, kCheapPrepend, kCheapPrepend)
        BY <3>2 DEF retrieve, retrieveAll
      <4> QED
        BY <1>0, <4>1 DEF Good, Buf
    <3> QED
      BY <3>1, <3>2
  <2>2. buf' = retrieve(buf, n) /\ next' = next /\ UNCHANGED <<peak, crash>>
    BY <1>5 DEF Retrieve
  <2> QED
    BY <1>0, <2>1, <2>2, SameSizeInv
<1>6. ASSUME NEW n \in 1 .. MaxBytes, Unwrite(n) PROVE BufferInv'
  <2>1. buf' = Buf(buf.mem, buf.readerIndex, buf.writerIndex - n)
    BY <1>6 DEF Unwrite, unwrite
  <2>2. Good(buf') /\ buf'.mem = buf.mem
    BY <1>0, <1>6, <2>1 DEF Good, Buf, Unwrite, readableBytes
  <2>3. next' = next /\ UNCHANGED <<peak, crash>>
    BY <1>6 DEF Unwrite
  <2> QED
    BY <1>0, <2>2, <2>3, SameSizeInv
<1>7. ASSUME NEW n \in 0 .. MaxReserve, EnsureWritableBytes(n) PROVE BufferInv'
  <2>1. CASE Fails
    BY <1>1, <2>1
  <2>2. CASE Grown(n, ensureWritableBytes(buf, n)) /\ next' = next
    <3>1. n \in Nat /\ buf' = ensureWritableBytes(buf, n) /\ crash' = crash /\ next' \in Nat
          /\ peak' = Larger(peak, readableBytes(buf) + n)
      BY <1>0, <2>2 DEF Grown
    <3> QED
      BY <1>0, <3>1, EnsureGood, GrownInv
  <2> QED
    BY <1>7, <2>1, <2>2 DEF EnsureWritableBytes
<1>8. ASSUME NEW n \in 0 .. MaxReserve, Shrink(n) PROVE BufferInv'
  <2>1. n \in Nat /\ buf' = shrink(buf, n) /\ crash' = crash /\ next' \in Nat
        /\ peak' = Larger(peak, readableBytes(buf) + n)
    BY <1>0, <1>8 DEF Grown, Shrink
  <2> QED
    BY <1>0, <2>1, ShrinkGood, GrownInv
<1>9. CASE UNCHANGED vars
  BY <1>9, <1>0, SameSizeInv DEF vars
<1> QED
  BY <1>2, <1>3, <1>4, <1>5, <1>6, <1>7, <1>8, <1>9 DEF Next

\* No call of a Buffer leaves an index outside buffer_, whatever its size.
THEOREM TypeCorrect == Spec => []TypeOK
<1>1. BufferInv => TypeOK
  BY DEF BufferInv, Good, TypeOK
<1> QED
  BY <1>1, InitInv, NextInv, PTL DEF Spec

\* buffer_ never grows beyond twice the most that was asked for at once, for any
\* initial size and any sequence of calls.
THEOREM BoundedGrowthCorrect == Spec => []BoundedGrowth
<1>1. TypeOK /\ BufferInv => BoundedGrowth
  BY DEF BufferInv, Bounded, BoundedGrowth
<1> QED
  BY <1>1, TypeCorrect, InitInv, NextInv, PTL DEF Spec

------------------------------------------------------------------------------
(* The contents: Buffer implements ByteQueue *)

\* the elements of m behind index r, up to w
Window(m, r, w) == SubSeq(m, r + 1, w)

LEMMA WindowAt ==
  ASSUME NEW m \in Seq(Nat), NEW r \in Nat, NEW w \in Nat, r <= w, w <= Len(m)
  PROVE  /\ Window(m, r, w) \in Seq(Nat) /\ Len(Window(m, r, w)) = w - r
         /\ \A k \in 1 .. w - r : Window(m, r, w)[k] = m[r + k]
<1>1. Len(m) \in Nat /\ \A i \in 1 .. Len(m) : m[i] \in Nat
  BY LenProperties, ElementOfSeq
<1>2. /\ SubSeq(m, r + 1, w) \in Seq(Nat)
      /\ Len(SubSeq(m, r + 1, w)) = IF r + 1 <= w THEN w - (r + 1) + 1 ELSE 0
      /\ \A i \in 1 .. w - (r + 1) + 1 : SubSeq(m, r + 1, w)[i] = m[(r + 1) + i - 1]
  BY <1>1, SubSeqProperties, SMTT(30)
<1>3. \A i \in 1 .. w - r : i \in 1 .. w - (r + 1) + 1 /\ (r + 1) + i - 1 = r + i
  OBVIOUS
<1> DEFINE q == SubSeq(m, r + 1, w)
<1> HIDE DEF q
<1>4. q \in Seq(Nat) /\ Len(q) = w - r
  BY <1>2 DEF q
<1>5. \A k \in 1 .. w - r : q[k] = m[r + k]
  BY <1>2, <1>3 DEF q
<1> QED
  BY <1>4, <1>5 DEF Window, q

Same(m, r, n, s, len) == \A k \in 1 .. len : m[r + k] = n[s + k]

\* Moving the contents, or writing elsewhere, does not change them.
LEMMA SameWindow ==
  ASSUME NEW m \in Seq(Nat), NEW r \in Nat, NEW w \in Nat, r <= w, w <= Len(m),
         NEW n \in Seq(Nat), NEW s \in Nat, NEW x \in Nat, s <= x, x <= Len(n),
         w - r = x - s, Same(m, r, n, s, w - r)
  PROVE  Window(m, r, w) = Window(n, s, x)
<1> DEFINE a == Window(m, r, w)
           b == Window(n, s, x)
<1>1. a \in Seq(Nat) /\ Len(a) = w - r /\ \A k \in 1 .. w - r : a[k] = m[r + k]
  BY WindowAt
<1>2. b \in Seq(Nat) /\ Len(b) = x - s /\ \A k \in 1 .. x - s : b[k] = n[s + k]
  BY ONLY WindowAt, n \in Seq(Nat), s \in Nat, x \in Nat, s <= x, x <= Len(n)
<1> HIDE DEF a, b
<1>3. Len(a) = Len(b) /\ \A k \in 1 .. Len(a) : a[k] = b[k]
  BY <1>1, <1>2 DEF Same
<1>4. a = b
  BY ONLY <1>1, <1>2, <1>3, SeqEqual
<1> QED
  BY <1>4 DEF a, b

\* Two adjacent windows.
LEMMA SplitWindow ==
  ASSUME NEW m \in Seq(Nat), NEW r \in Nat, NEW v \in Nat, NEW w \in Nat,
         r <= v, v <= w, w <= Len(m)
  PROVE  Window(m, r, w) = Window(m, r, v) \o Window(m, v, w)
<1>1. Len(m) \in Nat
  BY LenProperties
<1>2. r + 1 \in 1 .. Len(m) + 1 /\ v \in (r + 1) - 1 .. Len(m) /\ w \in v .. Len(m)
  BY <1>1
<1> QED
  BY <1>2, ConcatAdjacentSubSeq DEF Window

\* What std::copy leaves at each index.
LEMMA CopyAt ==
  ASSUME NEW m \in Seq(Nat), NEW data \in Seq(Nat), NEW at \in Nat, NEW i \in 1 .. Len(m)
  PROVE  copy(m, data, at)[i] = IF i - at \in 1 .. Len(data) THEN data[i - at] ELSE m[i]
<1>1. DOMAIN m = 1 .. Len(m) /\ DOMAIN data = 1 .. Len(data)
  BY LenProperties
<1> QED
  BY <1>1 DEF copy

\* The window that was copied to holds what was copied.
LEMMA CopiedWindow ==
  ASSUME NEW m \in Seq(Nat), NEW data \in Seq(Nat), NEW at \in Nat,
         at + Len(data) <= Len(m)
  PROVE  Window(copy(m, data, at), at, at + Len(data)) = data
<1> DEFINE n == copy(m, data, at)
           w == at + Len(data)
           a == Window(n, at, w)
<1>1. n \in Seq(Nat) /\ Len(n) = Len(m) /\ Len(data) \in Nat /\ Len(m) \in Nat
  BY CopyType, LenProperties
<1>2. \A k \in 1 .. Len(data) : n[at + k] = data[k]
  <2> SUFFICES ASSUME NEW k \in 1 .. Len(data) PROVE n[at + k] = data[k]
    OBVIOUS
  <2>1. at + k \in 1 .. Len(m) /\ (at + k) - at = k
    BY <1>1
  <2> QED
    BY <2>1, CopyAt
<1> HIDE DEF n
<1>3. at <= w /\ w \in Nat /\ w - at = Len(data) /\ w <= Len(n)
  BY <1>1
<1> HIDE DEF w
<1>4. a \in Seq(Nat) /\ Len(a) = w - at /\ \A k \in 1 .. w - at : a[k] = n[at + k]
  BY <1>1, <1>3, WindowAt
<1> HIDE DEF a
<1>5. \A k \in 1 .. Len(a) : a[k] = data[k]
  BY <1>2, <1>3, <1>4
<1>6. Len(a) = Len(data)
  BY <1>3, <1>4
<1>7. a = data
  BY ONLY <1>4, <1>5, <1>6, data \in Seq(Nat), SeqEqual
<1> QED
  BY <1>7 DEF a, n, w

\* A window beside the place that was copied to is left alone.
LEMMA OtherWindow ==
  ASSUME NEW m \in Seq(Nat), NEW data \in Seq(Nat), NEW at \in Nat,
         NEW r \in Nat, NEW w \in Nat, r <= w, w <= Len(m),
         w <= at \/ at + Len(data) <= r
  PROVE  Window(copy(m, data, at), r, w) = Window(m, r, w)
<1> DEFINE n == copy(m, data, at)
<1>1. n \in Seq(Nat) /\ Len(n) = Len(m) /\ Len(data) \in Nat /\ Len(m) \in Nat
  BY CopyType, LenProperties
<1>2. \A k \in 1 .. w - r : n[r + k] = m[r + k]
  <2> SUFFICES ASSUME NEW k \in 1 .. w - r PROVE n[r + k] = m[r + k]
    OBVIOUS
  <2>1. r + k \in 1 .. Len(m) /\ (r + k) - at \notin 1 .. Len(data)
    BY <1>1
  <2> QED
    BY <2>1, CopyAt, SMTT(30)
<1> HIDE DEF n
<1>3. Same(n, r, m, r, w - r)
  BY <1>2 DEF Same
<1>4. Window(n, r, w) = Window(m, r, w)
  BY <1>1, <1>3, SameWindow
<1> QED
  BY <1>4 DEF n

LEMMA GoodFacts ==
  ASSUME NEW b, Good(b)
  PROVE  /\ b.mem \in Seq(Nat) /\ Len(b.mem) \in Nat
         /\ b.readerIndex \in Nat /\ b.writerIndex \in Nat /\ kCheapPrepend \in Nat
         /\ b.readerIndex <= b.writerIndex /\ b.writerIndex <= Len(b.mem)
         /\ kCheapPrepend <= Len(b.mem)
         /\ Readable(b) = Window(b.mem, b.readerIndex, b.writerIndex)
BY LenProperties, BufferAssumption DEF Good, Readable, Window

LEMMA BufFields ==
  ASSUME NEW m, NEW r, NEW w
  PROVE  /\ Buf(m, r, w).mem = m /\ Buf(m, r, w).readerIndex = r
         /\ Buf(m, r, w).writerIndex = w
         /\ Readable(Buf(m, r, w)) = Window(m, r, w)
BY DEF Buf, Readable, Window

\* Growing the vector, and moving the contents to the front, keep the contents.
LEMMA EnsureKeeps ==
  ASSUME NEW b, Good(b), NEW len \in Nat
  PROVE  Readable(ensureWritableBytes(b, len)) = Readable(b)
<1> DEFINE r == b.readerIndex
           w == b.writerIndex
<1>1. /\ b.mem \in Seq(Nat) /\ Len(b.mem) \in Nat /\ r \in Nat /\ w \in Nat
      /\ kCheapPrepend \in Nat /\ r <= w /\ w <= Len(b.mem)
      /\ Readable(b) = Window(b.mem, r, w)
  BY GoodFacts
<1>2. CASE ~(writableBytes(b) < len)
  BY <1>2 DEF ensureWritableBytes
<1>3. CASE writableBytes(b) < len /\ MustGrow(b, len)
  <2> DEFINE k == len - writableBytes(b)
             z == Zeros(k)
             mem == b.mem \o z
  <2>1. k \in Nat
    BY <1>1, <1>3 DEF writableBytes
  <2>2. z \in Seq(Nat) /\ Len(z) \in Nat
    BY <2>1, ZerosType
  <2>3. ensureWritableBytes(b, len) = Buf(mem, r, w)
    BY <1>3 DEF ensureWritableBytes, makeSpace
  <2> HIDE DEF z, r, w
  <2>4. /\ mem \in Seq(Nat) /\ Len(mem) = Len(b.mem) + Len(z)
        /\ \A i \in 1 .. Len(b.mem) + Len(z) :
             mem[i] = IF i <= Len(b.mem) THEN b.mem[i] ELSE z[i - Len(b.mem)]
    BY <1>1, <2>2, ConcatProperties
  <2> HIDE DEF mem
  <2>5. ASSUME NEW i \in 1 .. w - r PROVE mem[r + i] = b.mem[r + i]
    <3>1. r + i \in 1 .. Len(b.mem) + Len(z) /\ r + i <= Len(b.mem)
      BY <1>1, <2>2
    <3> QED
      BY <2>4, <3>1
  <2>6. Same(mem, r, b.mem, r, w - r)
    BY <2>5 DEF Same
  <2>7. mem \in Seq(Nat) /\ w <= Len(mem) /\ w - r = w - r
    BY <1>1, <2>2, <2>4
  <2>8. Window(mem, r, w) = Window(b.mem, r, w)
    BY ONLY <1>1, <2>6, <2>7, SameWindow
  <2> QED
    BY <1>1, <2>3, <2>8, BufFields
<1>4. CASE writableBytes(b) < len /\ ~MustGrow(b, len)
  <2> DEFINE data == Readable(b)
             mem == copy(b.mem, data, kCheapPrepend)
  <2>1. data \in Seq(Nat) /\ Len(data) = readableBytes(b) /\ Len(data) \in Nat
    BY ReadableType
  <2>2. ensureWritableBytes(b, len) = Buf(mem, kCheapPrepend, kCheapPrepend + Len(data))
    BY <1>4, <2>1 DEF ensureWritableBytes, makeSpace
  <2>3. r > kCheapPrepend /\ kCheapPrepend + (w - r) <= Len(b.mem)
    BY <1>1, <1>4, SMTT(30) DEF MustGrow, writableBytes, prependableBytes
  <2>4. kCheapPrepend + Len(data) <= Len(b.mem)
    BY <2>1, <2>3 DEF readableBytes
  <2> HIDE DEF data
  <2>5. Window(mem, kCheapPrepend, kCheapPrepend + Len(data)) = data
    BY <1>1, <2>1, <2>4, CopiedWindow
  <2> QED
    BY <2>2, <2>5, BufFields DEF data
<1> QED
  BY <1>2, <1>3, <1>4

\* hasWritten adds the data behind the contents.
LEMMA WrittenFollows ==
  ASSUME NEW b, Good(b), NEW data \in Seq(Nat), Len(data) <= writableBytes(b)
  PROVE  Readable(hasWritten(b, data)) = Readable(b) \o data
<1> DEFINE r == b.readerIndex
           w == b.writerIndex
           mem == copy(b.mem, data, w)
<1>1. /\ b.mem \in Seq(Nat) /\ Len(b.mem) \in Nat /\ r \in Nat /\ w \in Nat
      /\ r <= w /\ w <= Len(b.mem) /\ Readable(b) = Window(b.mem, r, w) /\ Len(data) \in Nat
  BY GoodFacts, LenProperties
<1>2. w + Len(data) <= Len(b.mem) /\ w + Len(data) \in Nat /\ w <= w + Len(data)
  BY <1>1 DEF writableBytes
<1>3. hasWritten(b, data) = Buf(mem, r, w + Len(data))
  BY DEF hasWritten
<1> HIDE DEF r, w
<1>4. mem \in Seq(Nat) /\ Len(mem) = Len(b.mem)
  BY <1>1, CopyType
<1>5. Window(mem, w, w + Len(data)) = data
  BY <1>1, <1>2, CopiedWindow
<1>6. Window(mem, r, w) = Window(b.mem, r, w)
  BY <1>1, OtherWindow
<1> HIDE DEF mem
<1>7. Window(mem, r, w + Len(data)) = Window(mem, r, w) \o Window(mem, w, w + Len(data))
  <2>1. /\ mem \in Seq(Nat) /\ r \in Nat /\ w \in Nat /\ w + Len(data) \in Nat
        /\ r <= w /\ w <= w + Len(data) /\ w + Len(data) <= Len(mem)
    BY <1>1, <1>2, <1>4
  <2> QED
    BY ONLY <2>1, SplitWindow
<1> QED
  BY <1>1, <1>3, <1>5, <1>6, <1>7, BufFields, SMTT(30)

LEMMA AppendFollows ==
  ASSUME NEW b, Good(b), NEW data \in Seq(Nat)
  PROVE  Readable(append(b, data)) = Readable(b) \o data
<1> DEFINE e == ensureWritableBytes(b, Len(data))
<1>1. Len(data) \in Nat
  BY LenProperties
<1>2. Good(e) /\ Len(data) <= writableBytes(e)
  BY <1>1, EnsureGood
<1>3. Readable(e) = Readable(b)
  BY <1>1, EnsureKeeps
<1>4. append(b, data) = hasWritten(e, data)
  BY DEF append
<1> HIDE DEF e
<1> QED
  BY <1>2, <1>3, <1>4, WrittenFollows

LEMMA Regroup ==
  ASSUME NEW x \in Seq(Nat), NEW y \in Seq(Nat), NEW z \in Seq(Nat)
  PROVE  (x \o y) \o z = x \o (y \o z)
BY ConcatAssociative, SMTT(30)

\* readFd adds all that was read, in order: the part behind writerIndex_ and extrabuf.
LEMMA ReadFollows ==
  ASSUME NEW b, Good(b), NEW data \in Seq(Nat)
  PROVE  Readable(readFd(b, data)) = Readable(b) \o data
<1> DEFINE w == writableBytes(b)
           first == SubSeq(data, 1, IF Len(data) < w THEN Len(data) ELSE w)
           rest == SubSeq(data, w + 1, Len(data))
           full == fill(b, data)
<1>1. /\ w \in Nat /\ Len(data) \in Nat /\ Readable(b) \in Seq(Nat)
      /\ \A i \in 1 .. Len(data) : data[i] \in Nat
  BY ReadableType, LenProperties, ElementOfSeq
<1>2. full = hasWritten(b, first)
  BY DEF fill
<1>3. /\ Len(data) <= w => readFd(b, data) = full
      /\ ~(Len(data) <= w) => readFd(b, data) = append(full, rest)
  BY DEF readFd
<1>4. w = writableBytes(b)
  OBVIOUS
<1> HIDE DEF w, full
<1>5. CASE Len(data) <= w
  <2>1. first = SubSeq(data, 1, Len(data))
    BY <1>1, <1>5
  <2>2. first = data
    BY <2>1, SubSeqFull
  <2> QED
    BY <1>2, <1>3, <1>4, <1>5, <2>2, WrittenFollows
<1>6. CASE ~(Len(data) <= w)
  <2>1. first = SubSeq(data, 1, w)
    BY <1>1, <1>6
  <2>2. SubSeq(data, 1, w) \in Seq(Nat) /\ Len(SubSeq(data, 1, w)) = w
    BY <1>1, <1>6, SubSeqProperties
  <2>3. rest \in Seq(Nat)
    BY <1>1, <1>6, SubSeqProperties
  <2>4. 1 \in 1 .. Len(data) + 1 /\ w \in 1 - 1 .. Len(data) /\ Len(data) \in w .. Len(data)
    BY <1>1, <1>6
  <2>5. SubSeq(data, 1, w) \o SubSeq(data, w + 1, Len(data)) = SubSeq(data, 1, Len(data))
    BY <2>4, ConcatAdjacentSubSeq
  <2>6. SubSeq(data, 1, Len(data)) = data
    BY SubSeqFull
  <2>7. first \o rest = data
    BY <2>1, <2>5, <2>6
  <2>8. first \in Seq(Nat) /\ Len(first) = w
    BY <2>1, <2>2
  <2> HIDE DEF first, rest
  <2>9. Len(first) <= writableBytes(b)
    BY <1>1, <1>4, <2>8
  <2>10. Good(full) /\ Readable(full) = Readable(b) \o first
    BY <1>2, <2>8, <2>9, HasWrittenGood, WrittenFollows
  <2>11. Readable(append(full, rest)) = Readable(full) \o rest
    BY <2>3, <2>10, AppendFollows
  <2>12. (Readable(b) \o first) \o rest = Readable(b) \o (first \o rest)
    <3> DEFINE q == Readable(b)
    <3>1. q \in Seq(Nat) /\ first \in Seq(Nat) /\ rest \in Seq(Nat)
      BY <1>1, <2>3, <2>8
    <3> HIDE DEF q
    <3>2. (q \o first) \o rest = q \o (first \o rest)
      BY <3>1, Regroup
    <3> QED
      BY <3>2 DEF q
  <2> QED
    BY <1>3, <1>6, <2>7, <2>10, <2>11, <2>12
<1> QED
  BY <1>5, <1>6

\* shrink keeps the contents.
LEMMA ShrinkKeeps ==
  ASSUME NEW b, Good(b), NEW reserve \in Nat
  PROVE  Readable(shrink(b, reserve)) = Readable(b)
<1> DEFINE n == readableBytes(b) + reserve
           other == ensureWritableBytes(NewBuffer, n)
<1>1. Readable(b) \in Seq(Nat) /\ n \in Nat
  BY ReadableType
<1>2. Good(NewBuffer) /\ Readable(NewBuffer) \in Seq(Nat) /\ Len(Readable(NewBuffer)) = 0
  BY NewBufferGood, ReadableType
<1>3. Readable(NewBuffer) = <<>>
  BY <1>2, EmptySeq
<1>4. shrink(b, reserve) = append(other, Readable(b))
  BY DEF shrink
<1> HIDE DEF n
<1>5. Good(other) /\ Readable(other) = Readable(NewBuffer)
  BY <1>1, <1>2, EnsureGood, EnsureKeeps
<1> HIDE DEF other
<1>6. Readable(append(other, Readable(b))) = Readable(other) \o Readable(b)
  BY <1>1, <1>5, AppendFollows
<1>7. <<>> \o Readable(b) = Readable(b)
  BY <1>1, ConcatEmptySeq
<1> QED
  BY <1>3, <1>4, <1>5, <1>6, <1>7

\* The end of a window, and its beginning.
LEMMA WindowEnd ==
  ASSUME NEW m \in Seq(Nat), NEW r \in Nat, NEW w \in Nat, NEW len \in Nat,
         r + len <= w, w <= Len(m)
  PROVE  Window(m, r + len, w) = Window(Window(m, r, w), len, w - r)
<1> DEFINE data == Window(m, r, w)
           v == r + len
           y == w - r
<1>1. r <= w
  OBVIOUS
<1>2. data \in Seq(Nat) /\ Len(data) = w - r /\ \A k \in 1 .. w - r : data[k] = m[r + k]
  BY <1>1, WindowAt
<1>3. data \in Seq(Nat)
  BY <1>2
<1> HIDE DEF data
<1>4. /\ v \in Nat /\ v <= w /\ y \in Nat /\ len <= y /\ w - v = y - len
      /\ y <= Len(data)
  BY <1>2
<1>5. Same(m, v, data, len, w - v)
  <2> SUFFICES ASSUME NEW k \in 1 .. w - v PROVE m[v + k] = data[len + k]
    BY DEF Same
  <2>1. len + k \in 1 .. w - r /\ r + (len + k) = v + k
    BY <1>4
  <2> QED
    BY <1>2, <2>1
<1>6. Window(m, v, w) \in Seq(Nat) /\ Len(Window(m, v, w)) = w - v
      /\ \A k \in 1 .. w - v : Window(m, v, w)[k] = m[v + k]
  BY <1>4, WindowAt
<1> HIDE DEF v, y
<1>7. Window(data, len, y) \in Seq(Nat) /\ Len(Window(data, len, y)) = y - len
      /\ \A k \in 1 .. y - len : Window(data, len, y)[k] = data[len + k]
  BY <1>4, <1>3, WindowAt
<1> DEFINE a == Window(m, v, w)
           b == Window(data, len, y)
<1>8. a \in Seq(Nat) /\ b \in Seq(Nat) /\ Len(a) = Len(b) /\ \A k \in 1 .. Len(a) : a[k] = b[k]
  BY <1>4, <1>5, <1>6, <1>7 DEF Same
<1> HIDE DEF a, b
<1>9. a = b
  BY ONLY <1>8, SeqEqual
<1> QED
  BY <1>9 DEF a, b, v, y, data

LEMMA WindowStart ==
  ASSUME NEW m \in Seq(Nat), NEW r \in Nat, NEW w \in Nat, NEW n \in Nat,
         r + n <= w, w <= Len(m)
  PROVE  Window(m, r, w - n) = Window(Window(m, r, w), 0, (w - r) - n)
<1> DEFINE data == Window(m, r, w)
           x == w - n
           y == (w - r) - n
<1>1. r <= w
  OBVIOUS
<1>2. data \in Seq(Nat) /\ Len(data) = w - r /\ \A k \in 1 .. w - r : data[k] = m[r + k]
  BY <1>1, WindowAt
<1>3. data \in Seq(Nat)
  BY <1>2
<1> HIDE DEF data
<1>4. /\ x \in Nat /\ r <= x /\ x <= Len(m) /\ y \in Nat /\ 0 <= y /\ y <= Len(data)
      /\ x - r = y - 0 /\ 0 \in Nat
  <2>1. Len(m) \in Nat
    BY LenProperties
  <2> QED
    BY <1>2, <2>1
<1>5. Same(m, r, data, 0, x - r)
  <2> SUFFICES ASSUME NEW k \in 1 .. x - r PROVE m[r + k] = data[0 + k]
    BY DEF Same
  <2>1. k \in 1 .. w - r /\ 0 + k = k
    BY <1>4
  <2> QED
    BY <1>2, <2>1
<1> HIDE DEF x, y
<1>6. Window(m, r, x) = Window(data, 0, y)
  BY ONLY <1>4, <1>5, <1>3, SameWindow, m \in Seq(Nat), r \in Nat
<1> QED
  BY <1>6 DEF x, y, data

\* retrieve takes bytes from the front; with all of them the indices are reset.
LEMMA RetrieveTakes ==
  ASSUME NEW b, Good(b), NEW n \in Nat, n <= readableBytes(b)
  PROVE  Readable(retrieve(b, n)) = SubSeq(Readable(b), n + 1, Len(Readable(b)))
<1> DEFINE r == b.readerIndex
           w == b.writerIndex
           data == Readable(b)
<1>1. /\ b.mem \in Seq(Nat) /\ Len(b.mem) \in Nat /\ r \in Nat /\ w \in Nat
      /\ r <= w /\ w <= Len(b.mem) /\ data = Window(b.mem, r, w) /\ r + n <= w
      /\ data \in Seq(Nat) /\ Len(data) = w - r
      /\ kCheapPrepend \in Nat /\ kCheapPrepend <= Len(b.mem)
  BY GoodFacts, ReadableType DEF readableBytes
<1>2. CASE n < readableBytes(b)
  <2>1. retrieve(b, n) = Buf(b.mem, r + n, w)
    BY <1>2 DEF retrieve
  <2>2. Readable(retrieve(b, n)) = Window(b.mem, r + n, w)
    BY <2>1, BufFields
  <2> HIDE DEF r, w, data
  <2>3. Window(b.mem, r + n, w) = Window(Window(b.mem, r, w), n, w - r)
    BY <1>1, WindowEnd
  <2>4. Window(data, n, Len(data)) = SubSeq(data, n + 1, Len(data))
    BY DEF Window
  <2>5. Readable(retrieve(b, n)) = SubSeq(data, n + 1, Len(data))
    BY <1>1, <2>2, <2>3, <2>4
  <2> QED
    BY <2>5 DEF data
<1>3. CASE ~(n < readableBytes(b))
  <2>1. retrieve(b, n) = Buf(b.mem, kCheapPrepend, kCheapPrepend)
    BY <1>3 DEF retrieve, retrieveAll
  <2>2. kCheapPrepend < kCheapPrepend + 1 /\ Len(data) < n + 1
    BY <1>1, <1>3 DEF readableBytes
  <2>3. Readable(retrieve(b, n)) = SubSeq(b.mem, kCheapPrepend + 1, kCheapPrepend)
    BY <2>1, BufFields DEF Window
  <2> HIDE DEF data
  <2>4. SubSeq(b.mem, kCheapPrepend + 1, kCheapPrepend) = <<>>
    BY <1>1, <2>2, SubSeqEmpty
  <2>5. SubSeq(data, n + 1, Len(data)) = <<>>
    BY <1>1, <2>2, SubSeqEmpty
  <2> QED
    BY <2>3, <2>4, <2>5 DEF data
<1> QED
  BY <1>2, <1>3

LEMMA UnwriteCuts ==
  ASSUME NEW b, Good(b), NEW n \in Nat, n <= readableBytes(b)
  PROVE  Readable(unwrite(b, n)) = SubSeq(Readable(b), 1, Len(Readable(b)) - n)
<1> DEFINE r == b.readerIndex
           w == b.writerIndex
           data == Readable(b)
<1>1. /\ b.mem \in Seq(Nat) /\ Len(b.mem) \in Nat /\ r \in Nat /\ w \in Nat
      /\ r <= w /\ w <= Len(b.mem) /\ data = Window(b.mem, r, w) /\ r + n <= w
      /\ data \in Seq(Nat) /\ Len(data) = w - r
  BY GoodFacts, ReadableType DEF readableBytes
<1>2. Readable(unwrite(b, n)) = Window(b.mem, r, w - n)
  BY BufFields DEF unwrite
<1> HIDE DEF r, w, data
<1>3. Window(b.mem, r, w - n) = Window(Window(b.mem, r, w), 0, (w - r) - n)
  <2>1. /\ b.mem \in Seq(Nat) /\ r \in Nat /\ w \in Nat /\ n \in Nat
        /\ r + n <= w /\ w <= Len(b.mem)
    BY <1>1
  <2> QED
    BY ONLY <2>1, WindowStart
<1>4. Window(data, 0, Len(data) - n) = SubSeq(data, 1, Len(data) - n)
  BY DEF Window
<1>5. Readable(unwrite(b, n)) = SubSeq(data, 1, Len(data) - n)
  BY <1>1, <1>2, <1>3, <1>4
<1> QED
  BY <1>5 DEF data

\* prepend puts the header in front of the contents.
LEMMA PrependPrecedes ==
  ASSUME NEW b, Good(b), NEW data \in Seq(Nat), Len(data) <= prependableBytes(b)
  PROVE  Readable(prepend(b, data)) = data \o Readable(b)
<1> DEFINE r == b.readerIndex
           w == b.writerIndex
           at == r - Len(data)
           mem == copy(b.mem, data, at)
<1>1. /\ b.mem \in Seq(Nat) /\ Len(b.mem) \in Nat /\ r \in Nat /\ w \in Nat
      /\ r <= w /\ w <= Len(b.mem) /\ Readable(b) = Window(b.mem, r, w) /\ Len(data) \in Nat
      /\ Len(data) <= r
  BY GoodFacts, LenProperties DEF prependableBytes
<1>2. at \in Nat /\ at + Len(data) = r /\ at <= r /\ r <= Len(b.mem)
  BY <1>1, SMTT(30)
<1>3. prepend(b, data) = Buf(mem, at, w)
  BY DEF prepend
<1> HIDE DEF r, w, at
<1>4. mem \in Seq(Nat) /\ Len(mem) = Len(b.mem)
  BY <1>1, <1>2, CopyType
<1>5. Window(mem, at, at + Len(data)) = data
  BY <1>1, <1>2, CopiedWindow
<1>6. Window(mem, r, w) = Window(b.mem, r, w)
  BY <1>1, <1>2, OtherWindow
<1> HIDE DEF mem
<1>7. Window(mem, at, w) = Window(mem, at, r) \o Window(mem, r, w)
  <2>1. /\ mem \in Seq(Nat) /\ at \in Nat /\ r \in Nat /\ w \in Nat
        /\ at <= r /\ r <= w /\ w <= Len(mem)
    BY <1>1, <1>2, <1>4
  <2> QED
    BY ONLY <2>1, SplitWindow
<1> QED
  BY <1>1, <1>2, <1>3, <1>5, <1>6, <1>7, BufFields, SMTT(30)

\* Every call is a step of the byte queue, or leaves it alone.
LEMMA ByteQueueStep == BufferInv /\ [Next]_vars => [BQ!Next]_BQ!vars
<1> SUFFICES ASSUME BufferInv, [Next]_vars PROVE [BQ!Next]_BQ!vars
  OBVIOUS
<1> USE BufferAssumption
<1>0. Good(buf) /\ next \in Nat /\ Readable(buf) \in Seq(Nat)
      /\ Len(Readable(buf)) = readableBytes(buf) /\ readableBytes(buf) \in Nat
  BY ReadableType DEF BufferInv
<1>1. ASSUME Readable(buf)' = Readable(buf), next' = next PROVE [BQ!Next]_BQ!vars
  BY <1>1 DEF BQ!vars
<1>2. CASE Fails
  BY <1>1, <1>2 DEF Fails
<1>3. ASSUME NEW n \in 1 .. MaxBytes
      PROVE  /\ n \in Nat /\ New(n) \in Seq(Nat) /\ Len(New(n)) = n
             /\ next' = next + n => next' > next /\ BQ!New(next' - next) = New(n)
  <2>1. n \in Nat /\ n > 0 /\ New(n) \in Seq(Nat) /\ Len(New(n)) = n
    BY <1>0, NewType
  <2>2. next' = next + n => next' > next /\ next' - next = n
    BY <1>0, <2>1
  <2> QED
    BY <2>1, <2>2 DEF New, BQ!New
<1>4. ASSUME NEW n \in 1 .. MaxBytes, AppendBytes(n), ~Fails PROVE BQ!Append_
  <2>1. buf' = append(buf, New(n)) /\ next' = next + n
    BY <1>4 DEF AppendBytes, Grown
  <2>2. Readable(buf)' = Readable(buf) \o New(n)
    BY <1>0, <1>3, <2>1, AppendFollows
  <2> QED
    BY <1>3, <2>1, <2>2 DEF BQ!Append_
<1>5. ASSUME NEW n \in 1 .. MaxBytes, ReadFd(n), ~Fails PROVE BQ!Append_
  <2>1. buf' = readFd(buf, New(n)) /\ next' = next + n
    BY <1>5 DEF ReadFd, Grown
  <2>2. Readable(buf)' = Readable(buf) \o New(n)
    BY <1>0, <1>3, <2>1, ReadFollows
  <2> QED
    BY <1>3, <2>1, <2>2 DEF BQ!Append_
<1>6. ASSUME NEW n \in 1 .. MaxBytes, Prepend(n) PROVE BQ!Prepend
  <2>1. buf' = prepend(buf, New(n)) /\ next' = next + n /\ Len(New(n)) <= prependableBytes(buf)
    BY <1>3, <1>6 DEF Prepend
  <2>2. Readable(buf)' = New(n) \o Readable(buf)
    BY <1>0, <1>3, <2>1, PrependPrecedes
  <2> QED
    BY <1>3, <2>1, <2>2 DEF BQ!Prepend
<1>7. ASSUME NEW n \in 1 .. MaxBytes, Retrieve(n) PROVE BQ!Retrieve
  <2>1. n \in 1 .. Len(Readable(buf)) /\ buf' = retrieve(buf, n) /\ next' = next
    BY <1>0, <1>3, <1>7 DEF Retrieve
  <2>2. Readable(buf)' = SubSeq(Readable(buf), n + 1, Len(Readable(buf)))
    BY <1>0, <1>3, <1>7, <2>1, RetrieveTakes DEF Retrieve
  <2> QED
    BY <2>1, <2>2 DEF BQ!Retrieve
<1>8. ASSUME NEW n \in 1 .. MaxBytes, Unwrite(n) PROVE BQ!Unwrite
  <2>1. n \in 1 .. Len(Readable(buf)) /\ buf' = unwrite(buf, n) /\ next' = next
    BY <1>0, <1>3, <1>8 DEF Unwrite
  <2>2. Readable(buf)' = SubSeq(Readable(buf), 1, Len(Readable(buf)) - n)
    BY <1>0, <1>3, <1>8, <2>1, UnwriteCuts DEF Unwrite
  <2> QED
    BY <2>1, <2>2 DEF BQ!Unwrite
<1>9. ASSUME NEW n \in 0 .. MaxReserve, EnsureWritableBytes(n), ~Fails
      PROVE  [BQ!Next]_BQ!vars
  <2>1. n \in Nat /\ buf' = ensureWritableBytes(buf, n) /\ next' = next
    BY <1>9 DEF EnsureWritableBytes, Grown
  <2> QED
    BY <1>0, <1>1, <2>1, EnsureKeeps
<1>10. ASSUME NEW n \in 0 .. MaxReserve, Shrink(n) PROVE [BQ!Next]_BQ!vars
  <2>1. n \in Nat /\ buf' = shrink(buf, n) /\ next' = next
    BY <1>10 DEF Shrink, Grown
  <2> QED
    BY <1>0, <1>1, <2>1, ShrinkKeeps
<1>11. CASE UNCHANGED vars
  BY <1>1, <1>11 DEF vars
<1>12. ASSUME BQ!Next PROVE [BQ!Next]_BQ!vars
  BY <1>12
<1> QED
  BY <1>2, <1>4, <1>5, <1>6, <1>7, <1>8, <1>9, <1>10, <1>11, <1>12 DEF Next, BQ!Next

\* Whatever moves, growth, headers and reads into the spare array happen, the readable
\* bytes of a Buffer are those of a plain queue: none is lost, repeated or misplaced.
THEOREM RefinesByteQueue == Spec => ImplementsByteQueue
<1>1. Init => BQ!Init
  <2> SUFFICES ASSUME Init PROVE BQ!Init
    OBVIOUS
  <2>1. Good(NewBuffer) /\ readableBytes(NewBuffer) = 0
    BY NewBufferGood
  <2>2. Readable(NewBuffer) \in Seq(Nat) /\ Len(Readable(NewBuffer)) = 0
    BY <2>1, ReadableType
  <2>3. Readable(NewBuffer) = <<>>
    BY <2>2, EmptySeq
  <2> QED
    BY <2>3 DEF Init, BQ!Init
<1> QED
  BY <1>1, InitInv, NextInv, ByteQueueStep, PTL DEF Spec, ImplementsByteQueue, BQ!Spec

------------------------------------------------------------------------------
(***************************************************************************)
(* The buffers of AsyncLogging, and its LogFile, for any sizes.            *)
(***************************************************************************)

\* Between two iterations the thread has nothing to write, and it writes all of what it has
\* swapped out.
Idle ==
  /\ thread \in {"none", "while", "lock", "wait", "exited"} => buffersToWrite = <<>>
  /\ thread = "drop" => written = 0
  /\ thread = "recycle" => written = Len(buffersToWrite)

\* nextBuffer_ is used when currentBuffer_ was full and went to buffers_. So when the
\* thread replaces both it has swapped out two buffers at least.
Spare ==
  /\ nextBuffer = Null => buffers # <<>>
  /\ thread \in {"drop", "write", "recycle"} =>
       /\ newBuffer1 = Null
       /\ Len(buffersToWrite) >= IF newBuffer2 = Null THEN 2 ELSE 1

\* The inductive invariant of EnoughToRecycle.
SpareInv == LoggingTypeOK /\ Idle /\ Spare

Inc(s) == \A i, j \in 1 .. Len(s) : i < j => s[i] < s[j]
Below(A, B) == \A a \in A, b \in B : a < b

\* buffers with the lines in order
Chain(bs) ==
  /\ \A k \in 1 .. Len(bs) : Inc(bs[k])
  /\ \A k, m \in 1 .. Len(bs) : k < m => Below(Members(bs[k]), Members(bs[m]))

FileLines(l) == UNION {Members(l.files[t]) : t \in Times}
Stored(l) == FileLines(l) \cup Members(l.pending)

\* Each file is in order and no two share a line. Unless a start() found the clock set back (o is
\* FALSE), the files are in the order of their names and the open one is the last.
FilesOK(l, o) ==
  /\ \A t \in Times : Inc(l.files[t])
  /\ \A t, u \in Times : t # u => Members(l.files[t]) \cap Members(l.files[u]) = {}
  /\ o => \A t, u \in Times : t < u => Below(Members(l.files[t]), Members(l.files[u]))
  /\ o => \A t \in Times : t > l.name => l.files[t] = <<>>

LogOK(l, o) ==
  /\ l \in LogFiles(Nat) /\ l.lastRoll = l.name
  /\ FilesOK(l, o)
  /\ Inc(l.pending) /\ Below(FileLines(l), Members(l.pending))

\* what is still to be written
Unwritten == UNION {Members(buffersToWrite[k]) : k \in written + 1 .. Len(buffersToWrite)}

\* From one stage to the next the lines are younger.
InTurn ==
  /\ Below(Stored(log), Unwritten) /\ Below(Stored(log), Lines(buffers))
  /\ Below(Stored(log), Members(currentBuffer))
  /\ Below(Unwritten, Lines(buffers)) /\ Below(Unwritten, Members(currentBuffer))
  /\ Below(Lines(buffers), Members(currentBuffer))

Complete ==
  /\ dropped \subseteq 1 .. appended
  /\ Stored(log) \cup Unwritten \cup Lines(buffers) \cup Members(currentBuffer)
       = (1 .. appended) \ dropped

\* The inductive invariant of NoLineLost.
LinesInv ==
  /\ SpareInv
  /\ LogOK(log, ordered)
  /\ thread \in {"none", "exited"} => log.pending = <<>>
  /\ Inc(currentBuffer) /\ Chain(buffers) /\ Chain(buffersToWrite)
  /\ InTurn /\ Complete

------------------------------------------------------------------------------
(* Sequences of lines *)

LEMMA MembersAre ==
  ASSUME NEW S, NEW s \in Seq(S)
  PROVE  /\ Len(s) \in Nat
         /\ \A x : x \in Members(s) <=> \E i \in 1 .. Len(s) : s[i] = x
         /\ Members(s) \subseteq S
<1>1. DOMAIN s = 1 .. Len(s) /\ Len(s) \in Nat
  BY LenProperties
<1>2. \A i \in 1 .. Len(s) : s[i] \in S
  BY ElementOfSeq
<1> QED
  BY <1>1, <1>2 DEF Members

LEMMA NoMembers == Members(<<>>) = {} /\ Inc(<<>>)
BY DEF Members, Inc

LEMMA WiderSeq ==
  ASSUME NEW S, NEW T, S \subseteq T
  PROVE  Seq(S) \subseteq Seq(T)
<1> SUFFICES ASSUME NEW s \in Seq(S) PROVE s \in Seq(T)
  OBVIOUS
<1>1. Len(s) \in Nat /\ s \in [1 .. Len(s) -> S]
  BY LenProperties
<1>2. s \in [1 .. Len(s) -> T]
  BY <1>1
<1> QED
  BY <1>1, <1>2, SeqDef

LEMMA ConcatMembers ==
  ASSUME NEW S, NEW s \in Seq(S), NEW t \in Seq(S)
  PROVE  Members(s \o t) = Members(s) \cup Members(t)
<1>1. /\ s \o t \in Seq(S) /\ Len(s \o t) = Len(s) + Len(t)
      /\ \A i \in 1 .. Len(s) + Len(t) : (s \o t)[i] = IF i <= Len(s) THEN s[i] ELSE t[i - Len(s)]
      /\ Len(s) \in Nat /\ Len(t) \in Nat
  BY ConcatProperties, LenProperties
<1> DEFINE u == s \o t
<1>2. \A x : x \in Members(u) <=> \E i \in 1 .. Len(u) : u[i] = x
  BY <1>1, MembersAre
<1>3. \A x : x \in Members(s) <=> \E i \in 1 .. Len(s) : s[i] = x
  BY MembersAre
<1>4. \A x : x \in Members(t) <=> \E i \in 1 .. Len(t) : t[i] = x
  BY MembersAre
<1> HIDE DEF u
<1>5. Len(u) = Len(s) + Len(t) /\ \A i \in 1 .. Len(u) : u[i] = IF i <= Len(s) THEN s[i] ELSE t[i - Len(s)]
  BY <1>1 DEF u
<1>6. ASSUME NEW x \in Members(u) PROVE x \in Members(s) \cup Members(t)
  <2>1. PICK i \in 1 .. Len(u) : u[i] = x
    BY <1>2
  <2>2. CASE i <= Len(s)
    BY <1>1, <1>3, <1>5, <2>1, <2>2
  <2>3. CASE ~(i <= Len(s))
    <3>1. i - Len(s) \in 1 .. Len(t) /\ x = t[i - Len(s)]
      BY <1>1, <1>5, <2>1, <2>3
    <3> QED
      BY <1>4, <3>1
  <2> QED
    BY <2>2, <2>3
<1>7. ASSUME NEW x \in Members(s) PROVE x \in Members(u)
  <2>1. PICK i \in 1 .. Len(s) : s[i] = x
    BY <1>3
  <2>2. i \in 1 .. Len(u) /\ u[i] = x
    BY <1>1, <1>5, <2>1
  <2> QED
    BY <1>2, <2>2
<1>8. ASSUME NEW x \in Members(t) PROVE x \in Members(u)
  <2>1. PICK i \in 1 .. Len(t) : t[i] = x
    BY <1>4
  <2>2. i + Len(s) \in 1 .. Len(u) /\ u[i + Len(s)] = x
    BY <1>1, <1>5, <2>1
  <2> QED
    BY <1>2, <2>2
<1> QED
  BY <1>6, <1>7, <1>8 DEF u

LEMMA ConcatInc ==
  ASSUME NEW s \in Seq(Nat), NEW t \in Seq(Nat), Inc(s), Inc(t), Below(Members(s), Members(t))
  PROVE  Inc(s \o t)
<1>1. /\ Len(s \o t) = Len(s) + Len(t)
      /\ \A i \in 1 .. Len(s) + Len(t) : (s \o t)[i] = IF i <= Len(s) THEN s[i] ELSE t[i - Len(s)]
      /\ Len(s) \in Nat /\ Len(t) \in Nat
  BY ConcatProperties, LenProperties
<1>2. \A i \in 1 .. Len(s), j \in 1 .. Len(t) : s[i] < t[j]
  BY MembersAre DEF Below
<1> DEFINE u == s \o t
<1> HIDE DEF u
<1>3. Len(u) = Len(s) + Len(t) /\ \A i \in 1 .. Len(u) : u[i] = IF i <= Len(s) THEN s[i] ELSE t[i - Len(s)]
  BY <1>1 DEF u
<1>4. ASSUME NEW i \in 1 .. Len(u), NEW j \in 1 .. Len(u), i < j PROVE u[i] < u[j]
  <2>1. CASE j <= Len(s)
    BY <1>1, <1>3, <1>4, <2>1 DEF Inc
  <2>2. CASE i > Len(s)
    <3>1. /\ i - Len(s) \in 1 .. Len(t) /\ j - Len(s) \in 1 .. Len(t) /\ i - Len(s) < j - Len(s)
          /\ u[i] = t[i - Len(s)] /\ u[j] = t[j - Len(s)]
      BY <1>1, <1>3, <1>4, <2>2
    <3> QED
      BY <3>1 DEF Inc
  <2>3. CASE i <= Len(s) /\ ~(j <= Len(s))
    <3>1. i \in 1 .. Len(s) /\ j - Len(s) \in 1 .. Len(t) /\ u[i] = s[i] /\ u[j] = t[j - Len(s)]
      BY <1>1, <1>3, <1>4, <2>3
    <3> QED
      BY <1>2, <3>1
  <2> QED
    BY <1>1, <2>1, <2>2, <2>3
<1> QED
  BY <1>4 DEF u, Inc

LEMMA AppendLine ==
  ASSUME NEW s \in Seq(Nat), NEW n \in Nat, Inc(s), \A x \in Members(s) : x < n
  PROVE  Inc(Append(s, n)) /\ Members(Append(s, n)) = Members(s) \cup {n}
<1>1. /\ Append(s, n) \in Seq(Nat) /\ Len(Append(s, n)) = Len(s) + 1 /\ Len(s) \in Nat
      /\ \A i \in 1 .. Len(s) : Append(s, n)[i] = s[i]
      /\ Append(s, n)[Len(s) + 1] = n
  BY AppendProperties, LenProperties
<1> DEFINE u == Append(s, n)
<1>2. \A x : x \in Members(u) <=> \E i \in 1 .. Len(u) : u[i] = x
  BY <1>1, MembersAre
<1>3. \A x : x \in Members(s) <=> \E i \in 1 .. Len(s) : s[i] = x
  BY MembersAre
<1>4. /\ Len(u) = Len(s) + 1 /\ u[Len(s) + 1] = n
      /\ \A i \in 1 .. Len(s) : u[i] = s[i]
      /\ \A i \in 1 .. Len(u) : i \in 1 .. Len(s) \/ i = Len(s) + 1
      /\ \A i \in 1 .. Len(s) : i \in 1 .. Len(u)
      /\ Len(s) + 1 \in 1 .. Len(u)
  BY <1>1
<1> HIDE DEF u
<1>5. Inc(u)
  BY <1>1, <1>3, <1>4 DEF Inc
<1>6. Members(u) = Members(s) \cup {n}
  BY <1>2, <1>3, <1>4
<1> QED
  BY <1>5, <1>6 DEF u

------------------------------------------------------------------------------
(* LogFile: what its operations do to the types and to the lines *)

LEMMA LogFields ==
  ASSUME NEW S, NEW l \in LogFiles(S)
  PROVE  /\ l.files \in [Times -> Seq(S)] /\ l.name \in Times /\ l.isOpen \in BOOLEAN
         /\ l.pending \in Seq(S) /\ l.count \in Nat /\ l.lastRoll \in Times
         /\ l.lastFlush \in Times
BY DEF LogFiles

LEMMA FlushIs ==
  ASSUME NEW S, NEW l \in LogFiles(S)
  PROVE  /\ flush(l) \in LogFiles(S)
         /\ flush(l).pending = <<>>
         /\ flush(l).name = l.name /\ flush(l).lastRoll = l.lastRoll
         /\ flush(l).files[l.name] = l.files[l.name] \o l.pending
         /\ \A t \in Times : t # l.name => flush(l).files[t] = l.files[t]
<1>1. /\ l.files \in [Times -> Seq(S)] /\ l.name \in Times /\ l.pending \in Seq(S)
      /\ l.files[l.name] \in Seq(S)
  BY LogFields
<1>2. CASE l.pending = <<>>
  <2>1. l.files[l.name] \o l.pending = l.files[l.name]
    BY <1>1, <1>2, ConcatEmptySeq
  <2> QED
    BY <1>2, <2>1 DEF flush
<1>3. CASE l.pending # <<>>
  <2> DEFINE both == l.files[l.name] \o l.pending
             files == [l.files EXCEPT ![l.name] = both]
  <2>1. both \in Seq(S)
    BY <1>1, ConcatProperties
  <2>3. flush(l) = [l EXCEPT !.files = files, !.pending = <<>>]
    BY <1>3 DEF flush
  <2> HIDE DEF both
  <2>4. /\ files \in [Times -> Seq(S)] /\ files[l.name] = both
        /\ \A t \in Times : t # l.name => files[t] = l.files[t]
    BY <1>1, <2>1
  <2> HIDE DEF files
  <2>5. /\ flush(l) \in LogFiles(S)
        /\ flush(l).files = files /\ flush(l).pending = <<>>
        /\ flush(l).name = l.name /\ flush(l).lastRoll = l.lastRoll
    BY <2>3, <2>4, EmptySeq DEF LogFiles
  <2> QED
    BY <2>4, <2>5 DEF both
<1> QED
  BY <1>2, <1>3

LEMMA RollIs ==
  ASSUME NEW S, NEW l \in LogFiles(S), NEW time \in Times, NEW later
  PROVE  LET r == rollFile(l, time, later)
         IN  /\ r \in LogFiles(S)
             /\ \/ r = l
                \/ /\ time \in Nat /\ l.lastRoll \in Nat /\ ~(time < l.lastRoll)
                   /\ r.files = flush(l).files /\ r.pending = <<>>
                   /\ r.name = time /\ r.lastRoll = time
<1> DEFINE r == rollFile(l, time, later)
<1>1. CASE time < l.lastRoll \/ (time = l.lastRoll /\ ~later)
  BY <1>1 DEF rollFile
<1>2. CASE ~(time < l.lastRoll \/ (time = l.lastRoll /\ ~later))
  <2> DEFINE f == flush(l)
  <2>1. f \in LogFiles(S) /\ f.pending = <<>>
    BY FlushIs
  <2>2. r = [f EXCEPT !.isOpen = TRUE, !.name = time, !.lastRoll = time, !.lastFlush = time]
    BY <1>2 DEF rollFile
  <2>3. time \in Nat /\ l.lastRoll \in Nat
    BY LogFields DEF Times
  <2> HIDE DEF f, r
  <2>4. r \in LogFiles(S)
    BY <2>1, <2>2 DEF LogFiles
  <2>5. r.files = f.files /\ r.pending = <<>> /\ r.name = time /\ r.lastRoll = time
    BY <2>1, <2>2 DEF LogFiles
  <2> QED
    BY <1>2, <2>3, <2>4, <2>5 DEF f, r
<1> QED
  BY <1>1, <1>2

\* Two logs that differ in nothing but counts and times of flushes.
SameFile(l, m) ==
  /\ m.files = l.files /\ m.pending = l.pending /\ m.name = l.name /\ m.lastRoll = l.lastRoll

LEMMA SameLog ==
  ASSUME NEW l, NEW m \in LogFiles(Nat), NEW o, LogOK(l, o), SameFile(l, m)
  PROVE  LogOK(m, o) /\ Stored(m) = Stored(l)
BY DEF LogOK, SameFile, FilesOK, Stored, FileLines

LEMMA FlushKeeps ==
  ASSUME NEW l, NEW o, LogOK(l, o)
  PROVE  LogOK(flush(l), o) /\ Stored(flush(l)) = Stored(l)
<1> DEFINE f == flush(l)
           n == l.name
<1>1. /\ f \in LogFiles(Nat) /\ f.pending = <<>> /\ f.name = n /\ f.lastRoll = l.lastRoll
      /\ f.files[n] = l.files[n] \o l.pending
      /\ \A t \in Times : t # n => f.files[t] = l.files[t]
  BY FlushIs DEF LogOK
<1>2. /\ l.files \in [Times -> Seq(Nat)] /\ n \in Times /\ l.pending \in Seq(Nat)
      /\ l.files[n] \in Seq(Nat) /\ Inc(l.pending) /\ Below(FileLines(l), Members(l.pending))
      /\ FilesOK(l, o) /\ l.lastRoll = l.name
  BY LogFields DEF LogOK
<1> HIDE DEF f
<1>3. Members(l.files[n]) \subseteq FileLines(l)
  BY <1>2 DEF FileLines
<1>4. Members(f.files[n]) = Members(l.files[n]) \cup Members(l.pending)
  BY <1>1, <1>2, ConcatMembers
<1>5. Below(Members(l.files[n]), Members(l.pending))
  BY <1>2, <1>3 DEF Below
<1>6. Inc(f.files[n])
  BY <1>1, <1>2, <1>5, ConcatInc DEF FilesOK
<1>7. /\ \A t \in Times : Members(l.files[t]) \subseteq FileLines(l) /\ Members(l.files[t]) \subseteq Nat
      /\ Members(l.pending) \subseteq Nat
  BY <1>2, MembersAre DEF FileLines
<1>8. FileLines(f) = FileLines(l) \cup Members(l.pending)
  <2>1. ASSUME NEW x \in FileLines(f) PROVE x \in FileLines(l) \cup Members(l.pending)
    <3>1. PICK t \in Times : x \in Members(f.files[t])
      BY DEF FileLines
    <3> QED
      BY <1>1, <1>4, <3>1 DEF FileLines
  <2>2. ASSUME NEW x \in FileLines(l) PROVE x \in FileLines(f)
    <3>1. PICK t \in Times : x \in Members(l.files[t])
      BY DEF FileLines
    <3> QED
      BY <1>1, <1>4, <3>1 DEF FileLines
  <2>3. Members(l.pending) \subseteq FileLines(f)
    BY <1>2, <1>4 DEF FileLines
  <2> QED
    BY <2>1, <2>2, <2>3
<1> DEFINE P == Members(l.pending)
           A(t) == Members(l.files[t])
           B(t) == Members(f.files[t])
<1>9. \A t \in Times : B(t) = IF t = n THEN A(t) \cup P ELSE A(t)
  BY <1>1, <1>4
<1>10. \A t \in Times : A(t) \cap P = {}
  <2> SUFFICES ASSUME NEW t \in Times, NEW x \in A(t), x \in P PROVE FALSE
    OBVIOUS
  <2>1. x \in Nat /\ x < x
    BY <1>2, <1>7 DEF Below
  <2> QED
    BY <2>1
<1>11. \A t, u \in Times : t # u => A(t) \cap A(u) = {}
  BY <1>2 DEF FilesOK
<1>12. o => \A t, u \in Times : t < u => Below(A(t), A(u))
  BY <1>2 DEF FilesOK
<1>13. o => \A t \in Times : t > n => A(t) = {}
  BY <1>2, NoMembers DEF FilesOK
<1>14. \A t \in Times : Below(A(t), P)
  BY <1>2, <1>7 DEF Below
<1>15. \A t \in Times : t \in Nat
  BY DEF Times
<1>16. FilesOK(f, o)
  <2>1. \A t \in Times : Inc(f.files[t])
    BY <1>1, <1>2, <1>6 DEF FilesOK
  <2>2. o => \A t \in Times : t > f.name => f.files[t] = <<>>
    <3>1. n \in Nat /\ \A t \in Times : t > n => t # n
      BY <1>2, <1>15
    <3> QED
      BY <1>1, <1>2, <3>1 DEF FilesOK
  <2> HIDE DEF A, B, P
  <2>3. ASSUME NEW t \in Times, NEW u \in Times, t # u PROVE B(t) \cap B(u) = {}
    BY <1>9, <1>10, <1>11, <2>3
  <2>4. ASSUME o, NEW t \in Times, NEW u \in Times, t < u PROVE Below(B(t), B(u))
    <3>1. t # u /\ t \in Nat /\ u \in Nat /\ n \in Nat
      BY <1>2, <1>15, <2>4
    <3>2. CASE t = n
      <4>1. A(u) = {} /\ B(u) = A(u)
        BY <1>9, <1>13, <2>4, <3>1, <3>2
      <4> QED
        BY <4>1 DEF Below
    <3>3. CASE u = n
      <4>1. B(u) = A(u) \cup P /\ B(t) = A(t)
        BY <1>9, <3>1, <3>3
      <4>2. Below(A(t), A(u)) /\ Below(A(t), P)
        BY <1>12, <1>14, <2>4
      <4> QED
        BY <4>1, <4>2 DEF Below
    <3>4. CASE t # n /\ u # n
      BY <1>9, <1>12, <2>4, <3>4
    <3> QED
      BY <3>2, <3>3, <3>4
  <2>5. \A t, u \in Times : t # u => B(t) \cap B(u) = {}
    BY <2>3
  <2>6. o => \A t, u \in Times : t < u => Below(B(t), B(u))
    BY <2>4
  <2> QED
    BY <2>1, <2>2, <2>5, <2>6 DEF B, FilesOK
<1>17. Inc(f.pending) /\ Below(FileLines(f), Members(f.pending)) /\ Members(f.pending) = {}
  BY <1>1, NoMembers DEF Below
<1>18. LogOK(f, o)
  BY <1>1, <1>2, <1>16, <1>17 DEF LogOK
<1>19. Stored(f) = Stored(l)
  BY <1>8, <1>17 DEF Stored
<1> QED
  BY <1>18, <1>19 DEF f

LEMMA RollKeeps ==
  ASSUME NEW l, NEW o, LogOK(l, o), NEW time \in Times, NEW later
  PROVE  LogOK(rollFile(l, time, later), o) /\ Stored(rollFile(l, time, later)) = Stored(l)
<1> DEFINE f == flush(l)
           r == rollFile(l, time, later)
<1>1. CASE r = l
  BY <1>1
<1>2. CASE /\ ~(time < l.lastRoll) /\ r.files = f.files /\ r.pending = <<>>
           /\ r.name = time /\ r.lastRoll = time
  <2>1. LogOK(f, o) /\ Stored(f) = Stored(l)
    BY FlushKeeps
  <2>2. /\ l \in LogFiles(Nat) /\ l.lastRoll = l.name
        /\ f.name = l.name /\ f.pending = <<>>
    BY FlushIs DEF LogOK
  <2>3. r \in LogFiles(Nat)
    BY <2>2, RollIs
  <2>4. time \in Nat /\ l.name \in Nat /\ \A t \in Times : t \in Nat
    BY <2>2, LogFields DEF Times
  <2>5. \A t \in Times : t > time => t > f.name
    BY <1>2, <2>2, <2>4
  <2> HIDE DEF f, r
  <2>6. FilesOK(r, o)
    BY <1>2, <2>1, <2>5 DEF LogOK, FilesOK
  <2>7. FileLines(r) = FileLines(f)
    BY <1>2 DEF FileLines
  <2> QED
    BY <1>2, <2>1, <2>2, <2>3, <2>6, <2>7 DEF LogOK, Stored, r
<1> QED
  BY <1>1, <1>2, RollIs DEF LogOK

LEMMA CheckAgeIs ==
  ASSUME NEW S, NEW l \in LogFiles(S), NEW time \in Times, NEW later
  PROVE  /\ checkAge(l, time, later) \in LogFiles(S)
         /\ \/ checkAge(l, time, later) = rollFile(l, time, later)
            \/ checkAge(l, time, later) = l
            \/ \E m \in LogFiles(S) : SameFile(l, m) /\ checkAge(l, time, later) = flush(m)
<1> DEFINE m == [l EXCEPT !.lastFlush = time]
<1>1. m \in LogFiles(S) /\ SameFile(l, m)
  BY DEF LogFiles, SameFile
<1> HIDE DEF m
<1>2. \/ checkAge(l, time, later) = rollFile(l, time, later)
      \/ checkAge(l, time, later) = flush(m)
      \/ checkAge(l, time, later) = l
  BY DEF checkAge, m
<1>3. rollFile(l, time, later) \in LogFiles(S) /\ flush(m) \in LogFiles(S)
  BY <1>1, RollIs, FlushIs
<1> QED
  BY <1>1, <1>2, <1>3

LEMMA CheckAgeKeeps ==
  ASSUME NEW l, NEW o, LogOK(l, o), NEW time \in Times, NEW later
  PROVE  LogOK(checkAge(l, time, later), o) /\ Stored(checkAge(l, time, later)) = Stored(l)
<1>1. l \in LogFiles(Nat)
  BY DEF LogOK
<1>2. CASE checkAge(l, time, later) = rollFile(l, time, later)
  BY <1>2, RollKeeps
<1>3. CASE checkAge(l, time, later) = l
  BY <1>3
<1>4. ASSUME NEW m \in LogFiles(Nat), SameFile(l, m), checkAge(l, time, later) = flush(m)
      PROVE  LogOK(checkAge(l, time, later), o) /\ Stored(checkAge(l, time, later)) = Stored(l)
  <2>1. LogOK(m, o) /\ Stored(m) = Stored(l)
    BY <1>4, SameLog
  <2> QED
    BY <1>4, <2>1, FlushKeeps
<1> QED
  BY <1>1, <1>2, <1>3, <1>4, CheckAgeIs

\* append_unlocked first gives the lines to the stream if a file is open, then flushes,
\* rolls or does neither.
Given(l, lines) == IF l.isOpen THEN [l EXCEPT !.pending = @ \o lines] ELSE l

LEMMA GivenIs ==
  ASSUME NEW S, NEW l \in LogFiles(S), NEW lines \in Seq(S)
  PROVE  /\ Given(l, lines) \in LogFiles(S)
         /\ l.isOpen => /\ Given(l, lines).pending = l.pending \o lines
                        /\ Given(l, lines).files = l.files
                        /\ Given(l, lines).name = l.name
                        /\ Given(l, lines).lastRoll = l.lastRoll
<1>1. CASE l.isOpen
  <2> DEFINE both == l.pending \o lines
  <2>1. both \in Seq(S)
    BY LogFields, ConcatProperties
  <2>2. Given(l, lines) = [l EXCEPT !.pending = both]
    BY <1>1 DEF Given, LogFiles
  <2> HIDE DEF both
  <2>3. /\ Given(l, lines) \in LogFiles(S)
        /\ Given(l, lines).pending = both /\ Given(l, lines).files = l.files
        /\ Given(l, lines).name = l.name /\ Given(l, lines).lastRoll = l.lastRoll
    BY <2>1, <2>2 DEF LogFiles
  <2> QED
    BY <2>3 DEF both
<1>2. CASE ~l.isOpen
  BY <1>2 DEF Given
<1> QED
  BY <1>1, <1>2

LEMMA GivenKeeps ==
  ASSUME NEW l, NEW o, LogOK(l, o), NEW lines \in Seq(Nat), Inc(lines),
         Below(Stored(l), Members(lines))
  PROVE  /\ LogOK(Given(l, lines), o)
         /\ l.isOpen => Stored(Given(l, lines)) = Stored(l) \cup Members(lines)
         /\ ~l.isOpen => Stored(Given(l, lines)) = Stored(l)
<1> DEFINE g == Given(l, lines)
<1>a. CASE l.isOpen
  <2>1. /\ g \in LogFiles(Nat) /\ g.pending = l.pending \o lines /\ g.files = l.files
        /\ g.name = l.name /\ g.lastRoll = l.lastRoll
    BY <1>a, GivenIs DEF LogOK
  <2>2. /\ l.pending \in Seq(Nat) /\ Inc(l.pending) /\ Below(FileLines(l), Members(l.pending))
        /\ FilesOK(l, o) /\ l.lastRoll = l.name
    BY LogFields DEF LogOK
  <2> HIDE DEF g
  <2>3. Members(g.pending) = Members(l.pending) \cup Members(lines)
    BY <2>1, <2>2, ConcatMembers
  <2>4. FileLines(g) = FileLines(l)
    BY <2>1 DEF FileLines
  <2>5. Below(Members(l.pending), Members(lines)) /\ Below(FileLines(l), Members(lines))
    BY DEF Stored, Below
  <2>6. Inc(g.pending)
    BY <2>1, <2>2, <2>5, ConcatInc
  <2>7. Below(FileLines(g), Members(g.pending))
    BY <2>2, <2>3, <2>4, <2>5 DEF Below
  <2>8. FilesOK(g, o)
    BY <2>1, <2>2 DEF FilesOK
  <2>9. LogOK(g, o)
    BY <2>1, <2>2, <2>6, <2>7, <2>8 DEF LogOK
  <2>10. Stored(g) = Stored(l) \cup Members(lines)
    BY <2>3, <2>4 DEF Stored
  <2> QED
    BY <1>a, <2>9, <2>10 DEF g
<1>b. CASE ~l.isOpen
  BY <1>b DEF Given
<1> QED
  BY <1>a, <1>b

LEMMA AppendUnlockedIs ==
  ASSUME NEW S, NEW l \in LogFiles(S), NEW lines \in Seq(S), NEW time \in Times,
         NEW through \in BOOLEAN, NEW later
  PROVE  LET a == append_unlocked(l, lines, time, through, later)
         IN  \E put, m \in LogFiles(S) :
               /\ put = Given(l, lines) \/ put = flush(Given(l, lines))
               /\ SameFile(put, m)
               /\ a = rollFile(put, time, later) \/ a = checkAge(m, time, later) \/ a = m
<1> DEFINE a == append_unlocked(l, lines, time, through, later)
           g == Given(l, lines)
           put == IF through THEN flush(g) ELSE g
           zero == [put EXCEPT !.count = 0]
           one == [put EXCEPT !.count = @ + 1]
<1>1. g \in LogFiles(S)
  BY GivenIs
<1>2. put \in LogFiles(S) /\ (put = g \/ put = flush(g))
  BY <1>1, FlushIs
<1>3. a = rollFile(put, time, later) \/ a = checkAge(zero, time, later) \/ a = one
  BY DEF append_unlocked, Given
<1> HIDE DEF put, g, a
<1>4. zero \in LogFiles(S) /\ SameFile(put, zero)
  BY <1>2 DEF LogFiles, SameFile
<1>5. one \in LogFiles(S) /\ SameFile(put, one)
  <2> DEFINE k == put.count + 1
  <2>1. put.count \in Nat
    BY <1>2, LogFields
  <2>2. k \in Nat
    BY <2>1
  <2>3. one = [put EXCEPT !.count = k]
    OBVIOUS
  <2> HIDE DEF k, one
  <2> QED
    BY <1>2, <2>2, <2>3 DEF LogFiles, SameFile
<1> HIDE DEF zero, one
<1> QED
  BY <1>2, <1>3, <1>4, <1>5 DEF g, a

LEMMA AppendUnlockedKeeps ==
  ASSUME NEW l, NEW o, LogOK(l, o), NEW lines \in Seq(Nat), Inc(lines),
         Below(Stored(l), Members(lines)), NEW time \in Times, NEW through \in BOOLEAN, NEW later
  PROVE  LET a == append_unlocked(l, lines, time, through, later)
         IN  /\ LogOK(a, o)
             /\ l.isOpen => Stored(a) = Stored(l) \cup Members(lines)
             /\ ~l.isOpen => Stored(a) = Stored(l)
<1> DEFINE a == append_unlocked(l, lines, time, through, later)
<1>1. l \in LogFiles(Nat)
  BY DEF LogOK
<1>2. PICK put \in LogFiles(Nat), m \in LogFiles(Nat) :
        /\ put = Given(l, lines) \/ put = flush(Given(l, lines))
        /\ SameFile(put, m)
        /\ a = rollFile(put, time, later) \/ a = checkAge(m, time, later) \/ a = m
  BY <1>1, AppendUnlockedIs
<1> HIDE DEF a
<1>3. LogOK(put, o) /\ Stored(put) = Stored(Given(l, lines))
  BY <1>2, GivenKeeps, FlushKeeps
<1>4. LogOK(m, o) /\ Stored(m) = Stored(put)
  BY <1>2, <1>3, SameLog
<1>5. LogOK(a, o) /\ Stored(a) = Stored(put)
  BY <1>2, <1>3, <1>4, RollKeeps, CheckAgeKeeps
<1> QED
  BY <1>3, <1>5, GivenKeeps DEF a

LEMMA AppendUnlockedType ==
  ASSUME NEW S, NEW l \in LogFiles(S), NEW lines \in Seq(S), NEW time \in Times,
         NEW through \in BOOLEAN, NEW later
  PROVE  append_unlocked(l, lines, time, through, later) \in LogFiles(S)
BY AppendUnlockedIs, RollIs, CheckAgeIs

LEMMA WiderLog ==
  ASSUME NEW S, NEW T, S \subseteq T
  PROVE  LogFiles(S) \subseteq LogFiles(T)
<1>1. Seq(S) \subseteq Seq(T)
  BY WiderSeq
<1> QED
  BY <1>1 DEF LogFiles

LEMMA OpenIs ==
  ASSUME NEW S, NEW files \in [Times -> Seq(S)], NEW time \in Times, NEW later
  PROVE  LET l == Open(files, time, later)
         IN  /\ l \in LogFiles(S)
             /\ l.files = files /\ l.pending = <<>>
             /\ l.name = time /\ l.lastRoll = time
<1> DEFINE n == [files |-> files, isOpen |-> FALSE, name |-> time, pending |-> <<>>,
                 count |-> 0, lastRoll |-> time, lastFlush |-> time]
           l == Open(files, time, later)
<1>1. /\ n \in LogFiles(S) /\ n.files = files /\ n.pending = <<>>
      /\ n.name = time /\ n.lastRoll = time
  BY EmptySeq DEF LogFiles
<1>2. l = rollFile(n, time, later)
  BY DEF Open
<1>3. flush(n) = n
  BY DEF flush
<1> HIDE DEF n, l
<1> QED
  BY <1>1, <1>2, <1>3, RollIs DEF l

------------------------------------------------------------------------------
(* The spare buffers *)

LEMMA SpareInit ==
  ASSUME LoggingInit
  PROVE  SpareInv
<1>0. <<>> \in Seq(Nat) /\ <<>> \in Seq(1 .. appended) /\ <<>> \in Seq(Buffers)
  BY EmptySeq
<1>1. Null # <<>> /\ 0 \in Times /\ 0 \in 0 .. MaxLines
  <2>1. Null # <<>>
    BY <1>0, LoggingAssumption
  <2>2. MaxTime \in Nat /\ MaxLines \in Nat
    BY LoggingAssumption, LogFileAssumption
  <2> QED
    BY <2>1, <2>2 DEF Times
<1>2. NoFiles \in [Times -> Seq(1 .. appended)]
  BY <1>0 DEF NoFiles
<1>3. log \in LogFiles(1 .. appended)
  BY <1>1, <1>2, OpenIs DEF LoggingInit
<1>4. LoggingTypeOK
  <2>1. /\ currentBuffer = <<>> /\ nextBuffer = <<>> /\ buffers = <<>> /\ buffersToWrite = <<>>
        /\ running = FALSE /\ newBuffer1 = Null /\ newBuffer2 = Null /\ thread = "none"
        /\ owner = "idle" /\ appended = 0 /\ now = 0 /\ written = 0
    BY DEF LoggingInit
  <2>2. currentBuffer \in Buffers
    BY <1>0, <2>1 DEF Buffers
  <2>3. buffers \in Seq(Buffers) /\ buffersToWrite \in Seq(Buffers)
    BY <1>0, <2>1
  <2>4. appended \in 0 .. MaxLines /\ now \in Times /\ written \in 0 .. Len(buffersToWrite)
    BY <1>1, <2>1
  <2> QED
    BY <1>1, <1>3, <2>1, <2>2, <2>3, <2>4 DEF LoggingTypeOK, ThreadPCs
<1> QED
  BY <1>1, <1>4 DEF SpareInv, Idle, Spare, LoggingInit

LEMMA AppendType ==
  ASSUME SpareInv, appendLine
  PROVE  SpareInv'
<1>1. /\ appended \in Nat /\ appended' = appended + 1 /\ appended' \in 0 .. MaxLines
      /\ 1 .. appended \subseteq 1 .. appended' /\ appended' \in 1 .. appended'
  BY LoggingAssumption DEF SpareInv, LoggingTypeOK, appendLine
<1>2. Buffers \subseteq Buffers' /\ log \in LogFiles(1 .. appended')
  BY <1>1, WiderSeq, WiderLog DEF Buffers, SpareInv, LoggingTypeOK
<1>3. Seq(Buffers) \subseteq Seq(Buffers')
  BY <1>2, WiderSeq
<1>4. UNCHANGED <<running, newBuffer1, newBuffer2, buffersToWrite, written, thread, owner, log, now>>
  BY DEF appendLine, localVars, fileVars
<1>5. /\ currentBuffer \in Buffers' /\ buffers \in Seq(Buffers') /\ buffersToWrite \in Seq(Buffers')
      /\ <<>> \in Buffers'
  BY <1>2, <1>3, EmptySeq DEF SpareInv, LoggingTypeOK, Buffers
<1>6. \A b \in Buffers' : Append(b, appended') \in Buffers'
  BY <1>1, AppendProperties DEF Buffers
<1>7. CASE /\ currentBuffer' = Append(currentBuffer, appended + 1)
           /\ UNCHANGED <<nextBuffer, buffers>>
  <2>1. currentBuffer' \in Buffers'
    BY <1>1, <1>5, <1>6, <1>7
  <2> QED
    BY <1>1, <1>2, <1>4, <1>5, <1>7, <2>1 DEF SpareInv, Idle, Spare, LoggingTypeOK
<1>8. CASE appendNewBuffer(appended + 1)
  <2>1. buffers' \in Seq(Buffers') /\ buffers' # <<>>
    BY <1>5, <1>8, AppendProperties DEF appendNewBuffer
  <2>2. currentBuffer' \in Buffers' /\ nextBuffer' = Null
    BY <1>1, <1>5, <1>6, <1>8 DEF appendNewBuffer, SpareInv, LoggingTypeOK
  <2> QED
    BY <1>1, <1>2, <1>4, <1>5, <2>1, <2>2 DEF SpareInv, Idle, Spare, LoggingTypeOK
<1> QED
  BY <1>7, <1>8 DEF appendLine

LEMMA SpareStep ==
  ASSUME SpareInv, [LoggingNext]_loggingVars
  PROVE  SpareInv'
<1>0. Null # <<>> /\ <<>> \in Seq(Buffers) /\ MaxToWrite \in Nat /\ MaxToWrite >= 2
  BY EmptySeq, LoggingAssumption
<1> DEFINE V == <<currentBuffer, nextBuffer, buffers, appended>>
<1>t. ASSUME UNCHANGED V PROVE (Buffers)' = Buffers
  BY <1>t DEF Buffers
<1>1. ASSUME appendLine PROVE SpareInv'
  BY <1>1, AppendType
<1>2. ASSUME start PROVE SpareInv'
  <2>1. log' \in LogFiles(1 .. appended)
    <3>1. PICK later \in BOOLEAN : log' = Open(log.files, now, later)
      BY <1>2 DEF start
    <3>2. log.files \in [Times -> Seq(1 .. appended)] /\ now \in Times
      BY LogFields DEF SpareInv, LoggingTypeOK
    <3> QED
      BY <3>1, <3>2, OpenIs
  <2>2. UNCHANGED V /\ UNCHANGED <<owner, now>> /\ running' = TRUE /\ thread' = "while"
        /\ newBuffer1' = <<>> /\ newBuffer2' = <<>> /\ buffersToWrite' = <<>> /\ written' = 0
    BY <1>2 DEF start, callerVars
  <2> QED
    BY <1>0, <1>t, <2>1, <2>2 DEF SpareInv, Idle, Spare, LoggingTypeOK, ThreadPCs
<1>3. ASSUME stop \/ join PROVE SpareInv'
  <2>1. /\ UNCHANGED V /\ UNCHANGED <<now, newBuffer1, newBuffer2, buffersToWrite, written, log>>
        /\ running' \in BOOLEAN /\ owner' \in {"idle", "join"}
        /\ thread' = thread \/ (thread = "exited" /\ thread' = "none")
    BY <1>3 DEF stop, join, callerVars, localVars, fileVars, SpareInv, LoggingTypeOK
  <2> QED
    BY <1>t, <2>1 DEF SpareInv, Idle, Spare, LoggingTypeOK, ThreadPCs
<1>4. ASSUME While PROVE SpareInv'
  <2>1. log' \in LogFiles(1 .. appended)
    BY <1>4, FlushIs DEF While, SpareInv, LoggingTypeOK
  <2>2. /\ UNCHANGED V /\ UNCHANGED <<running, owner, now, newBuffer1, newBuffer2, buffersToWrite, written>>
        /\ thread = "while" /\ thread' \in {"lock", "exited"}
    BY <1>4 DEF While, callerVars, localVars
  <2> QED
    BY <1>t, <2>1, <2>2 DEF SpareInv, Idle, Spare, LoggingTypeOK, ThreadPCs
<1>5. ASSUME Swap PROVE SpareInv'
  <2>1. /\ thread \in {"wait", "lock"} /\ buffersToWrite = <<>> /\ written = 0
        /\ newBuffer1 = <<>> /\ newBuffer2 = <<>>
    BY <1>5 DEF Swap, SpareInv, Idle, LoggingTypeOK
  <2>2. /\ currentBuffer \in Buffers /\ buffers \in Seq(Buffers)
        /\ nextBuffer = Null => Len(buffers) >= 1
    BY DEF SpareInv, Spare, LoggingTypeOK
  <2>3. /\ buffersToWrite' \in Seq(Buffers) /\ Len(buffersToWrite') = Len(buffers) + 1
        /\ Len(buffers) \in Nat
    BY <1>5, <2>2, AppendProperties, LenProperties DEF Swap
  <2>4. /\ buffers' = <<>> /\ currentBuffer' = <<>> /\ newBuffer1' = Null /\ nextBuffer' = <<>>
        /\ newBuffer2' = IF nextBuffer = Null THEN Null ELSE <<>>
    BY <1>5, <2>1 DEF Swap, refillNext, SpareInv, LoggingTypeOK
  <2>5. thread' = "drop" /\ UNCHANGED <<written, running, owner, appended, log, now>>
    BY <1>5 DEF Swap, fileVars
  <2>6. Buffers' = Buffers /\ <<>> \in Buffers
    BY <2>5, EmptySeq DEF Buffers
  <2>7. LoggingTypeOK'
    BY <1>0, <2>1, <2>3, <2>4, <2>5, <2>6 DEF SpareInv, LoggingTypeOK, ThreadPCs
  <2>8. Idle' /\ Spare'
    BY <1>0, <2>1, <2>2, <2>3, <2>4, <2>5 DEF Idle, Spare
  <2> QED
    BY <2>7, <2>8 DEF SpareInv
<1>6. ASSUME Wait \/ WriteDone PROVE SpareInv'
  <2>1. /\ UNCHANGED V
        /\ UNCHANGED <<running, owner, now, newBuffer1, newBuffer2, buffersToWrite, written, log>>
        /\ \/ thread = "lock" /\ thread' = "wait"
           \/ thread = "write" /\ thread' = "recycle" /\ written = Len(buffersToWrite)
    BY <1>6 DEF Wait, WriteDone, callerVars, localVars, fileVars
  <2> QED
    BY <1>t, <2>1 DEF SpareInv, Idle, Spare, LoggingTypeOK, ThreadPCs
<1>7. ASSUME Drop PROVE SpareInv'
  <2>1. /\ UNCHANGED V /\ UNCHANGED <<running, owner, now, newBuffer1, newBuffer2, written, log>>
        /\ thread = "drop" /\ thread' = "write" /\ written = 0
    BY <1>7 DEF Drop, callerVars, fileVars, SpareInv, Idle
  <2>2. buffersToWrite \in Seq(Buffers) /\ Len(buffersToWrite) \in Nat
    BY LenProperties DEF SpareInv, LoggingTypeOK
  <2>3. CASE UNCHANGED buffersToWrite
    BY <1>t, <2>1, <2>2, <2>3 DEF SpareInv, Idle, Spare, LoggingTypeOK, ThreadPCs
  <2>4. CASE Len(buffersToWrite) > MaxToWrite /\ buffersToWrite' = SubSeq(buffersToWrite, 1, 2)
    <3>1. 2 <= Len(buffersToWrite)
      BY <1>0, <2>2, <2>4
    <3>2. buffersToWrite' \in Seq(Buffers) /\ Len(buffersToWrite') = 2
      <4>1. \A i \in 1 .. 2 : buffersToWrite[i] \in Buffers
        BY <2>2, <3>1, ElementOfSeq
      <4> QED
        BY <2>2, <2>4, <3>1, <4>1, SubSeqProperties
    <3> QED
      BY <1>t, <2>1, <3>2 DEF SpareInv, Idle, Spare, LoggingTypeOK, ThreadPCs
  <2> QED
    BY <1>7, <2>3, <2>4 DEF Drop
<1>8. ASSUME Write PROVE SpareInv'
  <2>1. PICK through \in BOOLEAN, later \in BOOLEAN :
          log' = append_unlocked(log, buffersToWrite[written + 1], now, through, later)
    BY <1>8 DEF Write
  <2>2. /\ buffersToWrite \in Seq(Buffers) /\ Len(buffersToWrite) \in Nat
        /\ log \in LogFiles(1 .. appended) /\ now \in Times
        /\ written \in Nat /\ written + 1 \in 1 .. Len(buffersToWrite)
    BY <1>8, LenProperties DEF Write, SpareInv, LoggingTypeOK
  <2>3. buffersToWrite[written + 1] \in Seq(1 .. appended)
    BY <2>2, ElementOfSeq DEF Buffers
  <2>4. log' \in LogFiles(1 .. appended)
    BY <2>1, <2>2, <2>3, AppendUnlockedType
  <2>5. /\ UNCHANGED V /\ UNCHANGED <<running, owner, now, newBuffer1, newBuffer2, buffersToWrite, thread>>
        /\ thread = "write" /\ written' = written + 1 /\ written' \in 0 .. Len(buffersToWrite)
    BY <1>8, <2>2 DEF Write, callerVars
  <2> QED
    BY <1>t, <2>4, <2>5 DEF SpareInv, Idle, Spare, LoggingTypeOK, ThreadPCs
<1>9. ASSUME Recycle PROVE SpareInv'
  <2>1. log' \in LogFiles(1 .. appended)
    BY <1>9, FlushIs DEF Recycle, SpareInv, LoggingTypeOK
  <2>2. /\ UNCHANGED V /\ UNCHANGED <<running, owner, now>>
        /\ thread' = "while" /\ buffersToWrite' = <<>> /\ written' = 0
        /\ newBuffer1' = <<>> /\ newBuffer2' = <<>>
    BY <1>9 DEF Recycle, callerVars, reused, SpareInv, LoggingTypeOK
  <2> QED
    BY <1>0, <1>t, <2>1, <2>2 DEF SpareInv, Idle, Spare, LoggingTypeOK, ThreadPCs
<1>10. ASSUME Clock PROVE SpareInv'
  <2>1. /\ UNCHANGED V /\ now' \in Times
        /\ UNCHANGED <<running, owner, newBuffer1, newBuffer2, buffersToWrite, written, thread, log>>
    BY <1>10 DEF Clock, callerVars, localVars
  <2> QED
    BY <1>t, <2>1 DEF SpareInv, Idle, Spare, LoggingTypeOK
<1>11. ASSUME UNCHANGED loggingVars PROVE SpareInv'
  <2>1. /\ UNCHANGED V
        /\ UNCHANGED <<running, owner, newBuffer1, newBuffer2, buffersToWrite, written, thread, log, now>>
    BY <1>11 DEF loggingVars, callerVars, localVars, fileVars
  <2> QED
    BY <1>t, <2>1 DEF SpareInv, Idle, Spare, LoggingTypeOK
<1> QED
  BY <1>1, <1>2, <1>3, <1>4, <1>5, <1>6, <1>7, <1>8, <1>9, <1>10, <1>11 DEF LoggingNext, threadFunc

\* When the thread takes its spare buffers from the back of buffersToWrite there are
\* enough of them, whatever callers append meanwhile.
THEOREM EnoughToRecycleCorrect ==
  LoggingSpec => []EnoughToRecycle
<1>1. LoggingInit => SpareInv
  BY SpareInit
<1>2. SpareInv /\ [LoggingNext]_loggingVars => SpareInv'
  BY SpareStep
<1>3. SpareInv => EnoughToRecycle
  <2> SUFFICES ASSUME SpareInv, thread = "recycle"
               PROVE  newBuffer1 = Null /\ kept >= IF newBuffer2 = Null THEN 2 ELSE 1
    BY DEF EnoughToRecycle, SpareInv
  <2>1. Len(buffersToWrite) \in Nat
    BY LenProperties DEF SpareInv, LoggingTypeOK
  <2> QED
    BY <2>1 DEF SpareInv, Spare, kept
<1> QED
  BY <1>1, <1>2, <1>3, PTL DEF LoggingSpec

------------------------------------------------------------------------------
(* The lines *)

LEMMA LinesAre ==
  ASSUME NEW bs \in Seq(Seq(Nat))
  PROVE  /\ Len(bs) \in Nat
         /\ \A k \in 1 .. Len(bs) : bs[k] \in Seq(Nat) /\ Members(bs[k]) \subseteq Nat
         /\ \A x : x \in Lines(bs) <=> \E k \in 1 .. Len(bs) : x \in Members(bs[k])
<1>1. DOMAIN bs = 1 .. Len(bs) /\ Len(bs) \in Nat
  BY LenProperties
<1>2. \A k \in 1 .. Len(bs) : bs[k] \in Seq(Nat)
  BY ElementOfSeq
<1>3. \A k \in 1 .. Len(bs) : Members(bs[k]) \subseteq Nat
  BY <1>2, MembersAre
<1> QED
  BY <1>1, <1>2, <1>3 DEF Lines

LEMMA NoLines == Lines(<<>>) = {} /\ Chain(<<>>)
BY DEF Lines, Chain

LEMMA AppendBuffer ==
  ASSUME NEW bs \in Seq(Seq(Nat)), NEW b \in Seq(Nat), Chain(bs), Inc(b),
         Below(Lines(bs), Members(b))
  PROVE  /\ Append(bs, b) \in Seq(Seq(Nat)) /\ Chain(Append(bs, b))
         /\ Lines(Append(bs, b)) = Lines(bs) \cup Members(b)
<1> DEFINE u == Append(bs, b)
<1>1. /\ u \in Seq(Seq(Nat)) /\ Len(u) = Len(bs) + 1 /\ Len(bs) \in Nat /\ u[Len(bs) + 1] = b
      /\ \A k \in 1 .. Len(bs) : u[k] = bs[k]
  BY AppendProperties, LenProperties
<1> HIDE DEF u
<1>2. /\ \A k \in 1 .. Len(u) : k \in 1 .. Len(bs) \/ k = Len(bs) + 1
      /\ \A k \in 1 .. Len(bs) : k \in 1 .. Len(u)
      /\ Len(bs) + 1 \in 1 .. Len(u)
  BY <1>1
<1>3. \A x : x \in Lines(u) <=> \E k \in 1 .. Len(u) : x \in Members(u[k])
  BY <1>1, LinesAre
<1>4. \A x : x \in Lines(bs) <=> \E k \in 1 .. Len(bs) : x \in Members(bs[k])
  BY LinesAre
<1>5. Lines(u) = Lines(bs) \cup Members(b)
  BY <1>1, <1>2, <1>3, <1>4
<1>6. \A k \in 1 .. Len(u) : Inc(u[k])
  BY <1>1, <1>2 DEF Chain
<1>7. ASSUME NEW k \in 1 .. Len(u), NEW m \in 1 .. Len(u), k < m
      PROVE  Below(Members(u[k]), Members(u[m]))
  <2>1. k \in 1 .. Len(bs) /\ u[k] = bs[k]
    BY <1>1, <1>7
  <2>2. CASE m \in 1 .. Len(bs)
    BY <1>1, <1>7, <2>1, <2>2 DEF Chain
  <2>3. CASE m = Len(bs) + 1
    <3>1. Members(bs[k]) \subseteq Lines(bs)
      BY <1>4, <2>1
    <3> QED
      BY <1>1, <2>1, <2>3, <3>1 DEF Below
  <2> QED
    BY <1>2, <2>2, <2>3
<1> QED
  BY <1>1, <1>5, <1>6, <1>7 DEF u, Chain

\* What SpareInv says of the types, in natural numbers.
LEMMA NumberTypes ==
  ASSUME SpareInv
  PROVE  /\ currentBuffer \in Seq(Nat) /\ buffers \in Seq(Seq(Nat)) /\ buffersToWrite \in Seq(Seq(Nat))
         /\ log \in LogFiles(Nat) /\ appended \in Nat /\ now \in Times
         /\ Len(buffersToWrite) \in Nat /\ written \in 0 .. Len(buffersToWrite)
<1>1. 1 .. appended \subseteq Nat /\ appended \in Nat
  BY DEF SpareInv, LoggingTypeOK
<1>2. Buffers \subseteq Seq(Nat) /\ LogFiles(1 .. appended) \subseteq LogFiles(Nat)
  BY <1>1, WiderSeq, WiderLog DEF Buffers
<1>3. Seq(Buffers) \subseteq Seq(Seq(Nat))
  BY <1>2, WiderSeq
<1>4. Len(buffersToWrite) \in Nat
  BY LenProperties DEF SpareInv, LoggingTypeOK
<1> QED
  BY <1>1, <1>2, <1>3, <1>4 DEF SpareInv, LoggingTypeOK

LEMMA NothingUnwritten ==
  ASSUME SpareInv, written = Len(buffersToWrite)
  PROVE  Unwritten = {}
BY NumberTypes DEF Unwritten

LEMMA LinesInit ==
  ASSUME LoggingInit
  PROVE  LinesInv
<1>1. SpareInv
  BY SpareInit
<1>2. /\ currentBuffer = <<>> /\ buffers = <<>> /\ buffersToWrite = <<>> /\ written = 0 /\ appended = 0
      /\ dropped = {} /\ now = 0
  BY DEF LoggingInit
<1>3. Unwritten = {}
  BY <1>1, <1>2, NothingUnwritten
<1>4. /\ log.files = NoFiles /\ log.pending = <<>> /\ log.lastRoll = log.name
      /\ log \in LogFiles(Nat)
  <2>1. 0 \in Times /\ NoFiles \in [Times -> Seq(Nat)]
    BY <1>1, <1>2, EmptySeq, NumberTypes DEF NoFiles
  <2>2. PICK later \in BOOLEAN : log = Open(NoFiles, 0, later)
    BY <1>2, Zenon DEF LoggingInit
  <2> QED
    BY <2>1, <2>2, OpenIs
<1>5. \A t \in Times : log.files[t] = <<>>
  BY <1>4 DEF NoFiles
<1>6. FileLines(log) = {} /\ Stored(log) = {}
  BY <1>4, <1>5, NoMembers DEF FileLines, Stored
<1>7. FilesOK(log, ordered)
  BY <1>5, NoMembers DEF FilesOK, Below
<1>8. LogOK(log, ordered)
  BY <1>4, <1>6, <1>7, NoMembers DEF LogOK, Below
<1>9. InTurn
  BY <1>2, <1>3, <1>6 DEF InTurn, Below, Lines
<1>10. Complete
  BY <1>2, <1>3, <1>6, NoMembers, NoLines DEF Complete
<1> QED
  BY <1>1, <1>2, <1>4, <1>8, <1>9, <1>10, NoMembers, NoLines DEF LinesInv

\* Which lines each stage has; a step that leaves them alone has little to show.
LEMMA LinesSame ==
  ASSUME LinesInv, SpareInv', LogOK(log, ordered)', Stored(log)' = Stored(log),
         UNCHANGED <<currentBuffer, buffers, appended, dropped>>,
         Chain(buffersToWrite)', Unwritten' = Unwritten,
         thread' \in {"none", "exited"} => log'.pending = <<>>
  PROVE  LinesInv'
BY DEF LinesInv, InTurn, Complete

LEMMA AppendKeeps ==
  ASSUME LinesInv, SpareInv', appendLine
  PROVE  LinesInv'
<1> DEFINE n == appended + 1
           A == Stored(log)
           B == Unwritten
           C == Lines(buffers)
           D == Members(currentBuffer)
<1>0. SpareInv /\ InTurn /\ Complete
  BY DEF LinesInv
<1>1. /\ currentBuffer \in Seq(Nat) /\ buffers \in Seq(Seq(Nat)) /\ appended \in Nat /\ n \in Nat
      /\ Inc(currentBuffer) /\ Chain(buffers) /\ nextBuffer \in {Null, <<>>}
  BY <1>0, NumberTypes DEF LinesInv, SpareInv, LoggingTypeOK
<1>2. /\ UNCHANGED <<thread, buffersToWrite, written, log, ordered, dropped>> /\ appended' = n
  BY DEF appendLine, localVars, fileVars
<1>3. A' = A /\ B' = B
  BY <1>2 DEF Stored, FileLines, Unwritten
<1>4. /\ A \cup B \cup C \cup D = (1 .. appended) \ dropped /\ dropped \subseteq 1 .. appended
      /\ Below(A, B) /\ Below(A, C) /\ Below(A, D) /\ Below(B, C) /\ Below(B, D) /\ Below(C, D)
  BY <1>0 DEF InTurn, Complete
<1>5. LogOK(log, ordered)' /\ Chain(buffersToWrite)' /\ (thread' \in {"none", "exited"} => log'.pending = <<>>)
  BY <1>2 DEF LinesInv, LogOK, FilesOK, FileLines
<1>6. /\ \A x \in 1 .. appended : x < n
      /\ 1 .. n = (1 .. appended) \cup {n} /\ n \notin 1 .. appended
  BY <1>1
<1> HIDE DEF n, A, B, C, D
<1>7. /\ \A x \in A \cup B \cup C \cup D : x < n
      /\ A \cup B \cup C \cup D \cup {n} = (1 .. n) \ dropped /\ dropped \subseteq 1 .. n
  BY <1>4, <1>6
<1>8. CASE currentBuffer' = Append(currentBuffer, n) /\ UNCHANGED buffers
  <2>1. Inc(currentBuffer') /\ D' = D \cup {n}
    BY <1>1, <1>7, <1>8, AppendLine DEF D
  <2>2. C' = C
    BY <1>8 DEF C
  <2>3. /\ A' \cup B' \cup C' \cup D' = (1 .. appended') \ dropped' /\ dropped' \subseteq 1 .. appended'
    BY <1>2, <1>3, <1>7, <2>1, <2>2
  <2>4. /\ Below(A', B') /\ Below(A', C') /\ Below(A', D') /\ Below(B', C') /\ Below(B', D') /\ Below(C', D')
    BY <1>3, <1>4, <1>7, <2>1, <2>2 DEF Below
  <2> QED
    BY <1>1, <1>5, <1>8, <2>1, <2>3, <2>4 DEF LinesInv, InTurn, Complete, A, B, C, D
<1>9. CASE appendNewBuffer(n)
  <2>1. buffers' = Append(buffers, currentBuffer) /\ currentBuffer' = Append(<<>>, n)
    BY <1>1, <1>9 DEF appendNewBuffer
  <2>2. Chain(buffers') /\ C' = C \cup D
    BY <1>1, <1>4, <2>1, AppendBuffer DEF C, D
  <2>3. Inc(currentBuffer') /\ D' = {n}
    <3>1. n \in Nat /\ <<>> \in Seq(Nat) /\ Inc(<<>>) /\ Members(<<>>) = {}
      BY <1>1, NoMembers, EmptySeq
    <3> QED
      BY <2>1, <3>1, AppendLine DEF D
  <2>4. /\ A' \cup B' \cup C' \cup D' = (1 .. appended') \ dropped' /\ dropped' \subseteq 1 .. appended'
    BY <1>2, <1>3, <1>7, <2>2, <2>3
  <2>5. /\ Below(A', B') /\ Below(A', C') /\ Below(A', D') /\ Below(B', C') /\ Below(B', D') /\ Below(C', D')
    BY <1>3, <1>4, <1>7, <2>2, <2>3 DEF Below
  <2> QED
    BY <1>5, <2>2, <2>3, <2>4, <2>5 DEF LinesInv, InTurn, Complete, A, B, C, D
<1> QED
  BY <1>8, <1>9 DEF appendLine, n

LEMMA StartKeeps ==
  ASSUME LinesInv, SpareInv', start
  PROVE  LinesInv'
<1>0. SpareInv /\ LogOK(log, ordered)
  BY DEF LinesInv
<1>1. /\ log \in LogFiles(Nat) /\ now \in Times /\ log.files \in [Times -> Seq(Nat)]
      /\ log.pending = <<>> /\ buffersToWrite = <<>> /\ written = Len(buffersToWrite)
  <2>1. thread = "none" /\ buffersToWrite = <<>> /\ written \in 0 .. Len(buffersToWrite)
    BY <1>0, NumberTypes DEF start, SpareInv, Idle
  <2>2. log \in LogFiles(Nat) /\ now \in Times
    BY <1>0, NumberTypes
  <2> QED
    BY <2>1, <2>2, LogFields DEF LinesInv
<1>2. /\ \E later \in BOOLEAN : log' = Open(log.files, now, later)
      /\ thread' = "while"
      /\ ordered' = (ordered /\ \A t \in Times : t > now => log.files[t] = <<>>)
      /\ buffersToWrite' = <<>> /\ written' = 0
      /\ UNCHANGED <<currentBuffer, buffers, appended, dropped>>
  BY DEF start, callerVars
<1>3. /\ log' \in LogFiles(Nat) /\ log'.files = log.files /\ log'.pending = <<>>
      /\ log'.name = now /\ log'.lastRoll = now
  BY <1>1, <1>2, OpenIs
<1>4. FileLines(log)' = FileLines(log) /\ Stored(log)' = Stored(log)
  BY <1>1, <1>3 DEF FileLines, Stored
<1>5. FilesOK(log', ordered')
  BY <1>0, <1>2, <1>3 DEF LogOK, FilesOK
<1>6. LogOK(log', ordered')
  BY <1>3, <1>5, NoMembers DEF LogOK, Below
<1>7. LogOK(log, ordered)'
  BY <1>6 DEF LogOK, FilesOK, FileLines
<1>8. Unwritten = {} /\ Unwritten' = {}
  BY <1>0, <1>1, <1>2, NothingUnwritten DEF Unwritten
<1> QED
  BY <1>2, <1>4, <1>7, <1>8, NoLines, LinesSame

LEMMA SwapKeeps ==
  ASSUME LinesInv, SpareInv', Swap
  PROVE  LinesInv'
<1> DEFINE A == Stored(log)
           B == Unwritten
           C == Lines(buffers)
           D == Members(currentBuffer)
<1>0. SpareInv /\ InTurn /\ Complete
  BY DEF LinesInv
<1>1. /\ currentBuffer \in Seq(Nat) /\ buffers \in Seq(Seq(Nat))
      /\ Inc(currentBuffer) /\ Chain(buffers)
  BY <1>0, NumberTypes DEF LinesInv
<1>2. /\ thread \in {"wait", "lock"} /\ buffersToWrite = <<>> /\ written = 0 /\ newBuffer1 = <<>>
  BY <1>0 DEF Swap, SpareInv, Idle, LoggingTypeOK
<1>3. /\ buffersToWrite' = Append(buffers, currentBuffer) /\ written' = 0
      /\ buffers' = <<>> /\ currentBuffer' = <<>> /\ thread' = "drop"
      /\ UNCHANGED <<log, ordered, appended, dropped>>
  BY <1>2 DEF Swap, fileVars
<1>4. /\ A \cup B \cup C \cup D = (1 .. appended) \ dropped /\ dropped \subseteq 1 .. appended
      /\ Below(A, B) /\ Below(A, C) /\ Below(A, D) /\ Below(B, C) /\ Below(B, D) /\ Below(C, D)
  BY <1>0 DEF InTurn, Complete
<1>5. B = {} /\ A' = A /\ C' = {} /\ D' = {}
  BY <1>0, <1>2, <1>3, NothingUnwritten, NoLines, NoMembers DEF Stored, FileLines
<1>6. Chain(buffersToWrite') /\ Lines(buffersToWrite') = C \cup D /\ buffersToWrite' \in Seq(Seq(Nat))
  BY <1>1, <1>3, <1>4, AppendBuffer
<1>7. B' = C \cup D
  <2>1. \A x : x \in Lines(buffersToWrite') <=> \E k \in 1 .. Len(buffersToWrite') : x \in Members(buffersToWrite'[k])
    BY <1>6, LinesAre
  <2>2. written' + 1 .. Len(buffersToWrite') = 1 .. Len(buffersToWrite')
    BY <1>3
  <2>3. B' = Lines(buffersToWrite')
    BY <2>1, <2>2 DEF Unwritten
  <2> QED
    BY <1>6, <2>3
<1>8. LogOK(log, ordered)'
  BY <1>3 DEF LinesInv, LogOK, FilesOK, FileLines
<1> HIDE DEF A, B, C, D
<1>9. /\ A' \cup B' \cup C' \cup D' = (1 .. appended') \ dropped' /\ dropped' \subseteq 1 .. appended'
  BY <1>3, <1>4, <1>5, <1>7
<1>10. /\ Below(A', B') /\ Below(A', C') /\ Below(A', D') /\ Below(B', C') /\ Below(B', D') /\ Below(C', D')
  BY <1>4, <1>5, <1>7 DEF Below
<1>11. Inc(currentBuffer') /\ Chain(buffers')
  BY <1>3, NoMembers, NoLines
<1> QED
  BY <1>3, <1>6, <1>8, <1>9, <1>10, <1>11 DEF LinesInv, InTurn, Complete, A, B, C, D

LEMMA DropKeeps ==
  ASSUME LinesInv, SpareInv', Drop
  PROVE  LinesInv'
<1>0. SpareInv /\ InTurn /\ Complete /\ Chain(buffersToWrite) /\ MaxToWrite \in Nat /\ MaxToWrite >= 2
  BY LoggingAssumption DEF LinesInv
<1>1. buffersToWrite \in Seq(Seq(Nat)) /\ written = 0 /\ Len(buffersToWrite) \in Nat
  BY <1>0, NumberTypes DEF SpareInv, Idle, Drop
<1>2. /\ thread' = "write" /\ UNCHANGED <<currentBuffer, buffers, written, appended, log, ordered>>
  BY DEF Drop, callerVars, fileVars
<1>3. LogOK(log, ordered)' /\ Stored(log)' = Stored(log)
  BY <1>2 DEF LinesInv, LogOK, FilesOK, FileLines, Stored
<1>4. CASE UNCHANGED <<dropped, buffersToWrite>>
  <2>1. Chain(buffersToWrite)' /\ Unwritten' = Unwritten
    BY <1>0, <1>2, <1>4 DEF Chain, Unwritten
  <2> QED
    BY <1>2, <1>3, <1>4, <2>1, LinesSame
<1>5. CASE /\ Len(buffersToWrite) > MaxToWrite
           /\ dropped' = dropped \cup Lines(SubSeq(buffersToWrite, 3, Len(buffersToWrite)))
           /\ buffersToWrite' = SubSeq(buffersToWrite, 1, 2)
  <2> DEFINE bs == buffersToWrite
             n == Len(buffersToWrite)
             rest == SubSeq(bs, 3, n)
             M(k) == Members(bs[k])
             X == Lines(rest)
             B == M(1) \cup M(2)
  <2>1. n \in Nat /\ n > 2
    BY <1>0, <1>1, <1>5
  <2>2. \A k \in 1 .. n : bs[k] \in Seq(Nat) /\ M(k) \subseteq Nat
    BY <1>1, LinesAre
  <2>3. /\ bs' \in Seq(Seq(Nat)) /\ Len(bs') = 2 /\ bs'[1] = bs[1] /\ bs'[2] = bs[2]
    <3>1. 1 \in 1 .. n + 1 /\ \A i \in 1 .. 2 : bs[i] \in Seq(Nat)
      BY <2>1, <2>2
    <3> QED
      BY <1>1, <1>5, <2>1, <3>1, SubSeqProperties
  <2>4. /\ rest \in Seq(Seq(Nat)) /\ Len(rest) = n - 2 /\ \A i \in 1 .. n - 2 : rest[i] = bs[i + 2]
    <3>1. /\ SubSeq(bs, 3, n) \in Seq(Seq(Nat))
          /\ Len(SubSeq(bs, 3, n)) = IF 3 <= n THEN n - 3 + 1 ELSE 0
          /\ \A i \in 1 .. n - 3 + 1 : SubSeq(bs, 3, n)[i] = bs[3 + i - 1]
      BY <1>1, <2>1, <2>2, SubSeqProperties
    <3>2. n - 3 + 1 = n - 2 /\ 3 <= n /\ \A i \in 1 .. n - 2 : 3 + i - 1 = i + 2
      BY <2>1
    <3> QED
      BY <3>1, <3>2
  <2> HIDE DEF rest
  <2>5. \A x : x \in X <=> \E k \in 1 .. n - 2 : x \in Members(rest[k])
    BY <2>4, LinesAre
  <2>6. \A x : x \in X <=> \E k \in 3 .. n : x \in M(k)
    <3>1. ASSUME NEW x, NEW k \in 1 .. n - 2, x \in Members(rest[k]) PROVE \E j \in 3 .. n : x \in M(j)
      <4>1. k + 2 \in 3 .. n /\ x \in M(k + 2)
        BY <2>1, <2>4, <3>1
      <4> QED
        BY <4>1
    <3>2. ASSUME NEW x, NEW k \in 3 .. n, x \in M(k) PROVE \E j \in 1 .. n - 2 : x \in Members(rest[j])
      <4>1. k - 2 \in 1 .. n - 2 /\ (k - 2) + 2 = k
        BY <2>1
      <4>2. rest[k - 2] = bs[k]
        BY <2>4, <4>1
      <4> QED
        BY <3>2, <4>1, <4>2
    <3> QED
      BY <2>5, <3>1, <3>2
  <2>7. \A k, m \in 1 .. n : k < m => Below(M(k), M(m))
    BY <1>0 DEF Chain
  <2>8. Unwritten = B \cup X
    <3>1. \A x : x \in Unwritten <=> \E k \in 1 .. n : x \in M(k)
      BY <1>1, <2>1 DEF Unwritten
    <3>2. \A k : k \in 1 .. n <=> k = 1 \/ k = 2 \/ k \in 3 .. n
      BY <2>1
    <3> HIDE DEF X, M
    <3> QED
      BY <2>6, <3>1, <3>2
  <2>9. Unwritten' = B
    <3>1. \A x : x \in Unwritten' <=> \E k \in 1 .. 2 : x \in Members(bs'[k])
      BY <1>1, <1>2, <2>3 DEF Unwritten
    <3>2. \A k : k \in 1 .. 2 <=> k = 1 \/ k = 2
      OBVIOUS
    <3> QED
      BY <2>3, <3>1, <3>2
  <2>10. B \cap X = {}
    <3> SUFFICES ASSUME NEW x \in B, x \in X PROVE FALSE
      OBVIOUS
    <3>1. PICK k \in 3 .. n : x \in M(k)
      BY <2>6
    <3>2. k \in 1 .. n /\ 1 < k /\ 2 < k /\ 1 \in 1 .. n /\ 2 \in 1 .. n
      BY <2>1
    <3>3. x \in Nat /\ x < x
      BY <2>2, <2>7, <3>1, <3>2 DEF Below
    <3> QED
      BY <3>3
  <2>11. Chain(buffersToWrite)'
    <3>1. Inc(bs[1]) /\ Inc(bs[2]) /\ Below(M(1), M(2))
      BY <1>0, <2>1, <2>7 DEF Chain
    <3>2. \A k, m \in 1 .. 2 : (k = 1 \/ k = 2) /\ (k < m => k = 1 /\ m = 2)
      OBVIOUS
    <3> QED
      BY <2>3, <3>1, <3>2 DEF Chain
  <2> DEFINE A == Stored(log)
             C == Lines(buffers)
             D == Members(currentBuffer)
  <2>12. /\ A \cup (B \cup X) \cup C \cup D = (1 .. appended) \ dropped /\ dropped \subseteq 1 .. appended
         /\ Below(A, B \cup X) /\ Below(A, C) /\ Below(A, D)
         /\ Below(B \cup X, C) /\ Below(B \cup X, D) /\ Below(C, D)
    BY <1>0, <2>8 DEF InTurn, Complete
  <2>13. A' = A /\ C' = C /\ D' = D /\ dropped' = dropped \cup X /\ appended' = appended
    BY <1>2, <1>3, <1>5 DEF rest
  <2>14. /\ X \cap A = {} /\ X \cap C = {} /\ X \cap D = {}
    <3> HIDE DEF A, C, D, B, X
    <3>1. \A x \in 1 .. appended : x \in Nat
      BY <1>0, NumberTypes
    <3>2. \A x \in X : x \in Nat /\ ~(x < x)
      BY <2>12, <3>1
    <3> QED
      BY <2>12, <3>2 DEF Below
  <2> HIDE DEF A, B, C, D, X
  <2>15. A \cup B \cup C \cup D = (1 .. appended) \ (dropped \cup X) /\ dropped \cup X \subseteq 1 .. appended
    BY <2>10, <2>12, <2>14
  <2>16. Below(A, B) /\ Below(B, C) /\ Below(B, D)
    BY <2>12 DEF Below
  <2>17. InTurn'
    BY <2>9, <2>12, <2>13, <2>16 DEF InTurn, A, C, D
  <2>18. Complete'
    BY <2>9, <2>13, <2>15 DEF Complete, A, C, D
  <2>19. Inc(currentBuffer)' /\ Chain(buffers)'
    BY <1>2 DEF LinesInv, Inc, Chain
  <2> QED
    BY <1>2, <1>3, <2>11, <2>17, <2>18, <2>19 DEF LinesInv
<1> QED
  BY <1>4, <1>5 DEF Drop

LEMMA WriteKeeps ==
  ASSUME LinesInv, SpareInv', Write
  PROVE  LinesInv'
<1> DEFINE b == buffersToWrite[written + 1]
           n == Len(buffersToWrite)
           M(k) == Members(buffersToWrite[k])
           A == Stored(log)
           B == Unwritten
           C == Lines(buffers)
           D == Members(currentBuffer)
<1>0. SpareInv /\ InTurn /\ Complete /\ Chain(buffersToWrite) /\ LogOK(log, ordered)
  BY DEF LinesInv
<1>1. /\ buffersToWrite \in Seq(Seq(Nat)) /\ now \in Times /\ n \in Nat
      /\ written \in Nat /\ written < n /\ written + 1 \in 1 .. n
  BY <1>0, NumberTypes DEF Write
<1>2. /\ UNCHANGED <<currentBuffer, buffers, buffersToWrite, thread, appended, now, ordered>>
      /\ written' = written + 1 /\ thread = "write"
  BY DEF Write, callerVars
<1>3. b \in Seq(Nat) /\ Inc(b) /\ \A k \in 1 .. n : M(k) \subseteq Nat
  BY <1>0, <1>1, LinesAre DEF Chain
<1>4. /\ A \cup B \cup C \cup D = (1 .. appended) \ dropped /\ dropped \subseteq 1 .. appended
      /\ Below(A, B) /\ Below(A, C) /\ Below(A, D) /\ Below(B, C) /\ Below(B, D) /\ Below(C, D)
  BY <1>0 DEF InTurn, Complete
<1>5. \A x : x \in B <=> \E k \in written + 1 .. n : x \in M(k)
  BY DEF Unwritten
<1>6. \A x : x \in B' <=> \E k \in written + 2 .. n : x \in M(k)
  <2>1. written' + 1 = written + 2
    BY <1>1, <1>2
  <2> QED
    BY <1>2, <2>1 DEF Unwritten
<1>7. \A k : k \in written + 1 .. n <=> k = written + 1 \/ k \in written + 2 .. n
  BY <1>1
<1>8. B = M(written + 1) \cup B'
  <2> HIDE DEF B, M
  <2> QED
    BY <1>5, <1>6, <1>7
<1>9. Below(M(written + 1), B')
  <2> SUFFICES ASSUME NEW x \in M(written + 1), NEW y \in B' PROVE x < y
    BY DEF Below
  <2>1. PICK k \in written + 2 .. n : y \in M(k)
    BY <1>6
  <2>2. k \in 1 .. n /\ written + 1 < k
    BY <1>1
  <2>3. Below(M(written + 1), M(k))
    BY <1>0, <1>1, <2>2 DEF Chain
  <2> QED
    BY <2>1, <2>3 DEF Below
<1>10. Below(A, M(written + 1))
  BY <1>4, <1>8 DEF Below
<1> DEFINE X == M(written + 1)
<1>11. /\ LogOK(log', ordered)
       /\ \/ Stored(log') = A \cup X /\ dropped' = dropped
          \/ Stored(log') = A /\ dropped' = dropped \cup X
  <2>1. PICK through \in BOOLEAN, later \in BOOLEAN :
          log' = append_unlocked(log, b, now, through, later)
    BY DEF Write
  <2>2. dropped' = IF log.isOpen THEN dropped ELSE dropped \cup X
    BY DEF Write
  <2>3. /\ LogOK(log', ordered)
        /\ log.isOpen => Stored(log') = A \cup X
        /\ ~log.isOpen => Stored(log') = A
    BY <1>0, <1>1, <1>3, <1>10, <2>1, AppendUnlockedKeeps
  <2> HIDE DEF X, A
  <2> QED
    BY <2>2, <2>3, Zenon
<1>12. LogOK(log, ordered)'
  BY <1>2, <1>11 DEF LogOK, FilesOK, FileLines
<1>13. C' = C /\ D' = D /\ appended' = appended
  BY <1>2
<1> HIDE DEF A, B, C, D, M, X
<1>14. (A' = A \cup X /\ dropped' = dropped) \/ (A' = A /\ dropped' = dropped \cup X)
  <2>1. A' = Stored(log')
    BY DEF A, Stored, FileLines
  <2> QED
    BY <1>11, <2>1
<1>15. /\ X \cap A = {} /\ X \cap B' = {} /\ X \cap C = {} /\ X \cap D = {}
  <2>1. \A x \in X : x \in Nat /\ ~(x < x)
    <3>1. X \subseteq Nat
      BY <1>1, <1>3 DEF X
    <3> QED
      BY <3>1
  <2> QED
    BY <1>4, <1>8, <1>9, <1>10, <2>1 DEF Below, X
<1>a. A' \cup B' \cup C' \cup D' = (1 .. appended') \ dropped' /\ dropped' \subseteq 1 .. appended'
  <2>1. B = X \cup B'
    BY <1>8 DEF X
  <2>2. CASE A' = A \cup X /\ dropped' = dropped
    BY <1>4, <1>13, <2>1, <2>2
  <2>3. CASE A' = A /\ dropped' = dropped \cup X
    BY <1>4, <1>13, <1>15, <2>1, <2>3
  <2> QED
    BY <1>14, <2>2, <2>3
<1>b. /\ Below(A', B') /\ Below(A', C') /\ Below(A', D') /\ Below(B', C') /\ Below(B', D') /\ Below(C', D')
  <2>1. A' \subseteq A \cup X /\ B = X \cup B' /\ Below(X, B')
    BY <1>8, <1>9, <1>14 DEF X
  <2> QED
    BY <1>4, <1>13, <2>1 DEF Below
<1>16. Inc(currentBuffer)' /\ Chain(buffers)' /\ Chain(buffersToWrite)'
  BY <1>2 DEF LinesInv, Inc, Chain
<1> QED
  BY <1>2, <1>12, <1>a, <1>b, <1>16 DEF LinesInv, InTurn, Complete, A, B, C, D

\* The steps that only flush: the end of an iteration and the end of the thread.
LEMMA FlushStepKeeps ==
  ASSUME LinesInv, SpareInv', While \/ Recycle
  PROVE  LinesInv'
<1>0. SpareInv /\ LogOK(log, ordered) /\ log \in LogFiles(Nat)
  BY NumberTypes DEF LinesInv
<1>1. /\ UNCHANGED <<currentBuffer, buffers, appended, dropped, ordered>>
      /\ log' = log \/ log' = flush(log)
      /\ thread' \in {"none", "exited"} => log' = flush(log)
  BY DEF While, Recycle, callerVars
<1>2. /\ LogOK(log', ordered) /\ Stored(log') = Stored(log)
      /\ thread' \in {"none", "exited"} => log'.pending = <<>>
  BY <1>0, <1>1, FlushKeeps, FlushIs
<1>3. LogOK(log, ordered)' /\ Stored(log)' = Stored(log)
  BY <1>1, <1>2 DEF LogOK, FilesOK, FileLines, Stored
<1>4. CASE While
  <2>1. UNCHANGED <<buffersToWrite, written>>
    BY <1>4 DEF While, localVars
  <2>2. Chain(buffersToWrite)' /\ Unwritten' = Unwritten
    BY <2>1 DEF LinesInv, Chain, Unwritten
  <2> QED
    BY <1>1, <1>2, <1>3, <2>2, LinesSame
<1>5. CASE Recycle
  <2>1. written = Len(buffersToWrite) /\ buffersToWrite' = <<>> /\ written' = 0
    BY <1>0, <1>5 DEF Recycle, SpareInv, Idle
  <2>2. Unwritten = {} /\ Unwritten' = {} /\ Chain(buffersToWrite)'
    BY <1>0, <2>1, NothingUnwritten, NoLines DEF Unwritten
  <2> QED
    BY <1>1, <1>2, <1>3, <2>2, LinesSame
<1> QED
  BY <1>4, <1>5

LEMMA LinesStep ==
  ASSUME LinesInv, [LoggingNext]_loggingVars
  PROVE  LinesInv'
<1>0. SpareInv'
  BY SpareStep DEF LinesInv
<1>1. CASE appendLine
  BY <1>0, <1>1, AppendKeeps
<1>2. CASE start
  BY <1>0, <1>2, StartKeeps
<1>3. CASE Swap
  BY <1>0, <1>3, SwapKeeps
<1>4. CASE Drop
  BY <1>0, <1>4, DropKeeps
<1>5. CASE Write
  BY <1>0, <1>5, WriteKeeps
<1>6. CASE While \/ Recycle
  BY <1>0, <1>6, FlushStepKeeps
<1>7. CASE stop \/ join \/ Wait \/ WriteDone \/ Clock \/ UNCHANGED loggingVars
  <2>1. /\ UNCHANGED <<currentBuffer, buffers, buffersToWrite, written, appended, dropped, log, ordered>>
        /\ thread' \in {"none", "exited"} => thread \in {"none", "exited"}
    BY <1>7 DEF stop, join, Wait, WriteDone, Clock, loggingVars, callerVars, localVars,
                fileVars
  <2>2. LogOK(log, ordered)' /\ Stored(log)' = Stored(log)
    BY <2>1 DEF LinesInv, LogOK, FilesOK, FileLines, Stored
  <2>3. Chain(buffersToWrite)' /\ Unwritten' = Unwritten
    BY <2>1 DEF LinesInv, Chain, Unwritten
  <2>4. thread' \in {"none", "exited"} => log'.pending = <<>>
    BY <2>1 DEF LinesInv
  <2> QED
    BY <1>0, <2>1, <2>2, <2>3, <2>4, LinesSame
<1> QED
  BY <1>1, <1>2, <1>3, <1>4, <1>5, <1>6, <1>7 DEF LoggingNext, threadFunc

\* The lines of one stage.
StageLines(s) == UNION {Members(Stages[s][k]) : k \in DOMAIN Stages[s]}

LEMMA StagesAre ==
  ASSUME LinesInv
  PROVE  /\ \A s \in 1 .. 5 : \A k \in DOMAIN Stages[s] :
              k \in Nat /\ Stages[s][k] \in Seq(Nat) /\ Inc(Stages[s][k])
         /\ \A s \in 2 .. 5 : \A k, m \in DOMAIN Stages[s] :
              k < m => Below(Members(Stages[s][k]), Members(Stages[s][m]))
         /\ StageLines(1) = FileLines(log) /\ StageLines(2) = Members(log.pending)
         /\ StageLines(3) = Unwritten /\ StageLines(4) = Lines(buffers)
         /\ StageLines(5) = Members(currentBuffer)
<1> DEFINE n == Len(buffersToWrite)
           todo == [k \in written + 1 .. n |-> buffersToWrite[k]]
<1>0. SpareInv /\ LogOK(log, ordered) /\ Inc(currentBuffer) /\ Chain(buffers) /\ Chain(buffersToWrite)
  BY DEF LinesInv
<1>1. /\ currentBuffer \in Seq(Nat) /\ buffers \in Seq(Seq(Nat)) /\ buffersToWrite \in Seq(Seq(Nat))
      /\ n \in Nat /\ written \in 0 .. n
  BY <1>0, NumberTypes
<1>2. /\ log.files \in [Times -> Seq(Nat)] /\ log.pending \in Seq(Nat) /\ Inc(log.pending)
      /\ \A t \in Times : t \in Nat /\ Inc(log.files[t])
  BY <1>0, LogFields DEF LogOK, FilesOK, Times
<1>3. /\ Stages[1] = log.files /\ Stages[2] = <<log.pending>> /\ Stages[3] = todo
      /\ Stages[4] = buffers /\ Stages[5] = <<currentBuffer>>
  BY DEF Stages
<1>4. /\ DOMAIN log.files = Times /\ DOMAIN todo = written + 1 .. n
      /\ DOMAIN <<log.pending>> = {1} /\ DOMAIN <<currentBuffer>> = {1}
      /\ <<log.pending>>[1] = log.pending /\ <<currentBuffer>>[1] = currentBuffer
      /\ \A k \in written + 1 .. n : todo[k] = buffersToWrite[k]
  BY <1>2
<1>5. DOMAIN buffers = 1 .. Len(buffers) /\ Len(buffers) \in Nat
  BY <1>1, LenProperties
<1>6. /\ \A k \in 1 .. n : buffersToWrite[k] \in Seq(Nat)
      /\ \A k \in 1 .. Len(buffers) : buffers[k] \in Seq(Nat)
  BY <1>1, LinesAre
<1>7. \A k \in written + 1 .. n : k \in 1 .. n /\ k \in Nat
  BY <1>1
<1> HIDE DEF todo, n
<1>s. \A s \in 1 .. 5 : s = 1 \/ s = 2 \/ s = 3 \/ s = 4 \/ s = 5
  OBVIOUS
<1>8. ASSUME NEW s \in 1 .. 5, NEW k \in DOMAIN Stages[s]
      PROVE  k \in Nat /\ Stages[s][k] \in Seq(Nat) /\ Inc(Stages[s][k])
  <2>1. CASE s = 1
    BY <1>2, <1>3, <1>4, <1>8, <2>1
  <2>2. CASE s = 2
    BY <1>2, <1>3, <1>4, <1>8, <2>2
  <2>3. CASE s = 3
    BY <1>0, <1>3, <1>4, <1>6, <1>7, <1>8, <2>3 DEF Chain, n
  <2>4. CASE s = 4
    BY <1>0, <1>3, <1>5, <1>6, <1>8, <2>4 DEF Chain
  <2>5. CASE s = 5
    BY <1>0, <1>1, <1>3, <1>4, <1>8, <2>5
  <2> QED
    BY <1>s, <2>1, <2>2, <2>3, <2>4, <2>5
<1>9. ASSUME NEW s \in 2 .. 5, NEW k \in DOMAIN Stages[s], NEW m \in DOMAIN Stages[s], k < m
      PROVE  Below(Members(Stages[s][k]), Members(Stages[s][m]))
  <2>1. CASE s = 2 \/ s = 5
    BY <1>3, <1>4, <1>9, <2>1
  <2>2. CASE s = 3
    BY <1>0, <1>3, <1>4, <1>7, <1>9, <2>2 DEF Chain, n
  <2>3. CASE s = 4
    BY <1>0, <1>3, <1>5, <1>9, <2>3 DEF Chain
  <2> QED
    BY <1>s, <2>1, <2>2, <2>3
<1>10. StageLines(1) = FileLines(log) /\ StageLines(2) = Members(log.pending)
  BY <1>3, <1>4 DEF StageLines, FileLines
<1>11. StageLines(3) = Unwritten
  BY <1>3, <1>4 DEF StageLines, Unwritten, n
<1>12. StageLines(4) = Lines(buffers) /\ StageLines(5) = Members(currentBuffer)
  BY <1>3, <1>4 DEF StageLines, Lines
<1> QED
  BY <1>8, <1>9, <1>10, <1>11, <1>12

LEMMA PositionsAre ==
  /\ \A p : p \in Positions <=>
       \E s \in 1 .. 5 : \E k \in DOMAIN Stages[s] : \E i \in DOMAIN Stages[s][k] : p = <<s, k, i>>
  /\ \A s, k, i : LineAt(<<s, k, i>>) = Stages[s][k][i]
BY DEF Positions, LineAt

LEMMA LinesInvOrder ==
  ASSUME LinesInv, NEW s \in 1 .. 5, NEW u \in 1 .. 5, s < u
  PROVE  Below(StageLines(s), StageLines(u))
<1>1. /\ Below(FileLines(log), Members(log.pending)) /\ InTurn
  BY DEF LinesInv, LogOK
<1> DEFINE A == StageLines(1)
           P == StageLines(2)
           B == StageLines(3)
           C == StageLines(4)
           D == StageLines(5)
<1>2. /\ Below(A, P) /\ Below(A \cup P, B) /\ Below(A \cup P, C) /\ Below(A \cup P, D)
      /\ Below(B, C) /\ Below(B, D) /\ Below(C, D)
  BY <1>1, StagesAre DEF InTurn, Stored
<1> HIDE DEF A, P, B, C, D
<1>3. Below(A, B) /\ Below(A, C) /\ Below(A, D) /\ Below(P, B) /\ Below(P, C) /\ Below(P, D)
  BY <1>2 DEF Below
<1>4. /\ s = 1 => u = 2 \/ u = 3 \/ u = 4 \/ u = 5
      /\ s = 2 => u = 3 \/ u = 4 \/ u = 5
      /\ s = 3 => u = 4 \/ u = 5
      /\ s = 4 => u = 5
      /\ s = 1 \/ s = 2 \/ s = 3 \/ s = 4
  OBVIOUS
<1> QED
  BY <1>2, <1>3, <1>4 DEF A, P, B, C, D

\* Two positions hold different lines, and in the order of the positions if the files
\* are in the order of their names.
LEMMA PositionsDiffer ==
  ASSUME LinesInv, NEW p \in Positions, NEW q \in Positions, Before(p, q)
  PROVE  LineAt(p) # LineAt(q) /\ (ordered => LineAt(p) < LineAt(q))
<1>1. PICK s \in 1 .. 5 : \E k \in DOMAIN Stages[s] : \E i \in DOMAIN Stages[s][k] : p = <<s, k, i>>
  BY PositionsAre
<1>2. PICK k \in DOMAIN Stages[s] : \E i \in DOMAIN Stages[s][k] : p = <<s, k, i>>
  BY <1>1
<1>3. PICK i \in DOMAIN Stages[s][k] : p = <<s, k, i>>
  BY <1>2
<1>4. PICK u \in 1 .. 5 : \E m \in DOMAIN Stages[u] : \E j \in DOMAIN Stages[u][m] : q = <<u, m, j>>
  BY PositionsAre
<1>5. PICK m \in DOMAIN Stages[u] : \E j \in DOMAIN Stages[u][m] : q = <<u, m, j>>
  BY <1>4
<1>6. PICK j \in DOMAIN Stages[u][m] : q = <<u, m, j>>
  BY <1>5
<1> DEFINE a == Stages[s][k]
           b == Stages[u][m]
           x == LineAt(p)
           y == LineAt(q)
<1>7. x = a[i] /\ y = b[j]
  BY <1>3, <1>6, PositionsAre
<1>8. a \in Seq(Nat) /\ b \in Seq(Nat) /\ Inc(a) /\ k \in Nat /\ m \in Nat
  BY StagesAre
<1>9. i \in 1 .. Len(a) /\ j \in 1 .. Len(b) /\ Len(a) \in Nat /\ Len(b) \in Nat
  BY <1>8, LenProperties
<1>10. x \in Members(a) /\ y \in Members(b) /\ x \in Nat /\ y \in Nat
  BY <1>7, <1>8, <1>9, MembersAre
<1>11. x \in StageLines(s) /\ y \in StageLines(u)
  BY <1>10 DEF StageLines
<1>12. s < u \/ (s = u /\ k < m) \/ (s = u /\ k = m /\ i < j)
  BY <1>3, <1>6 DEF Before
<1>13. CASE s < u
  <2>1. x < y
    BY <1>11, <1>13, LinesInvOrder DEF Below
  <2> QED
    BY <1>10, <2>1
<1>14. CASE s = u /\ k < m /\ s # 1
  <2>1. s \in 2 .. 5
    BY <1>14
  <2>2. x < y
    BY <1>10, <1>14, <2>1, StagesAre DEF Below
  <2> QED
    BY <1>10, <2>2
<1>15. CASE s = u /\ k < m /\ s = 1
  <2>1. Stages[1] = log.files /\ log.files \in [Times -> Seq(Nat)] /\ FilesOK(log, ordered)
    BY LogFields DEF Stages, LinesInv, LogOK
  <2>2. k \in Times /\ m \in Times /\ k # m /\ a = log.files[k] /\ b = log.files[m]
    BY <1>8, <1>15, <2>1
  <2>3. Members(a) \cap Members(b) = {} /\ (ordered => Below(Members(a), Members(b)))
    BY <1>15, <2>1, <2>2 DEF FilesOK
  <2> QED
    BY <1>10, <2>3 DEF Below
<1>16. CASE s = u /\ k = m /\ i < j
  <2>1. x < y
    BY <1>7, <1>8, <1>9, <1>16 DEF Inc
  <2> QED
    BY <1>10, <2>1
<1> QED
  BY <1>12, <1>13, <1>14, <1>15, <1>16

LEMMA BeforeOrAfter ==
  ASSUME LinesInv, NEW p \in Positions, NEW q \in Positions, p # q
  PROVE  Before(p, q) \/ Before(q, p)
<1>1. \A r \in Positions : \E s \in Nat, k \in Nat, i \in Nat : r = <<s, k, i>>
  <2> SUFFICES ASSUME NEW r \in Positions PROVE \E s \in Nat, k \in Nat, i \in Nat : r = <<s, k, i>>
    OBVIOUS
  <2>1. PICK s \in 1 .. 5 : \E k \in DOMAIN Stages[s] : \E i \in DOMAIN Stages[s][k] : r = <<s, k, i>>
    BY PositionsAre
  <2>2. PICK k \in DOMAIN Stages[s] : \E i \in DOMAIN Stages[s][k] : r = <<s, k, i>>
    BY <2>1
  <2>3. PICK i \in DOMAIN Stages[s][k] : r = <<s, k, i>>
    BY <2>2
  <2>4. k \in Nat /\ Stages[s][k] \in Seq(Nat)
    BY StagesAre
  <2>5. i \in Nat /\ s \in Nat
    BY <2>4, LenProperties
  <2> QED
    BY <2>3, <2>4, <2>5
<1>2. PICK s \in Nat, k \in Nat, i \in Nat : p = <<s, k, i>>
  BY <1>1
<1>3. PICK u \in Nat, m \in Nat, j \in Nat : q = <<u, m, j>>
  BY <1>1
<1>4. s # u \/ k # m \/ i # j
  BY <1>2, <1>3
<1> QED
  BY <1>2, <1>3, <1>4 DEF Before

\* Between append and the disk no line is lost, repeated or overtaken, except those of
\* buffers that the thread erased as a whole or wrote while no file was open, because
\* the LogFile's constructor found the clock not later than just before.
THEOREM NoLineLostCorrect ==
  LoggingSpec => []NoLineLost
<1>1. LoggingInit => LinesInv
  BY LinesInit
<1>2. LinesInv /\ [LoggingNext]_loggingVars => LinesInv'
  BY LinesStep
<1>3. ASSUME LinesInv PROVE NoLineLost
  <2>1. \A p, q \in Positions : p # q => LineAt(p) # LineAt(q)
    BY <1>3, BeforeOrAfter, PositionsDiffer
  <2>2. ordered => \A p, q \in Positions : Before(p, q) => LineAt(p) < LineAt(q)
    BY <1>3, PositionsDiffer
  <2> DEFINE All == {LineAt(p) : p \in Positions}
  <2>3. \A x : x \in All <=> \E s \in 1 .. 5 : x \in StageLines(s)
    <3>1. ASSUME NEW s \in 1 .. 5, NEW k \in DOMAIN Stages[s]
          PROVE  \A x : x \in Members(Stages[s][k]) <=>
                          \E i \in DOMAIN Stages[s][k] : x = LineAt(<<s, k, i>>)
      <4> DEFINE f == Stages[s][k]
      <4>1. \A x : x \in Members(f) <=> \E i \in DOMAIN f : x = f[i]
        BY DEF Members
      <4>2. \A i : LineAt(<<s, k, i>>) = f[i]
        BY PositionsAre
      <4> HIDE DEF f
      <4>3. \A x : x \in Members(f) <=> \E i \in DOMAIN f : x = LineAt(<<s, k, i>>)
        BY <4>1, <4>2
      <4> QED
        BY <4>3 DEF f
    <3>2. ASSUME NEW x \in All PROVE \E s \in 1 .. 5 : x \in StageLines(s)
      <4>1. PICK p \in Positions : x = LineAt(p)
        OBVIOUS
      <4>2. PICK s \in 1 .. 5 : \E k \in DOMAIN Stages[s] : \E i \in DOMAIN Stages[s][k] : p = <<s, k, i>>
        BY PositionsAre
      <4>3. PICK k \in DOMAIN Stages[s] : \E i \in DOMAIN Stages[s][k] : p = <<s, k, i>>
        BY <4>2
      <4>4. x \in Members(Stages[s][k])
        BY <3>1, <4>1, <4>3
      <4> QED
        BY <4>4 DEF StageLines
    <3>3. ASSUME NEW s \in 1 .. 5, NEW x \in StageLines(s) PROVE x \in All
      <4>1. PICK k \in DOMAIN Stages[s] : x \in Members(Stages[s][k])
        BY DEF StageLines
      <4>2. PICK i \in DOMAIN Stages[s][k] : x = LineAt(<<s, k, i>>)
        BY <3>1, <4>1, ZenonT(30)
      <4>3. <<s, k, i>> \in Positions
        BY PositionsAre
      <4> QED
        BY <4>2, <4>3
    <3> QED
      BY <3>2, <3>3
  <2> HIDE DEF All
  <2>4. All = StageLines(1) \cup StageLines(2) \cup StageLines(3) \cup StageLines(4) \cup StageLines(5)
    <3>1. \A s : s \in 1 .. 5 <=> s = 1 \/ s = 2 \/ s = 3 \/ s = 4 \/ s = 5
      OBVIOUS
    <3> QED
      BY <2>3, <3>1
  <2>5. All = Stored(log) \cup Unwritten \cup Lines(buffers) \cup Members(currentBuffer)
    BY <1>3, <2>4, StagesAre DEF Stored
  <2>6. All = (1 .. appended) \ dropped
    BY <1>3, <2>5 DEF LinesInv, Complete
  <2> QED
    BY <2>1, <2>2, <2>6 DEF NoLineLost, All
<1> QED
  BY <1>1, <1>2, <1>3, PTL DEF LoggingSpec
==============================================================================
