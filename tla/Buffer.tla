------------------------------- MODULE Buffer -------------------------------
(***************************************************************************)
(* Buffer (starry/net/include/buffer.h, buffer.cpp): a vector with a       *)
(* reader and a writer index, used for the input and the output of every   *)
(* connection and for the frames of the codec.                             *)
(*                                                                         *)
(* A Buffer is a record: mem is buffer_, with the byte of index i at       *)
(* mem[i + 1].  The asserts on the arguments of a call are its guards, for *)
(* they are the caller's duty; the assert inside makeSpace, which no       *)
(* caller can know of, sets crash and ends the behaviour.  The typed calls *)
(* (appendInt32, readInt32, ...) are append, retrieve and prepend of 1, 2, *)
(* 4 or 8 bytes.                                                           *)
(***************************************************************************)
EXTENDS Naturals, Sequences

CONSTANTS
  kCheapPrepend,  \* bytes kept free for headers
  kInitialSize,   \* size of a new buffer without them
  ExtraSize,      \* sizeof(extrabuf) in readFd
  MaxBytes,       \* bound on the bytes handed in
  MaxReserve      \* bound on the arguments of ensureWritableBytes and shrink

ASSUME BufferAssumption ==
  /\ kCheapPrepend \in Nat /\ kInitialSize \in Nat /\ ExtraSize \in Nat
  /\ MaxBytes \in Nat /\ MaxReserve \in Nat

VARIABLES
  buf,    \* the Buffer
  next,   \* bytes handed in so far, by append, prepend and the socket
  peak,   \* history: the most bytes that were readable or asked for at once
  crash   \* the assert in makeSpace has failed

vars == <<buf, next, peak, crash>>

Zeros(n) == [i \in 1 .. n |-> 0]
New(n) == [i \in 1 .. n |-> next + i]
Larger(m, n) == IF m < n THEN n ELSE m

------------------------------------------------------------------------------
(* The operations, as functions of a Buffer b *)

Buf(m, r, w) == [mem |-> m, readerIndex |-> r, writerIndex |-> w]

NewBuffer == Buf(Zeros(kCheapPrepend + kInitialSize), kCheapPrepend, kCheapPrepend)

readableBytes(b) == b.writerIndex - b.readerIndex
writableBytes(b) == Len(b.mem) - b.writerIndex
prependableBytes(b) == b.readerIndex
Readable(b) == SubSeq(b.mem, b.readerIndex + 1, b.writerIndex)

\* std::copy of data to index at
copy(mem, data, at) ==
  [i \in DOMAIN mem |-> IF i - at \in DOMAIN data THEN data[i - at] ELSE mem[i]]

\* makeSpace cannot make room by moving the contents to the front
MustGrow(b, len) == writableBytes(b) + prependableBytes(b) < len + kCheapPrepend

\* Mutant: the vector always grows, the contents are never moved.
makeSpaceGrows(b, len) == Buf(b.mem \o Zeros(len - writableBytes(b)), b.readerIndex, b.writerIndex)

makeSpace(b, len) ==
  IF MustGrow(b, len)
    THEN Buf(b.mem \o Zeros(len - writableBytes(b)), b.readerIndex, b.writerIndex)
    ELSE Buf(copy(b.mem, Readable(b), kCheapPrepend), kCheapPrepend, kCheapPrepend + readableBytes(b))

\* ensureWritableBytes reaches the assert of makeSpace, and it fails
AssertFails(b, len) ==
  /\ writableBytes(b) < len
  /\ ~MustGrow(b, len)
  /\ readableBytes(b) <= kCheapPrepend

ensureWritableBytes(b, len) == IF writableBytes(b) < len THEN makeSpace(b, len) ELSE b

\* std::copy to beginWrite(), and hasWritten
hasWritten(b, data) ==
  Buf(copy(b.mem, data, b.writerIndex), b.readerIndex, b.writerIndex + Len(data))

append(b, data) == hasWritten(ensureWritableBytes(b, Len(data)), data)

retrieveAll(b) == Buf(b.mem, kCheapPrepend, kCheapPrepend)

retrieve(b, len) ==
  IF len < readableBytes(b) THEN Buf(b.mem, b.readerIndex + len, b.writerIndex) ELSE retrieveAll(b)

unwrite(b, len) == Buf(b.mem, b.readerIndex, b.writerIndex - len)

prepend(b, data) ==
  Buf(copy(b.mem, data, b.readerIndex - Len(data)), b.readerIndex - Len(data), b.writerIndex)

\* shrink: a new Buffer takes the contents, and the two are swapped
shrink(b, reserve) ==
  append(ensureWritableBytes(NewBuffer, readableBytes(b) + reserve), Readable(b))

\* what one readv can return
ReadLimit(b) ==
  writableBytes(b) + (IF writableBytes(b) < ExtraSize THEN ExtraSize ELSE 0)

\* readFd, the first part of readv: what fits behind writerIndex_
fill(b, data) ==
  hasWritten(b, SubSeq(data, 1, IF Len(data) < writableBytes(b) THEN Len(data) ELSE writableBytes(b)))

\* Mutant: all that readv returned is appended from extrabuf, not only the rest.
readFdTwice(b, data) ==
  IF Len(data) <= writableBytes(b) THEN fill(b, data) ELSE append(fill(b, data), data)

\* readFd: the rest went to extrabuf and is appended
readFd(b, data) ==
  IF Len(data) <= writableBytes(b)
    THEN fill(b, data)
    ELSE append(fill(b, data), SubSeq(data, writableBytes(b) + 1, Len(data)))

------------------------------------------------------------------------------
(* The calls *)

Init == buf = NewBuffer /\ next = 0 /\ peak = 0 /\ crash = FALSE

\* a call that needs room for len more bytes, and leaves the Buffer b
Grown(len, b) == buf' = b /\ peak' = Larger(peak, readableBytes(buf) + len) /\ UNCHANGED crash

Fails == crash' = TRUE /\ UNCHANGED <<buf, next, peak>>

AppendBytes(n) ==
  /\ next + n <= MaxBytes
  /\ \/ AssertFails(buf, n) /\ Fails
     \/ ~AssertFails(buf, n) /\ Grown(n, append(buf, New(n))) /\ next' = next + n

EnsureWritableBytes(n) ==
  \/ AssertFails(buf, n) /\ Fails
  \/ ~AssertFails(buf, n) /\ Grown(n, ensureWritableBytes(buf, n)) /\ UNCHANGED next

ReadFd(n) ==
  /\ next + n <= MaxBytes
  /\ n <= ReadLimit(buf)
  /\ LET full == fill(buf, New(n))
         rest == n - writableBytes(buf)
         fails == n > writableBytes(buf) /\ AssertFails(full, rest)
     IN  \/ fails /\ Fails
         \/ ~fails /\ Grown(n, readFd(buf, New(n))) /\ next' = next + n

Retrieve(n) ==
  /\ n <= readableBytes(buf)
  /\ buf' = retrieve(buf, n)
  /\ UNCHANGED <<next, peak, crash>>

Unwrite(n) ==
  /\ n <= readableBytes(buf)
  /\ buf' = unwrite(buf, n)
  /\ UNCHANGED <<next, peak, crash>>

Prepend(n) ==
  /\ next + n <= MaxBytes
  /\ n <= prependableBytes(buf)
  /\ buf' = prepend(buf, New(n))
  /\ next' = next + n
  /\ UNCHANGED <<peak, crash>>

Shrink(reserve) == Grown(reserve, shrink(buf, reserve)) /\ UNCHANGED next

Next ==
  /\ ~crash
  /\ \/ \E n \in 1 .. MaxBytes :
          AppendBytes(n) \/ ReadFd(n) \/ Prepend(n) \/ Retrieve(n) \/ Unwrite(n)
     \/ \E n \in 0 .. MaxReserve : EnsureWritableBytes(n) \/ Shrink(n)

Spec == Init /\ [][Next]_vars

------------------------------------------------------------------------------
(* Properties *)

\* The indices are in order and inside the vector: no call reads or writes outside
\* buffer_.
TypeOK ==
  /\ buf \in [mem : Seq(Nat), readerIndex : Nat, writerIndex : Nat]
  /\ buf.readerIndex <= buf.writerIndex
  /\ buf.writerIndex <= Len(buf.mem)
  /\ next \in Nat /\ peak \in Nat /\ crash \in BOOLEAN

\* A buffer that is filled and emptied for ever does not grow for ever: makeSpace
\* reuses the room of what was retrieved, so that buffer_ is never larger than
\* twice the most that was asked for at once (or the initial size).  With the types.
BoundedGrowth ==
  /\ TypeOK
  /\ Len(buf.mem) <= kCheapPrepend + Larger(kInitialSize, 2 * peak)

BQ == INSTANCE ByteQueue WITH bytes <- Readable(buf), next <- next

\* Whatever moves, growth, headers and reads into the spare array happen, the
\* readable bytes are those of a plain queue.
ImplementsByteQueue == BQ!Spec
==============================================================================
