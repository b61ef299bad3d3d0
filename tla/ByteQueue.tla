----------------------------- MODULE ByteQueue -----------------------------
(***************************************************************************)
(* What Buffer promises its users: a queue of bytes that grows at its back *)
(* (append, readFd), or by a header at its front (prepend), is consumed    *)
(* from the front (retrieve) and can be cut at the back (unwrite).  Bytes  *)
(* are numbered in the order in which they are handed in, so that a lost,  *)
(* repeated or misplaced byte shows.                                       *)
(***************************************************************************)
EXTENDS Naturals, Sequences

VARIABLES bytes,   \* what can be read
          next     \* how many bytes have been handed in so far

vars == <<bytes, next>>

\* the next n bytes
New(n) == [i \in 1 .. n |-> next + i]

Init == bytes = <<>> /\ next = 0

Append_ == next' > next /\ bytes' = bytes \o New(next' - next)

Prepend == next' > next /\ bytes' = New(next' - next) \o bytes

Retrieve == next' = next /\ \E n \in 1 .. Len(bytes) : bytes' = SubSeq(bytes, n + 1, Len(bytes))

Unwrite == next' = next /\ \E n \in 1 .. Len(bytes) : bytes' = SubSeq(bytes, 1, Len(bytes) - n)

Next == Append_ \/ Prepend \/ Retrieve \/ Unwrite

Spec == Init /\ [][Next]_vars
=============================================================================
