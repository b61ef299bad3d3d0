----------------------------- MODULE ByteStream -----------------------------
(***************************************************************************)
(* What TcpConnection promises to who sends: a reliable stream that ends   *)
(* once.  Units are numbered in the order in which they are taken; they    *)
(* reach the wire in that order, each once; the end of the stream follows  *)
(* the last unit, and after it nothing is taken or sent.  Only a           *)
(* connection that is closed before may lose what is not on the wire yet.  *)
(***************************************************************************)
EXTENDS Naturals, Sequences

VARIABLES taken,   \* how many units have been taken
          sent,    \* the units on the wire
          fin,     \* the stream has ended
          closed   \* the connection has been closed, from either side

vars == <<taken, sent, fin, closed>>

\* the first n units
First(n) == [i \in 1 .. n |-> i]

Init == taken = 0 /\ sent = <<>> /\ fin = FALSE /\ closed = FALSE

\* some of what is taken may go to the wire at once
Take ==
  /\ ~fin /\ taken' > taken
  /\ \E n \in Len(sent) .. taken' : sent' = First(n)
  /\ UNCHANGED <<fin, closed>>

\* with the last unit the stream may end
Send ==
  /\ ~fin /\ fin' \in BOOLEAN
  /\ \E n \in Len(sent) + 1 .. taken : sent' = First(n) /\ (fin' => n = taken)
  /\ UNCHANGED <<taken, closed>>

End ==
  /\ ~fin /\ (sent = First(taken) \/ closed)
  /\ fin' = TRUE
  /\ UNCHANGED <<taken, sent, closed>>

Close == ~closed /\ closed' = TRUE /\ UNCHANGED <<taken, sent, fin>>

\* a send() that was under way when the connection was closed; the units are lost
TakeLate ==
  /\ fin /\ closed /\ taken' > taken
  /\ UNCHANGED <<sent, fin, closed>>

Next == Take \/ Send \/ End \/ Close \/ TakeLate

Spec == Init /\ [][Next]_vars
=============================================================================
