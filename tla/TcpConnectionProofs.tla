------------------------- MODULE TcpConnectionProofs -------------------------
(***************************************************************************)
(* Proofs about TcpConnection, for any message length, high-water mark,    *)
(* bounds and ways to use the connection: the order of the stream, the     *)
(* wait for EPOLLOUT, the stream that the peer sees, the asserts that hold *)
(* while only the io loop and the TcpServer have the connection, and which *)
(* calls of other threads break them.                                      *)
(***************************************************************************)
EXTENDS TcpConnection, SequenceTheorems, TLAPS

UpTo(n) == [i \in 1 .. n |-> i]
After(a, m) == [i \in 1 .. m |-> a + i]

\* what the handlers of the io loop change
ConnOK ==
  /\ state \in States
  /\ reading \in BOOLEAN /\ finSent \in BOOLEAN
  /\ output \in Seq(Nat) /\ wire \in Seq(Nat)
  /\ accepted \in Nat /\ ups \in Nat /\ downs \in Nat
  /\ events \subseteq {"read", "write"}
  /\ index \in {"kNew", "kAdded", "kDeleted"}
  /\ events # {} => index = "kAdded"
  /\ functors \in Seq(Functors) /\ base \in Seq({"removeConnection"})

\* sent, and not lost: the order of the units, and when the write side is shut down
Order == wire \o output = UpTo(accepted)
FinAfterOutput == finSent /\ downs = 0 => output = <<>>

StreamInv == TypeOK /\ Order /\ FinAfterOutput /\ WritesWhileOutput

------------------------------------------------------------------------------
Has(f) == f \in Members(functors)
Unique(s, f) == \A i, j \in DOMAIN s : s[i] = f /\ s[j] = f => i = j

\* before connectEstablished
Fresh ==
  /\ ups = 0 /\ downs = 0 /\ reading /\ connections /\ base = <<>> /\ ~dead
  /\ functors = <<"connectEstablished">> /\ revents = {} /\ index = "kNew"

\* between connectEstablished and handleClose
Open ==
  /\ ups = 1 /\ downs = 0 /\ connections /\ base = <<>> /\ ~dead
  /\ ~Has("connectEstablished") /\ ~Has("connectDestroyed")
  /\ index # "kNew" /\ (reading <=> "read" \in events)

\* after handleClose: the removal waits in the base loop, connectDestroyed waits in the
\* io loop, or the channel is removed
Closed ==
  /\ ups = 1 /\ downs = 1 /\ ~Has("connectEstablished") /\ events = {}
  /\ reading => index # "kAdded" /\ revents \subseteq {"OUT"}
  /\ \/ connections /\ base = <<"removeConnection">> /\ ~Has("connectDestroyed") /\ ~dead
        /\ index # "kNew"
     \/ ~connections /\ base = <<>> /\ Unique(functors, "connectDestroyed")
        /\ Has("connectDestroyed") /\ ~dead /\ index # "kNew"
     \/ ~connections /\ base = <<>> /\ ~Has("connectDestroyed") /\ index = "kNew"
        /\ (dead => functors = <<>>)

Phase ==
  /\ state = "kConnecting" => Fresh
  /\ state \in {"kConnected", "kDisconnecting"} => Open
  /\ state = "kDisconnected" => Closed

\* a crash ends the behaviour
Good ==
  /\ ups <= 1 /\ downs <= ups
  /\ reading => crash \in {"none", "EPIPE", "ENOTCONN"}
  /\ crash = "none" => Members(functors) \subseteq Shared /\ Phase

\* while nobody else has the connection
ConfinedInv == Confined => Good

------------------------------------------------------------------------------
(* Sequences *)

LEMMA Cut ==
  ASSUME NEW S, NEW b \in Seq(S), NEW n \in 0 .. Len(b)
  PROVE  /\ SubSeq(b, 1, n) \in Seq(S) /\ SubSeq(b, n + 1, Len(b)) \in Seq(S)
         /\ SubSeq(b, 1, n) \o SubSeq(b, n + 1, Len(b)) = b
         /\ n = Len(b) <=> SubSeq(b, n + 1, Len(b)) = <<>>
         /\ n = 0 => SubSeq(b, 1, n) = <<>>
<1>1. Len(b) \in Nat /\ n \in Int /\ \A i \in 1 .. Len(b) : b[i] \in S
  BY LenProperties, ElementOfSeq
<1>2. SubSeq(b, 1, n) \in Seq(S) /\ Len(SubSeq(b, 1, n)) = IF 1 <= n THEN n - 1 + 1 ELSE 0
  <2>1. 1 \in Int /\ \A i \in 1 .. n : b[i] \in S
    BY <1>1
  <2> QED
    BY <1>1, <2>1, SubSeqProperties
<1>3. /\ SubSeq(b, n + 1, Len(b)) \in Seq(S)
      /\ Len(SubSeq(b, n + 1, Len(b))) = IF n + 1 <= Len(b) THEN Len(b) - (n + 1) + 1 ELSE 0
  <2>1. n + 1 \in Int /\ Len(b) \in Int /\ \A i \in n + 1 .. Len(b) : b[i] \in S
    BY <1>1
  <2> QED
    BY <2>1, SubSeqProperties
<1>4. SubSeq(b, 1, n) \o SubSeq(b, n + 1, Len(b)) = b
  <2>1. 1 \in 1 .. Len(b) + 1 /\ n \in 1 - 1 .. Len(b) /\ Len(b) \in n .. Len(b)
    BY <1>1
  <2>2. SubSeq(b, 1, n) \o SubSeq(b, n + 1, Len(b)) = SubSeq(b, 1, Len(b))
    BY <2>1, ConcatAdjacentSubSeq
  <2> QED
    BY <2>2, SubSeqFull
<1>5. n = Len(b) <=> SubSeq(b, n + 1, Len(b)) = <<>>
  <2> DEFINE q == SubSeq(b, n + 1, Len(b))
  <2>1. q \in Seq(S) /\ (Len(q) = 0 <=> n = Len(b))
    BY <1>1, <1>3
  <2> HIDE DEF q
  <2>2. n = Len(b) <=> q = <<>>
    BY <2>1, EmptySeq
  <2> QED
    BY <2>2 DEF q
<1>6. n = 0 => SubSeq(b, 1, n) = <<>>
  <2> DEFINE p == SubSeq(b, 1, n)
  <2>1. p \in Seq(S) /\ (n = 0 => Len(p) = 0)
    BY <1>2
  <2> HIDE DEF p
  <2>2. n = 0 => p = <<>>
    BY <2>1, EmptySeq
  <2> QED
    BY <2>2 DEF p
<1> QED
  BY <1>2, <1>3, <1>4, <1>5, <1>6

LEMMA Assoc ==
  ASSUME NEW a \in Seq(Nat), NEW b \in Seq(Nat), NEW c \in Seq(Nat)
  PROVE  (a \o b) \o c = a \o (b \o c)
<1> DEFINE S == Nat
<1>1. a \in Seq(S) /\ b \in Seq(S) /\ c \in Seq(S)
  OBVIOUS
<1> HIDE DEF S
<1> QED
  BY <1>1, ConcatAssociative, SMTT(30)

\* the next m units, after a
LEMMA UpToAppend ==
  ASSUME NEW a \in Nat, NEW m \in Nat
  PROVE  /\ [i \in 1 .. m |-> a + i] \in Seq(Nat)
         /\ Len([i \in 1 .. m |-> a + i]) = m
         /\ UpTo(a) \o [i \in 1 .. m |-> a + i] = UpTo(a + m)
<1> DEFINE u == [i \in 1 .. m |-> a + i]
<1>1. u \in Seq(Nat) /\ Len(u) = m /\ \A i \in 1 .. m : u[i] = a + i
  BY IsASeq
<1>2. /\ UpTo(a) \in Seq(Nat) /\ Len(UpTo(a)) = a
      /\ \A i \in 1 .. a : UpTo(a)[i] = i
  BY IsASeq DEF UpTo
<1>3. /\ UpTo(a + m) \in Seq(Nat) /\ Len(UpTo(a + m)) = a + m
      /\ \A i \in 1 .. a + m : UpTo(a + m)[i] = i
  BY IsASeq DEF UpTo
<1> DEFINE v == UpTo(a)
           w == UpTo(a + m)
<1> HIDE DEF u, v, w
<1>4. v \in Seq(Nat) /\ Len(v) = a /\ \A i \in 1 .. a : v[i] = i
  BY <1>2 DEF v
<1>5. w \in Seq(Nat) /\ Len(w) = a + m /\ \A i \in 1 .. a + m : w[i] = i
  BY <1>3 DEF w
<1>6. /\ v \o u \in Seq(Nat) /\ Len(v \o u) = a + m
      /\ \A i \in 1 .. a + m : (v \o u)[i] = IF i <= a THEN v[i] ELSE u[i - a]
  BY <1>1, <1>4, ConcatProperties, ZenonT(30)
<1>7. \A i \in 1 .. a + m : (v \o u)[i] = w[i]
  BY <1>1, <1>4, <1>5, <1>6
<1>8. v \o u = w
  BY <1>5, <1>6, <1>7, SeqEqual
<1> QED
  BY <1>1, <1>8 DEF u, v, w

\* a message goes to the wire up to n, and the rest of it behind the output
LEMMA SendKeepsOrder ==
  ASSUME NEW w \in Seq(Nat), NEW o \in Seq(Nat), NEW u \in Seq(Nat), NEW n \in 0 .. Len(u),
         n = 0 \/ o = <<>>
  PROVE  /\ w \o SubSeq(u, 1, n) \in Seq(Nat)
         /\ o \o SubSeq(u, n + 1, Len(u)) \in Seq(Nat)
         /\ (w \o SubSeq(u, 1, n)) \o (o \o SubSeq(u, n + 1, Len(u))) = (w \o o) \o u
<1> DEFINE p == SubSeq(u, 1, n)
           q == SubSeq(u, n + 1, Len(u))
<1>4. p \in Seq(Nat) /\ q \in Seq(Nat) /\ p \o q = u /\ (n = Len(u) <=> q = <<>>)
      /\ (n = 0 => p = <<>>)
  BY Cut
<1> HIDE DEF p, q
<1>t. p \in Seq(Nat) /\ q \in Seq(Nat)
  BY <1>4
<1>5. w \o p \in Seq(Nat) /\ o \o q \in Seq(Nat)
  BY <1>t, ConcatProperties
<1>7. (w \o p) \o (o \o q) = (w \o o) \o u
  <2>1. CASE o = <<>>
    <3>1. o \o q = q /\ w \o o = w
      BY <1>4, <2>1, ConcatEmptySeq
    <3>2. (w \o p) \o q = w \o (p \o q)
      BY <1>t, Assoc, ZenonT(30)
    <3> QED
      BY <1>4, <3>1, <3>2
  <2>2. CASE n = 0
    <3>1. w \o p = w /\ p = <<>>
      BY <1>4, <2>2, ConcatEmptySeq
    <3>2. p \o q = q
      BY <1>4, <3>1, ConcatEmptySeq
    <3>3. (w \o o) \o q = w \o (o \o q)
      BY <1>t, Assoc, ZenonT(30)
    <3> QED
      BY <1>4, <3>1, <3>2, <3>3
  <2> QED
    BY <2>1, <2>2
<1> QED
  BY <1>5, <1>7 DEF p, q

LEMMA SendKeepsOutput ==
  ASSUME NEW o \in Seq(Nat), NEW u \in Seq(Nat), NEW n \in 0 .. Len(u)
  PROVE  o \o SubSeq(u, n + 1, Len(u)) = <<>> <=> o = <<>> /\ n = Len(u)
<1> DEFINE q == SubSeq(u, n + 1, Len(u))
<1>1. q \in Seq(Nat) /\ (n = Len(u) <=> q = <<>>)
  BY Cut
<1> HIDE DEF q
<1>2. Len(o \o q) = Len(o) + Len(q) /\ Len(o) \in Nat /\ Len(q) \in Nat /\ o \o q \in Seq(Nat)
  BY <1>1, ConcatProperties, LenProperties
<1>3. (o \o q = <<>> <=> Len(o \o q) = 0) /\ (o = <<>> <=> Len(o) = 0) /\ (q = <<>> <=> Len(q) = 0)
  BY <1>1, <1>2, EmptySeq
<1>4. o \o q = <<>> <=> o = <<>> /\ n = Len(u)
  BY <1>1, <1>2, <1>3
<1> QED
  BY <1>4 DEF q

\* handleWrite moves the first n units from the output to the wire
LEMMA WriteKeepsOrder ==
  ASSUME NEW w \in Seq(Nat), NEW o \in Seq(Nat), NEW n \in 1 .. Len(o)
  PROVE  /\ w \o SubSeq(o, 1, n) \in Seq(Nat) /\ SubSeq(o, n + 1, Len(o)) \in Seq(Nat)
         /\ (w \o SubSeq(o, 1, n)) \o SubSeq(o, n + 1, Len(o)) = w \o o
         /\ n = Len(o) <=> SubSeq(o, n + 1, Len(o)) = <<>>
<1> DEFINE p == SubSeq(o, 1, n)
           q == SubSeq(o, n + 1, Len(o))
<1>1. n \in 0 .. Len(o)
  OBVIOUS
<1>2. p \in Seq(Nat) /\ q \in Seq(Nat) /\ p \o q = o /\ (n = Len(o) <=> q = <<>>)
  BY <1>1, Cut
<1> HIDE DEF p, q
<1>t. p \in Seq(Nat) /\ q \in Seq(Nat)
  BY <1>2
<1>3. w \o p \in Seq(Nat) /\ (w \o p) \o q = w \o (p \o q)
  BY <1>t, ConcatProperties, Assoc
<1> QED
  BY <1>2, <1>3 DEF p, q
------------------------------------------------------------------------------
(* The handlers keep the stream *)

ConnInv == ConnOK /\ Order /\ FinAfterOutput /\ WritesWhileOutput

LEMMA ConnFrame == ConnInv /\ UNCHANGED <<connVars, base, functors>> => ConnInv'
BY DEF ConnInv, ConnOK, Order, FinAfterOutput, WritesWhileOutput, isWriting, connVars

\* a handler that leaves the stream alone, but for the events of the channel
LEMMA EventsOnly ==
  ASSUME ConnInv, NEW e \in SUBSET {"read", "write"}, update(e), "write" \in e <=> "write" \in events,
         UNCHANGED <<output, accepted, wire, finSent>>, downs' = 0 => downs = 0
  PROVE  /\ events' \subseteq {"read", "write"} /\ index' \in {"kAdded", "kDeleted"}
         /\ events' # {} => index' = "kAdded"
         /\ Order' /\ FinAfterOutput' /\ WritesWhileOutput'
<1>1. events' = e /\ index' \in {"kAdded", "kDeleted"} /\ (e # {} => index' = "kAdded")
  BY DEF update
<1> QED
  BY <1>1 DEF ConnInv, Order, FinAfterOutput, WritesWhileOutput, isWriting

LEMMA SendStep ==
  ASSUME ConnInv, NEW fs \in Seq(Functors), sendInLoop(fs)
  PROVE  ConnInv'
<1>1. CASE functors' = fs /\ UNCHANGED <<connVars, base>>
  BY <1>1 DEF ConnInv, ConnOK, Order, FinAfterOutput, WritesWhileOutput, isWriting, connVars
<1>2. CASE ~(functors' = fs /\ UNCHANGED <<connVars, base>>)
  <2>1. /\ ~(sendAtOnce /\ (finSent \/ peer = "rst")) /\ accepted' = accepted + MsgLen
        /\ UNCHANGED <<state, reading, finSent, ups, downs, base>>
    BY <1>2 DEF sendInLoop, mustEnable, Crash
  <2>0. MsgLen \in Nat /\ MsgLen > 0
    BY TcpAssumption
  <2>2. PICK n \in 0 .. MsgLen :
          /\ n = 0 \/ sendAtOnce
          /\ wire' = wire \o SubSeq(Units(MsgLen), 1, n)
          /\ output' = output \o SubSeq(Units(MsgLen), n + 1, MsgLen)
          /\ functors' = fs \o (IF n = MsgLen THEN <<"writeComplete">> ELSE HighWater(MsgLen - n))
          /\ IF n < MsgLen /\ ~isWriting THEN update(events \cup {"write"})
                                         ELSE UNCHANGED <<events, index>>
    <3>1. {0} \subseteq 0 .. MsgLen
      BY <2>0
    <3> QED
      BY <1>2, <3>1 DEF sendInLoop, mustEnable, Crash
  <2>3. n \in 0 .. MsgLen /\ MsgLen \in Nat /\ MsgLen > 0 /\ (n = 0 \/ (output = <<>> /\ ~isWriting))
    BY <2>0, <2>2 DEF sendAtOnce
  <2> DEFINE u == After(accepted, MsgLen)
  <2>4. u = Units(MsgLen)
    BY DEF Units, After
  <2>5. wire \in Seq(Nat) /\ output \in Seq(Nat) /\ accepted \in Nat /\ wire \o output = UpTo(accepted)
    BY DEF ConnInv, ConnOK, Order
  <2>6. u \in Seq(Nat) /\ Len(u) = MsgLen /\ UpTo(accepted) \o u = UpTo(accepted + MsgLen)
    BY <2>0, <2>5, UpToAppend DEF After
  <2> HIDE DEF u
  <2>a. n \in 0 .. Len(u) /\ (n = 0 \/ output = <<>>)
    BY <2>3, <2>6
  <2>b. wire \in Seq(Nat) /\ output \in Seq(Nat) /\ u \in Seq(Nat)
    BY <2>5, <2>6
  <2>c. /\ wire \o SubSeq(u, 1, n) \in Seq(Nat)
        /\ output \o SubSeq(u, n + 1, Len(u)) \in Seq(Nat)
        /\ (wire \o SubSeq(u, 1, n)) \o (output \o SubSeq(u, n + 1, Len(u))) = (wire \o output) \o u
    BY ONLY <2>a, <2>b, SendKeepsOrder, ZenonT(30)
  <2>d. output \o SubSeq(u, n + 1, Len(u)) = <<>> <=> output = <<>> /\ n = Len(u)
    BY <2>a, <2>b, SendKeepsOutput
  <2>7. wire' \in Seq(Nat) /\ output' \in Seq(Nat) /\ Order' /\ (output' = <<>> <=> output = <<>> /\ n = MsgLen)
    BY <2>1, <2>2, <2>4, <2>5, <2>6, <2>c, <2>d DEF Order
  <2>8. functors' \in Seq(Functors)
    <3>1. <<"writeComplete">> \in Seq(Functors) /\ <<"highWater">> \in Seq(Functors)
          /\ <<>> \in Seq(Functors)
      BY DEF Functors, Shared
    <3> QED
      BY <2>2, <3>1, ConcatProperties DEF HighWater
  <2>9. /\ events' = (IF n < MsgLen THEN events \cup {"write"} ELSE events)
        /\ index' \in {"kNew", "kAdded", "kDeleted"}
        /\ events' # {} => index' = "kAdded"
    BY <2>2, <2>3 DEF update, ConnInv, ConnOK, isWriting
  <2>10. downs = 0 => ~finSent
    <3> SUFFICES ASSUME downs = 0, finSent PROVE FALSE
      OBVIOUS
    <3>1. output = <<>> /\ ~isWriting
      BY DEF ConnInv, FinAfterOutput, WritesWhileOutput
    <3> QED
      BY <2>1, <3>1 DEF sendAtOnce
  <2>11. FinAfterOutput'
    BY <2>1, <2>10 DEF FinAfterOutput
  <2>12. WritesWhileOutput'
    <3> SUFFICES ASSUME downs = 0 PROVE "write" \in events' <=> output' # <<>>
      BY <2>1 DEF WritesWhileOutput, isWriting
    <3>1. "write" \in events <=> output # <<>>
      BY DEF ConnInv, WritesWhileOutput, isWriting
    <3>2. CASE n < MsgLen
      BY <2>7, <2>9, <3>2
    <3>3. CASE ~(n < MsgLen)
      BY <2>3, <2>7, <2>9, <3>1, <3>3
    <3> QED
      BY <3>2, <3>3
  <2> QED
    BY <2>1, <2>3, <2>5, <2>7, <2>8, <2>9, <2>11, <2>12 DEF ConnInv, ConnOK
<1> QED
  BY <1>1, <1>2

LEMMA ShutdownStep ==
  ASSUME ConnInv, NEW fs \in Seq(Functors), NEW st \in States, shutdownInLoop(fs, st)
  PROVE  ConnInv'
<1>1. /\ state' = st /\ functors' = fs
      /\ UNCHANGED <<reading, output, events, index, accepted, wire, ups, downs, base>>
  BY DEF shutdownInLoop
<1>2. (finSent' <=> finSent \/ "write" \notin events) /\ finSent' \in BOOLEAN
  BY DEF shutdownInLoop, mayShutdown, ConnInv, ConnOK
<1>3. FinAfterOutput'
  BY <1>1, <1>2 DEF ConnInv, FinAfterOutput, WritesWhileOutput, isWriting
<1> QED
  BY <1>1, <1>2, <1>3 DEF ConnInv, ConnOK, Order, WritesWhileOutput, isWriting

LEMMA CloseStep ==
  ASSUME ConnInv, NEW fs \in Seq(Functors), handleClose(fs)
  PROVE  ConnInv'
<1>1. CASE UNCHANGED <<connVars, base>>
  BY <1>1 DEF handleClose, ConnInv, ConnOK, Order, FinAfterOutput, WritesWhileOutput, isWriting,
              connVars
<1>2. CASE ~UNCHANGED <<connVars, base>>
  <2>1. /\ functors' = fs /\ state' = "kDisconnected" /\ update({}) /\ downs' = downs + 1
        /\ base' = (IF server THEN Append(base, "removeConnection") ELSE base)
        /\ UNCHANGED <<reading, output, accepted, wire, finSent, ups>>
    BY <1>2 DEF handleClose, Crash
  <2>2. base' \in Seq({"removeConnection"})
    BY <2>1, AppendProperties DEF ConnInv, ConnOK
  <2>3. events' = {} /\ index' \in {"kAdded", "kDeleted"}
    BY <2>1 DEF update
  <2>4. downs' \in Nat /\ downs' # 0
    BY <2>1 DEF ConnInv, ConnOK
  <2> QED
    BY <2>1, <2>2, <2>3, <2>4
       DEF ConnInv, ConnOK, Order, FinAfterOutput, WritesWhileOutput, States
<1> QED
  BY <1>1, <1>2

LEMMA ReadModeStep ==
  ASSUME ConnInv, NEW fs \in Seq(Functors), startReadInLoop(fs) \/ stopReadInLoop(fs)
  PROVE  ConnInv'
<1>1. /\ functors' = fs /\ reading' \in BOOLEAN
      /\ UNCHANGED <<state, output, accepted, wire, finSent, ups, downs, base>>
  BY DEF startReadInLoop, stopReadInLoop, ConnInv, ConnOK
<1>2. CASE UNCHANGED <<events, index>>
  BY <1>1, <1>2 DEF ConnInv, ConnOK, Order, FinAfterOutput, WritesWhileOutput, isWriting
<1>3. CASE ~UNCHANGED <<events, index>>
  <2>1. PICK e \in {events \cup {"read"}, events \ {"read"}} : update(e)
    BY <1>3 DEF startReadInLoop, stopReadInLoop
  <2>2. e \in SUBSET {"read", "write"} /\ ("write" \in e <=> "write" \in events)
    BY <2>1 DEF ConnInv, ConnOK
  <2>3. /\ events' \subseteq {"read", "write"} /\ index' \in {"kAdded", "kDeleted"}
        /\ events' # {} => index' = "kAdded"
        /\ Order' /\ FinAfterOutput' /\ WritesWhileOutput'
    BY <1>1, <2>1, <2>2, EventsOnly
  <2> QED
    BY <1>1, <2>3 DEF ConnInv, ConnOK
<1> QED
  BY <1>2, <1>3

LEMMA EstablishStep ==
  ASSUME ConnInv, NEW fs \in Seq(Functors), connectEstablished(fs)
  PROVE  ConnInv'
<1>1. CASE UNCHANGED <<connVars, base>>
  BY <1>1 DEF connectEstablished, ConnInv, ConnOK, Order, FinAfterOutput, WritesWhileOutput,
              isWriting, connVars
<1>2. CASE ~UNCHANGED <<connVars, base>>
  <2>1. /\ functors' = fs /\ state' = "kConnected" /\ update(events \cup {"read"}) /\ ups' = ups + 1
        /\ UNCHANGED <<reading, output, accepted, wire, finSent, downs, base>>
    BY <1>2 DEF connectEstablished, Crash
  <2>2. /\ events' \subseteq {"read", "write"} /\ index' \in {"kAdded", "kDeleted"}
        /\ events' # {} => index' = "kAdded"
        /\ Order' /\ FinAfterOutput' /\ WritesWhileOutput'
    <3>1. events \cup {"read"} \in SUBSET {"read", "write"}
      BY DEF ConnInv, ConnOK
    <3> QED
      BY <2>1, <3>1, EventsOnly
  <2> QED
    BY <2>1, <2>2 DEF ConnInv, ConnOK, States
<1> QED
  BY <1>1, <1>2

LEMMA DestroyedStep ==
  ASSUME ConnInv, NEW fs \in Seq(Functors), connectDestroyed(fs)
  PROVE  ConnInv'
<1>1. CASE UNCHANGED <<connVars, base>>
  BY <1>1 DEF connectDestroyed, ConnInv, ConnOK, Order, FinAfterOutput, WritesWhileOutput,
              isWriting, connVars
<1>2. CASE ~UNCHANGED <<connVars, base>>
  <2>1. /\ functors' = fs /\ removeChannel
        /\ state = "kConnected" \/ events = {}
        /\ state' = IF state = "kConnected" THEN "kDisconnected" ELSE state
        /\ downs' = IF state = "kConnected" THEN downs + 1 ELSE downs
        /\ UNCHANGED <<reading, output, accepted, wire, finSent, ups, base>>
    BY <1>2 DEF connectDestroyed, Crash, mayRemove
  <2>2. events' = {} /\ index' = "kNew" /\ state' \in States /\ downs' \in Nat
    BY <2>1 DEF removeChannel, ConnInv, ConnOK, States
  <2>3. CASE state = "kConnected"
    <3>1. downs' # 0
      BY <2>1, <2>3 DEF ConnInv, ConnOK
    <3> QED
      BY <2>1, <2>2, <3>1 DEF ConnInv, ConnOK, Order, FinAfterOutput, WritesWhileOutput
  <2>4. CASE state # "kConnected"
    BY <2>1, <2>2, <2>4 DEF ConnInv, ConnOK, Order, FinAfterOutput, WritesWhileOutput, isWriting
  <2> QED
    BY <2>3, <2>4
<1> QED
  BY <1>1, <1>2

LEMMA WriteStep ==
  ASSUME ConnInv, NEW fs \in Seq(Functors), handleWrite(fs)
  PROVE  ConnInv'
<1>1. CASE functors' = fs /\ UNCHANGED <<connVars, base>>
  BY <1>1 DEF ConnInv, ConnOK, Order, FinAfterOutput, WritesWhileOutput, isWriting, connVars
<1>2. CASE ~(functors' = fs /\ UNCHANGED <<connVars, base>>)
  <2>1. isWriting /\ UNCHANGED <<state, reading, accepted, ups, downs, base>> /\ ~finSent
    BY <1>2 DEF handleWrite, Crash
  <2>2. PICK n \in 1 .. Len(output) :
          /\ wire' = wire \o SubSeq(output, 1, n)
          /\ output' = SubSeq(output, n + 1, Len(output))
          /\ IF n = Len(output)
               THEN /\ update(events \ {"write"})
                    /\ functors' = Append(fs, "writeComplete")
                    /\ finSent' = shutdownWaits
               ELSE functors' = fs /\ UNCHANGED <<events, index, finSent>>
    BY <1>2 DEF handleWrite, Crash
  <2>3. wire \in Seq(Nat) /\ output \in Seq(Nat)
    BY DEF ConnInv, ConnOK
  <2>4. /\ wire \o SubSeq(output, 1, n) \in Seq(Nat) /\ SubSeq(output, n + 1, Len(output)) \in Seq(Nat)
        /\ (wire \o SubSeq(output, 1, n)) \o SubSeq(output, n + 1, Len(output)) = wire \o output
        /\ n = Len(output) <=> SubSeq(output, n + 1, Len(output)) = <<>>
    BY <2>3, WriteKeepsOrder
  <2>5. wire' \in Seq(Nat) /\ output' \in Seq(Nat) /\ Order' /\ (n = Len(output) <=> output' = <<>>)
    BY <2>1, <2>2, <2>4 DEF ConnInv, Order
  <2>6. functors' \in Seq(Functors)
    <3>1. "writeComplete" \in Functors
      BY DEF Functors, Shared
    <3>2. Append(fs, "writeComplete") \in Seq(Functors)
      BY <3>1, AppendProperties
    <3> QED
      BY <2>2, <3>2
  <2>7. /\ events' = (IF n = Len(output) THEN events \ {"write"} ELSE events)
        /\ index' \in {"kNew", "kAdded", "kDeleted"}
        /\ events' # {} => index' = "kAdded"
    BY <2>2 DEF update, ConnInv, ConnOK
  <2>8. finSent' \in BOOLEAN /\ (n # Len(output) => finSent' = finSent)
    BY <2>2 DEF shutdownWaits, ConnInv, ConnOK
  <2>9. FinAfterOutput'
    BY <2>1, <2>5, <2>8 DEF FinAfterOutput
  <2>10. WritesWhileOutput'
    BY <2>1, <2>5, <2>7 DEF WritesWhileOutput, isWriting
  <2> QED
    BY <2>1, <2>5, <2>6, <2>7, <2>8, <2>9, <2>10 DEF ConnInv, ConnOK
<1> QED
  BY <1>1, <1>2
------------------------------------------------------------------------------
(* The stream *)

\* what the handlers do not change
WorldOK ==
  /\ usage \in Usages
  /\ revents \subseteq {"IN", "OUT", "HUP", "ERR"}
  /\ user \in UserPCs
  /\ dead => ~connections

LEMMA StreamParts == StreamInv <=> ConnInv /\ WorldOK
BY DEF StreamInv, TypeOK, ConnInv, ConnOK, WorldOK

LEMMA TailOfFunctors ==
  ASSUME ConnInv
  PROVE  /\ functors \in Seq(Functors)
         /\ functors # <<>> => Tail(functors) \in Seq(Functors) /\ Head(functors) \in Functors
BY HeadTailProperties DEF ConnInv, ConnOK

LEMMA AppendToFunctors ==
  ASSUME ConnInv, NEW f \in Functors
  PROVE  Append(functors, f) \in Seq(Functors)
BY AppendProperties DEF ConnInv, ConnOK

\* a step that only queues a functor
LEMMA QueueStep ==
  ASSUME ConnInv, functors' \in Seq(Functors), base' \in Seq({"removeConnection"}),
         UNCHANGED connVars
  PROVE  ConnInv'
BY DEF ConnInv, ConnOK, Order, FinAfterOutput, WritesWhileOutput, isWriting, connVars

\* a step that also sets state_
LEMMA SetStateStep ==
  ASSUME ConnInv, functors' \in Seq(Functors), state' \in States,
         UNCHANGED <<reading, output, events, index, accepted, wire, finSent, ups, downs, base>>
  PROVE  ConnInv'
BY DEF ConnInv, ConnOK, Order, FinAfterOutput, WritesWhileOutput, isWriting

LEMMA StreamStep == StreamInv /\ [Next]_vars => StreamInv'
<1> SUFFICES ASSUME ConnInv, WorldOK, [Next]_vars PROVE ConnInv' /\ WorldOK'
  BY DEF StreamInv, TypeOK, ConnInv, ConnOK, WorldOK
<1>0. functors \in Seq(Functors)
  BY TailOfFunctors
<1>o. UNCHANGED <<others, revents>> => WorldOK'
  BY DEF WorldOK, others
<1>r. UNCHANGED others /\ revents' \subseteq revents \cup {"ERR"} => WorldOK'
  BY DEF WorldOK, others
<1>1. CASE Poll
  <2>1. revents' \subseteq {"IN", "OUT", "HUP", "ERR"}
    BY <1>1 DEF Poll, Ready
  <2> QED
    BY <1>1, <2>1, ConnFrame DEF Poll, WorldOK, others
<1>2. CASE HandleHup
  <2>1. ConnInv'
    BY <1>0, <1>2, CloseStep, ConnFrame DEF HandleHup
  <2> QED
    BY <1>2, <1>r, <2>1 DEF HandleHup
<1>3. CASE HandleRead
  <2>1. ConnInv'
    BY <1>0, <1>3, CloseStep, ConnFrame DEF HandleRead
  <2> QED
    BY <1>3, <1>r, <2>1 DEF HandleRead
<1>4. CASE HandleWrite
  <2>1. ConnInv'
    BY <1>0, <1>4, WriteStep DEF HandleWrite
  <2> QED
    BY <1>4, <1>r, <2>1 DEF HandleWrite
<1>5. CASE RunFunctor
  <2> DEFINE fs == Tail(functors)
  <2>1. fs \in Seq(Functors)
    BY <1>5, TailOfFunctors DEF RunFunctor
  <2> HIDE DEF fs
  <2>2. CASE functors' = fs /\ UNCHANGED <<connVars, base>>
    <3>1. ConnInv'
      BY <2>1, <2>2, QueueStep DEF ConnInv, ConnOK
    <3> QED
      BY <1>5, <1>o, <3>1 DEF RunFunctor
  <2>3. CASE ~(functors' = fs /\ UNCHANGED <<connVars, base>>)
    <3>1. \/ connectEstablished(fs) \/ connectDestroyed(fs) \/ sendInLoop(fs)
          \/ shutdownInLoop(fs, state) \/ handleClose(fs)
          \/ startReadInLoop(fs) \/ stopReadInLoop(fs)
      BY <1>5, <2>3 DEF RunFunctor, fs, forceCloseInLoop
    <3>2. state \in States
      BY DEF ConnInv, ConnOK
    <3>3. ConnInv'
      BY <2>1, <3>1, <3>2, EstablishStep, DestroyedStep, SendStep, ShutdownStep, CloseStep, ReadModeStep
    <3> QED
      BY <1>5, <1>o, <3>3 DEF RunFunctor
  <2> QED
    BY <2>2, <2>3
<1>6. CASE RemoveConnection
  <2>1. Append(functors, "connectDestroyed") \in Seq(Functors)
    BY AppendToFunctors DEF Functors, Shared
  <2>2. base' \in Seq({"removeConnection"})
    BY <1>6, HeadTailProperties DEF RemoveConnection, ConnInv, ConnOK
  <2>3. ConnInv'
    BY <1>6, <2>1, <2>2, QueueStep DEF RemoveConnection
  <2> QED
    BY <1>6, <2>3 DEF RemoveConnection, WorldOK
<1>7. CASE Destruct
  BY <1>7, ConnFrame DEF Destruct, Referenced, WorldOK
<1>8. CASE LoopSend
  BY <1>0, <1>8, <1>o, SendStep DEF LoopSend, InCallback
<1>9. CASE LoopShutdown
  <2>1. "kDisconnecting" \in States
    BY DEF States
  <2> QED
    BY <1>0, <1>9, <1>o, <2>1, ShutdownStep DEF LoopShutdown, InCallback
<1>10. CASE LoopForceClose
  <2>1. Append(functors, "forceClose") \in Seq(Functors)
    BY AppendToFunctors DEF Functors, Shared
  <2>2. "kDisconnecting" \in States
    BY DEF States
  <2>3. ConnInv'
    BY <1>10, <2>1, <2>2, SetStateStep DEF LoopForceClose
  <2> QED
    BY <1>10, <1>o, <2>3 DEF LoopForceClose, InCallback
<1>11. CASE LoopStartRead \/ LoopStopRead
  BY <1>0, <1>11, <1>o, ReadModeStep DEF LoopStartRead, LoopStopRead, InCallback
<1>12. CASE UserGets \/ UserDrops \/ \E op \in usage.foreign : UserChecks(op)
  <2>1. user' \in UserPCs
    BY <1>12, TcpAssumption DEF UserGets, UserDrops, UserChecks, WorldOK, UserPCs
  <2>2. ConnInv'
    BY <1>12, ConnFrame DEF UserGets, UserDrops, UserChecks, rest
  <2> QED
    BY <1>12, <2>1, <2>2 DEF UserGets, UserDrops, UserChecks, rest, WorldOK
<1>13. CASE UserSetsState
  <2>1. "kDisconnecting" \in States /\ user' \in UserPCs
    BY <1>13 DEF States, UserSetsState, UserPCs
  <2>2. ConnInv'
    BY <1>0, <1>13, <2>1, SetStateStep DEF UserSetsState, rest
  <2> QED
    BY <1>13, <2>1, <2>2 DEF UserSetsState, rest, WorldOK
<1>14. CASE UserQueues
  <2>1. Queued \in Functors /\ user' \in UserPCs
    BY <1>14 DEF UserQueues, Queued, Functors, UserPCs, Shared
  <2>2. Append(functors, Queued) \in Seq(Functors)
    BY <2>1, AppendToFunctors
  <2>3. base \in Seq({"removeConnection"})
    BY DEF ConnInv, ConnOK
  <2>4. ConnInv'
    BY <1>14, <2>2, <2>3, QueueStep DEF UserQueues, rest
  <2> QED
    BY <1>14, <2>1, <2>4 DEF UserQueues, rest, WorldOK
<1>15. CASE DestroyServer
  <2>1. Append(functors, "connectDestroyed") \in Seq(Functors)
    BY AppendToFunctors DEF Functors, Shared
  <2>2. base \in Seq({"removeConnection"})
    BY DEF ConnInv, ConnOK
  <2>3. ConnInv'
    BY <1>0, <1>15, <2>1, <2>2, QueueStep DEF DestroyServer
  <2> QED
    BY <1>15, <2>3 DEF DestroyServer, WorldOK
<1>16. CASE PeerSends \/ PeerCloses \/ PeerReset
  BY <1>16, <1>o, ConnFrame DEF PeerSends, PeerCloses, PeerReset
<1>17. CASE UNCHANGED vars
  <2>1. UNCHANGED <<connVars, base, functors, others, revents>>
    BY <1>17 DEF vars, others
  <2> QED
    BY <1>o, <2>1, ConnFrame
<1> QED
  BY <1>1, <1>2, <1>3, <1>4, <1>5, <1>6, <1>7, <1>8, <1>9, <1>10, <1>11, <1>12, <1>13, <1>14,
     <1>15, <1>16, <1>17 DEF Next, IoLoop, LoopCalls, OtherThread

LEMMA StreamInit == Init => StreamInv
<1> SUFFICES ASSUME Init PROVE StreamInv
  OBVIOUS
<1>1. ConnOK
  <2>1. <<"connectEstablished">> \in Seq(Functors) /\ <<>> \in Seq({"removeConnection"})
        /\ <<>> \in Seq(Nat)
    BY DEF Functors, Shared
  <2> QED
    BY <2>1 DEF Init, Construct, ConstructChannel, ConnOK, States
<1>2. WorldOK
  BY DEF Init, ConstructChannel, WorldOK, UserPCs
<1>3. Order
  <2>1. wire \o output = <<>> /\ accepted = 0
    BY DEF Init, Construct
  <2>2. UpTo(0) = <<>>
    BY DEF UpTo
  <2> QED
    BY <2>1, <2>2 DEF Order
<1>4. FinAfterOutput /\ WritesWhileOutput
  BY DEF Init, Construct, ConstructChannel, FinAfterOutput, WritesWhileOutput, isWriting
<1> QED
  BY <1>1, <1>2, <1>3, <1>4, StreamParts DEF ConnInv

LEMMA StreamInvCorrect == Spec => []StreamInv
BY StreamInit, StreamStep, PTL DEF Spec

\* What sendInLoop has taken is on the wire and in outputBuffer_ in its order, whatever
\* part of each write the kernel takes, and the write side is not shut down before the
\* end of it.
THEOREM StreamOrderCorrect == Spec => []StreamOrder
<1>1. StreamInv => StreamOrder
  BY DEF StreamInv, StreamOrder, Order, FinAfterOutput, UpTo
<1> QED
  BY <1>1, StreamInvCorrect, PTL

\* Until the connection is closed, the channel has EPOLLOUT enabled exactly while
\* outputBuffer_ holds something.
THEOREM WritesWhileOutputCorrect == Spec => []WritesWhileOutput
<1>1. StreamInv => WritesWhileOutput
  BY DEF StreamInv
<1> QED
  BY <1>1, StreamInvCorrect, PTL
------------------------------------------------------------------------------
(* TcpConnection implements ByteStream *)

LEMMA FirstPart ==
  ASSUME NEW w \in Seq(Nat), NEW o \in Seq(Nat), NEW a \in Nat, w \o o = UpTo(a)
  PROVE  /\ Len(w) \in Nat /\ Len(w) <= a /\ w = UpTo(Len(w))
         /\ o = <<>> => Len(w) = a
<1>1. Len(w) \in Nat /\ Len(o) \in Nat /\ (o = <<>> => Len(o) = 0)
  BY LenProperties
<1>2. /\ Len(w \o o) = Len(w) + Len(o)
      /\ \A i \in 1 .. Len(w) : i \in 1 .. Len(w) + Len(o) /\ (w \o o)[i] = w[i]
  BY <1>1, ConcatProperties
<1>3. \A n \in Nat : /\ UpTo(n) \in Seq(Nat) /\ Len(UpTo(n)) = n
                     /\ \A i \in 1 .. n : UpTo(n)[i] = i
  BY IsASeq DEF UpTo
<1>4. Len(w) + Len(o) = a /\ \A i \in 1 .. Len(w) : w[i] = i
  BY <1>2, <1>3
<1>5. w = UpTo(Len(w))
  <2> DEFINE u == UpTo(Len(w))
  <2>1. u \in Seq(Nat) /\ Len(u) = Len(w) /\ \A i \in 1 .. Len(w) : u[i] = w[i]
    BY <1>1, <1>3, <1>4
  <2> HIDE DEF u
  <2>2. w = u
    BY <2>1, SeqEqual
  <2> QED
    BY <2>2 DEF u
<1> QED
  BY <1>1, <1>4, <1>5

\* what is on the wire is a first part of the stream, before and after a step
WireFirst ==
  /\ Len(wire) \in Nat /\ accepted \in Nat /\ Len(wire) <= accepted
  /\ wire = BS!First(Len(wire))
  /\ output = <<>> => Len(wire) = accepted

LEMMA WireIsFirst == (StreamInv => WireFirst) /\ (StreamInv' => WireFirst')
<1>1. ASSUME StreamInv PROVE WireFirst
  <2>1. wire \in Seq(Nat) /\ output \in Seq(Nat) /\ accepted \in Nat /\ wire \o output = UpTo(accepted)
    BY <1>1 DEF StreamInv, TypeOK, Order
  <2>2. BS!First(Len(wire)) = UpTo(Len(wire))
    BY DEF BS!First, UpTo
  <2> QED
    BY <2>1, <2>2, FirstPart DEF WireFirst
<1>2. ASSUME StreamInv' PROVE WireFirst'
  <2>1. /\ wire' \in Seq(Nat) /\ output' \in Seq(Nat) /\ accepted' \in Nat
        /\ wire' \o output' = UpTo(accepted')
    BY <1>2 DEF StreamInv, TypeOK, Order, UpTo
  <2>2. BS!First(Len(wire))' = UpTo(Len(wire'))
    BY DEF BS!First, UpTo
  <2> QED
    BY <2>1, <2>2, FirstPart DEF WireFirst
<1> QED
  BY <1>1, <1>2

StreamStays == [BS!Next]_(BS!vars)

LEMMA CloseStreams ==
  ASSUME StreamInv, UNCHANGED <<accepted, wire, finSent>>, downs' \in {downs, downs + 1}
  PROVE  StreamStays
<1>1. downs \in Nat
  BY DEF StreamInv, TypeOK
<1>2. CASE downs = 0 /\ downs' = 1
  BY <1>2 DEF StreamStays, BS!Next, BS!Close
<1>3. CASE (downs > 0) = (downs' > 0)
  BY <1>3 DEF StreamStays, BS!vars
<1> QED
  BY <1>1, <1>2, <1>3

LEMMA SendStreams ==
  ASSUME StreamInv, StreamInv', NEW fs, sendInLoop(fs)
  PROVE  StreamStays
<1>0. downs \in Nat /\ MsgLen \in Nat /\ MsgLen > 0 /\ wire \in Seq(Nat) /\ finSent \in BOOLEAN
  BY TcpAssumption DEF StreamInv, TypeOK
<1>1. CASE UNCHANGED connVars
  BY <1>0, <1>1, CloseStreams DEF connVars
<1>2. CASE ~UNCHANGED connVars
  <2>1. /\ ~(sendAtOnce /\ finSent) /\ accepted' = accepted + MsgLen
        /\ UNCHANGED <<finSent, downs>>
    BY <1>2 DEF sendInLoop, mustEnable, Crash
  <2>2. PICK n \in IF sendAtOnce THEN 0 .. MsgLen ELSE {0} :
               wire' = wire \o SubSeq(Units(MsgLen), 1, n)
    BY <1>2 DEF sendInLoop, mustEnable, Crash
  <2> DEFINE u == Units(MsgLen)
             p == SubSeq(u, 1, n)
  <2>3. u \in Seq(Nat) /\ Len(u) = MsgLen
    <3>1. accepted \in Nat
      BY WireIsFirst DEF WireFirst
    <3> QED
      BY <1>0, <3>1, UpToAppend DEF Units
  <2>4. p \in Seq(Nat) /\ (n = 0 => p = <<>>)
    <3>1. n \in 0 .. Len(u)
      BY <1>0, <2>3
    <3> QED
      BY <2>3, <3>1, Cut
  <2> HIDE DEF u, p
  <2>5. wire' = wire \o p
    BY <2>2 DEF u, p
  <2>6. Len(wire') = Len(wire) + Len(p) /\ Len(p) \in Nat
    BY <1>0, <2>4, <2>5, ConcatProperties, LenProperties
  <2>7. CASE ~finSent
    <3>1. /\ Len(wire) \in Nat /\ Len(wire') \in Nat /\ Len(wire') <= accepted'
          /\ wire' = BS!First(Len(wire')) /\ accepted \in Nat
      BY WireIsFirst DEF WireFirst
    <3>2. Len(wire') \in Len(wire) .. accepted' /\ accepted' > accepted
      BY <1>0, <2>1, <2>6, <3>1
    <3>3. BS!Take
      BY <2>1, <2>7, <3>1, <3>2 DEF BS!Take
    <3> QED
      BY <3>3 DEF StreamStays, BS!Next
  <2>8. CASE finSent
    <3>1. downs > 0
      <4>1. ~sendAtOnce
        BY <2>1, <2>8
      <4>2. downs = 0 => output = <<>> /\ ~isWriting
        BY <2>8 DEF StreamInv, FinAfterOutput, WritesWhileOutput
      <4> QED
        BY <1>0, <4>1, <4>2 DEF sendAtOnce
    <3>2. wire' = wire
      BY <1>0, <2>1, <2>2, <2>4, <2>5, <2>8, ConcatEmptySeq
    <3>3. accepted' > accepted
      BY <1>0, <2>1, WireIsFirst DEF WireFirst
    <3>4. BS!TakeLate
      BY <2>1, <2>8, <3>1, <3>2, <3>3 DEF BS!TakeLate
    <3> QED
      BY <3>4 DEF StreamStays, BS!Next
  <2> QED
    BY <1>0, <2>7, <2>8
<1> QED
  BY <1>1, <1>2

LEMMA WriteStreams ==
  ASSUME StreamInv, StreamInv', NEW fs, handleWrite(fs)
  PROVE  StreamStays
<1>0. downs \in Nat /\ wire \in Seq(Nat) /\ output \in Seq(Nat) /\ finSent \in BOOLEAN /\ finSent' \in BOOLEAN
  BY DEF StreamInv, TypeOK
<1>1. CASE UNCHANGED connVars
  BY <1>0, <1>1, CloseStreams DEF connVars
<1>2. CASE ~UNCHANGED connVars
  <2>1. PICK n \in 1 .. Len(output) :
          /\ wire' = wire \o SubSeq(output, 1, n)
          /\ output' = SubSeq(output, n + 1, Len(output))
          /\ finSent' => n = Len(output)
          /\ ~finSent /\ UNCHANGED <<accepted, downs>>
    BY <1>2 DEF handleWrite, Crash
  <2> DEFINE p == SubSeq(output, 1, n)
  <2>2. p \in Seq(Nat) /\ Len(p) = n /\ n \in Nat /\ n > 0 /\ (n = Len(output) => output' = <<>>)
    <3>1. Len(output) \in Nat
      BY <1>0, LenProperties
    <3>2. n \in 0 .. Len(output) /\ n \in Nat /\ n > 0
      BY <3>1
    <3>3. p \in Seq(Nat) /\ (n = Len(output) => output' = <<>>)
      BY <1>0, <2>1, <3>2, Cut
    <3>4. Len(p) = n
      <4>1. 1 \in Int /\ n \in Int /\ \A i \in 1 .. n : output[i] \in Nat
        BY <1>0, <3>1, <3>2, ElementOfSeq
      <4>2. Len(p) = IF 1 <= n THEN n - 1 + 1 ELSE 0
        BY <4>1, SubSeqProperties
      <4> QED
        BY <3>2, <4>2
    <3> QED
      BY <3>2, <3>3, <3>4
  <2>3. wire' = wire \o p
    BY <2>1
  <2> HIDE DEF p
  <2>4. Len(wire') = Len(wire) + n /\ Len(wire) \in Nat
    BY <1>0, <2>2, <2>3, ConcatProperties, LenProperties
  <2>5. /\ Len(wire') \in Nat /\ Len(wire') <= accepted' /\ wire' = BS!First(Len(wire'))
        /\ output' = <<>> => Len(wire') = accepted'
    BY WireIsFirst DEF WireFirst
  <2>6. Len(wire') \in Len(wire) + 1 .. accepted
    BY <2>1, <2>2, <2>4, <2>5, WireIsFirst DEF WireFirst
  <2>7. finSent' => Len(wire') = accepted
    BY <2>1, <2>2, <2>5
  <2>8. BS!Send
    BY <1>0, <2>1, <2>5, <2>6, <2>7 DEF BS!Send
  <2> QED
    BY <2>8 DEF StreamStays, BS!Next
<1> QED
  BY <1>1, <1>2

LEMMA ShutdownStreams ==
  ASSUME StreamInv, NEW fs, NEW st, shutdownInLoop(fs, st)
  PROVE  StreamStays
<1>0. downs \in Nat /\ finSent \in BOOLEAN
  BY DEF StreamInv, TypeOK
<1>1. UNCHANGED <<accepted, wire, downs>> /\ finSent' = (finSent \/ ~isWriting)
  BY DEF shutdownInLoop, mayShutdown, isWriting
<1>2. CASE finSent' = finSent
  BY <1>1, <1>2, CloseStreams
<1>3. CASE finSent' # finSent
  <2>1. ~finSent /\ finSent' = TRUE /\ ~isWriting
    BY <1>0, <1>1, <1>3
  <2>2. downs = 0 => output = <<>>
    BY <2>1 DEF StreamInv, WritesWhileOutput
  <2>3. downs = 0 => wire = BS!First(accepted)
    BY <2>2, WireIsFirst DEF WireFirst
  <2>4. BS!End
    BY <1>0, <1>1, <2>1, <2>3 DEF BS!End
  <2> QED
    BY <2>4 DEF StreamStays, BS!Next
<1> QED
  BY <1>2, <1>3

LEMMA ByteStreamStep ==
  ASSUME StreamInv, StreamInv', [Next]_vars
  PROVE  StreamStays
<1>1. ASSUME NEW fs, \/ connectEstablished(fs) \/ connectDestroyed(fs) \/ handleClose(fs)
                    \/ startReadInLoop(fs) \/ stopReadInLoop(fs) \/ forceCloseInLoop(fs)
      PROVE  StreamStays
  <2>1. UNCHANGED <<accepted, wire, finSent>> /\ downs' \in {downs, downs + 1}
    BY <1>1 DEF connectEstablished, connectDestroyed, handleClose, startReadInLoop, stopReadInLoop,
                forceCloseInLoop, Crash, connVars
  <2> QED
    BY <2>1, CloseStreams
<1>2. CASE UNCHANGED <<accepted, wire, finSent, downs>>
  BY <1>2, CloseStreams
<1>3. CASE HandleHup
  BY <1>1, <1>2, <1>3 DEF HandleHup, connVars
<1>4. CASE HandleRead
  BY <1>1, <1>2, <1>4 DEF HandleRead, connVars
<1>5. CASE HandleWrite
  BY <1>5, WriteStreams DEF HandleWrite
<1>6. CASE RunFunctor
  <2> DEFINE fs == Tail(functors)
  <2>1. \/ UNCHANGED connVars
        \/ connectEstablished(fs) \/ connectDestroyed(fs) \/ sendInLoop(fs)
        \/ shutdownInLoop(fs, state) \/ forceCloseInLoop(fs)
        \/ startReadInLoop(fs) \/ stopReadInLoop(fs)
    BY <1>6 DEF RunFunctor
  <2> HIDE DEF fs
  <2>2. CASE UNCHANGED connVars
    BY <1>2, <2>2 DEF connVars
  <2> QED
    BY <1>1, <2>1, <2>2, SendStreams, ShutdownStreams
<1>7. CASE LoopSend \/ LoopShutdown \/ LoopStartRead \/ LoopStopRead
  <2>1. \/ sendInLoop(functors) \/ shutdownInLoop(functors, "kDisconnecting")
        \/ startReadInLoop(functors) \/ stopReadInLoop(functors)
    BY <1>7 DEF LoopSend, LoopShutdown, LoopStartRead, LoopStopRead
  <2> QED
    BY <1>1, <2>1, SendStreams, ShutdownStreams
<1>8. CASE LoopForceClose
  BY <1>2, <1>8 DEF LoopForceClose
<1>9. CASE OtherThread
  BY <1>2, <1>9 DEF OtherThread, UserGets, UserDrops, UserChecks, UserSetsState, UserQueues, connVars
<1>10. CASE \/ Poll \/ RemoveConnection \/ Destruct \/ DestroyServer
            \/ PeerSends \/ PeerCloses \/ PeerReset \/ UNCHANGED vars
  BY <1>2, <1>10 DEF Poll, RemoveConnection, Destruct, DestroyServer, PeerSends, PeerCloses, PeerReset,
                     vars, connVars
<1> QED
  BY <1>3, <1>4, <1>5, <1>6, <1>7, <1>8, <1>9, <1>10 DEF Next, IoLoop, LoopCalls

\* To the peer a TcpConnection is the stream of ByteStream, whoever calls what: what is
\* taken is sent in its order, and FIN comes after all of it and before nothing.
THEOREM RefinesByteStream == Spec => ImplementsByteStream
<1>1. Init => BS!Init
  BY DEF Init, Construct, BS!Init
<1>2. StreamInv /\ StreamInv' /\ [Next]_vars => StreamStays
  BY ByteStreamStep
<1> QED
  BY <1>1, <1>2, StreamInvCorrect, PTL DEF Spec, ImplementsByteStream, BS!Spec, StreamStays
------------------------------------------------------------------------------
(* The asserts *)

LEMMA PopMembers ==
  ASSUME NEW S, NEW s \in Seq(S), s # <<>>
  PROVE  /\ Members(s) = Members(Tail(s)) \cup {Head(s)}
         /\ \A f : Unique(s, f) => /\ Unique(Tail(s), f)
                                   /\ Head(s) = f => f \notin Members(Tail(s))
<1>1. /\ Len(s) \in Nat /\ Len(s) > 0 /\ Head(s) = s[1]
      /\ DOMAIN s = 1 .. Len(s) /\ DOMAIN Tail(s) = 1 .. Len(s) - 1
      /\ \A i \in 1 .. Len(s) - 1 : Tail(s)[i] = s[i + 1]
  BY HeadTailProperties, LenProperties, EmptySeq
<1>2. \A i \in DOMAIN Tail(s) : i + 1 \in DOMAIN s /\ i + 1 # 1 /\ Tail(s)[i] = s[i + 1]
  BY <1>1
<1>3. \A i \in DOMAIN s : i = 1 \/ (i - 1 \in DOMAIN Tail(s) /\ Tail(s)[i - 1] = s[i])
  <2> SUFFICES ASSUME NEW i \in DOMAIN s, i # 1
               PROVE  i - 1 \in DOMAIN Tail(s) /\ Tail(s)[i - 1] = s[i]
    OBVIOUS
  <2>1. i - 1 \in 1 .. Len(s) - 1 /\ (i - 1) + 1 = i
    BY <1>1
  <2> QED
    BY <1>1, <2>1
<1>4. 1 \in DOMAIN s
  BY <1>1
<1>5. \A x \in Members(s) : x \in Members(Tail(s)) \/ x = Head(s)
  <2> SUFFICES ASSUME NEW i \in DOMAIN s PROVE s[i] \in Members(Tail(s)) \/ s[i] = Head(s)
    BY DEF Members
  <2> QED
    BY <1>1, <1>3 DEF Members
<1>6. (\A x \in Members(Tail(s)) : x \in Members(s)) /\ Head(s) \in Members(s)
  BY <1>1, <1>2, <1>4 DEF Members
<1>7. ASSUME NEW f, Unique(s, f) PROVE Unique(Tail(s), f) /\ (Head(s) = f => f \notin Members(Tail(s)))
  <2>1. ASSUME NEW i \in DOMAIN Tail(s), NEW j \in DOMAIN Tail(s), Tail(s)[i] = f, Tail(s)[j] = f
        PROVE  i = j
    <3>1. i + 1 = j + 1
      BY <1>2, <1>7, <2>1 DEF Unique
    <3> QED
      BY <1>1, <3>1
  <2>2. ASSUME Head(s) = f, NEW i \in DOMAIN Tail(s), Tail(s)[i] = f PROVE FALSE
    BY <1>1, <1>2, <1>4, <1>7, <2>2 DEF Unique
  <2> QED
    BY <2>1, <2>2 DEF Unique, Members
<1> QED
  BY <1>5, <1>6, <1>7

LEMMA PushMembers ==
  ASSUME NEW S, NEW s \in Seq(S), NEW x \in S
  PROVE  /\ Members(Append(s, x)) = Members(s) \cup {x}
         /\ x \notin Members(s) => Unique(Append(s, x), x)
<1>1. /\ Len(s) \in Nat /\ DOMAIN s = 1 .. Len(s) /\ DOMAIN Append(s, x) = 1 .. Len(s) + 1
      /\ Append(s, x)[Len(s) + 1] = x /\ \A i \in 1 .. Len(s) : Append(s, x)[i] = s[i]
  BY AppendProperties, LenProperties
<1>2. \A i \in DOMAIN s : i \in DOMAIN Append(s, x) /\ Append(s, x)[i] = s[i]
  BY <1>1
<1>3. \A i \in DOMAIN Append(s, x) : i \in DOMAIN s \/ i = Len(s) + 1
  BY <1>1
<1>4. Len(s) + 1 \in DOMAIN Append(s, x)
  BY <1>1
<1>5. Members(Append(s, x)) = Members(s) \cup {x}
  BY <1>1, <1>2, <1>3, <1>4 DEF Members
<1>6. x \notin Members(s) => Unique(Append(s, x), x)
  BY <1>1, <1>2, <1>3 DEF Members, Unique
<1> QED
  BY <1>5, <1>6

LEMMA AppendMembers ==
  ASSUME NEW s \in Seq(Functors), NEW t, t = <<>> \/ \E x \in Functors : t = <<x>>
  PROVE  Members(s \o t) \subseteq Members(s) \cup Members(t)
<1>1. CASE t = <<>>
  BY <1>1, ConcatEmptySeq
<1>2. ASSUME NEW x \in Functors, t = <<x>> PROVE Members(s \o t) \subseteq Members(s) \cup Members(t)
  <2>1. s \o t = Append(s, x)
    BY <1>2, AppendIsConcat
  <2>2. Members(t) = {x}
    BY <1>2 DEF Members
  <2> QED
    BY <2>1, <2>2, PushMembers
<1> QED
  BY <1>1, <1>2

\* what the steps of the io loop start from, and have to show
LEMMA Phases ==
  ASSUME StreamInv, Good, crash = "none"
  PROVE  /\ \/ state = "kConnecting" /\ Fresh
            \/ state \in {"kConnected", "kDisconnecting"} /\ Open
            \/ state = "kDisconnected" /\ Closed
         /\ Members(functors) \subseteq Shared
BY DEF StreamInv, TypeOK, States, Good, Phase

LEMMA StaysOpen ==
  ASSUME Open, Good, crash = "none", state' \in {"kConnected", "kDisconnecting"},
         crash' \in {"none", "EPIPE", "ENOTCONN"},
         Members(functors') \subseteq Members(functors) \cup {"writeComplete", "highWater", "forceClose"},
         index' # "kNew", reading' <=> "read" \in events',
         UNCHANGED <<ups, downs, base, connections, dead>>
  PROVE  Good'
<1>1. Open' /\ Members(functors') \subseteq Shared
  BY DEF Open, Good, Has, Members, Shared
<1> QED
  BY <1>1 DEF Good, Phase, Open, Members

LEMMA StaysClosed ==
  ASSUME Closed, Good, crash = "none", crash' = "none", state' = "kDisconnected",
         Members(functors') \subseteq Members(functors), revents' \subseteq revents \/ ~reading,
         Has("connectDestroyed") => /\ "connectDestroyed" \in Members(functors')
                                    /\ Unique(functors, "connectDestroyed")
                                       => Unique(functors', "connectDestroyed"),
         dead /\ functors = <<>> => functors' = <<>>,
         UNCHANGED <<reading, events, index, ups, downs, base, connections, dead>>
  PROVE  Good'
<1>1. Members(functors)' = Members(functors')
  BY DEF Members
<1>2. Unique(functors, "connectDestroyed")' <=> Unique(functors', "connectDestroyed")
  BY DEF Unique
<1>3. Closed'
  BY <1>1, <1>2 DEF Closed, Has
<1> QED
  BY <1>1, <1>3 DEF Good, Phase, Closed

\* a failed assert after stopRead, and a write to a connection that was reset
LEMMA Crashes ==
  ASSUME Good, UNCHANGED <<ups, downs, reading>>, crash' # "none",
         reading => crash' \in {"EPIPE", "ENOTCONN"}
  PROVE  Good'
BY DEF Good

LEMMA CloseFromOpen ==
  ASSUME StreamInv, Open, Good, crash = "none", server, state \in {"kConnected", "kDisconnecting"},
         NEW fs, handleClose(fs), Members(fs) \subseteq Members(functors), fs \in Seq(Functors),
         reading => revents' \subseteq {"OUT"}, UNCHANGED <<connections, dead>>
  PROVE  Good'
<1>1. /\ functors' = fs /\ state' = "kDisconnected" /\ update({}) /\ downs' = downs + 1
      /\ base' = Append(base, "removeConnection") /\ crash' = "none"
      /\ UNCHANGED <<reading, ups>>
  BY DEF handleClose
<1>2. base' = <<"removeConnection">>
  BY <1>1 DEF Open
<1>3. /\ events' = {} /\ index' \in {"kAdded", "kDeleted"}
      /\ reading => index' = "kDeleted"
  BY <1>1 DEF update, Open, StreamInv, TypeOK
<1>4. ups' = 1 /\ downs' = 1
  BY <1>1 DEF Open
<1>5. Members(functors)' \subseteq Members(functors)
  BY <1>1 DEF Members
<1>6. Closed'
  BY <1>1, <1>2, <1>3, <1>4, <1>5 DEF Closed, Open, Has
<1> QED
  BY <1>1, <1>4, <1>5, <1>6 DEF Good, Phase
LEMMA ConfinedRun ==
  ASSUME StreamInv, Good, Confined, RunFunctor
  PROVE  Good'
<1> DEFINE f == Head(functors)
           fs == Tail(functors)
<1>0. /\ crash = "none" /\ revents = {} /\ functors # <<>> /\ server
      /\ UNCHANGED <<revents, connections, dead>>
  BY DEF RunFunctor, Running, others, Confined
<1>1. /\ \/ state = "kConnecting" /\ Fresh
         \/ state \in {"kConnected", "kDisconnecting"} /\ Open
         \/ state = "kDisconnected" /\ Closed
      /\ Members(functors) \subseteq Shared
  BY <1>0, Phases
<1>2. functors \in Seq(Functors)
  BY DEF StreamInv, TypeOK
<1>3. fs \in Seq(Functors)
  BY <1>0, <1>2, HeadTailProperties
<1>4. Members(functors) = Members(fs) \cup {f}
  BY <1>0, <1>2, PopMembers
<1>5. Unique(functors, "connectDestroyed")
      => Unique(fs, "connectDestroyed") /\ (f = "connectDestroyed" => "connectDestroyed" \notin Members(fs))
  BY <1>0, <1>2, PopMembers
<1>6. ~dead
  BY <1>0, <1>1 DEF Fresh, Open, Closed
<1>7. \/ f = "connectEstablished" /\ connectEstablished(fs)
      \/ f = "connectDestroyed" /\ connectDestroyed(fs)
      \/ f = "forceClose" /\ forceCloseInLoop(fs)
      \/ f \in {"writeComplete", "highWater"} /\ functors' = fs /\ UNCHANGED <<connVars, base, crash>>
  <2>1. f \in Shared
    BY <1>1, <1>4
  <2> QED
    BY <1>6, <2>1 DEF RunFunctor, Shared
<1>8. CASE state = "kConnecting" /\ Fresh
  <2>1. functors = <<"connectEstablished">>
    BY <1>8 DEF Fresh
  <2>2. f = "connectEstablished" /\ fs = <<>>
    BY <2>1
  <2>3. connectEstablished(<<>>)
    BY <1>7, <2>2
  <2>4. /\ functors' = <<>> /\ state' = "kConnected" /\ update(events \cup {"read"}) /\ ups' = ups + 1
        /\ UNCHANGED <<reading, downs, base, crash>>
    BY <1>8, <2>3 DEF connectEstablished
  <2>5. Members(functors)' = {}
    BY <2>4 DEF Members
  <2>6. Open'
    BY <1>0, <1>8, <2>4, <2>5 DEF Open, Fresh, Has, update
  <2> QED
    BY <1>0, <2>4, <2>5, <2>6 DEF Good, Phase, Open
<1> HIDE DEF f, fs
<1>9. CASE state \in {"kConnected", "kDisconnecting"} /\ Open
  <2>1. f = "forceClose" \/ f \in {"writeComplete", "highWater"}
    BY <1>4, <1>7, <1>9 DEF Open, Has
  <2>2. CASE f = "forceClose"
    <3>1. handleClose(fs)
      BY <1>7, <1>9, <2>2 DEF forceCloseInLoop, mayForceClose
    <3> QED
      BY <1>0, <1>3, <1>4, <1>9, <3>1, CloseFromOpen
  <2>3. CASE f \in {"writeComplete", "highWater"}
    <3>1. functors' = fs /\ UNCHANGED <<connVars, base, crash>>
      BY <1>7, <2>3
    <3>2. /\ crash' \in {"none", "EPIPE", "ENOTCONN"} /\ UNCHANGED <<state, ups, downs, base, connections, dead>>
          /\ index' # "kNew" /\ (reading' <=> "read" \in events')
      BY <1>0, <1>9, <3>1 DEF connVars, Open
    <3>3. Members(functors') \subseteq Members(functors)
      BY <1>4, <3>1
    <3> QED
      BY <1>0, <1>9, <3>2, <3>3, StaysOpen
  <2> QED
    BY <2>1, <2>2, <2>3
<1>10. CASE state = "kDisconnected" /\ Closed
  <2>1. CASE f = "connectDestroyed"
    <3>1. Has("connectDestroyed")
      BY <1>4, <2>1 DEF Has
    <3>2. /\ ~connections /\ base = <<>> /\ Unique(functors, "connectDestroyed") /\ index # "kNew"
          /\ events = {} /\ ups = 1 /\ downs = 1 /\ ~Has("connectEstablished")
          /\ reading => revents \subseteq {"OUT"}
      BY <1>10, <3>1 DEF Closed
    <3>3. index \in {"kAdded", "kDeleted"}
      BY <3>2 DEF StreamInv, TypeOK
    <3>4. connectDestroyed(fs)
      BY <1>7, <2>1
    <3>5. /\ functors' = fs /\ removeChannel
          /\ UNCHANGED <<state, downs, reading, ups, base, crash>>
      BY <1>10, <3>2, <3>3, <3>4 DEF connectDestroyed, mayRemove
    <3>6. Members(functors)' = Members(fs) /\ "connectDestroyed" \notin Members(fs)
      BY <1>5, <2>1, <3>2, <3>5 DEF Members
    <3>7. Closed'
      BY <1>0, <1>4, <1>6, <3>2, <3>5, <3>6 DEF Closed, Has, removeChannel
    <3> QED
      BY <1>0, <1>1, <1>4, <1>10, <3>2, <3>5, <3>6, <3>7 DEF Good, Phase
  <2>2. CASE f # "connectDestroyed"
    <3>1. f # "connectEstablished"
      BY <1>4, <1>10 DEF Closed, Has
    <3>2. functors' = fs /\ UNCHANGED <<connVars, base, crash>>
      BY <1>7, <1>10, <2>2, <3>1 DEF forceCloseInLoop, mayForceClose
    <3>3. UNCHANGED <<state, reading, events, index, ups, downs, base, connections, dead>>
      BY <1>0, <3>2 DEF connVars
    <3>4. /\ Members(functors') \subseteq Members(functors)
          /\ Has("connectDestroyed") => /\ "connectDestroyed" \in Members(functors')
                                        /\ Unique(functors, "connectDestroyed")
                                           => Unique(functors', "connectDestroyed")
      BY <1>4, <1>5, <2>2, <3>2 DEF Has
    <3> QED
      BY <1>0, <1>6, <1>10, <3>2, <3>3, <3>4, StaysClosed
  <2> QED
    BY <2>1, <2>2
<1> QED
  BY <1>1, <1>8, <1>9, <1>10

LEMMA ConfinedEvent ==
  ASSUME StreamInv, Good, Confined, HandleHup \/ HandleRead \/ HandleWrite \/ Poll
  PROVE  Good'
<1>0. /\ crash = "none" /\ server /\ UNCHANGED <<connections, dead>>
      /\ functors \in Seq(Functors) /\ revents \subseteq {"IN", "OUT", "HUP", "ERR"}
  BY DEF HandleHup, HandleRead, HandleWrite, Poll, Running, others, Confined, StreamInv, TypeOK
<1>1. \/ state = "kConnecting" /\ Fresh
      \/ state \in {"kConnected", "kDisconnecting"} /\ Open
      \/ state = "kDisconnected" /\ Closed
  BY <1>0, Phases
<1>2. ~Fresh
  BY DEF HandleHup, HandleRead, HandleWrite, Poll, Fresh
<1>3. CASE state \in {"kConnected", "kDisconnecting"} /\ Open
  <2>1. ASSUME UNCHANGED <<connVars, functors, base, crash>> PROVE Good'
    <3>1. /\ UNCHANGED <<state, ups, downs, base, connections, dead>>
          /\ crash' \in {"none", "EPIPE", "ENOTCONN"}
          /\ index' # "kNew" /\ (reading' <=> "read" \in events')
          /\ Members(functors') \subseteq Members(functors)
      BY <1>0, <1>3, <2>1 DEF connVars, Open
    <3> QED
      BY <1>0, <1>3, <3>1, StaysOpen
  <2>2. ASSUME handleClose(functors), revents' \subseteq {"OUT"} PROVE Good'
    BY <1>0, <1>3, <2>2, CloseFromOpen
  <2>3. CASE Poll
    BY <2>1, <2>3 DEF Poll
  <2>4. CASE HandleHup
    BY <1>0, <2>1, <2>2, <2>4 DEF HandleHup
  <2>5. CASE HandleRead
    BY <1>0, <2>1, <2>2, <2>5 DEF HandleRead
  <2>6. ASSUME HandleWrite PROVE Good'
    <3>1. handleWrite(functors)
      BY <2>6 DEF HandleWrite
    <3>2. CASE functors' = functors /\ UNCHANGED <<connVars, base>> /\ crash' = "EPIPE"
      BY <1>0, <3>2, Crashes DEF connVars
    <3>3. CASE functors' = functors /\ UNCHANGED <<connVars, base, crash>>
      BY <2>1, <3>3
    <3>4. CASE ~(functors' = functors /\ UNCHANGED <<connVars, base>>)
      <4>1. UNCHANGED <<state, reading, ups, downs, base, crash>>
        BY <3>1, <3>4 DEF handleWrite, Crash
      <4>2. \/ /\ update(events \ {"write"}) /\ functors' = Append(functors, "writeComplete")
            \/ functors' = functors /\ UNCHANGED <<events, index>>
        BY <3>1, <3>4 DEF handleWrite, Crash
      <4>3. index' # "kNew" /\ (reading' <=> "read" \in events')
        BY <1>3, <4>1, <4>2 DEF update, Open
      <4>4. Members(functors') \subseteq Members(functors) \cup {"writeComplete"}
        <5>1. "writeComplete" \in Functors
          BY DEF Functors, Shared
        <5>2. Members(Append(functors, "writeComplete")) = Members(functors) \cup {"writeComplete"}
          BY <1>0, <5>1, PushMembers
        <5> QED
          BY <4>2, <5>2
      <4> QED
        BY <1>0, <1>3, <4>1, <4>3, <4>4, StaysOpen
    <3> QED
      BY <3>1, <3>2, <3>3, <3>4 DEF handleWrite, Crash
  <2> QED
    BY <2>3, <2>4, <2>5, <2>6
<1>4. CASE state = "kDisconnected" /\ Closed
  <2>1. ASSUME UNCHANGED <<connVars, functors, base, crash>>, revents' \subseteq revents \/ ~reading
        PROVE  Good'
    <3>1. UNCHANGED <<state, reading, events, index, ups, downs, base, connections, dead>>
      BY <1>0, <2>1 DEF connVars
    <3> QED
      BY <1>0, <1>4, <2>1, <3>1, StaysClosed DEF Has
  <2>2. ASSUME handleClose(functors), ~reading PROVE Good'
    <3>1. UNCHANGED connVars /\ crash' # "none"
      BY <1>4, <2>2 DEF handleClose, Crash
    <3>2. UNCHANGED <<ups, downs, reading>>
      BY <3>1 DEF connVars
    <3> QED
      BY <2>2, <3>1, <3>2, Crashes
  <2>3. reading => index # "kAdded" /\ revents \subseteq {"OUT"}
    BY <1>4 DEF Closed
  <2>4. CASE Poll
    BY <2>1, <2>3, <2>4 DEF Poll
  <2>5. CASE HandleHup
    BY <2>1, <2>2, <2>3, <2>5 DEF HandleHup
  <2>6. CASE HandleRead
    BY <2>1, <2>2, <2>3, <2>6 DEF HandleRead
  <2>7. CASE HandleWrite
    <3>1. ~isWriting
      BY <1>4 DEF Closed, isWriting
    <3> QED
      BY <2>1, <2>7, <3>1 DEF HandleWrite, handleWrite
  <2> QED
    BY <2>4, <2>5, <2>6, <2>7
<1> QED
  BY <1>1, <1>2, <1>3, <1>4

LEMMA ConfinedCall ==
  ASSUME StreamInv, Good, Confined, LoopCalls
  PROVE  Good'
<1>0. /\ crash = "none" /\ UNCHANGED <<connections, dead>> /\ functors \in Seq(Functors)
      /\ state \in {"kConnected", "kDisconnecting"} /\ index \in {"kNew", "kAdded", "kDeleted"}
  BY DEF LoopCalls, LoopSend, LoopShutdown, LoopForceClose, LoopStartRead, LoopStopRead, InCallback,
         mayRead, Confined, Running, others, mayForceClose, StreamInv, TypeOK
<1>1. Open
  BY <1>0, Phases
<1>2. ASSUME LoopSend PROVE Good'
  <2>1. sendInLoop(functors) /\ state = "kConnected"
    BY <1>2 DEF LoopSend
  <2>2. CASE UNCHANGED <<connVars, base>> /\ crash' = "EPIPE"
    BY <2>2, Crashes DEF connVars
  <2>3. CASE ~(UNCHANGED <<connVars, base>> /\ crash' = "EPIPE")
    <3>1. UNCHANGED <<state, reading, ups, downs, base, crash>>
      BY <2>1, <2>3 DEF sendInLoop, mustEnable, Crash
    <3>2. PICK t \in {<<"writeComplete">>, <<"highWater">>, <<>>} :
            /\ functors' = functors \o t
            /\ update(events \cup {"write"}) \/ UNCHANGED <<events, index>>
      BY <2>1, <2>3 DEF sendInLoop, mustEnable, Crash, HighWater
    <3>3. index' # "kNew" /\ (reading' <=> "read" \in events')
      BY <1>1, <3>1, <3>2 DEF update, Open
    <3>4. Members(functors') \subseteq Members(functors) \cup {"writeComplete", "highWater"}
      <4>1. t = <<>> \/ \E x \in Functors : t = <<x>>
        BY DEF Functors, Shared
      <4>2. Members(t) \subseteq {"writeComplete", "highWater"}
        BY DEF Members
      <4> QED
        BY <1>0, <3>2, <4>1, <4>2, AppendMembers
    <3> QED
      BY <1>0, <1>1, <3>1, <3>3, <3>4, StaysOpen
  <2> QED
    BY <2>2, <2>3
<1>3. ASSUME LoopShutdown PROVE Good'
  <2>1. /\ shutdownInLoop(functors, "kDisconnecting")
        /\ crash' \in {"none", "ENOTCONN"}
    BY <1>3 DEF LoopShutdown, shutdownInLoop, shutdownWrite
  <2>2. /\ functors' = functors /\ state' = "kDisconnecting"
        /\ UNCHANGED <<reading, events, index, ups, downs, base>>
    BY <2>1 DEF shutdownInLoop
  <2> QED
    BY <1>0, <1>1, <2>1, <2>2, StaysOpen DEF Open
<1>4. ASSUME LoopForceClose PROVE Good'
  <2>1. /\ functors' = Append(functors, "forceClose") /\ state' = "kDisconnecting"
        /\ UNCHANGED <<reading, events, index, ups, downs, base, crash>>
    BY <1>4 DEF LoopForceClose
  <2>2. Members(functors') = Members(functors) \cup {"forceClose"}
    <3>1. "forceClose" \in Functors
      BY DEF Functors, Shared
    <3> QED
      BY <1>0, <2>1, <3>1, PushMembers
  <2> QED
    BY <1>0, <1>1, <2>1, <2>2, StaysOpen DEF Open
<1>5. ASSUME LoopStartRead \/ LoopStopRead PROVE Good'
  <2>1. /\ functors' = functors /\ UNCHANGED <<state, ups, downs, base, crash>>
        /\ index' # "kNew" /\ (reading' <=> "read" \in events')
    BY <1>1, <1>5 DEF LoopStartRead, LoopStopRead, startReadInLoop, stopReadInLoop, update, Open,
                      isReading
  <2> QED
    BY <1>0, <1>1, <2>1, StaysOpen
<1> QED
  BY <1>2, <1>3, <1>4, <1>5 DEF LoopCalls

LEMMA ConfinedEnd ==
  ASSUME StreamInv, Good, Confined, RemoveConnection \/ Destruct
  PROVE  Good'
<1>0. /\ crash = "none" /\ server /\ UNCHANGED connVars /\ functors \in Seq(Functors)
  BY DEF RemoveConnection, Destruct, Running, Confined, StreamInv, TypeOK
<1>1. /\ \/ state = "kConnecting" /\ Fresh
         \/ state \in {"kConnected", "kDisconnecting"} /\ Open
         \/ state = "kDisconnected" /\ Closed
      /\ Members(functors) \subseteq Shared
  BY <1>0, Phases
<1>2. state = "kDisconnected" /\ Closed
  BY <1>1 DEF RemoveConnection, Destruct, Referenced, Fresh, Open
<1>u. UNCHANGED <<state, reading, events, index, ups, downs>>
  BY <1>0 DEF connVars
<1>3. CASE RemoveConnection
  <2>1. connections /\ base = <<"removeConnection">> /\ ~Has("connectDestroyed") /\ ~dead /\ index # "kNew"
    BY <1>2, <1>3 DEF RemoveConnection, Closed
  <2>2. /\ base' = <<>> /\ ~connections' /\ crash' = "none" /\ UNCHANGED <<revents, dead>>
        /\ functors' = Append(functors, "connectDestroyed")
    BY <1>0, <1>3, <2>1 DEF RemoveConnection
  <2>3. "connectDestroyed" \in Functors
    BY DEF Functors, Shared
  <2>4. /\ Members(functors') = Members(functors) \cup {"connectDestroyed"}
        /\ Unique(functors', "connectDestroyed")
    BY <1>0, <2>1, <2>2, <2>3, PushMembers DEF Has
  <2>5. Members(functors)' = Members(functors') /\ (Unique(functors, "connectDestroyed")')
    BY <2>4 DEF Members, Unique
  <2>6. Closed'
    BY <1>2, <1>u, <2>1, <2>2, <2>4, <2>5 DEF Closed, Has
  <2> QED
    BY <1>1, <1>2, <1>u, <2>2, <2>4, <2>5, <2>6 DEF Good, Phase, Shared
<1>4. CASE Destruct
  <2>1. ~connections /\ Members(functors) \cap Shared = {}
    BY <1>4 DEF Destruct, Referenced
  <2>2. Members(functors) = {}
    BY <1>1, <2>1
  <2>3. functors = <<>>
    <3>1. functors # <<>> => Head(functors) \in Members(functors)
      BY <1>0, PopMembers
    <3> QED
      BY <2>2, <3>1
  <2>4. base = <<>> /\ index = "kNew" /\ ~Has("connectDestroyed")
    BY <1>2, <2>1, <2>2 DEF Closed, Has
  <2>5. /\ dead' = TRUE /\ revents' = {} /\ UNCHANGED <<functors, base, connections>>
        /\ crash' = "none"
    BY <1>2, <1>4, <2>4 DEF Destruct, addedToLoop
  <2>6. Members(functors)' = Members(functors)
    BY <2>5 DEF Members
  <2>7. Closed'
    BY <1>2, <1>u, <2>1, <2>2, <2>3, <2>4, <2>5, <2>6 DEF Closed, Has
  <2> QED
    BY <1>1, <1>2, <1>u, <2>5, <2>6, <2>7 DEF Good, Phase
<1> QED
  BY <1>3, <1>4

LEMMA ConfinedStep == StreamInv /\ ConfinedInv /\ [Next]_vars => ConfinedInv'
<1> SUFFICES ASSUME StreamInv, ConfinedInv, [Next]_vars, Confined' PROVE Good'
  BY DEF ConfinedInv
<1>1. CASE /\ UNCHANGED <<connVars, functors, base, revents, connections, server, user, dead, crash>>
           /\ UNCHANGED usage
  <2>1. Confined
    BY <1>1 DEF Confined
  <2> QED
    BY <1>1, <2>1 DEF ConfinedInv, Good, Phase, Fresh, Open, Closed, Has, Members, Unique, connVars
<1>2. CASE IoLoop \/ Poll \/ LoopCalls \/ RemoveConnection \/ Destruct
  <2>1. Confined
    BY <1>2 DEF Confined, IoLoop, HandleHup, HandleRead, HandleWrite, RunFunctor, Poll, LoopCalls,
                LoopSend, LoopShutdown, LoopForceClose, LoopStartRead, LoopStopRead, InCallback,
                RemoveConnection, Destruct, others
  <2> QED
    BY <1>2, <2>1, ConfinedRun, ConfinedEvent, ConfinedCall, ConfinedEnd DEF ConfinedInv, IoLoop
<1>3. ~OtherThread /\ ~DestroyServer
  BY TcpAssumption
     DEF Confined, OtherThread, UserGets, UserDrops, UserSetsState, UserQueues, UserChecks,
         DestroyServer, StreamInv, TypeOK, Ops
<1>4. CASE PeerSends \/ PeerCloses \/ PeerReset
  BY <1>1, <1>4 DEF PeerSends, PeerCloses, PeerReset, others
<1>5. CASE UNCHANGED vars
  BY <1>1, <1>5 DEF vars
<1> QED
  BY <1>2, <1>3, <1>4, <1>5 DEF Next

\* While only the io loop and the TcpServer have the connection, and reading is turned on
\* and off only while it is connected, it goes up once and
\* down at most once; and unless reading was stopped, no assert of TcpConnection,
\* Channel, EpollPoller and TcpServer fails and nothing is used after it was freed.
THEOREM NoAssertFailsCorrect == Spec => []NoAssertFails
<1>1. Init => ConfinedInv
  <2> SUFFICES ASSUME Init PROVE Good
    BY DEF ConfinedInv
  <2>1. Members(functors) = {"connectEstablished"}
    BY DEF Init, Members
  <2> QED
    BY <2>1 DEF Init, Construct, ConstructChannel, Good, Phase, Fresh, Shared
<1>2. ConfinedInv => NoAssertFails
  BY DEF ConfinedInv, Good, NoAssertFails
<1> QED
  BY <1>1, <1>2, StreamInvCorrect, ConfinedStep, PTL DEF Spec
------------------------------------------------------------------------------
(* Which calls of another thread make RemovedOnce fail *)

\* The connection is closed once: the user is told so once, and the TcpServer is asked
\* once to remove it.
ClosedOnce == RemovedOnce /\ downs <= 1

Closers == {"shutdown", "forceClose", "queue shutdown", "queue forceClose"}

\* No call that sets kDisconnecting is under way on the other thread, so kDisconnected is
\* final; until then the server has the connection and was not asked to remove it.
ClosedOnceInv ==
  /\ ClosedOnce
  /\ user \notin Closers
  /\ downs = IF state = "kDisconnected" THEN 1 ELSE 0
  /\ server /\ crash = "none" =>
       /\ state # "kDisconnected" => connections /\ base = <<>>
       /\ base # <<>> => connections /\ Len(base) = 1

\* what a handler of the io loop does to state_
LEMMA HandlerCloses ==
  ASSUME NEW fs, state \in States, ClosedOnceInv, crash = "none",
         \/ connectEstablished(fs) \/ connectDestroyed(fs) \/ sendInLoop(fs)
         \/ shutdownInLoop(fs, state) \/ forceCloseInLoop(fs) \/ handleClose(fs)
         \/ startReadInLoop(fs) \/ stopReadInLoop(fs) \/ handleWrite(fs),
         UNCHANGED <<server, connections, user>>
  PROVE  ClosedOnceInv'
<1>1. CASE UNCHANGED <<state, downs, base>> /\ crash' # "removeConnectionInLoop: n == 1"
  BY <1>1 DEF ClosedOnceInv, ClosedOnce, RemovedOnce
<1>2. CASE connectEstablished(fs) /\ ~UNCHANGED <<state, downs, base>>
  BY <1>2 DEF connectEstablished, Crash, connVars, ClosedOnceInv, ClosedOnce, RemovedOnce
<1>3. CASE connectDestroyed(fs) /\ ~UNCHANGED <<state, downs, base>>
  <2>1. /\ state = "kConnected" /\ state' = "kDisconnected" /\ downs' = downs + 1
        /\ UNCHANGED <<base, crash>>
    BY <1>3 DEF connectDestroyed, Crash, connVars
  <2>2. downs = 0 /\ downs' = 1
    BY <2>1 DEF ClosedOnceInv
  <2> QED
    BY <2>1, <2>2 DEF ClosedOnceInv, ClosedOnce, RemovedOnce
<1>4. CASE handleClose(fs) /\ ~UNCHANGED <<state, downs, base>>
  <2>1. /\ state # "kDisconnected" /\ state' = "kDisconnected"
        /\ crash' # "removeConnectionInLoop: n == 1"
    BY <1>4 DEF handleClose, Crash, connVars
  <2>2. downs = 0 /\ (server => connections /\ base = <<>>)
    BY <2>1 DEF ClosedOnceInv
  <2>3. downs' = 1
    <3>1. downs' = downs + 1
      BY <1>4 DEF handleClose, Crash, connVars
    <3> QED
      BY ONLY <2>2, <3>1
  <2>4. server => Len(base') = 1
    <3>1. server => base' = Append(base, "removeConnection")
      BY <1>4, <2>1 DEF handleClose, Crash, connVars
    <3>2. Append(<<>>, "removeConnection") = <<"removeConnection">> /\ Len(<<"removeConnection">>) = 1
      OBVIOUS
    <3> QED
      BY <2>2, <3>1, <3>2
  <2>5. ClosedOnce'
    <3>1. downs' <= 1
      BY ONLY <2>3
    <3> QED
      BY <2>1, <3>1 DEF ClosedOnce, RemovedOnce
  <2> QED
    BY <2>1, <2>2, <2>3, <2>4, <2>5 DEF ClosedOnceInv
<1>5. CASE ~(UNCHANGED <<state, downs, base>> /\ crash' # "removeConnectionInLoop: n == 1")
  <2>1. \/ connectEstablished(fs) \/ connectDestroyed(fs) \/ handleClose(fs)
    <3>1. ~sendInLoop(fs) /\ ~handleWrite(fs)
      BY <1>5 DEF sendInLoop, handleWrite, Crash, connVars
    <3>2. ~shutdownInLoop(fs, state)
      BY <1>5 DEF shutdownInLoop, shutdownWrite
    <3>3. ~startReadInLoop(fs) /\ ~stopReadInLoop(fs)
      BY <1>5 DEF startReadInLoop, stopReadInLoop
    <3>4. forceCloseInLoop(fs) => handleClose(fs)
      BY <1>5 DEF forceCloseInLoop, connVars
    <3> QED
      BY <3>1, <3>2, <3>3, <3>4
  <2>2. crash' # "removeConnectionInLoop: n == 1"
    BY <2>1 DEF connectEstablished, connectDestroyed, handleClose, Crash
  <2> QED
    BY <1>2, <1>3, <1>4, <1>5, <2>1, <2>2
<1> QED
  BY <1>1, <1>5

LEMMA ClosedOnceStep ==
  ASSUME \A u \in Usages : u.foreign \cap {"shutdown", "forceClose"} = {},
         StreamInv, ClosedOnceInv, [Next]_vars
  PROVE  ClosedOnceInv'
<1>0. state \in States /\ usage \in Usages
  BY DEF StreamInv, TypeOK
<1>1. CASE UNCHANGED <<state, downs, base, server, connections, user, crash>>
  BY <1>1 DEF ClosedOnceInv, ClosedOnce, RemovedOnce
<1>2. CASE IoLoop
  <2>1. UNCHANGED <<server, connections, user>> /\ crash = "none"
    BY <1>2 DEF IoLoop, HandleHup, HandleRead, HandleWrite, RunFunctor, others, Running
  <2>2. \/ UNCHANGED <<state, downs, base>> /\ crash' \in {"none", "TcpConnection used after free"}
        \/ \E fs : \/ connectEstablished(fs) \/ connectDestroyed(fs) \/ sendInLoop(fs)
                   \/ shutdownInLoop(fs, state) \/ forceCloseInLoop(fs) \/ handleClose(fs)
                   \/ startReadInLoop(fs) \/ stopReadInLoop(fs) \/ handleWrite(fs)
    <3>1. CASE HandleHup
      BY <2>1, <3>1 DEF HandleHup, connVars
    <3>2. CASE HandleRead
      BY <2>1, <3>2 DEF HandleRead, connVars
    <3>3. CASE HandleWrite
      BY <3>3 DEF HandleWrite
    <3>4. CASE RunFunctor
      <4> DEFINE fs == Tail(functors)
      <4>1. \/ UNCHANGED <<connVars, base>> /\ crash' \in {crash, "TcpConnection used after free"}
            \/ connectEstablished(fs) \/ connectDestroyed(fs) \/ sendInLoop(fs)
            \/ shutdownInLoop(fs, state) \/ forceCloseInLoop(fs)
            \/ startReadInLoop(fs) \/ stopReadInLoop(fs)
        BY <3>4 DEF RunFunctor
      <4> QED
        BY <2>1, <4>1 DEF connVars
    <3> QED
      BY <1>2, <3>1, <3>2, <3>3, <3>4 DEF IoLoop
  <2>3. CASE UNCHANGED <<state, downs, base>> /\ crash' \in {"none", "TcpConnection used after free"}
    BY <2>1, <2>3 DEF ClosedOnceInv, ClosedOnce, RemovedOnce
  <2> QED
    BY <1>0, <2>1, <2>2, <2>3, HandlerCloses
<1>3. CASE LoopSend \/ LoopStartRead \/ LoopStopRead
  <2>1. UNCHANGED <<server, connections, user>> /\ crash = "none"
    BY <1>3 DEF LoopSend, LoopStartRead, LoopStopRead, InCallback, others, Running
  <2>2. sendInLoop(functors) \/ startReadInLoop(functors) \/ stopReadInLoop(functors)
    BY <1>3 DEF LoopSend, LoopStartRead, LoopStopRead
  <2> QED
    BY <1>0, <2>1, <2>2, HandlerCloses
<1>4. CASE LoopShutdown \/ LoopForceClose
  <2>1. /\ state # "kDisconnected" /\ state' = "kDisconnecting"
        /\ crash = "none" /\ crash' # "removeConnectionInLoop: n == 1"
        /\ UNCHANGED <<downs, base, server, connections, user>>
    BY <1>4 DEF LoopShutdown, LoopForceClose, InCallback, Running, others, shutdownInLoop, shutdownWrite,
                mayForceClose
  <2> QED
    BY <2>1 DEF ClosedOnceInv, ClosedOnce, RemovedOnce
<1>5. CASE OtherThread
  <2>1. user' \notin Closers
    <3>1. \A op \in usage.foreign : op \notin Closers
      BY <1>0, TcpAssumption DEF Closers, Ops
    <3> QED
      BY <1>5, <3>1 DEF OtherThread, UserGets, UserDrops, UserChecks, UserSetsState, UserQueues,
                        ClosedOnceInv, Closers
  <2>2. UNCHANGED <<state, downs, base, server, connections, crash>>
    BY <1>5 DEF OtherThread, UserGets, UserDrops, UserChecks, UserSetsState, UserQueues, rest, connVars,
                ClosedOnceInv, Closers
  <2> QED
    BY <2>1, <2>2 DEF ClosedOnceInv, ClosedOnce, RemovedOnce
<1>6. CASE RemoveConnection
  <2>1. /\ crash = "none" /\ base # <<>> /\ base' = Tail(base) /\ connections' = FALSE
        /\ UNCHANGED <<state, downs, server, user>>
        /\ crash' = CASE ~server -> "TcpServer used after free"
                      [] server /\ ~connections -> "removeConnectionInLoop: n == 1"
                      [] OTHER -> "none"
    BY <1>6 DEF RemoveConnection, Running, connVars
  <2>2. server => connections /\ Len(base) = 1 /\ state = "kDisconnected"
    BY <2>1 DEF ClosedOnceInv
  <2>3. server => base' = <<>>
    <3>1. base \in Seq({"removeConnection"})
      BY DEF StreamInv, TypeOK
    <3>2. Tail(base) \in Seq({"removeConnection"}) /\ Len(Tail(base)) = Len(base) - 1
      BY <2>1, <3>1, HeadTailProperties
    <3>3. Len(base) = 1 => Tail(base) = <<>>
      <4> DEFINE t == Tail(base)
      <4>1. t \in Seq({"removeConnection"}) /\ (Len(base) = 1 => Len(t) = 0)
        BY <3>2
      <4> HIDE DEF t
      <4>2. t # <<>> => Len(t) # 0
        BY <4>1, EmptySeq
      <4> QED
        BY <4>1, <4>2 DEF t
    <3> QED
      BY <2>1, <2>2, <3>3
  <2>4. crash' # "removeConnectionInLoop: n == 1"
    BY <2>1, <2>2
  <2> QED
    BY <2>1, <2>2, <2>3, <2>4 DEF ClosedOnceInv, ClosedOnce, RemovedOnce
<1>7. CASE DestroyServer
  BY <1>7 DEF DestroyServer, connVars, ClosedOnceInv, ClosedOnce, RemovedOnce
<1>8. CASE Destruct
  BY <1>8 DEF Destruct, connVars, ClosedOnceInv, ClosedOnce, RemovedOnce
<1>9. CASE Poll \/ PeerSends \/ PeerCloses \/ PeerReset \/ UNCHANGED vars
  BY <1>1, <1>9 DEF Poll, PeerSends, PeerCloses, PeerReset, vars, connVars, others
<1> QED
  BY <1>2, <1>3, <1>4, <1>5, <1>6, <1>7, <1>8, <1>9 DEF Next, LoopCalls

\* If no other thread calls shutdown or forceClose, whose test and write of state_ are two
\* steps, the connection is closed and removed once, whatever else both threads call,
\* whatever the peer does and whenever the TcpServer is destroyed. With either call it
\* is not: see RemovedOnce.
THEOREM ClosedOnceWithoutRace ==
  ASSUME \A u \in Usages : u.foreign \cap {"shutdown", "forceClose"} = {}
  PROVE  Spec => []ClosedOnce
<1>1. Init => ClosedOnceInv
  BY DEF Init, Construct, ClosedOnceInv, ClosedOnce, RemovedOnce, Closers
<1>2. StreamInv /\ ClosedOnceInv /\ [Next]_vars => ClosedOnceInv'
  BY ClosedOnceStep
<1>3. ClosedOnceInv => ClosedOnce
  BY DEF ClosedOnceInv
<1> QED
  BY <1>1, <1>2, <1>3, StreamInvCorrect, PTL DEF Spec
==============================================================================
