-------------------------- MODULE RpcChannelProofs ---------------------------
(***************************************************************************)
(* Proofs about RpcChannel for any number of calls, any message sizes and  *)
(* any invalid frames: a response finds its call, no call is lost while    *)
(* both ends are connected, and nothing is handled after an invalid frame. *)
(***************************************************************************)
EXTENDS RpcChannel, SequenceTheorems, TLAPS

\* What an end has yet to decode, arrived or not, and the messages in it.
Stream(e) == buffer[e] \o wire[e]
Valid(f) == f.kind \in {"REQUEST", "RESPONSE"}
Coming(e) == {f \in Members(Stream(e)) : Valid(f)}

DistinctIds(s) ==
  \A i, j \in DOMAIN s : Valid(s[i]) /\ Valid(s[j]) /\ s[i].id = s[j].id => i = j

\* ++id_ gives no id twice, outstandings_ holds each call under its own id from the
\* registration to the answer, and only a call that was sent is answered.
Registered ==
  /\ \A c, d \in Calls : callId[c] = callId[d] /\ callId[c] # 0 => c = d
  /\ \A i \in DOMAIN outstandings :
       /\ callId[outstandings[i]] = i
       /\ pc[outstandings[i]] \in {"send", "sent"}
       /\ answers[outstandings[i]] = <<>>
  /\ \A c \in Calls : pc[c] = "send" => callId[c] \in DOMAIN outstandings
  /\ \A c \in Calls : pc[c] # "sent" => answers[c] = <<>>
  /\ \A c \in Calls : answers[c] \in {<<>>, <<c>>}

\* What is between CallMethod and done belongs to the call in outstandings_.
Carried(w) ==
  /\ w.id \in DOMAIN outstandings /\ outstandings[w.id] = w.call
  /\ pc[w.call] = "sent"
AllCarried ==
  /\ \A w \in working : Carried(w)
  /\ \A e \in Ends : \A f \in Coming(e) : Carried(f)

\* It is in one place only.
Once ==
  /\ \A e \in Ends : DistinctIds(Stream(e))
  /\ \A f \in Coming("client"), g \in Coming("server") : f.id # g.id
  /\ \A w \in working, e \in Ends : \A f \in Coming(e) : f.id # w.id

RoutedInv == TypeOK /\ Registered /\ AllCarried /\ Once

\* An end that has met an invalid frame keeps it at the front of its stream until the
\* connection is down, and then it has no buffer.
StuckAfterError ==
  \A e \in Ends :
    IF conn[e] = "kDisconnected" THEN buffer[e] = <<>> /\ ~decoding[e]
    ELSE failed[e] => Stream(e) # <<>> /\ Head(Stream(e)).kind \in ErrorCodes

------------------------------------------------------------------------------
(* Sequences of frames *)

LEMMA MembersConcat ==
  ASSUME NEW a \in Seq(Frames), NEW b \in Seq(Frames)
  PROVE  Members(a \o b) = Members(a) \cup Members(b)
<1>1. /\ DOMAIN (a \o b) = 1 .. Len(a) + Len(b) /\ DOMAIN a = 1 .. Len(a)
      /\ DOMAIN b = 1 .. Len(b) /\ Len(a) \in Nat /\ Len(b) \in Nat
      /\ \A i \in 1 .. Len(a) + Len(b) :
           (a \o b)[i] = IF i <= Len(a) THEN a[i] ELSE b[i - Len(a)]
  BY ConcatProperties, LenProperties
<1>2. \A i \in DOMAIN (a \o b) : (a \o b)[i] \in Members(a) \cup Members(b)
  BY <1>1 DEF Members
<1>3. \A i \in DOMAIN a : a[i] \in Members(a \o b)
  <2> SUFFICES ASSUME NEW i \in DOMAIN a PROVE a[i] \in Members(a \o b)
    OBVIOUS
  <2>1. i \in DOMAIN (a \o b) /\ (a \o b)[i] = a[i]
    BY <1>1
  <2> QED
    BY <2>1 DEF Members
<1>4. \A i \in DOMAIN b : b[i] \in Members(a \o b)
  <2> SUFFICES ASSUME NEW i \in DOMAIN b PROVE b[i] \in Members(a \o b)
    OBVIOUS
  <2>1. Len(a) + i \in DOMAIN (a \o b) /\ (a \o b)[Len(a) + i] = b[i]
    BY <1>1
  <2> QED
    BY <2>1 DEF Members
<1> QED
  BY <1>2, <1>3, <1>4 DEF Members

\* what was sent goes to the end of the stream
LEMMA AppendToStream ==
  ASSUME NEW a \in Seq(Frames), NEW b \in Seq(Frames), NEW f \in Frames
  PROVE  a \o Append(b, f) = Append(a \o b, f)
<1>1. /\ Append(b, f) = b \o <<f>> /\ Append(a \o b, f) = (a \o b) \o <<f>>
      /\ <<f>> \in Seq(Frames)
  BY AppendIsConcat, ConcatProperties
<1> QED
  BY <1>1, ConcatAssociative

\* reading moves frames from the connection to the buffer
LEMMA ReadKeepsStream ==
  ASSUME NEW a \in Seq(Frames), NEW b \in Seq(Frames), NEW n \in 0 .. Len(b)
  PROVE  /\ SubSeq(b, 1, n) \in Seq(Frames) /\ SubSeq(b, n + 1, Len(b)) \in Seq(Frames)
         /\ a \o SubSeq(b, 1, n) \in Seq(Frames)
         /\ (a \o SubSeq(b, 1, n)) \o SubSeq(b, n + 1, Len(b)) = a \o b
         /\ n # Len(b) => SubSeq(b, n + 1, Len(b)) # <<>>
<1>1. Len(b) \in Nat /\ n \in Int /\ \A i \in 1 .. Len(b) : b[i] \in Frames
  BY LenProperties, ElementOfSeq
<1>2. SubSeq(b, 1, n) \in Seq(Frames)
  BY <1>1, SubSeqProperties
<1>3. /\ SubSeq(b, n + 1, Len(b)) \in Seq(Frames)
      /\ Len(SubSeq(b, n + 1, Len(b))) = IF n + 1 <= Len(b) THEN Len(b) - (n + 1) + 1 ELSE 0
  <2>1. n + 1 \in Int /\ Len(b) \in Int /\ \A i \in n + 1 .. Len(b) : b[i] \in Frames
    BY <1>1
  <2> QED
    BY <2>1, SubSeqProperties
<1>4. SubSeq(b, 1, n) \o SubSeq(b, n + 1, Len(b)) = b
  <2>1. 1 \in 1 .. Len(b) + 1 /\ n \in 1 - 1 .. Len(b) /\ Len(b) \in n .. Len(b)
    BY <1>1
  <2>2. SubSeq(b, 1, n) \o SubSeq(b, n + 1, Len(b)) = SubSeq(b, 1, Len(b))
    BY <2>1, ConcatAdjacentSubSeq
  <2> QED
    BY <2>2, SubSeqFull
<1>5. (a \o SubSeq(b, 1, n)) \o SubSeq(b, n + 1, Len(b)) = a \o b
  <2> DEFINE p == SubSeq(b, 1, n)
             q == SubSeq(b, n + 1, Len(b))
  <2>0. p \o q = b
    BY <1>4
  <2>1. p \in Seq(Frames) /\ q \in Seq(Frames)
    BY <1>2, <1>3
  <2> HIDE DEF p, q
  <2>2. (a \o p) \o q = a \o (p \o q)
    BY <2>1, ConcatAssociative
  <2>3. (a \o p) \o q = a \o b
    BY <2>0, <2>2
  <2> QED
    BY <2>3 DEF p, q
<1>6. n # Len(b) => SubSeq(b, n + 1, Len(b)) # <<>>
  <2> SUFFICES ASSUME n # Len(b) PROVE SubSeq(b, n + 1, Len(b)) # <<>>
    OBVIOUS
  <2> DEFINE q == SubSeq(b, n + 1, Len(b))
  <2>1. q \in Seq(Frames) /\ Len(q) > 0
    BY <1>1, <1>3
  <2> HIDE DEF q
  <2>3. q # <<>>
    BY <2>1, EmptySeq
  <2> QED
    BY <2>3 DEF q
<1> QED
  BY <1>2, <1>3, <1>5, <1>6, ConcatProperties

\* decoding takes the first frame of the stream
LEMMA HeadTailOfStream ==
  ASSUME NEW a \in Seq(Frames), NEW b \in Seq(Frames), a # <<>>
  PROVE  /\ a \o b # <<>>
         /\ Head(a \o b) = Head(a)
         /\ Tail(a \o b) = Tail(a) \o b
<1>1. Head(a) \in Frames /\ Tail(a) \in Seq(Frames) /\ <<Head(a)>> \in Seq(Frames)
  BY HeadTailProperties
<1>2. a = <<Head(a)>> \o Tail(a)
  <2>1. /\ Len(a) \in Nat /\ Len(a) >= 1 /\ Len(Tail(a)) = Len(a) - 1
        /\ \A i \in 1 .. Len(a) - 1 : Tail(a)[i] = a[i + 1]
    BY HeadTailProperties, LenProperties, EmptySeq
  <2> DEFINE s == <<Head(a)>> \o Tail(a)
  <2>2. /\ s \in Seq(Frames) /\ Len(s) = 1 + (Len(a) - 1)
        /\ \A i \in 1 .. 1 + (Len(a) - 1) : s[i] = IF i <= 1 THEN <<Head(a)>>[i] ELSE Tail(a)[i - 1]
    BY <1>1, <2>1, ConcatProperties
  <2>3. \A i \in 1 .. Len(a) : s[i] = a[i]
    <3> SUFFICES ASSUME NEW i \in 1 .. Len(a) PROVE s[i] = a[i]
      OBVIOUS
    <3>1. CASE i = 1
      BY <2>1, <2>2, <3>1
    <3>2. CASE i # 1
      BY <2>1, <2>2, <3>2
    <3> QED
      BY <3>1, <3>2
  <2> HIDE DEF s
  <2>4. s = a
    BY <2>1, <2>2, <2>3, SeqEqual
  <2> QED
    BY <2>4 DEF s
<1>3. a \o b = <<Head(a)>> \o (Tail(a) \o b) /\ Tail(a) \o b \in Seq(Frames)
  BY <1>1, <1>2, ConcatAssociative, ConcatProperties
<1> DEFINE t == Tail(a) \o b
<1> HIDE DEF t
<1>4. /\ <<Head(a)>> \o t # <<>> /\ Head(<<Head(a)>> \o t) = Head(a)
      /\ Tail(<<Head(a)>> \o t) = t
  BY <1>1, <1>3 DEF t
<1> QED
  BY <1>3, <1>4 DEF t

LEMMA Push ==
  ASSUME NEW s \in Seq(Frames), NEW f \in Frames
  PROVE  /\ Append(s, f) \in Seq(Frames)
         /\ Members(Append(s, f)) = Members(s) \cup {f}
         /\ /\ DistinctIds(s)
            /\ Valid(f) => \A g \in Members(s) : Valid(g) => g.id # f.id
            => DistinctIds(Append(s, f))
<1>1. /\ Append(s, f) \in Seq(Frames) /\ Len(s) \in Nat
      /\ DOMAIN s = 1 .. Len(s) /\ DOMAIN Append(s, f) = 1 .. Len(s) + 1
      /\ Append(s, f)[Len(s) + 1] = f
      /\ \A i \in 1 .. Len(s) : Append(s, f)[i] = s[i]
  BY AppendProperties, LenProperties
<1>2. \A i \in DOMAIN s : i \in DOMAIN Append(s, f) /\ Append(s, f)[i] = s[i]
  BY <1>1
<1>3. \A i \in DOMAIN Append(s, f) : i \in DOMAIN s \/ i = Len(s) + 1
  BY <1>1
<1>4. Len(s) + 1 \in DOMAIN Append(s, f)
  BY <1>1
<1>5. \A i \in DOMAIN s : s[i] \in Members(s)
  BY DEF Members
<1>6. Members(Append(s, f)) = Members(s) \cup {f}
  BY <1>1, <1>2, <1>3, <1>4 DEF Members
<1>7. ASSUME DistinctIds(s), Valid(f) => \A g \in Members(s) : Valid(g) => g.id # f.id
      PROVE  DistinctIds(Append(s, f))
  BY <1>1, <1>2, <1>3, <1>5, <1>7 DEF DistinctIds
<1> QED
  BY <1>1, <1>6, <1>7

LEMMA Pop ==
  ASSUME NEW s \in Seq(Frames), s # <<>>, DistinctIds(s)
  PROVE  /\ Tail(s) \in Seq(Frames)
         /\ Head(s) \in Frames
         /\ Members(s) = Members(Tail(s)) \cup {Head(s)}
         /\ DistinctIds(Tail(s))
         /\ Valid(Head(s)) => \A g \in Members(Tail(s)) : Valid(g) => g.id # Head(s).id
<1>1. /\ Tail(s) \in Seq(Frames) /\ Len(s) \in Nat /\ Len(s) > 0
      /\ Head(s) = s[1] /\ Head(s) \in Frames
      /\ DOMAIN s = 1 .. Len(s) /\ DOMAIN Tail(s) = 1 .. Len(s) - 1
      /\ \A i \in 1 .. Len(s) - 1 : Tail(s)[i] = s[i + 1]
  BY HeadTailProperties, LenProperties, EmptySeq
<1>2. \A i \in DOMAIN Tail(s) : i + 1 \in DOMAIN s /\ i + 1 # 1 /\ Tail(s)[i] = s[i + 1]
  BY <1>1
<1>3. \A i \in DOMAIN s : i = 1 \/ (i - 1 \in DOMAIN Tail(s) /\ Tail(s)[i - 1] = s[i])
  <2> SUFFICES ASSUME NEW i \in DOMAIN s, i # 1
               PROVE  i - 1 \in DOMAIN Tail(s) /\ Tail(s)[i - 1] = s[i]
    OBVIOUS
  <2>1. i - 1 \in 1 .. Len(s) - 1 /\ (i - 1) + 1 = i
    BY <1>1
  <2> QED
    BY <1>1, <2>1
<1>4. 1 \in DOMAIN s
  BY <1>1
<1>5. \A x \in Members(s) : x \in Members(Tail(s)) \/ x = Head(s)
  <2> SUFFICES ASSUME NEW i \in DOMAIN s PROVE s[i] \in Members(Tail(s)) \/ s[i] = Head(s)
    BY DEF Members
  <2> QED
    BY <1>1, <1>3 DEF Members
<1>6. \A x \in Members(Tail(s)) : x \in Members(s)
  BY <1>2 DEF Members
<1>7. Head(s) \in Members(s)
  BY <1>1, <1>4 DEF Members
<1>8. DistinctIds(Tail(s))
  <2> SUFFICES ASSUME NEW i \in DOMAIN Tail(s), NEW j \in DOMAIN Tail(s),
                      Valid(Tail(s)[i]), Valid(Tail(s)[j]), Tail(s)[i].id = Tail(s)[j].id
               PROVE  i = j
    BY DEF DistinctIds
  <2>1. i + 1 = j + 1
    BY <1>2 DEF DistinctIds
  <2> QED
    BY <1>1, <2>1
<1>9. Valid(Head(s)) => \A g \in Members(Tail(s)) : Valid(g) => g.id # Head(s).id
  <2> SUFFICES ASSUME Valid(Head(s)), NEW i \in DOMAIN Tail(s), Valid(Tail(s)[i])
               PROVE  Tail(s)[i].id # Head(s).id
    BY DEF Members
  <2> QED
    BY <1>1, <1>2, <1>4 DEF DistinctIds
<1> QED
  BY <1>1, <1>5, <1>6, <1>7, <1>8, <1>9

------------------------------------------------------------------------------
(* Types *)

\* TcpConnection::send drops the frame, or puts it last in the stream of the other end
LEMMA SentFacts ==
  ASSUME TypeOK, NEW e \in Ends, NEW f \in Frames
  PROVE  /\ Sent(e, f) \in [Ends -> Seq(Frames)]
         /\ \A x \in Ends : wire[x] # <<>> => Sent(e, f)[x] # <<>>
         /\ \/ Sent(e, f) = wire
            \/ /\ Sent(e, f)[Other(e)] = Append(wire[Other(e)], f)
               /\ Sent(e, f)[e] = wire[e]
<1>1. wire \in [Ends -> Seq(Frames)] /\ Other(e) \in Ends /\ Other(e) # e
      /\ wire[Other(e)] \in Seq(Frames)
  BY DEF TypeOK, Ends, Other
<1>2. CASE Sent(e, f) = wire
  BY <1>1, <1>2
<1>3. CASE Sent(e, f) = [wire EXCEPT ![Other(e)] = Append(@, f)]
  <2>1. Append(wire[Other(e)], f) \in Seq(Frames) /\ Append(wire[Other(e)], f) # <<>>
    BY <1>1
  <2> QED
    BY <1>1, <1>3, <2>1
<1> QED
  BY <1>2, <1>3 DEF Sent

LEMMA TypeStep == TypeOK /\ [Next]_vars => TypeOK'
<1> SUFFICES ASSUME TypeOK, [Next]_vars PROVE TypeOK'
  OBVIOUS
<1>1. ASSUME NEW c \in Calls, AssignId(c), UNCHANGED services PROVE TypeOK'
  <2>1. /\ id' = id + 1 /\ id \in Nat /\ pc[c] = "idle"
        /\ callId' = [callId EXCEPT ![c] = id + 1] /\ callId \in [Calls -> 0 .. id]
        /\ pc' = [pc EXCEPT ![c] = "register"]
    BY <1>1 DEF AssignId, TypeOK
  <2>2. callId' \in [Calls -> 0 .. id'] /\ 1 .. id \subseteq 1 .. id'
    BY <2>1
  <2>3. \A d \in Calls : callId'[d] = 0 <=> pc'[d] = "idle"
    BY <2>1 DEF TypeOK
  <2> QED
    BY <1>1, <2>1, <2>2, <2>3 DEF AssignId, TypeOK, inVars
<1>2. ASSUME NEW c \in Calls, Register(c), UNCHANGED services PROVE TypeOK'
  <2>1. callId[c] \in 1 .. id
    BY <1>2 DEF Register, TypeOK
  <2> QED
    BY <1>2, <2>1 DEF Register, TypeOK, inVars
<1>3. ASSUME NEW c \in Calls, Send(c), UNCHANGED services PROVE TypeOK'
  <2> DEFINE f == [kind |-> "REQUEST", id |-> callId[c], call |-> c]
  <2>1. f \in Frames /\ "client" \in Ends
    BY DEF TypeOK, Frames, Ends
  <2>2. wire' = wire \/ wire' = Sent("client", f)
    BY <1>3 DEF Send, codecSend
  <2> HIDE DEF f
  <2>3. wire' \in [Ends -> Seq(Frames)] /\ \A x \in Ends : wire[x] # <<>> => wire'[x] # <<>>
    <3>1. CASE wire' = wire
      BY <3>1 DEF TypeOK
    <3>2. CASE wire' # wire
      BY <2>1, <2>2, <3>2, SentFacts
    <3> QED
      BY <3>1, <3>2
  <2> QED
    BY <1>3, <2>3 DEF Send, TypeOK
<1>4. ASSUME NEW e \in Ends, BadFrame(e), UNCHANGED services PROVE TypeOK'
  <2>1. PICK k \in ErrorCodes :
          wire' = Sent(Other(e), [kind |-> k, id |-> 0, call |-> CHOOSE c \in Calls : TRUE])
    BY <1>4 DEF BadFrame
  <2> DEFINE f == [kind |-> k, id |-> 0, call |-> CHOOSE c \in Calls : TRUE]
  <2>2. f \in Frames /\ Other(e) \in Ends
    BY RpcAssumption DEF Frames, Ends, Other
  <2> HIDE DEF f
  <2>3. wire' \in [Ends -> Seq(Frames)] /\ \A x \in Ends : wire[x] # <<>> => wire'[x] # <<>>
    BY <2>1, <2>2, SentFacts DEF f
  <2> QED
    BY <1>4, <2>3 DEF BadFrame, TypeOK, callVars
<1>5. ASSUME NEW e \in Ends, HandleRead(e), UNCHANGED services PROVE TypeOK'
  <2>1. PICK n \in 0 .. Len(wire[e]), p \in Parts :
          /\ n = Len(wire[e]) => p = "none"
          /\ part' = [part EXCEPT ![e] = p]
          /\ wire' = [wire EXCEPT ![e] = SubSeq(@, n + 1, Len(@))]
          /\ buffer' = [buffer EXCEPT ![e] = @ \o SubSeq(wire[e], 1, n)]
    BY <1>5 DEF HandleRead
  <2>2. wire \in [Ends -> Seq(Frames)] /\ buffer \in [Ends -> Seq(Frames)]
    BY DEF TypeOK
  <2>3. /\ SubSeq(wire[e], n + 1, Len(wire[e])) \in Seq(Frames)
        /\ buffer[e] \o SubSeq(wire[e], 1, n) \in Seq(Frames)
        /\ n # Len(wire[e]) => SubSeq(wire[e], n + 1, Len(wire[e])) # <<>>
    BY <2>2, ReadKeepsStream
  <2>4. wire' \in [Ends -> Seq(Frames)] /\ buffer' \in [Ends -> Seq(Frames)]
    BY <2>1, <2>2, <2>3
  <2>5. /\ part' \in [Ends -> Parts]
        /\ \A x \in Ends : part'[x] # "none" => wire'[x] # <<>>
    BY <2>1, <2>2, <2>3 DEF TypeOK
  <2> QED
    BY <1>5, <2>4, <2>5 DEF HandleRead, TypeOK, callVars
<1>6. ASSUME NEW e \in Ends, DecodeWait(e) \/ DecodeError(e) \/ Shutdown(e), UNCHANGED services
      PROVE TypeOK'
  BY <1>6 DEF DecodeWait, DecodeError, Shutdown, TypeOK, callVars, inVars
<1>7. ASSUME DecodeRequest, UNCHANGED services PROVE TypeOK'
  <2>1. /\ buffer["server"] \in Seq(Frames) /\ buffer["server"] # <<>> /\ "server" \in Ends
        /\ buffer' = [buffer EXCEPT !["server"] = Tail(@)]
    BY <1>7 DEF DecodeRequest, Delivers, ValidFrame, RetrieveFrame, TypeOK, Ends
  <2>2. Head(buffer["server"]) \in Frames /\ Tail(buffer["server"]) \in Seq(Frames)
    BY <2>1, HeadTailProperties
  <2>3. buffer' \in [Ends -> Seq(Frames)]
    BY <2>1, <2>2 DEF TypeOK
  <2>4. working' \subseteq [id : Nat, call : Calls]
    BY <1>7, <2>2, SMTT(30) DEF DecodeRequest, TypeOK, Frames
  <2> QED
    BY <1>7, <2>3, <2>4 DEF DecodeRequest, TypeOK, callVars
<1>8. ASSUME DecodeResponse, UNCHANGED services PROVE TypeOK'
  <2>1. /\ buffer["client"] \in Seq(Frames) /\ buffer["client"] # <<>> /\ "client" \in Ends
        /\ buffer' = [buffer EXCEPT !["client"] = Tail(@)]
    BY <1>8 DEF DecodeResponse, Delivers, ValidFrame, RetrieveFrame, TypeOK, Ends
  <2>2. Head(buffer["client"]) \in Frames /\ Tail(buffer["client"]) \in Seq(Frames)
    BY <2>1, HeadTailProperties
  <2>3. buffer' \in [Ends -> Seq(Frames)]
    BY <2>1, <2>2 DEF TypeOK
  <2> DEFINE f == Head(buffer["client"])
  <2>4. f \in Frames /\ f.call \in Calls
    BY <2>2 DEF Frames
  <2>5. /\ answers' = IF f.id \notin DOMAIN outstandings THEN answers
                      ELSE [answers EXCEPT ![outstandings[f.id]] = Append(@, f.call)]
        /\ outstandings' = [i \in DOMAIN outstandings \ {f.id} |-> outstandings[i]]
    BY <1>8 DEF DecodeResponse
  <2> HIDE DEF f
  <2>6. answers' \in [Calls -> Seq(Calls)]
    <3>1. \A s \in Seq(Calls) : Append(s, f.call) \in Seq(Calls)
      BY <2>4
    <3> QED
      BY <2>5, <3>1 DEF TypeOK
  <2>7. /\ DOMAIN outstandings' \subseteq 1 .. id
        /\ \A i \in DOMAIN outstandings' : outstandings'[i] \in Calls
    BY <2>5 DEF TypeOK
  <2> QED
    BY <1>8, <2>3, <2>6, <2>7 DEF DecodeResponse, TypeOK
<1>9. ASSUME NEW w \in working, DoneCallback(w), UNCHANGED services PROVE TypeOK'
  <2> DEFINE f == [kind |-> "RESPONSE", id |-> w.id, call |-> w.call]
  <2>1. f \in Frames /\ "server" \in Ends
    BY DEF TypeOK, Frames, Ends
  <2>2. wire' = wire \/ wire' = Sent("server", f)
    BY <1>9 DEF DoneCallback, codecSend
  <2> HIDE DEF f
  <2>3. wire' \in [Ends -> Seq(Frames)] /\ \A x \in Ends : wire[x] # <<>> => wire'[x] # <<>>
    <3>1. CASE wire' = wire
      BY <3>1 DEF TypeOK
    <3>2. CASE wire' # wire
      BY <2>1, <2>2, <3>2, SentFacts
    <3> QED
      BY <3>1, <3>2
  <2> QED
    BY <1>9, <2>3 DEF DoneCallback, TypeOK, callVars
<1>10. ASSUME NEW e \in Ends, HandleClose(e), UNCHANGED services PROVE TypeOK'
  <2>1. <<>> \in Seq(Frames)
    OBVIOUS
  <2> QED
    BY <1>10, <2>1 DEF HandleClose, TypeOK, callVars
<1>11. CASE UNCHANGED vars
  BY <1>11 DEF vars, TypeOK, callVars, inVars
<1> QED
  BY <1>1, <1>2, <1>3, <1>4, <1>5, <1>6, <1>7, <1>8, <1>9, <1>10, <1>11
     DEF Next, Running, CallMethod, Decode, Serve

------------------------------------------------------------------------------
(* The streams *)

LEMMA StreamType ==
  ASSUME TypeOK
  PROVE  \A e \in Ends :
           /\ buffer[e] \in Seq(Frames) /\ wire[e] \in Seq(Frames) /\ Stream(e) \in Seq(Frames)
           /\ Members(Stream(e)) = Members(buffer[e]) \cup Members(wire[e])
<1> SUFFICES ASSUME NEW e \in Ends
             PROVE  /\ buffer[e] \in Seq(Frames) /\ wire[e] \in Seq(Frames)
                    /\ Stream(e) \in Seq(Frames)
                    /\ Members(Stream(e)) = Members(buffer[e]) \cup Members(wire[e])
  OBVIOUS
<1>1. buffer[e] \in Seq(Frames) /\ wire[e] \in Seq(Frames)
  BY DEF TypeOK
<1> QED
  BY <1>1, ConcatProperties, MembersConcat DEF Stream

\* whatever leaves the streams and the services alone keeps Once
LEMMA SameStreams ==
  ASSUME \A e \in Ends : Stream(e)' = Stream(e)
  PROVE  /\ \A e \in Ends : Coming(e)' = Coming(e) /\ Members(Stream(e))' = Members(Stream(e))
         /\ Once /\ working' \subseteq working => Once'
<1>1. \A e \in Ends : Members(Stream(e))' = Members(Stream(e))
  BY DEF Members
<1>2. \A e \in Ends : Coming(e)' = Coming(e)
  BY <1>1 DEF Coming, Valid
<1>3. \A e \in Ends : DistinctIds(Stream(e)) => DistinctIds(Stream(e))'
  BY DEF DistinctIds, Valid
<1>4. "client" \in Ends /\ "server" \in Ends
  BY DEF Ends
<1> QED
  BY <1>1, <1>2, <1>3, <1>4 DEF Once

LEMMA SendOnce ==
  ASSUME TypeOK, Once, NEW e \in Ends, NEW f \in Frames,
         wire' = wire \/ wire' = Sent(e, f), buffer' = buffer, working' \subseteq working,
         Valid(f) => /\ \A x \in Ends : \A g \in Coming(x) : g.id # f.id
                     /\ \A w \in working' : w.id # f.id
  PROVE  /\ Once'
         /\ \A x \in Ends : \A g \in Coming(x)' : g \in Coming(x) \/ (Valid(f) /\ g = f)
         /\ \A x \in Ends : Members(Stream(x)) \subseteq Members(Stream(x))'
         /\ wire'[Other(e)] = Append(wire[Other(e)], f) => f \in Members(Stream(Other(e)))'
<1> DEFINE o == Other(e)
<1>0. o \in Ends /\ o # e /\ \A x \in Ends : x = e \/ x = o
  BY DEF Ends, Other
<1>1. CASE wire' = wire
  <2>1. \A x \in Ends : Stream(x)' = Stream(x)
    BY <1>1 DEF Stream
  <2>2. wire[o] # Append(wire[o], f)
    <3>1. wire[o] \in Seq(Frames)
      BY <1>0, StreamType
    <3> QED
      BY <3>1, AppendProperties, LenProperties
  <2> QED
    BY <1>0, <1>1, <2>1, <2>2, SameStreams
<1>2. CASE wire' # wire
  <2>1. wire'[o] = Append(wire[o], f) /\ wire'[e] = wire[e]
    BY <1>2, SentFacts
  <2>2. Stream(e)' = Stream(e)
    BY <2>1 DEF Stream
  <2>3. Stream(o)' = Append(Stream(o), f)
    <3>1. buffer[o] \in Seq(Frames) /\ wire[o] \in Seq(Frames)
      BY <1>0, StreamType
    <3>2. buffer[o] \o Append(wire[o], f) = Append(buffer[o] \o wire[o], f)
      BY <3>1, AppendToStream
    <3> HIDE DEF o
    <3> QED
      BY <2>1, <3>2 DEF Stream
  <2>4. Stream(o) \in Seq(Frames) /\ DistinctIds(Stream(o)) /\ DistinctIds(Stream(e))
    BY <1>0, StreamType DEF Once
  <2>5. /\ Members(Stream(o))' = Members(Stream(o)) \cup {f}
        /\ Members(Stream(e))' = Members(Stream(e))
    BY <2>2, <2>3, <2>4, Push DEF Members
  <2>6. /\ \A g \in Coming(o)' : g \in Coming(o) \/ (Valid(f) /\ g = f)
        /\ Coming(e)' = Coming(e)
    BY <2>5 DEF Coming, Valid
  <2>7. Valid(f) => \A g \in Members(Stream(o)) : Valid(g) => g.id # f.id
    BY <1>0 DEF Coming
  <2>8. DistinctIds(Stream(o)') /\ DistinctIds(Stream(e)')
    BY <2>2, <2>3, <2>4, <2>7, Push
  <2>9. DistinctIds(Stream(o))' /\ DistinctIds(Stream(e))'
    BY <2>8 DEF DistinctIds, Valid
  <2>10. \A x \in Ends : \A g \in Coming(x)' : g \in Coming(x) \/ (Valid(f) /\ g = f)
    BY <1>0, <2>6
  <2>11. \A x \in Ends : \A w \in working' : \A g \in Coming(x)' : g.id # w.id
    BY <2>10 DEF Once
  <2>12. \A g \in Coming("client")', h \in Coming("server")' : g.id # h.id
    <3>1. (e = "client" /\ o = "server") \/ (e = "server" /\ o = "client")
      BY DEF Ends, Other
    <3> QED
      BY <1>0, <2>6, <3>1 DEF Once
  <2>13. Once'
    BY <1>0, <2>9, <2>11, <2>12 DEF Once
  <2> QED
    BY <1>0, <2>5, <2>10, <2>13
<1> QED
  BY <1>1, <1>2

LEMMA PopOnce ==
  ASSUME TypeOK, Once, NEW e \in Ends, buffer[e] # <<>>, Valid(Head(buffer[e])),
         buffer' = [buffer EXCEPT ![e] = Tail(@)], wire' = wire
  PROVE  /\ Head(buffer[e]) \in Frames /\ Head(Stream(e)) = Head(buffer[e])
         /\ \A x \in Ends : DistinctIds(Stream(x))'
         /\ Coming(e) = Coming(e)' \cup {Head(buffer[e])}
         /\ \A g \in Coming(e)' : g.id # Head(buffer[e]).id
         /\ \A x \in Ends \ {e} : Coming(x)' = Coming(x)
<1>1. /\ buffer[e] \in Seq(Frames) /\ wire[e] \in Seq(Frames) /\ Stream(e) \in Seq(Frames)
      /\ DistinctIds(Stream(e))
  BY StreamType DEF Once
<1>2. Stream(e) # <<>> /\ Head(Stream(e)) = Head(buffer[e])
      /\ Tail(Stream(e)) = Tail(buffer[e]) \o wire[e]
  BY <1>1, HeadTailOfStream DEF Stream
<1>3. Stream(e)' = Tail(Stream(e)) /\ \A x \in Ends \ {e} : Stream(x)' = Stream(x)
  BY <1>2 DEF Stream, TypeOK
<1>4. /\ Head(Stream(e)) \in Frames
      /\ Members(Stream(e)) = Members(Tail(Stream(e))) \cup {Head(Stream(e))}
      /\ DistinctIds(Tail(Stream(e)))
      /\ Valid(Head(Stream(e))) =>
           \A g \in Members(Tail(Stream(e))) : Valid(g) => g.id # Head(Stream(e)).id
  BY <1>1, <1>2, Pop
<1>5. Members(Stream(e))' = Members(Tail(Stream(e)))
  BY <1>3 DEF Members
<1>6. Coming(e) = Coming(e)' \cup {Head(buffer[e])}
  BY <1>2, <1>4, <1>5 DEF Coming, Valid
<1>7. \A g \in Coming(e)' : g.id # Head(buffer[e]).id
  BY <1>2, <1>4, <1>5 DEF Coming, Valid
<1>8. \A x \in Ends \ {e} : Coming(x)' = Coming(x)
  BY <1>3 DEF Coming, Members, Valid
<1>9. \A x \in Ends : DistinctIds(Stream(x))'
  <2>1. \A x \in Ends : DistinctIds(Stream(x)')
    BY <1>3, <1>4 DEF Once
  <2> QED
    BY <2>1 DEF DistinctIds, Valid
<1> QED
  BY <1>2, <1>4, <1>6, <1>7, <1>8, <1>9

\* TcpConnection::handleRead moves bytes from the connection to inputBuffer_.
LEMMA ReadSameStreams ==
  ASSUME TypeOK, NEW e \in Ends, HandleRead(e)
  PROVE  \A x \in Ends : Stream(x)' = Stream(x)
<1>1. PICK n \in 0 .. Len(wire[e]) :
        /\ wire' = [wire EXCEPT ![e] = SubSeq(@, n + 1, Len(@))]
        /\ buffer' = [buffer EXCEPT ![e] = @ \o SubSeq(wire[e], 1, n)]
  BY DEF HandleRead
<1>2. wire \in [Ends -> Seq(Frames)] /\ buffer \in [Ends -> Seq(Frames)]
  BY DEF TypeOK
<1>3. /\ wire'[e] = SubSeq(wire[e], n + 1, Len(wire[e]))
      /\ buffer'[e] = buffer[e] \o SubSeq(wire[e], 1, n)
      /\ \A x \in Ends \ {e} : wire'[x] = wire[x] /\ buffer'[x] = buffer[x]
  BY <1>1, <1>2
<1>4. (buffer[e] \o SubSeq(wire[e], 1, n)) \o SubSeq(wire[e], n + 1, Len(wire[e]))
      = buffer[e] \o wire[e]
  BY <1>2, ReadKeepsStream
<1> QED
  BY <1>3, <1>4 DEF Stream

\* handleClose throws away what was not decoded.
LEMMA CloseStreams ==
  ASSUME TypeOK, NEW e \in Ends, HandleClose(e)
  PROVE  /\ Stream(e)' = <<>> /\ \A x \in Ends \ {e} : Stream(x)' = Stream(x)
         /\ Once => Once'
         /\ \A x \in Ends : Coming(x)' \subseteq Coming(x)
<1>1. wire[e] = <<>> /\ wire' = wire /\ buffer' = [buffer EXCEPT ![e] = <<>>] /\ working' = working
  BY DEF HandleClose
<1>2. Stream(e)' = <<>> /\ \A x \in Ends \ {e} : Stream(x)' = Stream(x)
  BY <1>1 DEF Stream, TypeOK
<1>3. Coming(e)' = {} /\ \A x \in Ends \ {e} : Coming(x)' = Coming(x)
  BY <1>2 DEF Coming, Members, Valid
<1>4. \A x \in Ends : DistinctIds(Stream(x)) => DistinctIds(Stream(x))'
  BY <1>2 DEF DistinctIds, Valid
<1>5. "client" \in Ends /\ "server" \in Ends
  BY DEF Ends
<1> QED
  BY <1>1, <1>2, <1>3, <1>4, <1>5 DEF Once

------------------------------------------------------------------------------
(* Routing *)

\* A step that changes neither the calls nor what is on its way.
LEMMA RoutedFrame ==
  ASSUME RoutedInv, UNCHANGED <<callVars, answers, working>>, Once',
         \A e \in Ends : Coming(e)' \subseteq Coming(e)
  PROVE  (Registered /\ AllCarried /\ Once)'
<1>1. Registered'
  BY DEF RoutedInv, Registered, callVars
<1>2. AllCarried'
  BY DEF RoutedInv, AllCarried, Carried, callVars
<1> QED
  BY <1>1, <1>2

LEMMA RoutedStep == RoutedInv /\ TypeOK' /\ [Next]_vars => RoutedInv'
<1> SUFFICES ASSUME RoutedInv, TypeOK', [Next]_vars PROVE (Registered /\ AllCarried /\ Once)'
  BY DEF RoutedInv
<1>0. TypeOK /\ Registered /\ AllCarried /\ Once /\ "client" \in Ends /\ "server" \in Ends
  BY DEF RoutedInv, Ends
<1>s. UNCHANGED <<buffer, wire>> =>
        /\ \A e \in Ends : Coming(e)' = Coming(e)
        /\ working' \subseteq working => Once'
  BY <1>0, SameStreams DEF Stream
<1>w. /\ \A w \in working : w.call \in Calls
      /\ \A e \in Ends : \A f \in Coming(e) : f.call \in Calls
  BY <1>0, ZenonT(30) DEF TypeOK, AllCarried, Carried
<1>1. ASSUME NEW c \in Calls, AssignId(c) PROVE (Registered /\ AllCarried /\ Once)'
  <2>1. /\ pc[c] = "idle" /\ pc' = [pc EXCEPT ![c] = "register"]
        /\ callId' = [callId EXCEPT ![c] = id + 1]
        /\ UNCHANGED <<outstandings, answers, working, buffer, wire>>
    BY <1>1 DEF AssignId, inVars
  <2>2. /\ id \in Nat /\ callId \in [Calls -> 0 .. id] /\ pc \in [Calls -> {"idle", "register", "send", "sent"}]
        /\ DOMAIN outstandings \subseteq 1 .. id
        /\ \A i \in DOMAIN outstandings : outstandings[i] \in Calls
    BY <1>0 DEF TypeOK
  <2>3. \A d, e \in Calls : callId'[d] = callId'[e] /\ callId'[d] # 0 => d = e
    BY <1>0, <2>1, <2>2 DEF Registered
  <2>4. \A i \in DOMAIN outstandings : outstandings[i] # c
    BY <1>0, <2>1 DEF Registered
  <2>5. Registered'
    BY <1>0, <2>1, <2>2, <2>3, <2>4 DEF Registered
  <2>6. AllCarried'
    BY <1>0, <1>s, <1>w, <2>1, <2>2 DEF AllCarried, Carried
  <2> QED
    BY <1>s, <2>1, <2>5, <2>6
<1>2. ASSUME NEW c \in Calls, Register(c) PROVE (Registered /\ AllCarried /\ Once)'
  <2>1. /\ pc[c] = "register" /\ pc' = [pc EXCEPT ![c] = "send"]
        /\ outstandings' = [i \in DOMAIN outstandings \cup {callId[c]} |->
                              IF i = callId[c] THEN c ELSE outstandings[i]]
        /\ UNCHANGED <<callId, answers, working, buffer, wire>>
    BY <1>2 DEF Register, inVars
  <2>2. /\ callId[c] # 0 /\ pc \in [Calls -> {"idle", "register", "send", "sent"}]
        /\ \A i \in DOMAIN outstandings : outstandings[i] \in Calls
    BY <1>0, <2>1 DEF TypeOK
  <2>3. callId[c] \notin DOMAIN outstandings
    BY <1>0, <2>1, <2>2 DEF Registered
  <2>4. Registered'
    BY <1>0, <2>1, <2>2, <2>3 DEF Registered
  <2>5. AllCarried'
    BY <1>0, <1>s, <1>w, <2>1, <2>2, <2>3 DEF AllCarried, Carried
  <2> QED
    BY <1>s, <2>1, <2>4, <2>5
<1>3. ASSUME NEW c \in Calls, Send(c) PROVE (Registered /\ AllCarried /\ Once)'
  <2> DEFINE f == [kind |-> "REQUEST", id |-> callId[c], call |-> c]
  <2>1. /\ pc[c] = "send" /\ pc' = [pc EXCEPT ![c] = "sent"]
        /\ wire' = wire \/ wire' = Sent("client", f)
        /\ UNCHANGED <<callId, outstandings, answers, working, buffer>>
    BY <1>3 DEF Send, codecSend
  <2>2. f \in Frames /\ f.id = callId[c] /\ f.call = c
    BY <1>0 DEF TypeOK, Frames
  <2>3. /\ callId[c] \in DOMAIN outstandings /\ outstandings[callId[c]] \in Calls
        /\ callId[c] # 0 /\ pc \in [Calls -> {"idle", "register", "send", "sent"}]
    BY <1>0, <2>1 DEF Registered, TypeOK
  <2>4. outstandings[callId[c]] = c
    BY <1>0, <2>3 DEF Registered
  <2>5. /\ \A x \in Ends : \A g \in Coming(x) : g.id # callId[c]
        /\ \A w \in working : w.id # callId[c]
    BY <1>0, <2>1, <2>4 DEF AllCarried, Carried
  <2> HIDE DEF f
  <2>6. /\ Once'
        /\ \A x \in Ends : \A g \in Coming(x)' : g \in Coming(x) \/ g = f
    BY <1>0, <2>1, <2>2, <2>5, SendOnce
  <2>7. Registered'
    BY <1>0, <2>1, <2>3 DEF Registered, TypeOK
  <2>8. AllCarried'
    BY <1>0, <1>w, <2>1, <2>2, <2>3, <2>4, <2>6 DEF AllCarried, Carried
  <2> QED
    BY <2>6, <2>7, <2>8
<1>4. ASSUME NEW e \in Ends, BadFrame(e) PROVE (Registered /\ AllCarried /\ Once)'
  <2>1. PICK k \in ErrorCodes :
          wire' = Sent(Other(e), [kind |-> k, id |-> 0, call |-> CHOOSE c \in Calls : TRUE])
    BY <1>4 DEF BadFrame
  <2> DEFINE f == [kind |-> k, id |-> 0, call |-> CHOOSE c \in Calls : TRUE]
  <2>2. f \in Frames /\ Other(e) \in Ends /\ ~Valid(f) /\ wire' = Sent(Other(e), f)
    BY <2>1, RpcAssumption DEF Frames, Ends, Other, Valid
  <2>3. UNCHANGED <<buffer, callVars, answers, working>>
    BY <1>4 DEF BadFrame
  <2> HIDE DEF f
  <2>4. Once' /\ \A x \in Ends : Coming(x)' \subseteq Coming(x)
    BY <1>0, <2>2, <2>3, SendOnce
  <2> QED
    BY <2>3, <2>4, RoutedFrame
<1>5. ASSUME NEW e \in Ends, HandleRead(e) PROVE (Registered /\ AllCarried /\ Once)'
  <2>1. UNCHANGED <<callVars, answers, working>>
    BY <1>5 DEF HandleRead
  <2>2. Once' /\ \A x \in Ends : Coming(x)' = Coming(x)
    BY <1>0, <1>5, <2>1, ReadSameStreams, SameStreams
  <2> QED
    BY <2>1, <2>2, RoutedFrame
<1>6. ASSUME \/ \E e \in Ends : DecodeWait(e) \/ DecodeError(e) \/ Shutdown(e)
             \/ UNCHANGED vars
      PROVE (Registered /\ AllCarried /\ Once)'
  <2>1. UNCHANGED <<callVars, answers, working, buffer, wire>>
    BY <1>6 DEF DecodeWait, DecodeError, Shutdown, vars, inVars
  <2> QED
    BY <1>s, <2>1, RoutedFrame
<1>7. ASSUME DecodeRequest PROVE (Registered /\ AllCarried /\ Once)'
  <2> DEFINE f == Head(buffer["server"])
  <2>1. /\ buffer["server"] # <<>> /\ Valid(f) /\ wire' = wire
        /\ buffer' = [buffer EXCEPT !["server"] = Tail(@)]
        /\ UNCHANGED <<callVars, answers>>
        /\ working' \subseteq working \cup {[id |-> f.id, call |-> f.call]}
    BY <1>7 DEF DecodeRequest, Delivers, ValidFrame, RetrieveFrame, Valid
  <2>2. /\ \A x \in Ends : DistinctIds(Stream(x))'
        /\ Coming("server") = Coming("server")' \cup {f}
        /\ \A g \in Coming("server")' : g.id # f.id
        /\ \A x \in Ends \ {"server"} : Coming(x)' = Coming(x)
    BY <1>0, <2>1, PopOnce
  <2> HIDE DEF f
  <2>3. f \in Coming("server") /\ Coming("server")' \subseteq Coming("server")
        /\ Coming("client")' = Coming("client")
    BY <1>0, <2>2
  <2>4. Ends = {"client", "server"}
    BY DEF Ends
  <2>5. \A w \in working' : w \in working \/ (w.id = f.id /\ w.call = f.call)
    BY <2>1
  <2>6. Once'
    BY <1>0, <2>2, <2>3, <2>4, <2>5 DEF Once
  <2>7. Registered'
    BY <1>0, <2>1 DEF Registered, callVars
  <2>8. AllCarried'
    BY <1>0, <2>1, <2>3, <2>4, <2>5 DEF AllCarried, Carried, callVars
  <2> QED
    BY <2>6, <2>7, <2>8
<1>8. ASSUME DecodeResponse PROVE (Registered /\ AllCarried /\ Once)'
  <2> DEFINE f == Head(buffer["client"])
  <2>1. /\ buffer["client"] # <<>> /\ Valid(f) /\ wire' = wire
        /\ buffer' = [buffer EXCEPT !["client"] = Tail(@)]
        /\ UNCHANGED <<pc, callId, working>>
        /\ answers' = IF f.id \notin DOMAIN outstandings THEN answers
                      ELSE [answers EXCEPT ![outstandings[f.id]] = Append(@, f.call)]
        /\ outstandings' = [i \in DOMAIN outstandings \ {f.id} |-> outstandings[i]]
    BY <1>8 DEF DecodeResponse, Delivers, ValidFrame, RetrieveFrame, Valid
  <2>2. /\ \A x \in Ends : DistinctIds(Stream(x))'
        /\ Coming("client") = Coming("client")' \cup {f}
        /\ \A g \in Coming("client")' : g.id # f.id
        /\ \A x \in Ends \ {"client"} : Coming(x)' = Coming(x)
    BY <1>0, <2>1, PopOnce
  <2> HIDE DEF f
  <2>3. f \in Coming("client") /\ Coming("client")' \subseteq Coming("client")
        /\ Coming("server")' = Coming("server")
    BY <1>0, <2>2
  <2>4. Ends = {"client", "server"}
    BY DEF Ends
  <2>5. /\ f.id \in DOMAIN outstandings /\ outstandings[f.id] = f.call /\ f.call \in Calls
        /\ pc[f.call] = "sent" /\ callId[f.call] = f.id /\ answers[f.call] = <<>>
    BY <1>0, <1>w, <2>3 DEF AllCarried, Carried, Registered
  <2>6. answers' = [answers EXCEPT ![f.call] = <<f.call>>] /\ answers \in [Calls -> Seq(Calls)]
    BY <1>0, <2>1, <2>5 DEF TypeOK
  <2>7. Once'
    BY <1>0, <2>1, <2>2, <2>3, <2>4 DEF Once
  <2>8. \A i \in DOMAIN outstandings' : /\ i \in DOMAIN outstandings /\ i # f.id
                                        /\ outstandings'[i] = outstandings[i]
                                        /\ outstandings[i] # f.call /\ outstandings[i] \in Calls
    BY <1>0, <2>1, <2>5 DEF Registered, TypeOK
  <2>9. Registered'
    <3>0. callId[f.call] # 0
      BY <1>0, <2>5 DEF TypeOK
    <3>1. \A c \in Calls : pc[c] = "send" => callId[c] # f.id
      BY <1>0, <2>5, <3>0 DEF Registered
    <3>2. \A c \in Calls : pc[c] = "send" => callId[c] \in DOMAIN outstandings'
      BY <1>0, <2>1, <3>1 DEF Registered
    <3> QED
      BY <1>0, <2>1, <2>5, <2>6, <2>8, <3>2 DEF Registered
  <2>10. AllCarried'
    <3>1. /\ \A w \in working : w.id # f.id
          /\ \A e \in Ends : \A g \in Coming(e)' : g \in Coming(e) /\ g.id # f.id
      BY <1>0, <2>2, <2>3, <2>4 DEF Once
    <3>2. \A i \in DOMAIN outstandings : i # f.id =>
            i \in DOMAIN outstandings' /\ outstandings'[i] = outstandings[i]
      BY <2>1
    <3> QED
      BY <1>0, <2>1, <3>1, <3>2 DEF AllCarried, Carried
  <2> QED
    BY <2>7, <2>9, <2>10
<1>9. ASSUME NEW w \in working, DoneCallback(w) PROVE (Registered /\ AllCarried /\ Once)'
  <2> DEFINE f == [kind |-> "RESPONSE", id |-> w.id, call |-> w.call]
  <2>1. /\ working' = working \ {w} /\ UNCHANGED <<callVars, answers, buffer>>
        /\ wire' = wire \/ wire' = Sent("server", f)
    BY <1>9 DEF DoneCallback, codecSend
  <2>2. f \in Frames /\ f.id = w.id /\ f.call = w.call
    BY <1>0 DEF TypeOK, Frames
  <2>3. \A x \in Ends : \A g \in Coming(x) : g.id # w.id
    BY <1>0 DEF Once
  <2>4. \A v \in working : v.id = w.id => v = w
    <3> SUFFICES ASSUME NEW v \in working, v.id = w.id PROVE v = w
      OBVIOUS
    <3>1. v.call = w.call
      BY <1>0 DEF AllCarried, Carried
    <3>2. v \in [id : Nat, call : Calls] /\ w \in [id : Nat, call : Calls]
      BY <1>0 DEF TypeOK
    <3> QED
      BY <3>1, <3>2
  <2> HIDE DEF f
  <2>5. Once' /\ \A x \in Ends : \A g \in Coming(x)' : g \in Coming(x) \/ g = f
    BY <1>0, <2>1, <2>2, <2>3, <2>4, SendOnce
  <2>6. Registered'
    BY <1>0, <2>1 DEF Registered, callVars
  <2>7. AllCarried'
    BY <1>0, <2>1, <2>2, <2>5 DEF AllCarried, Carried, callVars
  <2> QED
    BY <2>5, <2>6, <2>7
<1>10. ASSUME NEW e \in Ends, HandleClose(e) PROVE (Registered /\ AllCarried /\ Once)'
  <2>1. UNCHANGED <<callVars, answers, working>>
    BY <1>10 DEF HandleClose
  <2>2. Once' /\ \A x \in Ends : Coming(x)' \subseteq Coming(x)
    BY <1>0, <1>10, CloseStreams
  <2> QED
    BY <2>1, <2>2, RoutedFrame
<1> QED
  BY <1>1, <1>2, <1>3, <1>4, <1>5, <1>6, <1>7, <1>8, <1>9, <1>10
     DEF Next, Running, CallMethod, Decode, Serve

LEMMA RoutedInit == Init => RoutedInv /\ StuckAfterError
<1> SUFFICES ASSUME Init PROVE RoutedInv /\ StuckAfterError
  OBVIOUS
<1>1. <<>> \in Seq(Frames) /\ <<>> \in Seq(Calls)
  OBVIOUS
<1>2. TypeOK
  BY <1>1 DEF Init, TypeOK, Parts
<1>3. \A e \in Ends : Stream(e) = <<>>
  <2>1. <<>> \o <<>> = <<>>
    OBVIOUS
  <2> QED
    BY <2>1 DEF Init, Stream
<1>4. \A e \in Ends : Coming(e) = {} /\ DistinctIds(Stream(e))
  BY <1>3 DEF Coming, Members, DistinctIds
<1>5. Registered /\ AllCarried /\ Once
  BY <1>2, <1>4 DEF Init, Registered, AllCarried, Once, Ends
<1> QED
  BY <1>2, <1>5 DEF Init, RoutedInv, StuckAfterError

LEMMA RoutedInvCorrect == FairSpec => []RoutedInv
<1>1. RoutedInv => TypeOK
  BY DEF RoutedInv
<1> QED
  BY <1>1, RoutedInit, TypeStep, RoutedStep, PTL DEF FairSpec

\* Travelling in terms of the streams
LEMMA TravellingIs ==
  ASSUME TypeOK
  PROVE  \A w : w \in Travelling <=>
           w \in working \/ \E e \in Ends : \E f \in Coming(e) : w = [id |-> f.id, call |-> f.call]
<1>1. UNION {Members(wire[e]) \cup Members(buffer[e]) : e \in Ends}
        = UNION {Members(Stream(e)) : e \in Ends}
  BY StreamType
<1> DEFINE G == UNION {Members(Stream(e)) : e \in Ends}
<1>2. \A f : (f \in G /\ Valid(f)) <=> \E e \in Ends : f \in Coming(e)
  BY DEF Coming
<1>3. Travelling = working \cup {[id |-> f.id, call |-> f.call] : f \in {g \in G : Valid(g)}}
  BY <1>1 DEF Travelling, Valid
<1> HIDE DEF G
<1> QED
  BY <1>2, <1>3

\* Every response reaches the done of the call that it answers, once: whatever the
\* threads of the client, the pieces the stream arrives in and the order in which
\* the services call done.
THEOREM RoutedCorrect == FairSpec => []Routed
<1>1. RoutedInv => Routed
  <2> SUFFICES ASSUME RoutedInv PROVE Routed
    OBVIOUS
  <2>1. TypeOK /\ Registered /\ AllCarried
    BY DEF RoutedInv
  <2>2. ASSUME NEW w \in Travelling PROVE w.id \in DOMAIN outstandings /\ outstandings[w.id] = w.call
    <3>1. CASE w \in working
      BY <2>1, <3>1 DEF AllCarried, Carried
    <3>2. CASE \E e \in Ends : \E f \in Coming(e) : w = [id |-> f.id, call |-> f.call]
      BY <2>1, <3>2 DEF AllCarried, Carried
    <3> QED
      BY <2>1, <2>2, <3>1, <3>2, TravellingIs
  <2> QED
    BY <2>1, <2>2 DEF Routed, Registered
<1> QED
  BY <1>1, RoutedInvCorrect, PTL

------------------------------------------------------------------------------
(* No call is lost *)

\* NoCallLost in terms of the streams
CallIsSomewhere(c) ==
  (\E w \in working : w.call = c) \/ \E e \in Ends : \E f \in Coming(e) : f.call = c
Kept ==
  crash = "none" /\ BothConnected =>
    \A c \in services : pc[c] = "sent" /\ answers[c] = <<>> => CallIsSomewhere(c)

LEMMA KeptStep == RoutedInv /\ Kept /\ [Next]_vars => Kept'
<1> SUFFICES ASSUME RoutedInv, Kept, [Next]_vars, crash' = "none", BothConnected',
                    NEW c \in services', pc'[c] = "sent", answers'[c] = <<>>
             PROVE  CallIsSomewhere(c)'
  BY DEF Kept
<1>0. TypeOK /\ Registered /\ AllCarried /\ Once /\ "client" \in Ends /\ "server" \in Ends
  BY DEF RoutedInv, Ends
<1>1. services' = services /\ c \in Calls /\ c \in services
  BY <1>0 DEF TypeOK, Next, Running, vars
<1>2. ASSUME crash = "none", conn' = conn, pc[c] = "sent", answers[c] = <<>>
      PROVE  CallIsSomewhere(c)
  BY <1>1, <1>2 DEF Kept, BothConnected
<1>3. ASSUME crash = "none", conn' = conn, pc[c] = "sent", answers[c] = <<>>, working' = working,
             \A e \in Ends : Coming(e) \subseteq Coming(e)'
      PROVE  CallIsSomewhere(c)'
  BY <1>2, <1>3 DEF CallIsSomewhere
<1>s. UNCHANGED <<buffer, wire>> => \A e \in Ends : Coming(e)' = Coming(e)
  BY SameStreams DEF Stream
<1>m. (\A e \in Ends : Members(Stream(e)) \subseteq Members(Stream(e))')
        => \A e \in Ends : Coming(e) \subseteq Coming(e)'
  BY DEF Coming, Valid
<1>4. ASSUME NEW d \in Calls, AssignId(d) \/ Register(d), crash = "none"
      PROVE  CallIsSomewhere(c)'
  <2>1. UNCHANGED <<conn, answers, working, buffer, wire>> /\ pc[c] = "sent"
    BY <1>0, <1>1, <1>4 DEF AssignId, Register, inVars, TypeOK
  <2> QED
    BY <1>3, <1>4, <1>s, <2>1
<1>5. ASSUME NEW d \in Calls, Send(d), crash = "none" PROVE CallIsSomewhere(c)'
  <2> DEFINE f == [kind |-> "REQUEST", id |-> callId[d], call |-> d]
  <2>0. UNCHANGED <<conn, answers, working, buffer>> /\ pc' = [pc EXCEPT ![d] = "sent"]
    BY <1>5 DEF Send
  <2>1. conn["client"] = "kConnected" /\ conn["server"] = "kConnected"
    BY <1>0, <2>0 DEF BothConnected
  <2>2. wire' = Sent("client", f)
    BY <1>5, <2>1 DEF Send, codecSend
  <2>3. f \in Frames /\ f.call = d /\ f.id = callId[d] /\ Valid(f)
    BY <1>0 DEF TypeOK, Frames, Valid
  <2>4. wire' = [wire EXCEPT !["server"] = Append(@, f)]
    BY <2>1, <2>2 DEF Sent, Other
  <2>5. wire'[Other("client")] = Append(wire[Other("client")], f)
    BY <1>0, <2>4 DEF TypeOK, Other
  <2>6. /\ callId[d] \in DOMAIN outstandings /\ outstandings[callId[d]] = d
    <3>1. /\ pc[d] = "send" /\ callId[d] \in DOMAIN outstandings
          /\ callId[d] # 0 /\ outstandings[callId[d]] \in Calls
      BY <1>0, <1>5 DEF Send, Registered, TypeOK
    <3> QED
      BY <1>0, <3>1 DEF Registered
  <2>7. /\ \A x \in Ends : \A g \in Coming(x) : g.id # callId[d]
        /\ \A w \in working : w.id # callId[d]
    BY <1>0, <1>5, <2>6 DEF AllCarried, Carried, Send
  <2> HIDE DEF f
  <2>8. /\ \A x \in Ends : Members(Stream(x)) \subseteq Members(Stream(x))'
        /\ f \in Members(Stream(Other("client")))'
    BY <1>0, <2>0, <2>2, <2>3, <2>5, <2>7, SendOnce
  <2>9. CASE c = d
    <3>1. Other("client") = "server"
      BY DEF Other
    <3>2. f \in Coming("server")'
      BY <2>3, <2>8, <3>1 DEF Coming, Valid
    <3> QED
      BY <1>0, <2>3, <2>9, <3>2 DEF CallIsSomewhere
  <2>10. CASE c # d
    <3>1. pc[c] = "sent"
      BY <1>0, <1>1, <2>0, <2>10 DEF TypeOK
    <3> QED
      BY <1>3, <1>5, <1>m, <2>0, <2>8, <3>1
  <2> QED
    BY <2>9, <2>10
<1>6. ASSUME NEW e \in Ends, BadFrame(e), crash = "none" PROVE CallIsSomewhere(c)'
  <2>1. PICK k \in ErrorCodes :
          wire' = Sent(Other(e), [kind |-> k, id |-> 0, call |-> CHOOSE d \in Calls : TRUE])
    BY <1>6 DEF BadFrame
  <2> DEFINE f == [kind |-> k, id |-> 0, call |-> CHOOSE d \in Calls : TRUE]
  <2>2. f \in Frames /\ Other(e) \in Ends /\ ~Valid(f) /\ wire' = Sent(Other(e), f)
    BY <2>1, RpcAssumption DEF Frames, Ends, Other, Valid
  <2>3. UNCHANGED <<buffer, conn, pc, answers, working>>
    BY <1>6 DEF BadFrame, callVars
  <2> HIDE DEF f
  <2>4. \A x \in Ends : Members(Stream(x)) \subseteq Members(Stream(x))'
    BY <1>0, <2>2, <2>3, SendOnce
  <2> QED
    BY <1>3, <1>6, <1>m, <2>3, <2>4
<1>7. ASSUME NEW e \in Ends, HandleRead(e), crash = "none" PROVE CallIsSomewhere(c)'
  <2>1. UNCHANGED <<conn, pc, answers, working>>
    BY <1>7 DEF HandleRead, callVars
  <2>2. \A x \in Ends : Coming(x)' = Coming(x)
    BY <1>0, <1>7, ReadSameStreams, SameStreams
  <2> QED
    BY <1>3, <1>7, <2>1, <2>2
<1>8. ASSUME NEW e \in Ends, DecodeWait(e), crash = "none" PROVE CallIsSomewhere(c)'
  <2>1. UNCHANGED <<conn, pc, answers, working, buffer, wire>>
    BY <1>8 DEF DecodeWait, callVars
  <2> QED
    BY <1>3, <1>8, <1>s, <2>1
<1>9. ASSUME NEW e \in Ends, DecodeError(e) \/ Shutdown(e) \/ HandleClose(e) PROVE FALSE
  <2>1. conn'[e] # "kConnected"
    BY <1>0, <1>9 DEF DecodeError, Shutdown, HandleClose, TypeOK
  <2> QED
    BY <2>1 DEF BothConnected
<1>10. ASSUME DecodeRequest, crash = "none" PROVE CallIsSomewhere(c)'
  <2> DEFINE f == Head(buffer["server"])
             w == [id |-> f.id, call |-> f.call]
  <2>1. /\ buffer["server"] # <<>> /\ Valid(f) /\ wire' = wire
        /\ buffer' = [buffer EXCEPT !["server"] = Tail(@)]
        /\ UNCHANGED <<conn, pc, answers>>
        /\ working \subseteq working'
        /\ f.call \in services => w \in working'
    BY <1>10 DEF DecodeRequest, Delivers, ValidFrame, RetrieveFrame, Valid, callVars
  <2>2. /\ Coming("server") = Coming("server")' \cup {f}
        /\ \A x \in Ends \ {"server"} : Coming(x)' = Coming(x)
    BY <1>0, <2>1, PopOnce
  <2>3. w.call = f.call
    OBVIOUS
  <2> HIDE DEF f, w
  <2>4. CallIsSomewhere(c)
    BY <1>2, <1>10, <2>1
  <2>5. CASE c = f.call
    BY <1>1, <2>1, <2>3, <2>5 DEF CallIsSomewhere
  <2>6. CASE c # f.call
    <3>1. ASSUME NEW e \in Ends, NEW g \in Coming(e), g.call = c PROVE g \in Coming(e)'
      BY <2>2, <2>6, <3>1
    <3> QED
      BY <2>1, <2>4, <3>1 DEF CallIsSomewhere
  <2> QED
    BY <2>5, <2>6
<1>11. ASSUME DecodeResponse, crash = "none" PROVE CallIsSomewhere(c)'
  <2> DEFINE f == Head(buffer["client"])
  <2>1. /\ buffer["client"] # <<>> /\ Valid(f) /\ wire' = wire
        /\ buffer' = [buffer EXCEPT !["client"] = Tail(@)]
        /\ UNCHANGED <<conn, pc, working>>
        /\ answers' = IF f.id \notin DOMAIN outstandings THEN answers
                      ELSE [answers EXCEPT ![outstandings[f.id]] = Append(@, f.call)]
    BY <1>11 DEF DecodeResponse, Delivers, ValidFrame, RetrieveFrame, Valid
  <2>2. /\ Coming("client") = Coming("client")' \cup {f}
        /\ \A x \in Ends \ {"client"} : Coming(x)' = Coming(x)
    BY <1>0, <2>1, PopOnce
  <2> HIDE DEF f
  <2>3. f.id \in DOMAIN outstandings /\ outstandings[f.id] = f.call /\ f.call \in Calls
    BY <1>0, <2>2 DEF AllCarried, Carried, TypeOK
  <2>4. answers' = [answers EXCEPT ![f.call] = Append(@, f.call)] /\ answers \in [Calls -> Seq(Calls)]
    BY <1>0, <2>1, <2>3 DEF TypeOK
  <2>5. c # f.call
    <3>1. Append(answers[f.call], f.call) # <<>>
      <4>1. answers[f.call] \in Seq(Calls) /\ f.call \in Calls
        BY <2>3, <2>4
      <4> QED
        BY <4>1, AppendProperties, EmptySeq
    <3>2. answers'[f.call] = Append(answers[f.call], f.call)
      BY <2>3, <2>4
    <3> QED
      BY <1>1, <3>1, <3>2
  <2>6. answers[c] = <<>>
    BY <1>1, <2>4, <2>5
  <2>7. CallIsSomewhere(c)
    BY <1>2, <1>11, <2>1, <2>6
  <2>8. ASSUME NEW e \in Ends, NEW g \in Coming(e), g.call = c PROVE g \in Coming(e)'
    BY <2>2, <2>5, <2>8
  <2> QED
    BY <2>1, <2>7, <2>8 DEF CallIsSomewhere
<1>12. ASSUME NEW w \in working, DoneCallback(w), crash = "none" PROVE CallIsSomewhere(c)'
  <2> DEFINE f == [kind |-> "RESPONSE", id |-> w.id, call |-> w.call]
  <2>1. working' = working \ {w} /\ UNCHANGED <<conn, pc, answers, buffer>>
    BY <1>12 DEF DoneCallback, callVars
  <2>2. conn["client"] = "kConnected" /\ conn["server"] = "kConnected"
    BY <1>0, <2>1 DEF BothConnected
  <2>3. wire' = Sent("server", f)
    BY <1>12, <2>2 DEF DoneCallback, codecSend
  <2>4. f \in Frames /\ f.id = w.id /\ f.call = w.call /\ Valid(f)
    BY <1>0 DEF TypeOK, Frames, Valid
  <2>5. wire' = [wire EXCEPT !["client"] = Append(@, f)]
    BY <2>2, <2>3 DEF Sent, Other
  <2>6. wire'[Other("server")] = Append(wire[Other("server")], f) /\ Other("server") = "client"
    BY <1>0, <2>5 DEF TypeOK, Other
  <2>7. /\ \A x \in Ends : \A g \in Coming(x) : g.id # w.id
        /\ \A v \in working' : v.id # w.id
    <3>1. \A v \in working : v.id = w.id => v = w
      <4> SUFFICES ASSUME NEW v \in working, v.id = w.id PROVE v = w
        OBVIOUS
      <4>1. v.call = w.call
        BY <1>0 DEF AllCarried, Carried
      <4>2. v \in [id : Nat, call : Calls] /\ w \in [id : Nat, call : Calls]
        BY <1>0 DEF TypeOK
      <4> QED
        BY <4>1, <4>2
    <3> QED
      BY <1>0, <2>1, <3>1 DEF Once
  <2> HIDE DEF f
  <2>8. /\ \A x \in Ends : Members(Stream(x)) \subseteq Members(Stream(x))'
        /\ f \in Members(Stream(Other("server")))'
    BY <1>0, <2>1, <2>3, <2>4, <2>6, <2>7, SendOnce
  <2>9. f \in Coming("client")'
    BY <2>4, <2>6, <2>8 DEF Coming, Valid
  <2>10. CallIsSomewhere(c)
    BY <1>2, <1>12, <2>1
  <2>11. CASE c = w.call
    BY <1>0, <2>4, <2>9, <2>11 DEF CallIsSomewhere
  <2>12. CASE c # w.call
    BY <1>m, <2>1, <2>8, <2>10, <2>12 DEF CallIsSomewhere
  <2> QED
    BY <2>11, <2>12
<1>13. CASE UNCHANGED vars
  <2>1. UNCHANGED <<conn, pc, answers, working, buffer, wire, crash>>
    BY <1>13 DEF vars, callVars, inVars
  <2> QED
    BY <1>3, <1>s, <2>1
<1> QED
  BY <1>4, <1>5, <1>6, <1>7, <1>8, <1>9, <1>10, <1>11, <1>12, <1>13
     DEF Next, Running, CallMethod, Decode, Serve

\* While both ends are connected, a call that was sent and that the server can serve
\* is answered or still on its way: the codecs drop no frame, however the stream is
\* cut into pieces.
THEOREM NoCallLostCorrect == FairSpec => []NoCallLost
<1>1. Init => Kept
  BY DEF Init, Kept, TypeOK
<1>2. RoutedInv /\ Kept => NoCallLost
  <2> SUFFICES ASSUME RoutedInv, Kept, crash = "none", BothConnected, NEW c \in services,
                      pc[c] = "sent", answers[c] = <<>>
               PROVE  \E w \in Travelling : w.call = c
    BY DEF NoCallLost
  <2>1. CallIsSomewhere(c) /\ TypeOK
    BY DEF Kept, RoutedInv
  <2>2. CASE \E w \in working : w.call = c
    BY <2>1, <2>2, TravellingIs
  <2>3. ASSUME NEW e \in Ends, NEW f \in Coming(e), f.call = c PROVE \E w \in Travelling : w.call = c
    <3> DEFINE w == [id |-> f.id, call |-> f.call]
    <3>1. w \in Travelling /\ w.call = c
      BY <2>1, <2>3, TravellingIs
    <3> QED
      BY <3>1
  <2> QED
    BY <2>1, <2>2, <2>3 DEF CallIsSomewhere
<1> QED
  BY <1>1, <1>2, RoutedInvCorrect, KeptStep, PTL DEF FairSpec
------------------------------------------------------------------------------
(* After an invalid frame *)

\* what is sent to an end does not change the first frame that it has yet to decode
LEMMA SendKeepsFront ==
  ASSUME TypeOK, NEW e \in Ends, NEW f \in Frames,
         wire' = wire \/ wire' = Sent(e, f), buffer' = buffer
  PROVE  \A x \in Ends :
           Stream(x) # <<>> => Stream(x)' # <<>> /\ Head(Stream(x)') = Head(Stream(x))
<1> SUFFICES ASSUME NEW x \in Ends, Stream(x) # <<>>
             PROVE  Stream(x)' # <<>> /\ Head(Stream(x)') = Head(Stream(x))
  OBVIOUS
<1>1. buffer[x] \in Seq(Frames) /\ wire[x] \in Seq(Frames) /\ Stream(x) \in Seq(Frames)
  BY StreamType
<1>2. wire'[x] = wire[x] \/ wire'[x] = Append(wire[x], f)
  <2>1. x = e \/ x = Other(e)
    BY DEF Ends, Other
  <2> QED
    BY <2>1, SentFacts
<1>3. CASE wire'[x] = wire[x]
  BY <1>3 DEF Stream
<1>4. CASE wire'[x] = Append(wire[x], f)
  <2>1. Stream(x)' = Append(Stream(x), f)
    <3>1. buffer[x] \o Append(wire[x], f) = Append(buffer[x] \o wire[x], f)
      BY <1>1, AppendToStream
    <3> QED
      BY <1>4, <3>1 DEF Stream
  <2> DEFINE s == Stream(x)
  <2>2. s \in Seq(Frames) /\ s # <<>>
    BY <1>1
  <2> HIDE DEF s
  <2>3. Append(s, f) # <<>> /\ Head(Append(s, f)) = Head(s)
    <3>1. /\ Append(s, f) \in Seq(Frames) /\ Len(s) \in Nat /\ Len(s) > 0
          /\ Len(Append(s, f)) = Len(s) + 1
          /\ \A i \in 1 .. Len(s) : Append(s, f)[i] = s[i]
      BY <2>2, AppendProperties, LenProperties, EmptySeq
    <3>2. Append(s, f) # <<>> /\ Append(s, f)[1] = s[1]
      BY <3>1, EmptySeq
    <3> QED
      BY <2>2, <3>1, <3>2, HeadTailProperties
  <2> QED
    BY <2>1, <2>3 DEF s
<1> QED
  BY <1>2, <1>3, <1>4

\* a frame that is delivered is the first of its end's stream, so that end has not failed
LEMMA DeliversNotFailed ==
  ASSUME TypeOK, StuckAfterError, NEW e \in Ends, NEW k \in {"REQUEST", "RESPONSE"}, Delivers(e, k)
  PROVE  ~failed[e] /\ conn[e] # "kDisconnected"
<1>1. buffer[e] # <<>> /\ Head(buffer[e]).kind = k
  BY DEF Delivers, ValidFrame
<1>2. buffer[e] \in Seq(Frames) /\ wire[e] \in Seq(Frames)
  BY StreamType
<1>3. Head(Stream(e)) = Head(buffer[e])
  BY <1>1, <1>2, HeadTailOfStream DEF Stream
<1>4. k \notin ErrorCodes
  BY RpcAssumption
<1> QED
  BY <1>1, <1>3, <1>4 DEF StuckAfterError

\* an error is found in the first frame of the stream
LEMMA ErrorAtFront ==
  ASSUME TypeOK, NEW e \in Ends, InvalidLength(e) \/ ParseError(e)
  PROVE  Stream(e) # <<>> /\ Head(Stream(e)).kind \in ErrorCodes
<1>1. buffer[e] \in Seq(Frames) /\ wire[e] \in Seq(Frames) /\ Stream(e) \in Seq(Frames)
  BY StreamType
<1>2. \A f \in Frames : f.kind = "kInvalidLength" => f.kind \in ErrorCodes
  BY DEF Frames
<1>3. CASE buffer[e] # <<>>
  <2>1. Stream(e) # <<>> /\ Head(Stream(e)) = Head(buffer[e])
    BY <1>1, <1>3, HeadTailOfStream DEF Stream
  <2>2. Head(buffer[e]) \in Frames
    BY <1>1, <1>3, HeadTailProperties
  <2> QED
    BY <1>2, <1>3, <2>1, <2>2 DEF InvalidLength, ParseError
<1>4. CASE buffer[e] = <<>>
  <2>1. part[e] = "long" /\ Head(wire[e]).kind = "kInvalidLength"
    BY <1>4 DEF InvalidLength, ParseError
  <2>2. wire[e] # <<>>
    BY <2>1 DEF TypeOK
  <2>3. Head(wire[e]) \in Frames
    BY <1>1, <2>2, HeadTailProperties
  <2>4. Stream(e) = wire[e]
    BY <1>1, <1>4, ConcatEmptySeq DEF Stream
  <2> QED
    BY <1>2, <2>1, <2>2, <2>3, <2>4
<1> QED
  BY <1>3, <1>4

LEMMA StuckStep == TypeOK /\ StuckAfterError /\ [Next]_vars => StuckAfterError'
<1> SUFFICES ASSUME TypeOK, StuckAfterError, [Next]_vars PROVE StuckAfterError'
  OBVIOUS
\* a step that changes neither the state of the connections nor a first frame
<1>1. ASSUME UNCHANGED <<conn, failed>>,
             \A x \in Ends : conn[x] = "kDisconnected"
                              => buffer'[x] = buffer[x] /\ (decoding[x] <=> decoding'[x]),
             \A x \in Ends : failed[x] /\ Stream(x) # <<>>
                              => Stream(x)' # <<>> /\ Head(Stream(x)') = Head(Stream(x))
      PROVE  StuckAfterError'
  BY <1>1 DEF StuckAfterError
<1>2. ASSUME UNCHANGED <<conn, failed, buffer, decoding>>, NEW e \in Ends, NEW f \in Frames,
             wire' = wire \/ wire' = Sent(e, f)
      PROVE  StuckAfterError'
  BY <1>1, <1>2, SendKeepsFront
<1>3. ASSUME UNCHANGED <<conn, failed, buffer, decoding, wire>> PROVE StuckAfterError'
  BY <1>3 DEF StuckAfterError, Stream
<1>4. ASSUME NEW c \in Calls, AssignId(c) \/ Register(c) PROVE StuckAfterError'
  BY <1>3, <1>4 DEF AssignId, Register, inVars
<1>5. ASSUME NEW c \in Calls, Send(c) PROVE StuckAfterError'
  <2> DEFINE f == [kind |-> "REQUEST", id |-> callId[c], call |-> c]
  <2>1. f \in Frames /\ "client" \in Ends
    BY DEF Frames, TypeOK, Ends
  <2>2. UNCHANGED <<conn, failed, buffer, decoding>> /\ (wire' = wire \/ wire' = Sent("client", f))
    BY <1>5 DEF Send, codecSend
  <2> HIDE DEF f
  <2> QED
    BY <1>2, <2>1, <2>2
<1>6. ASSUME NEW e \in Ends, BadFrame(e) PROVE StuckAfterError'
  <2>1. PICK k \in ErrorCodes :
          wire' = Sent(Other(e), [kind |-> k, id |-> 0, call |-> CHOOSE c \in Calls : TRUE])
    BY <1>6 DEF BadFrame
  <2> DEFINE f == [kind |-> k, id |-> 0, call |-> CHOOSE c \in Calls : TRUE]
  <2>2. f \in Frames /\ Other(e) \in Ends
    BY RpcAssumption DEF Frames, Ends, Other
  <2>3. UNCHANGED <<conn, failed, buffer, decoding>> /\ wire' = Sent(Other(e), f)
    BY <1>6, <2>1 DEF BadFrame
  <2> HIDE DEF f
  <2> QED
    BY <1>2, <2>2, <2>3
<1>7. ASSUME NEW e \in Ends, HandleRead(e) PROVE StuckAfterError'
  <2>1. /\ UNCHANGED <<conn, failed>> /\ conn[e] # "kDisconnected"
        /\ \A x \in Ends \ {e} : buffer'[x] = buffer[x] /\ decoding'[x] = decoding[x]
    BY <1>7 DEF HandleRead, TypeOK
  <2> QED
    BY <1>1, <1>7, <2>1, ReadSameStreams
<1>8. ASSUME NEW e \in Ends, DecodeWait(e) PROVE StuckAfterError'
  <2>1. /\ UNCHANGED <<conn, failed, buffer, wire>>
        /\ conn[e] # "kDisconnected"
        /\ \A x \in Ends \ {e} : decoding'[x] = decoding[x]
    BY <1>8 DEF DecodeWait, TypeOK, StuckAfterError
  <2>2. \A x \in Ends : Stream(x)' = Stream(x)
    BY <2>1 DEF Stream
  <2> QED
    BY <1>1, <2>1, <2>2
<1>9. ASSUME NEW e \in Ends, DecodeError(e) PROVE StuckAfterError'
  <2>1. /\ UNCHANGED <<buffer, wire>>
        /\ conn[e] # "kDisconnected" /\ conn'[e] # "kDisconnected"
        /\ \A x \in Ends \ {e} :
             conn'[x] = conn[x] /\ (failed'[x] <=> failed[x]) /\ (decoding'[x] <=> decoding[x])
    BY <1>9 DEF DecodeError, TypeOK, StuckAfterError
  <2>2. \A x \in Ends : Stream(x)' = Stream(x)
    BY <2>1 DEF Stream
  <2>3. Stream(e) # <<>> /\ Head(Stream(e)).kind \in ErrorCodes
    BY <1>9, ErrorAtFront DEF DecodeError
  <2> QED
    BY <2>1, <2>2, <2>3 DEF StuckAfterError
<1>10. ASSUME NEW e \in Ends, NEW k \in {"REQUEST", "RESPONSE"}, Delivers(e, k), RetrieveFrame(e),
              UNCHANGED <<conn, wire, decoding, failed>>
       PROVE  StuckAfterError'
  <2>1. ~failed[e] /\ conn[e] # "kDisconnected"
    BY <1>10, DeliversNotFailed
  <2>2. \A x \in Ends \ {e} : buffer'[x] = buffer[x] /\ Stream(x)' = Stream(x)
    BY <1>10 DEF RetrieveFrame, TypeOK, Stream
  <2> QED
    BY <1>1, <1>10, <2>1, <2>2
<1>11. ASSUME DecodeRequest \/ DecodeResponse PROVE StuckAfterError'
  BY <1>10, <1>11 DEF DecodeRequest, DecodeResponse, Ends
<1>12. ASSUME NEW w \in working, DoneCallback(w) PROVE StuckAfterError'
  <2> DEFINE f == [kind |-> "RESPONSE", id |-> w.id, call |-> w.call]
  <2>1. f \in Frames /\ "server" \in Ends
    BY DEF Frames, TypeOK, Ends
  <2>2. UNCHANGED <<conn, failed, buffer, decoding>> /\ (wire' = wire \/ wire' = Sent("server", f))
    BY <1>12 DEF DoneCallback, codecSend
  <2> HIDE DEF f
  <2> QED
    BY <1>2, <2>1, <2>2
<1>13. ASSUME NEW e \in Ends, Shutdown(e) PROVE StuckAfterError'
  <2>1. /\ UNCHANGED <<buffer, wire, decoding, failed>>
        /\ conn[e] # "kDisconnected" /\ conn'[e] # "kDisconnected"
        /\ \A x \in Ends \ {e} : conn'[x] = conn[x]
    BY <1>13 DEF Shutdown, TypeOK, inVars
  <2> QED
    BY <2>1 DEF StuckAfterError, Stream
<1>14. ASSUME NEW e \in Ends, HandleClose(e) PROVE StuckAfterError'
  <2>1. /\ UNCHANGED <<decoding, failed>> /\ ~decoding[e] /\ conn'[e] = "kDisconnected"
        /\ buffer'[e] = <<>>
        /\ \A x \in Ends \ {e} : conn'[x] = conn[x] /\ buffer'[x] = buffer[x]
    BY <1>14 DEF HandleClose, TypeOK
  <2>2. \A x \in Ends \ {e} : Stream(x)' = Stream(x)
    BY <1>14, CloseStreams
  <2> QED
    BY <2>1, <2>2 DEF StuckAfterError
<1>15. CASE UNCHANGED vars
  BY <1>3, <1>15 DEF vars, inVars
<1> QED
  BY <1>4, <1>5, <1>6, <1>7, <1>8, <1>9, <1>11, <1>12, <1>13, <1>14, <1>15
     DEF Next, Running, CallMethod, Decode, Serve

\* Once ProtobufCodecLite::onMessage has met an invalid frame, its end hands no request
\* to a service and answers no call: the frame stays at the front of what is left to
\* decode until the connection is down.
THEOREM NothingAfterErrorCorrect == FairSpec => NothingAfterError
<1>1. TypeOK /\ StuckAfterError /\ [Next]_vars
      => [/\ failed["client"] => answers' = answers
          /\ failed["server"] => working' \subseteq working]_vars
  <2> SUFFICES ASSUME TypeOK, StuckAfterError, Next
               PROVE  /\ failed["client"] => answers' = answers
                      /\ failed["server"] => working' \subseteq working
    OBVIOUS
  <2>1. DecodeResponse => ~failed["client"] /\ working' = working
    BY DeliversNotFailed DEF DecodeResponse, Ends
  <2>2. DecodeRequest => ~failed["server"] /\ answers' = answers
    BY DeliversNotFailed DEF DecodeRequest, Ends
  <2>3. ~DecodeResponse /\ ~DecodeRequest => answers' = answers /\ working' \subseteq working
    BY DEF Next, Running, CallMethod, AssignId, Register, Send, BadFrame, HandleRead, Decode,
           DecodeWait, DecodeError, Shutdown, HandleClose, Serve, DoneCallback
  <2> QED
    BY <2>1, <2>2, <2>3
<1>2. RoutedInv => TypeOK
  BY DEF RoutedInv
<1> QED
  BY <1>1, <1>2, RoutedInit, RoutedInvCorrect, StuckStep, PTL DEF FairSpec, NothingAfterError
==============================================================================
