--------------------------- MODULE TcpServerProofs ---------------------------
(***************************************************************************)
(* Proofs about TcpServer, for any number of threads, clients and file     *)
(* descriptors: connections are spread evenly, a deleted connection is     *)
(* down, and until the server is destructed connections_, the loops and    *)
(* the connections agree.                                                  *)
(***************************************************************************)
EXTENDS TcpServer, SequenceTheorems, FiniteSetTheorems, TLAPS

Names == {"connectEstablished", "connectDestroyed", "removeConnectionInLoop", "forceCloseInLoop"}
Calls == Names \X Conns

\* Types; what is constant before start(); the vector that doPendingFunctors swaps out
\* is empty outside it; and ~TcpServer goes through the pool in order.
ServerTypes ==
  /\ TypeOK
  /\ started \in BOOLEAN /\ numThreads \in 0 .. MaxThreads /\ loops \in 0 .. MaxThreads
  /\ arrived \in 0 .. MaxConns /\ nextConnId \in 1 .. MaxConns + 1
  /\ next \in Nat /\ (loops > 0 => next < loops)
  /\ ~started => /\ loops = 0 /\ next = 0 /\ nextConnId = 1
                 /\ \A l \in IoLoops : place[l] = "none"
  /\ loopOf \in [Conns -> Loops]
  /\ queue \in [Loops -> Seq(Calls)] /\ batch \in [IoLoops -> Seq(Calls)]
  /\ \A l \in IoLoops : place[l] # "run" => batch[l] = <<>>
  /\ quit \in [IoLoops -> BOOLEAN]
  /\ server \in {"alive", "closing"} => victim = 0 /\ \A l \in IoLoops : ~quit[l]
  /\ server \in {"quit", "join"} => victim \in 1 .. loops
  /\ \A c \in Conns : c \in accepted <=> state[c] # "none"
  /\ \A c \in Conns : state[c] = "none" => channel[c] = "kNew"

\* what waits for loop l, in the order in which it will run
LineOf(q, b, l) == IF l = 0 THEN q[0] ELSE b[l] \o q[l]
LinesOf(q, b) == [l \in Loops |-> LineOf(q, b, l)]
Lines == LinesOf(queue, batch)

\* A connection that has left connections_ has a connectDestroyed coming, or had it.
DownInv ==
  /\ \A c \in Conns : channel[c] = "kDeleted" => state[c] = "kDisconnected"
  /\ crash = "none" /\ server \in {"alive", "closing"} =>
       \A c \in accepted \ connections :
         \/ <<"connectDestroyed", c>> \in Functors
         \/ state[c] = "kDisconnected" /\ channel[c] = "kNew"

\* the connections of each loop: one more for those that next_ has passed
load(l) == Cardinality({c \in accepted : loopOf[c] = l})
SpreadInv ==
  loops > 0 =>
    /\ \A c \in accepted : loopOf[c] # 0
    /\ \E n \in Nat : \A k \in 1 .. loops : load(k) = n + (IF k <= next THEN 1 ELSE 0)

------------------------------------------------------------------------------
Unique(s, f) == \A i, j \in DOMAIN s : s[i] = f /\ s[j] = f => i = j

\* the loop that runs f
Home(f) == IF f[1] = "removeConnectionInLoop" THEN 0 ELSE loopOf[f[2]]
In(L, f) == f \in Members(L[Home(f)])

Placed(L) ==
  \A l \in Loops : \A f \in Members(L[l]) :
    /\ l = Home(f) /\ f[2] \in accepted
    /\ f[1] = "removeConnectionInLoop" => loopOf[f[2]] # 0
OnceEach(L) ==
  \A l \in Loops, f \in Calls : f[1] # "forceCloseInLoop" => Unique(L[l], f)

\* the life of an accepted connection
Coming(L, c) == In(L, <<"connectEstablished", c>>)
Removal(L, c) == In(L, <<"removeConnectionInLoop", c>>)
Going(L, c) == In(L, <<"connectDestroyed", c>>)

Opening(L, c) ==
  /\ state[c] = "kConnecting" /\ channel[c] = "kNew" /\ c \in connections
  /\ Coming(L, c) /\ ~Removal(L, c) /\ ~Going(L, c)
Up(L, c) ==
  /\ state[c] \in {"kConnected", "kDisconnecting"} /\ channel[c] = "reading" /\ c \in connections
  /\ ~Coming(L, c) /\ ~Removal(L, c) /\ ~Going(L, c)
Closing(L, c) ==
  /\ state[c] = "kDisconnected" /\ channel[c] = "kDeleted" /\ ~Coming(L, c)
  /\ \/ Removal(L, c) /\ ~Going(L, c) /\ c \in connections
     \/ Going(L, c) /\ ~Removal(L, c) /\ c \notin connections
Down(L, c) ==
  /\ state[c] = "kDisconnected" /\ channel[c] = "kNew" /\ c \notin connections
  /\ ~Coming(L, c) /\ ~Removal(L, c) /\ ~Going(L, c)

Life(L, c) == Opening(L, c) \/ Up(L, c) \/ Closing(L, c) \/ Down(L, c)
Lives(L) == \A c \in accepted : Life(L, c)

Agree(L) == Placed(L) /\ OnceEach(L) /\ Lives(L)
AgreeInv == server = "alive" => crash \in {"none", "accept: EMFILE"} /\ Agree(Lines)
------------------------------------------------------------------------------
(* Types *)

LEMMA PutType ==
  ASSUME NEW q \in [Loops -> Seq(Calls)], NEW l \in Loops, NEW f \in Calls
  PROVE  /\ Put(q, l, f) \in [Loops -> Seq(Calls)]
         /\ Put(q, l, f)[l] = Append(q[l], f)
         /\ \A k \in Loops \ {l} : Put(q, l, f)[k] = q[k]
<1>1. q[l] \in Seq(Calls) /\ Append(q[l], f) \in Seq(Calls)
  BY AppendProperties
<1> QED
  BY <1>1 DEF Put

\* the types of what a functor, or handleClose, changes
Moves ==
  /\ loopOf' = loopOf
  /\ queue' \in [Loops -> Seq(Calls)]
  /\ connections' \subseteq connections
  /\ state' \in [Conns -> States] /\ channel' \in [Conns -> {"kNew", "reading", "kDeleted"}]
  /\ \A c \in Conns : /\ state[c] = "none" <=> state'[c] = "none"
                      /\ state[c] = "none" => channel'[c] = channel[c]

LEMMA CallIs ==
  ASSUME NEW n \in Names, NEW c \in Conns
  PROVE  <<n, c>> \in Calls /\ <<n, c>>[1] = n /\ <<n, c>>[2] = c
BY DEF Calls

LEMMA PutCall ==
  ASSUME NEW q \in [Loops -> Seq(Calls)], NEW l \in Loops, NEW n \in Names, NEW c \in Conns
  PROVE  Put(q, l, <<n, c>>) \in [Loops -> Seq(Calls)]
BY CallIs, PutType

LEMMA ConnTypes ==
  ASSUME ServerTypes, NEW c \in Conns
  PROVE  /\ state \in [Conns -> States] /\ channel \in [Conns -> {"kNew", "reading", "kDeleted"}]
         /\ state[c] = "none" => channel[c] = "kNew"
         /\ loopOf[c] \in Loops /\ 0 \in Loops
         /\ "connectDestroyed" \in Names /\ "removeConnectionInLoop" \in Names
         /\ "connectEstablished" \in Names /\ "forceCloseInLoop" \in Names
BY ServerAssumption DEF ServerTypes, TypeOK, Loops, Names

\* one connection, of which state_ and the channel are set
LEMMA SetMoves ==
  ASSUME ServerTypes, NEW c \in Conns, NEW x \in States \ {"none"},
         NEW y \in {"kNew", "reading", "kDeleted"}, state[c] # "none",
         state' = [state EXCEPT ![c] = x], channel' = [channel EXCEPT ![c] = y],
         loopOf' = loopOf, queue' \in [Loops -> Seq(Calls)], connections' \subseteq connections
  PROVE  Moves
BY ConnTypes DEF Moves

LEMMA SameMoves ==
  ASSUME ServerTypes, UNCHANGED connVars, queue' \in [Loops -> Seq(Calls)],
         connections' \subseteq connections
  PROVE  Moves
BY DEF Moves, connVars, ServerTypes, TypeOK

LEMMA CloseMoves ==
  ASSUME ServerTypes, NEW c \in Conns, NEW q \in [Loops -> Seq(Calls)], handleClose(c, q),
         state[c] # "none"
  PROVE  Moves
<1>1. /\ loopOf' = loopOf /\ state' = [state EXCEPT ![c] = "kDisconnected"]
      /\ channel' = [channel EXCEPT ![c] = "kDeleted"]
  BY DEF handleClose
<1>2. /\ connections' \subseteq connections
      /\ \/ queue' = Put(q, loopOf[c], <<"connectDestroyed", c>>)
         \/ queue' = Put(q, 0, <<"removeConnectionInLoop", c>>)
  BY DEF handleClose, removeConnection, removeConnectionInLoop
<1>3. queue' \in [Loops -> Seq(Calls)]
  BY <1>2, ConnTypes, PutCall, SMTT(30)
<1>4. "kDisconnected" \in States \ {"none"}
  BY DEF States
<1> QED
  BY <1>1, <1>2, <1>3, <1>4, SetMoves

LEMMA RunMoves ==
  ASSUME ServerTypes, NEW f \in Calls, NEW q \in [Loops -> Seq(Calls)], Run(f, q)
  PROVE  Moves
<1> DEFINE c == f[2]
<1>1. c \in Conns
  BY DEF Calls
<1>2. \/ connectEstablished(c) /\ queue' = q /\ UNCHANGED connections
      \/ connectDestroyed(c) /\ queue' = q /\ UNCHANGED connections
      \/ removeConnectionInLoop(c, q) /\ UNCHANGED connVars
      \/ state[c] \in {"kConnected", "kDisconnecting"} /\ handleClose(c, q)
      \/ queue' = q /\ UNCHANGED <<connections, connVars, crash>>
  BY DEF Run
<1> HIDE DEF c
<1>3. ASSUME connectEstablished(c), queue' = q, UNCHANGED connections PROVE Moves
  <2>1. CASE UNCHANGED connVars
    BY <1>3, <2>1, SameMoves
  <2>2. CASE ~UNCHANGED connVars
    <3>1. /\ state[c] = "kConnecting" /\ state' = [state EXCEPT ![c] = "kConnected"]
          /\ channel' = [channel EXCEPT ![c] = "reading"] /\ loopOf' = loopOf
      BY <1>3, <2>2 DEF connectEstablished, Crash
    <3>2. "kConnected" \in States \ {"none"}
      BY DEF States
    <3> QED
      BY <1>1, <1>3, <3>1, <3>2, SetMoves
  <2> QED
    BY <2>1, <2>2
<1>4. ASSUME connectDestroyed(c), queue' = q, UNCHANGED connections PROVE Moves
  <2>1. CASE UNCHANGED connVars
    BY <1>4, <2>1, SameMoves
  <2>2. CASE ~UNCHANGED connVars
    <3> DEFINE x == IF state[c] = "kConnected" THEN "kDisconnected" ELSE state[c]
    <3>1. /\ state' = [state EXCEPT ![c] = x]
          /\ channel' = [channel EXCEPT ![c] = "kNew"] /\ loopOf' = loopOf /\ channel[c] # "kNew"
      BY <1>4, <2>2 DEF connectDestroyed, Crash
    <3>2. state[c] # "none" /\ x \in States \ {"none"}
      BY <1>1, <3>1, ConnTypes DEF States
    <3> HIDE DEF x
    <3> QED
      BY <1>1, <1>4, <3>1, <3>2, SetMoves
  <2> QED
    BY <2>1, <2>2
<1>5. ASSUME removeConnectionInLoop(c, q), UNCHANGED connVars PROVE Moves
  <2>1. queue' \in [Loops -> Seq(Calls)]
    BY <1>1, <1>5, ConnTypes, PutCall DEF removeConnectionInLoop
  <2> QED
    BY <1>5, <2>1, SameMoves DEF removeConnectionInLoop
<1>6. ASSUME state[c] \in {"kConnected", "kDisconnecting"}, handleClose(c, q) PROVE Moves
  BY <1>1, <1>6, CloseMoves
<1>7. ASSUME queue' = q, UNCHANGED <<connections, connVars>> PROVE Moves
  BY <1>7, SameMoves
<1> QED
  BY <1>2, <1>3, <1>4, <1>5, <1>6, <1>7

LEMMA HeadCall ==
  ASSUME NEW s \in Seq(Calls), s # <<>>
  PROVE  Head(s) \in Calls /\ Tail(s) \in Seq(Calls)
BY HeadTailProperties

LEMMA InRange ==
  ASSUME NEW n \in Nat
  PROVE  0 \in 0 .. n + 1 /\ (n > 0 => 0 < n)
OBVIOUS

LEMMA TypesStep == ServerTypes /\ [Next]_vars => ServerTypes'
<1> SUFFICES ASSUME ServerTypes, [Next]_vars PROVE ServerTypes'
  OBVIOUS
<1>0. queue \in [Loops -> Seq(Calls)] /\ batch \in [IoLoops -> Seq(Calls)] /\ 0 \in Loops
      /\ \A l \in IoLoops : l \in Loops
  BY ServerAssumption DEF ServerTypes, Loops, IoLoops
<1>m. ASSUME Moves, UNCHANGED <<serverRest, clientVars, loopVars>> PROVE ServerTypes'
  BY <1>m DEF Moves, ServerTypes, TypeOK, accepted, serverRest, clientVars, loopVars
<1>1. ASSUME NEW n \in 0 .. MaxThreads, setThreadNum(n) PROVE ServerTypes'
  BY <1>1 DEF setThreadNum, ServerTypes, TypeOK, accepted, clientVars, connVars, loopVars
<1>2. CASE start
  <2>1. place' \in [IoLoops -> Places] /\ \A l \in IoLoops : place'[l] \in {"enter", "none"}
    BY <1>2 DEF start, StartPool, Places
  <2>2. loops' \in 0 .. MaxThreads /\ loops = 0 /\ next = 0 /\ next' = 0 /\ started' = TRUE
        /\ victim = 0 /\ victim' = 0 /\ server' = server /\ server = "alive"
    BY <1>2 DEF start, StartPool, ServerTypes, Alive
  <2>3. loops' \in Nat
    BY <2>2, ServerAssumption
  <2>4. \A l \in IoLoops : batch[l] = <<>>
    BY <1>2 DEF ServerTypes, start, Alive
  <2>5. victim' \in 0 .. loops' + 1 /\ (loops' > 0 => next' < loops')
    <3>1. victim' = 0 /\ next' = 0
      BY <2>2
    <3> DEFINE n == loops'
    <3>2. n \in Nat
      BY <2>3
    <3> HIDE DEF n
    <3>3. 0 \in 0 .. n + 1 /\ (n > 0 => 0 < n)
      BY <3>2, InRange
    <3> QED
      BY <3>1, <3>3 DEF n
  <2> QED
    BY <1>2, <2>1, <2>2, <2>4, <2>5 DEF start, ServerTypes, TypeOK, accepted, clientVars, connVars
<1>3. CASE handleRead
  <2>1. CASE UNCHANGED <<next, nextConnId, connections, connVars, queue>>
    <3>1. Moves
      BY <1>0, <2>1, SameMoves
    <3> QED
      BY <1>3, <1>m, <2>1, <3>1 DEF handleRead, serverRest
  <2>2. CASE newConnection
    <3>1. /\ nextConnId \in Conns /\ nextConnId \in Nat /\ nextConnId \in 1 .. arrived
          /\ nextConnId' = nextConnId + 1 /\ arrived' = arrived
      <4>1. nextConnId \in 1 .. arrived + 1 /\ arrived \in 0 .. MaxConns /\ MaxConns \in Nat
        BY ServerAssumption DEF ServerTypes, TypeOK
      <4>2. arrived >= nextConnId /\ nextConnId' = nextConnId + 1 /\ arrived' = arrived
        BY <1>3, <2>2 DEF handleRead, newConnection, clientVars
      <4> QED
        BY <4>1, <4>2 DEF Conns
    <3>2. accepted' = accepted \cup {nextConnId} /\ nextConnId \notin accepted
      BY <3>1 DEF accepted
    <3>3. nextLoop \in Loops
      BY ServerAssumption DEF nextLoop, ServerTypes, Loops
    <3>4. next' \in Nat /\ (loops > 0 => next' < loops)
      BY <2>2, ServerAssumption DEF newConnection, nextAfter, ServerTypes
    <3>5. /\ state' \in [Conns -> States] /\ channel' \in [Conns -> {"kNew", "reading", "kDeleted"}]
          /\ state'[nextConnId] # "none"
          /\ \A c \in Conns \ {nextConnId} : state'[c] = state[c] /\ channel'[c] = channel[c]
      BY <2>2, <3>1 DEF newConnection, Establish, ServerTypes, TypeOK, States
    <3>6. queue' \in [Loops -> Seq(Calls)]
      BY <1>0, <2>2, <3>1, <3>3, PutCall, ConnTypes DEF newConnection, Establish
    <3>7. loopOf' \in [Conns -> Loops]
      BY <2>2, <3>1, <3>3 DEF newConnection, ServerTypes
    <3>8. connections' \subseteq accepted'
      BY <2>2, <3>2 DEF newConnection, ServerTypes, TypeOK
    <3>9. \A c \in Conns : (c \in accepted' <=> state'[c] # "none") /\ (state'[c] = "none" => channel'[c] = "kNew")
      BY <3>2, <3>5 DEF ServerTypes
    <3>10. nextConnId' \in 1 .. arrived' + 1 /\ nextConnId' \in 1 .. MaxConns + 1
      BY <3>1, ServerAssumption DEF Conns, ServerTypes
    <3>11. UNCHANGED <<started, numThreads, loops, server, victim, arrived, batch, place, quit>> /\ started
      BY <1>3 DEF handleRead, listening, clientVars, loopVars
    <3> QED
      BY <3>4, <3>5, <3>6, <3>7, <3>8, <3>9, <3>10, <3>11 DEF ServerTypes, TypeOK
  <2> QED
    BY <1>3, <2>1, <2>2 DEF handleRead
<1>4. CASE BaseFunctor
  <2>1. Head(queue[0]) \in Calls /\ Tail(queue[0]) \in Seq(Calls)
    BY <1>0, <1>4, HeadCall DEF BaseFunctor
  <2>2. [queue EXCEPT ![0] = Tail(@)] \in [Loops -> Seq(Calls)]
    BY <1>0, <2>1
  <2>3. Moves
    BY <1>4, <2>1, <2>2, RunMoves DEF BaseFunctor
  <2> QED
    BY <1>4, <1>m, <2>3 DEF BaseFunctor
<1>5. ASSUME NEW l \in IoLoops, IoFunctor(l) PROVE ServerTypes'
  <2>1. Head(batch[l]) \in Calls /\ Tail(batch[l]) \in Seq(Calls)
    BY <1>0, <1>5, HeadCall DEF IoFunctor
  <2>2. Moves
    BY <1>0, <1>5, <2>1, RunMoves DEF IoFunctor
  <2>3. batch' \in [IoLoops -> Seq(Calls)] /\ \A k \in IoLoops : place'[k] # "run" => batch'[k] = <<>>
    BY <1>0, <1>5, <2>1 DEF IoFunctor, ServerTypes
  <2> QED
    BY <1>5, <2>2, <2>3 DEF Moves, IoFunctor, ServerTypes, TypeOK, accepted, serverRest, clientVars
<1>6. ASSUME NEW l \in IoLoops, Enter(l) PROVE ServerTypes'
  <2>1. /\ place' = [place EXCEPT ![l] = "run"] /\ quit' = [quit EXCEPT ![l] = FALSE]
        /\ place[l] = "enter"
        /\ UNCHANGED <<serverVars, clientVars, connVars, batch, queue>>
    BY <1>6 DEF Enter
  <2>2. place' \in [IoLoops -> Places] /\ quit' \in [IoLoops -> BOOLEAN] /\ started
        /\ \A k \in IoLoops : (quit'[k] => quit[k]) /\ (place'[k] # "run" => place[k] # "run")
    BY <2>1 DEF ServerTypes, TypeOK, Places
  <2> QED
    BY <2>1, <2>2 DEF ServerTypes, TypeOK, accepted, serverVars, clientVars, connVars
<1>7. ASSUME NEW l \in IoLoops, Swap(l) PROVE ServerTypes'
  <2>1. /\ place' = [place EXCEPT ![l] = "run"] /\ batch' = [batch EXCEPT ![l] = queue[l]]
        /\ queue' = [queue EXCEPT ![l] = <<>>] /\ place[l] = "poll"
        /\ UNCHANGED <<serverVars, clientVars, connVars, quit>>
    BY <1>7 DEF Swap
  <2>2. /\ place' \in [IoLoops -> Places] /\ started
        /\ batch' \in [IoLoops -> Seq(Calls)] /\ queue' \in [Loops -> Seq(Calls)]
        /\ \A k \in IoLoops : place'[k] # "run" => batch'[k] = <<>>
    BY <1>0, <2>1 DEF ServerTypes, TypeOK, Places
  <2> QED
    BY <2>1, <2>2 DEF ServerTypes, TypeOK, accepted, serverVars, clientVars, connVars
<1>8. ASSUME NEW l \in IoLoops, Again(l) PROVE ServerTypes'
  <2>1. /\ place' = [place EXCEPT ![l] = "poll"] /\ place[l] = "run" /\ batch[l] = <<>>
        /\ UNCHANGED <<serverVars, clientVars, connVars, batch, quit, queue>>
    BY <1>8 DEF Again
  <2>2. /\ place' \in [IoLoops -> Places] /\ started
        /\ \A k \in IoLoops : place'[k] # "run" => batch[k] = <<>>
    BY <2>1 DEF ServerTypes, TypeOK, Places
  <2> QED
    BY <2>1, <2>2 DEF ServerTypes, TypeOK, accepted, serverVars, clientVars, connVars
<1>9. ASSUME NEW l \in IoLoops, Exit(l) PROVE ServerTypes'
  <2>1. /\ place' = [place EXCEPT ![l] = "exited"] /\ place[l] = "run" /\ batch[l] = <<>>
        /\ queue' = [queue EXCEPT ![l] = <<>>]
        /\ UNCHANGED <<serverVars, clientVars, connVars, batch, quit>>
    BY <1>9 DEF Exit
  <2>2. /\ place' \in [IoLoops -> Places] /\ started
        /\ queue' \in [Loops -> Seq(Calls)]
        /\ \A k \in IoLoops : place'[k] # "run" => batch[k] = <<>>
    BY <1>0, <2>1 DEF ServerTypes, TypeOK, Places
  <2> QED
    BY <2>1, <2>2 DEF ServerTypes, TypeOK, accepted, serverVars, clientVars, connVars
<1>10. ASSUME NEW c \in Conns, HandleRead(c) PROVE ServerTypes'
  <2>1. state[c] # "none"
    BY <1>10, ConnTypes DEF HandleRead
  <2>2. Moves
    BY <1>0, <1>10, <2>1, CloseMoves DEF HandleRead
  <2> QED
    BY <1>10, <1>m, <2>2 DEF HandleRead
<1>11. ASSUME NEW c \in Conns, shutdown(c) \/ forceClose(c) PROVE ServerTypes'
  <2>1. /\ state[c] \in {"kConnected", "kDisconnecting"}
        /\ state' = [state EXCEPT ![c] = "kDisconnecting"]
        /\ UNCHANGED <<serverVars, clientVars, loopOf, channel, loopVars>>
        /\ queue' = queue \/ queue' = Put(queue, loopOf[c], <<"forceCloseInLoop", c>>)
    BY <1>11 DEF shutdown, forceClose
  <2>2. queue' \in [Loops -> Seq(Calls)]
    <3>1. loopOf[c] \in Loops /\ "forceCloseInLoop" \in Names
      BY ConnTypes
    <3>2. Put(queue, loopOf[c], <<"forceCloseInLoop", c>>) \in [Loops -> Seq(Calls)]
      BY <1>0, <3>1, PutCall
    <3> QED
      BY <1>0, <2>1, <3>2
  <2>3. /\ state' \in [Conns -> States]
        /\ \A d \in Conns : state[d] = "none" <=> state'[d] = "none"
    BY <2>1, ConnTypes DEF States
  <2> QED
    BY <2>1, <2>2, <2>3 DEF ServerTypes, TypeOK, accepted, serverVars, clientVars, loopVars
<1>12. CASE Destroy
  BY <1>12 DEF Destroy, Alive, ServerTypes, TypeOK, ServerPCs, accepted, clientVars, connVars, loopVars
<1>13. ASSUME NEW c \in Conns, DestroyConnection(c) PROVE ServerTypes'
  <2>1. connections' \subseteq connections /\ c \in accepted
    BY <1>13 DEF DestroyConnection, ServerTypes, TypeOK
  <2>2. CASE UNCHANGED connVars
    <3>1. queue' \in [Loops -> Seq(Calls)]
      <4>1. loopOf[c] \in Loops /\ "connectDestroyed" \in Names
        BY ConnTypes
      <4>2. Put(queue, loopOf[c], <<"connectDestroyed", c>>) \in [Loops -> Seq(Calls)]
        BY <1>0, <4>1, PutCall
      <4> QED
        BY <1>0, <1>13, <4>2 DEF DestroyConnection
    <3>2. Moves
      BY <2>1, <2>2, <3>1, SameMoves
    <3> QED
      BY <1>13, <1>m, <3>2 DEF DestroyConnection
  <2>3. CASE ~UNCHANGED connVars
    <3> DEFINE x == IF state[c] = "kConnected" THEN "kDisconnected" ELSE state[c]
    <3>1. /\ state' = [state EXCEPT ![c] = x] /\ queue' = queue
          /\ channel' = [channel EXCEPT ![c] = "kNew"] /\ loopOf' = loopOf
      BY <1>13, <2>3 DEF DestroyConnection, connectDestroyed, Crash
    <3>2. state[c] # "none" /\ x \in States \ {"none"}
      BY <2>1, ConnTypes DEF States, ServerTypes
    <3> HIDE DEF x
    <3>3. Moves
      BY <1>0, <2>1, <3>1, <3>2, SetMoves
    <3> QED
      BY <1>13, <1>m, <3>3 DEF DestroyConnection
  <2> QED
    BY <2>2, <2>3
<1>14. CASE NextVictim
  <2>1. victim \in 0 .. loops /\ victim' = victim + 1 /\ loops \in Nat
    BY <1>14, ServerAssumption DEF NextVictim, ServerTypes
  <2>2. server' = IF victim < loops THEN "quit" ELSE "gone"
    BY <1>14 DEF NextVictim
  <2>3. UNCHANGED <<started, numThreads, loops, next, nextConnId, connections, clientVars,
                    connVars, loopVars, queue>>
    BY <1>14 DEF NextVictim
  <2>4. victim' \in 0 .. loops + 1 /\ (server' = "quit" => victim' \in 1 .. loops)
        /\ server' \in {"quit", "gone"}
    BY <2>1, <2>2
  <2> QED
    BY <2>3, <2>4 DEF ServerTypes, TypeOK, ServerPCs, accepted, clientVars, connVars, loopVars
<1>15. CASE QuitVictim
  <2>1. quit' \in [IoLoops -> BOOLEAN]
    BY <1>15 DEF QuitVictim, ServerTypes
  <2>2. server' = "join" /\ server = "quit"
        /\ UNCHANGED <<started, numThreads, loops, next, nextConnId, connections, victim,
                       clientVars, connVars, batch, place, queue>>
    BY <1>15 DEF QuitVictim
  <2> QED
    BY <2>1, <2>2 DEF ServerTypes, TypeOK, ServerPCs, accepted, clientVars, connVars
<1>16. CASE ClientConnects
  <2>1. arrived' \in 0 .. MaxConns /\ nextConnId \in 1 .. arrived' + 1
    BY <1>16, ServerAssumption DEF ClientConnects, ServerTypes, TypeOK
  <2> QED
    BY <1>16, <2>1 DEF ClientConnects, ServerTypes, TypeOK, accepted, serverVars, connVars, loopVars
<1>17. ASSUME NEW c \in Conns, ClientCloses(c) PROVE ServerTypes'
  BY <1>17 DEF ClientCloses, ServerTypes, TypeOK, accepted, serverVars, connVars, loopVars
<1>18. CASE UNCHANGED vars
  BY <1>18 DEF vars, ServerTypes, TypeOK, accepted, serverVars, clientVars, connVars, loopVars
<1> QED
  BY <1>1, <1>2, <1>3, <1>4, <1>5, <1>6, <1>7, <1>8, <1>9, <1>10, <1>11, <1>12, <1>13, <1>14,
     <1>15, <1>16, <1>17, <1>18 DEF Next, IoLoop

LEMMA TypesInit == Init => ServerTypes
<1> SUFFICES ASSUME Init PROVE ServerTypes
  OBVIOUS
<1>1. accepted = {} /\ 0 \in Loops /\ MaxConns \in Nat /\ MaxThreads \in Nat
  BY ServerAssumption DEF Init, accepted, Loops
<1>2. TypeOK
  BY <1>1 DEF Init, TypeOK, ServerPCs, Places, States
<1>3. queue \in [Loops -> Seq(Calls)] /\ batch \in [IoLoops -> Seq(Calls)] /\ loopOf \in [Conns -> Loops]
  BY <1>1 DEF Init
<1>4. numThreads = 0 /\ loops = 0 /\ arrived = 0 /\ nextConnId = 1 /\ next = 0
  BY DEF Init
<1>5. /\ numThreads \in 0 .. MaxThreads /\ loops \in 0 .. MaxThreads
      /\ arrived \in 0 .. MaxConns /\ nextConnId \in 1 .. MaxConns + 1 /\ next \in Nat
      /\ ~(loops > 0)
  BY <1>1, <1>4
<1>6. started \in BOOLEAN
  BY DEF Init
<1> QED
  BY <1>1, <1>2, <1>3, <1>4, <1>5, <1>6 DEF Init, ServerTypes

LEMMA TypesCorrect == Spec => []ServerTypes
BY TypesInit, TypesStep, PTL DEF Spec

------------------------------------------------------------------------------
(* What waits *)

LEMMA PopMembers ==
  ASSUME NEW S, NEW s \in Seq(S), s # <<>>
  PROVE  /\ Members(s) = Members(Tail(s)) \cup {Head(s)}
         /\ \A f : Unique(s, f) => /\ Unique(Tail(s), f)
                                   /\ Head(s) = f => f \notin Members(Tail(s))
<1>1. /\ Len(s) \in Nat /\ Len(s) > 0 /\ Head(s) = s[1]
      /\ DOMAIN s = 1 .. Len(s) /\ DOMAIN Tail(s) = 1 .. Len(s) - 1
      /\ \A i \in 1 .. Len(s) - 1 : Tail(s)[i] = s[i + 1]
  BY HeadTailProperties, LenProperties, EmptySeq
<1>2. \A i \in DOMAIN Tail(s) : i + 1 \in DOMAIN s /\ i + 1 # 1 /\ Tail(s)[i] = s[i + 1]
  BY <1>1
<1>3. \A i \in DOMAIN s : i = 1 \/ (i - 1 \in DOMAIN Tail(s) /\ Tail(s)[i - 1] = s[i])
  <2> SUFFICES ASSUME NEW i \in DOMAIN s, i # 1
               PROVE  i - 1 \in DOMAIN Tail(s) /\ Tail(s)[i - 1] = s[i]
    OBVIOUS
  <2>1. i - 1 \in 1 .. Len(s) - 1 /\ (i - 1) + 1 = i
    BY <1>1
  <2> QED
    BY <1>1, <2>1
<1>4. 1 \in DOMAIN s
  BY <1>1
<1>5. \A x \in Members(s) : x \in Members(Tail(s)) \/ x = Head(s)
  <2> SUFFICES ASSUME NEW i \in DOMAIN s PROVE s[i] \in Members(Tail(s)) \/ s[i] = Head(s)
    BY DEF Members
  <2> QED
    BY <1>1, <1>3 DEF Members
<1>6. (\A x \in Members(Tail(s)) : x \in Members(s)) /\ Head(s) \in Members(s)
  BY <1>1, <1>2, <1>4 DEF Members
<1>7. ASSUME NEW f, Unique(s, f) PROVE Unique(Tail(s), f) /\ (Head(s) = f => f \notin Members(Tail(s)))
  <2>1. ASSUME NEW i \in DOMAIN Tail(s), NEW j \in DOMAIN Tail(s), Tail(s)[i] = f, Tail(s)[j] = f
        PROVE  i = j
    <3>1. i + 1 = j + 1
      BY <1>2, <1>7, <2>1 DEF Unique
    <3> QED
      BY <1>1, <3>1
  <2>2. ASSUME Head(s) = f, NEW i \in DOMAIN Tail(s), Tail(s)[i] = f PROVE FALSE
    BY <1>1, <1>2, <1>4, <1>7, <2>2 DEF Unique
  <2> QED
    BY <2>1, <2>2 DEF Unique, Members
<1> QED
  BY <1>5, <1>6, <1>7

LEMMA PushMembers ==
  ASSUME NEW S, NEW s \in Seq(S), NEW x \in S
  PROVE  /\ Members(Append(s, x)) = Members(s) \cup {x}
         /\ x \notin Members(s) => Unique(Append(s, x), x)
<1>1. /\ Len(s) \in Nat /\ DOMAIN s = 1 .. Len(s) /\ DOMAIN Append(s, x) = 1 .. Len(s) + 1
      /\ Append(s, x)[Len(s) + 1] = x /\ \A i \in 1 .. Len(s) : Append(s, x)[i] = s[i]
  BY AppendProperties, LenProperties
<1>2. \A i \in DOMAIN s : i \in DOMAIN Append(s, x) /\ Append(s, x)[i] = s[i]
  BY <1>1
<1>3. \A i \in DOMAIN Append(s, x) : i \in DOMAIN s \/ i = Len(s) + 1
  BY <1>1
<1>4. Len(s) + 1 \in DOMAIN Append(s, x)
  BY <1>1
<1>5. Members(Append(s, x)) = Members(s) \cup {x}
  BY <1>1, <1>2, <1>3, <1>4 DEF Members
<1>6. x \notin Members(s) => Unique(Append(s, x), x)
  BY <1>1, <1>2, <1>3 DEF Members, Unique
<1> QED
  BY <1>5, <1>6

\* Functors, of other queues and batches
Among(q, b) ==
  (UNION {Members(q[l]) : l \in Loops}) \cup (UNION {Members(b[l]) : l \in IoLoops})

LEMMA FunctorsAmong == Functors = Among(queue, batch) /\ Functors' = Among(queue', batch')
BY DEF Functors, Among

LEMMA AmongIs ==
  ASSUME NEW q, NEW b, NEW f
  PROVE  f \in Among(q, b) <=> \/ \E l \in Loops : f \in Members(q[l])
                               \/ \E l \in IoLoops : f \in Members(b[l])
<1>1. f \in UNION {Members(q[l]) : l \in Loops} <=> \E l \in Loops : f \in Members(q[l])
  BY Zenon
<1>2. f \in UNION {Members(b[l]) : l \in IoLoops} <=> \E l \in IoLoops : f \in Members(b[l])
  BY Zenon
<1> QED
  BY <1>1, <1>2 DEF Among

LEMMA AmongPut ==
  ASSUME NEW q \in [Loops -> Seq(Calls)], NEW b, NEW l \in Loops, NEW f \in Calls
  PROVE  Among(q, b) \cup {f} \subseteq Among(Put(q, l, f), b)
<1> DEFINE p == Put(q, l, f)
<1>0. q[l] \in Seq(Calls) /\ p[l] = Append(q[l], f) /\ \A k \in Loops \ {l} : p[k] = q[k]
  BY PutType
<1> HIDE DEF p
<1>1. Members(p[l]) = Members(q[l]) \cup {f}
  <2>1. Members(Append(q[l], f)) = Members(q[l]) \cup {f}
    BY <1>0, PushMembers
  <2> QED
    BY <1>0, <2>1
<1>2. \A k \in Loops : Members(q[k]) \subseteq Members(p[k])
  BY <1>0, <1>1
<1>3. Among(q, b) \cup {f} \subseteq Among(p, b)
  BY <1>1, <1>2, AmongIs
<1> QED
  BY <1>3 DEF p

LEMMA AmongPopQueue ==
  ASSUME NEW q \in [Loops -> Seq(Calls)], NEW b, 0 \in Loops, q[0] # <<>>
  PROVE  Among(q, b) \subseteq Among([q EXCEPT ![0] = Tail(@)], b) \cup {Head(q[0])}
<1> DEFINE p == [q EXCEPT ![0] = Tail(@)]
<1>1. p[0] = Tail(q[0]) /\ \A k \in Loops \ {0} : p[k] = q[k]
  OBVIOUS
<1>2. Members(q[0]) = Members(Tail(q[0])) \cup {Head(q[0])}
  BY PopMembers
<1> HIDE DEF p
<1>3. \A k \in Loops : Members(q[k]) \subseteq Members(p[k]) \cup {Head(q[0])}
  BY <1>1, <1>2
<1>4. Among(q, b) \subseteq Among(p, b) \cup {Head(q[0])}
  BY <1>3, AmongIs
<1> QED
  BY <1>4 DEF p

LEMMA AmongPopBatch ==
  ASSUME NEW q, NEW b \in [IoLoops -> Seq(Calls)], NEW l \in IoLoops, b[l] # <<>>
  PROVE  Among(q, b) \subseteq Among(q, [b EXCEPT ![l] = Tail(@)]) \cup {Head(b[l])}
<1> DEFINE p == [b EXCEPT ![l] = Tail(@)]
<1>1. p[l] = Tail(b[l]) /\ \A k \in IoLoops \ {l} : p[k] = b[k]
  OBVIOUS
<1>2. Members(b[l]) = Members(Tail(b[l])) \cup {Head(b[l])}
  BY PopMembers
<1> HIDE DEF p
<1>3. \A k \in IoLoops : Members(b[k]) \subseteq Members(p[k]) \cup {Head(b[l])}
  BY <1>1, <1>2
<1>4. Among(q, b) \subseteq Among(q, p) \cup {Head(b[l])}
  BY <1>3, AmongIs
<1> QED
  BY <1>4 DEF p

LEMMA AmongSwap ==
  ASSUME NEW q \in [Loops -> Seq(Calls)], NEW b \in [IoLoops -> Seq(Calls)], NEW l \in IoLoops,
         l \in Loops, b[l] = <<>>
  PROVE  Among(q, b) \subseteq Among([q EXCEPT ![l] = <<>>], [b EXCEPT ![l] = q[l]])
<1> DEFINE p == [q EXCEPT ![l] = <<>>]
           r == [b EXCEPT ![l] = q[l]]
<1>1. r[l] = q[l] /\ (\A k \in Loops \ {l} : p[k] = q[k]) /\ \A k \in IoLoops \ {l} : r[k] = b[k]
  OBVIOUS
<1>2. Members(b[l]) = {}
  BY DEF Members
<1> HIDE DEF p, r
<1>3. \A k \in Loops : Members(q[k]) \subseteq Members(p[k]) \cup Members(r[l])
  BY <1>1
<1>4. \A k \in IoLoops : Members(b[k]) \subseteq Members(r[k])
  BY <1>1, <1>2
<1>5. Among(q, b) \subseteq Among(p, r)
  BY <1>3, <1>4, AmongIs
<1> QED
  BY <1>5 DEF p, r

------------------------------------------------------------------------------
(* A deleted connection is down *)

\* nothing is taken from the queues and nothing happens to a connection
LEMMA DownKept ==
  ASSUME DownInv, UNCHANGED <<connVars, connections, nextConnId>>,
         server' \in {"alive", "closing"} =>
           server \in {"alive", "closing"} /\ Functors \subseteq Functors',
         crash' = "none" => crash = "none"
  PROVE  DownInv'
BY DEF DownInv, connVars, accepted

\* what DownInv says of connection c
LEMMA DownOne ==
  ASSUME ServerTypes, DownInv, crash = "none", server \in {"alive", "closing"}
  PROVE  \A c \in accepted \ connections :
           c \in Conns /\ (\/ <<"connectDestroyed", c>> \in Functors
                           \/ state[c] = "kDisconnected" /\ channel[c] = "kNew")
<1>1. accepted \subseteq Conns
  BY ServerAssumption DEF ServerTypes, accepted, Conns
<1> QED
  BY <1>1 DEF DownInv

\* connectDestroyed leaves c down, or ends the process
LEMMA DestroyedIsDown ==
  ASSUME ServerTypes, DownInv, NEW c \in Conns, connectDestroyed(c), crash' = "none", crash = "none"
  PROVE  /\ state'[c] = "kDisconnected" /\ channel'[c] = "kNew" /\ loopOf' = loopOf
         /\ \A d \in Conns \ {c} : state'[d] = state[d] /\ channel'[d] = channel[d]
<1>1. /\ channel[c] = "kDeleted" \/ (channel[c] = "reading" /\ state[c] = "kConnected")
      /\ state' = [state EXCEPT ![c] = IF @ = "kConnected" THEN "kDisconnected" ELSE @]
      /\ channel' = [channel EXCEPT ![c] = "kNew"]
      /\ UNCHANGED loopOf
  BY DEF connectDestroyed, Crash
<1>2. channel[c] = "kDeleted" => state[c] = "kDisconnected"
  BY DEF DownInv
<1> QED
  BY <1>1, <1>2, ConnTypes

\* one connection c changes, and what it needs is there
LEMMA DownSet ==
  ASSUME ServerTypes, DownInv, NEW c \in Conns, crash = "none",
         \A d \in Conns \ {c} : state'[d] = state[d] /\ channel'[d] = channel[d],
         nextConnId' = nextConnId, server' = server, connections \ {c} \subseteq connections',
         \A d \in Conns \ {c} : <<"connectDestroyed", d>> \in Functors =>
                                   <<"connectDestroyed", d>> \in Functors',
         channel'[c] = "kDeleted" => state'[c] = "kDisconnected",
         crash' = "none" /\ server \in {"alive", "closing"} /\ c \in accepted \ connections' =>
           \/ <<"connectDestroyed", c>> \in Functors'
           \/ state'[c] = "kDisconnected" /\ channel'[c] = "kNew"
  PROVE  DownInv'
<1>1. \A d \in Conns : channel'[d] = "kDeleted" => state'[d] = "kDisconnected"
  BY DEF DownInv
<1>2. ASSUME crash' = "none", server' \in {"alive", "closing"}, NEW d \in accepted' \ connections'
      PROVE  \/ <<"connectDestroyed", d>> \in Functors'
             \/ state'[d] = "kDisconnected" /\ channel'[d] = "kNew"
  <2>1. d \in accepted \ connections' /\ server \in {"alive", "closing"}
    BY <1>2 DEF accepted
  <2>2. CASE d = c
    BY <1>2, <2>1, <2>2
  <2>3. CASE d # c
    <3>1. d \in accepted \ connections
      BY <2>1, <2>3
    <3> QED
      BY <2>1, <2>3, <3>1, DownOne
  <2> QED
    BY <2>2, <2>3
<1> QED
  BY <1>1, <1>2 DEF DownInv

\* handleClose of a connection that is up
LEMMA CloseDown ==
  ASSUME ServerTypes, DownInv, NEW c \in Conns, NEW q \in [Loops -> Seq(Calls)],
         NEW b, handleClose(c, q), batch' = b, crash = "none",
         channel[c] # "kNew" \/ state[c] # "kDisconnected",
         \A d \in Conns : <<"connectDestroyed", d>> \in Functors =>
                            <<"connectDestroyed", d>> \in Among(q, b),
         UNCHANGED serverRest
  PROVE  DownInv'
<1>1. nextConnId' = nextConnId /\ server' = server
  BY DEF serverRest
<1>2. /\ state'[c] = "kDisconnected" /\ channel'[c] = "kDeleted"
      /\ \A d \in Conns \ {c} : state'[d] = state[d] /\ channel'[d] = channel[d]
  BY ConnTypes DEF handleClose
<1>3. <<"connectDestroyed", c>> \in Calls /\ <<"removeConnectionInLoop", c>> \in Calls
      /\ loopOf[c] \in Loops /\ 0 \in Loops
  BY CallIs, ConnTypes
<1>4. CASE loopOf[c] = 0
  <2>1. connections' = connections \ {c} /\ queue' = Put(q, loopOf[c], <<"connectDestroyed", c>>)
    BY <1>4 DEF handleClose, removeConnection, removeConnectionInLoop
  <2>2. Among(q, b) \cup {<<"connectDestroyed", c>>} \subseteq Among(queue', b)
    BY <1>3, <2>1, AmongPut
  <2>3. Functors' = Among(queue', b)
    BY FunctorsAmong
  <2> QED
    BY <1>1, <1>2, <2>1, <2>2, <2>3, DownSet
<1>5. CASE loopOf[c] # 0
  <2>1. connections' = connections /\ queue' = Put(q, 0, <<"removeConnectionInLoop", c>>)
    BY <1>5 DEF handleClose, removeConnection
  <2>2. Among(q, b) \subseteq Among(queue', b)
    BY <1>3, <2>1, AmongPut
  <2>3. Functors' = Among(queue', b)
    BY FunctorsAmong
  <2>4. server \in {"alive", "closing"} /\ c \in accepted \ connections' =>
           <<"connectDestroyed", c>> \in Functors'
    <3> SUFFICES ASSUME server \in {"alive", "closing"}, c \in accepted \ connections'
                 PROVE  <<"connectDestroyed", c>> \in Functors'
      OBVIOUS
    <3>1. <<"connectDestroyed", c>> \in Functors
      BY <2>1, DownOne
    <3> QED
      BY <2>2, <2>3, <3>1
  <2> QED
    BY <1>1, <1>2, <2>1, <2>2, <2>3, <2>4, DownSet
<1> QED
  BY <1>4, <1>5

LEMMA RunDown ==
  ASSUME ServerTypes, DownInv, NEW f \in Calls, NEW q \in [Loops -> Seq(Calls)], NEW b,
         Run(f, q), crash = "none", batch' = b, Functors \subseteq Among(q, b) \cup {f},
         UNCHANGED serverRest
  PROVE  DownInv'
<1> DEFINE c == f[2]
<1>1. c \in Conns
  BY DEF Calls
<1>2. \A d \in Conns : d # c \/ f[1] # "connectDestroyed" =>
        (<<"connectDestroyed", d>> \in Functors => <<"connectDestroyed", d>> \in Among(q, b))
  OBVIOUS
<1>3. nextConnId' = nextConnId /\ server' = server /\ Functors' = Among(queue', b)
  BY FunctorsAmong DEF serverRest
<1>4. \/ f[1] # "connectDestroyed" /\ connectEstablished(c) /\ queue' = q /\ UNCHANGED connections
      \/ f[1] = "connectDestroyed" /\ connectDestroyed(c) /\ queue' = q /\ UNCHANGED connections
      \/ f[1] # "connectDestroyed" /\ removeConnectionInLoop(c, q) /\ UNCHANGED connVars
      \/ f[1] # "connectDestroyed" /\ state[c] \in {"kConnected", "kDisconnecting"} /\ handleClose(c, q)
      \/ f[1] # "connectDestroyed" /\ queue' = q /\ UNCHANGED <<connections, connVars, crash>>
  BY DEF Run
<1> HIDE DEF c
<1>5. ASSUME f[1] # "connectDestroyed", connectEstablished(c), queue' = q, UNCHANGED connections
      PROVE  DownInv'
  <2>1. CASE UNCHANGED connVars /\ crash' # "none"
    BY <1>3, <1>5, <2>1, DownKept DEF DownInv, connVars
  <2>2. CASE ~(UNCHANGED connVars /\ crash' # "none")
    <3>1. /\ state[c] = "kConnecting" /\ state' = [state EXCEPT ![c] = "kConnected"]
          /\ channel' = [channel EXCEPT ![c] = "reading"]
      BY <1>5, <2>2 DEF connectEstablished, Crash
    <3>2. /\ channel'[c] = "reading"
          /\ \A d \in Conns \ {c} : state'[d] = state[d] /\ channel'[d] = channel[d]
      BY <1>1, <3>1, ConnTypes
    <3>3. server \in {"alive", "closing"} /\ c \in accepted \ connections' =>
            <<"connectDestroyed", c>> \in Functors'
      <4> SUFFICES ASSUME server \in {"alive", "closing"}, c \in accepted \ connections'
                   PROVE  <<"connectDestroyed", c>> \in Functors'
        OBVIOUS
      <4>1. <<"connectDestroyed", c>> \in Functors
        BY <1>5, <3>1, DownOne
      <4> QED
        BY <1>1, <1>2, <1>3, <1>5, <4>1
    <3> QED
      BY <1>1, <1>2, <1>3, <1>5, <3>2, <3>3, DownSet
  <2> QED
    BY <2>1, <2>2
<1>6. ASSUME f[1] = "connectDestroyed", connectDestroyed(c), queue' = q, UNCHANGED connections
      PROVE  DownInv'
  <2>1. CASE crash' # "none"
    <3>1. UNCHANGED connVars
      BY <1>6, <2>1 DEF connectDestroyed, Crash
    <3> QED
      BY <1>3, <1>6, <2>1, <3>1 DEF DownInv, connVars
  <2>2. CASE crash' = "none"
    <3>1. /\ state'[c] = "kDisconnected" /\ channel'[c] = "kNew"
          /\ \A d \in Conns \ {c} : state'[d] = state[d] /\ channel'[d] = channel[d]
      BY <1>1, <1>6, <2>2, DestroyedIsDown
    <3> QED
      BY <1>1, <1>2, <1>3, <1>6, <3>1, DownSet
  <2> QED
    BY <2>1, <2>2
<1>7. ASSUME f[1] # "connectDestroyed", removeConnectionInLoop(c, q), UNCHANGED connVars
      PROVE  DownInv'
  <2>1. connections' = connections \ {c} /\ queue' = Put(q, loopOf[c], <<"connectDestroyed", c>>)
    BY <1>7 DEF removeConnectionInLoop
  <2>2. <<"connectDestroyed", c>> \in Calls /\ loopOf[c] \in Loops
    BY <1>1, CallIs, ConnTypes
  <2>3. Among(q, b) \cup {<<"connectDestroyed", c>>} \subseteq Among(queue', b)
    BY <2>1, <2>2, AmongPut
  <2>4. state' = state /\ channel' = channel
    BY <1>7 DEF connVars
  <2>5. channel'[c] = "kDeleted" => state'[c] = "kDisconnected"
    BY <1>1, <2>4 DEF DownInv
  <2> QED
    BY <1>1, <1>2, <1>3, <1>7, <2>1, <2>3, <2>4, <2>5, DownSet
<1>8. ASSUME f[1] # "connectDestroyed", state[c] \in {"kConnected", "kDisconnecting"}, handleClose(c, q)
      PROVE  DownInv'
  BY <1>1, <1>2, <1>8, CloseDown
<1>9. ASSUME f[1] # "connectDestroyed", queue' = q, UNCHANGED <<connections, connVars, crash>>
      PROVE  DownInv'
  <2>1. state' = state /\ channel' = channel
    BY <1>9 DEF connVars
  <2>2. channel'[c] = "kDeleted" => state'[c] = "kDisconnected"
    BY <1>1, <2>1 DEF DownInv
  <2>3. server \in {"alive", "closing"} /\ c \in accepted \ connections' =>
           \/ <<"connectDestroyed", c>> \in Functors'
           \/ state'[c] = "kDisconnected" /\ channel'[c] = "kNew"
    BY <1>1, <1>2, <1>3, <1>9, <2>1, DownOne
  <2> QED
    BY <1>1, <1>2, <1>3, <1>9, <2>1, <2>2, <2>3, DownSet
<1> QED
  BY <1>4, <1>5, <1>6, <1>7, <1>8, <1>9

LEMMA DownStep == ServerTypes /\ DownInv /\ [Next]_vars => DownInv'
<1> SUFFICES ASSUME ServerTypes, DownInv, [Next]_vars PROVE DownInv'
  OBVIOUS
<1>0. queue \in [Loops -> Seq(Calls)] /\ batch \in [IoLoops -> Seq(Calls)] /\ 0 \in Loops
      /\ \A l \in IoLoops : l \in Loops
  BY ServerAssumption DEF ServerTypes, Loops, IoLoops
<1>k. ASSUME UNCHANGED <<connVars, connections, nextConnId, queue, batch, crash>>,
             server' \in {"alive", "closing"} => server \in {"alive", "closing"}
      PROVE  DownInv'
  <2>1. Functors' = Functors
    BY <1>k DEF Functors
  <2> QED
    BY <1>k, <2>1, DownKept
<1>1. ASSUME NEW n \in 0 .. MaxThreads, setThreadNum(n) PROVE DownInv'
  BY <1>1, <1>k DEF setThreadNum, loopVars
<1>2. CASE start
  BY <1>2, <1>k DEF start
<1>3. CASE handleRead
  <2>1. CASE UNCHANGED <<next, nextConnId, connections, connVars, queue>>
    BY <1>3, <2>1, <1>k DEF handleRead, DownInv, accepted, connVars, Alive, Running, Functors, loopVars
  <2>2. CASE newConnection /\ UNCHANGED crash
    <3> DEFINE c == nextConnId
    <3>1. /\ c \in Conns /\ accepted' = accepted \cup {c} /\ connections' = connections \cup {c}
      <4>1. nextConnId \in 1 .. MaxConns + 1 /\ arrived \in 0 .. MaxConns /\ MaxConns \in Nat
        BY ServerAssumption DEF ServerTypes
      <4>2. arrived >= nextConnId /\ nextConnId' = nextConnId + 1 /\ connections' = connections \cup {c}
        BY <1>3, <2>2 DEF handleRead, newConnection
      <4> QED
        BY <4>1, <4>2 DEF Conns, accepted
    <3>2. nextLoop \in Loops /\ <<"connectEstablished", c>> \in Calls
      BY <3>1, CallIs, ServerAssumption DEF nextLoop, ServerTypes, Loops, Names
    <3>3. queue' = queue \/ queue' = Put(queue, nextLoop, <<"connectEstablished", c>>)
      BY <2>2 DEF newConnection, Establish
    <3>4. batch' = batch
      BY <1>3 DEF handleRead, loopVars
    <3>5. Functors \subseteq Functors'
      <4>1. Among(queue, batch) \subseteq Among(queue', batch)
        BY <1>0, <3>2, <3>3, AmongPut
      <4> QED
        BY <3>4, <4>1, FunctorsAmong
    <3>6. /\ channel'[c] # "kDeleted"
          /\ \A d \in Conns \ {c} : state'[d] = state[d] /\ channel'[d] = channel[d]
      BY <2>2, <3>1, ConnTypes DEF newConnection, Establish
    <3>7. crash = "none" /\ server = "alive"
      BY <1>3 DEF handleRead, Alive, Running
    <3> HIDE DEF c
    <3>8. \A d \in accepted' \ connections' : d \in accepted \ connections /\ d # c
      BY <3>1
    <3>9. \A d \in accepted' \ connections' :
            \/ <<"connectDestroyed", d>> \in Functors'
            \/ state'[d] = "kDisconnected" /\ channel'[d] = "kNew"
      BY <3>5, <3>6, <3>7, <3>8, DownOne
    <3>10. \A d \in Conns : channel'[d] = "kDeleted" => state'[d] = "kDisconnected"
      BY <3>6 DEF DownInv
    <3> QED
      BY <3>9, <3>10 DEF DownInv
  <2> QED
    BY <1>3, <2>1, <2>2 DEF handleRead
<1>4. CASE BaseFunctor
  <2>1. Head(queue[0]) \in Calls /\ Tail(queue[0]) \in Seq(Calls) /\ queue[0] # <<>>
    BY <1>0, <1>4, HeadCall DEF BaseFunctor
  <2>2. [queue EXCEPT ![0] = Tail(@)] \in [Loops -> Seq(Calls)]
    BY <1>0, <2>1
  <2>3. Functors \subseteq Among([queue EXCEPT ![0] = Tail(@)], batch) \cup {Head(queue[0])}
    BY <1>0, <2>1, AmongPopQueue, FunctorsAmong
  <2>4. /\ Run(Head(queue[0]), [queue EXCEPT ![0] = Tail(@)]) /\ crash = "none"
        /\ batch' = batch /\ UNCHANGED serverRest
    BY <1>4 DEF BaseFunctor, Running, loopVars
  <2> QED
    BY <2>1, <2>2, <2>3, <2>4, RunDown
<1>5. ASSUME NEW l \in IoLoops, IoFunctor(l) PROVE DownInv'
  <2>1. Head(batch[l]) \in Calls /\ batch[l] # <<>>
    BY <1>0, <1>5, HeadCall DEF IoFunctor
  <2>2. /\ Run(Head(batch[l]), queue) /\ crash = "none"
        /\ batch' = [batch EXCEPT ![l] = Tail(@)] /\ UNCHANGED serverRest
    BY <1>5 DEF IoFunctor, Running
  <2>3. Functors \subseteq Among(queue, batch') \cup {Head(batch[l])}
    BY <1>0, <2>1, <2>2, AmongPopBatch, FunctorsAmong
  <2> QED
    BY <1>0, <2>1, <2>2, <2>3, RunDown
<1>6. ASSUME NEW l \in IoLoops, Enter(l) PROVE DownInv'
  BY <1>6, <1>k DEF Enter, serverVars
<1>7. ASSUME NEW l \in IoLoops, Swap(l) PROVE DownInv'
  <2>1. /\ batch' = [batch EXCEPT ![l] = queue[l]] /\ queue' = [queue EXCEPT ![l] = <<>>]
        /\ place[l] = "poll" /\ UNCHANGED <<connVars, connections, nextConnId, server, crash>>
    BY <1>7 DEF Swap, serverVars
  <2>2. batch[l] = <<>>
    BY <2>1 DEF ServerTypes
  <2>3. Functors \subseteq Functors'
    BY <1>0, <2>1, <2>2, AmongSwap, FunctorsAmong
  <2> QED
    BY <2>1, <2>3, DownKept
<1>8. ASSUME NEW l \in IoLoops, Again(l) PROVE DownInv'
  BY <1>8, <1>k DEF Again, serverVars
<1>9. ASSUME NEW l \in IoLoops, Exit(l) PROVE DownInv'
  <2>1. server' = server /\ server \notin {"alive", "closing"}
    BY <1>9 DEF Exit, serverVars, ServerTypes
  <2>2. UNCHANGED <<connVars, connections, nextConnId>> /\ crash = "none"
    BY <1>9 DEF Exit, serverVars, Running
  <2> QED
    BY <2>1, <2>2, DownKept
<1>10. ASSUME NEW c \in Conns, HandleRead(c) PROVE DownInv'
  <2>1. /\ channel[c] = "reading" /\ handleClose(c, queue) /\ crash = "none"
        /\ UNCHANGED serverRest /\ batch' = batch
    BY <1>10 DEF HandleRead, Handling, Running, loopVars
  <2>2. \A d \in Conns : <<"connectDestroyed", d>> \in Functors =>
                            <<"connectDestroyed", d>> \in Among(queue, batch)
    BY FunctorsAmong
  <2> QED
    BY <1>0, <2>1, <2>2, CloseDown
<1>11. ASSUME NEW c \in Conns, shutdown(c) \/ forceClose(c) PROVE DownInv'
  <2>1. /\ state[c] \in {"kConnected", "kDisconnecting"} /\ crash = "none"
        /\ state' = [state EXCEPT ![c] = "kDisconnecting"]
        /\ UNCHANGED <<serverVars, clientVars, loopOf, channel, loopVars, crash>>
        /\ queue' = queue \/ queue' = Put(queue, loopOf[c], <<"forceCloseInLoop", c>>)
    BY <1>11 DEF shutdown, forceClose, InCallback, Running
  <2>2. <<"forceCloseInLoop", c>> \in Calls /\ loopOf[c] \in Loops
    BY CallIs, ConnTypes
  <2>3. Functors \subseteq Functors'
    <3>1. Among(queue, batch) \subseteq Among(queue', batch)
      BY <1>0, <2>1, <2>2, AmongPut
    <3> QED
      BY <2>1, <3>1, FunctorsAmong DEF loopVars
  <2>4. /\ channel[c] # "kDeleted" /\ channel'[c] = channel[c]
        /\ \A d \in Conns \ {c} : state'[d] = state[d] /\ channel'[d] = channel[d]
    <3>1. channel[c] # "kDeleted"
      BY <2>1 DEF DownInv
    <3> QED
      BY <2>1, <3>1, ConnTypes
  <2>5. nextConnId' = nextConnId /\ server' = server /\ connections' = connections
    BY <2>1 DEF serverVars
  <2>6. server \in {"alive", "closing"} /\ c \in accepted \ connections' =>
           <<"connectDestroyed", c>> \in Functors'
    <3> SUFFICES ASSUME server \in {"alive", "closing"}, c \in accepted \ connections'
                 PROVE  <<"connectDestroyed", c>> \in Functors'
      OBVIOUS
    <3>1. <<"connectDestroyed", c>> \in Functors
      BY <2>1, <2>5, DownOne
    <3> QED
      BY <2>3, <3>1
  <2> QED
    BY <2>1, <2>3, <2>4, <2>5, <2>6, DownSet
<1>12. CASE Destroy
  BY <1>12, <1>k DEF Destroy, Alive, loopVars
<1>13. ASSUME NEW c \in Conns, DestroyConnection(c) PROVE DownInv'
  <2>1. /\ connections' = connections \ {c} /\ crash = "none" /\ batch' = batch
        /\ nextConnId' = nextConnId /\ server' = server
    BY <1>13 DEF DestroyConnection, Running, serverRest, loopVars
  <2>2. CASE loopOf[c] # 0
    <3>1. /\ queue' = Put(queue, loopOf[c], <<"connectDestroyed", c>>)
          /\ state' = state /\ channel' = channel
      BY <1>13, <2>2 DEF DestroyConnection, connVars
    <3>2. <<"connectDestroyed", c>> \in Calls /\ loopOf[c] \in Loops
      BY CallIs, ConnTypes
    <3>3. Functors \cup {<<"connectDestroyed", c>>} \subseteq Functors'
      BY <1>0, <2>1, <3>1, <3>2, AmongPut, FunctorsAmong
    <3>4. channel'[c] = "kDeleted" => state'[c] = "kDisconnected"
      BY <3>1 DEF DownInv
    <3> QED
      BY <2>1, <3>1, <3>3, <3>4, DownSet
  <2>3. CASE loopOf[c] = 0
    <3>1. connectDestroyed(c) /\ queue' = queue
      BY <1>13, <2>3 DEF DestroyConnection
    <3>2. Functors' = Functors
      BY <2>1, <3>1 DEF Functors
    <3>3. CASE crash' # "none"
      <4>1. UNCHANGED connVars
        BY <2>1, <3>1, <3>3 DEF connectDestroyed, Crash
      <4> QED
        BY <3>3, <4>1 DEF DownInv, connVars
    <3>4. CASE crash' = "none"
      <4>1. /\ state'[c] = "kDisconnected" /\ channel'[c] = "kNew"
            /\ \A d \in Conns \ {c} : state'[d] = state[d] /\ channel'[d] = channel[d]
        BY <2>1, <3>1, <3>4, DestroyedIsDown
      <4> QED
        BY <2>1, <3>2, <4>1, DownSet
    <3> QED
      BY <3>3, <3>4
  <2> QED
    BY <2>2, <2>3
<1>14. CASE NextVictim
  BY <1>14, <1>k DEF NextVictim, loopVars
<1>15. CASE QuitVictim
  BY <1>15, <1>k DEF QuitVictim
<1>16. CASE ClientConnects
  BY <1>16, <1>k DEF ClientConnects, serverVars, loopVars
<1>17. ASSUME NEW c \in Conns, ClientCloses(c) PROVE DownInv'
  BY <1>17, <1>k DEF ClientCloses, serverVars, loopVars
<1>18. CASE UNCHANGED vars
  BY <1>18, <1>k DEF vars, serverVars, loopVars
<1> QED
  BY <1>1, <1>2, <1>3, <1>4, <1>5, <1>6, <1>7, <1>8, <1>9, <1>10, <1>11, <1>12, <1>13, <1>14,
     <1>15, <1>16, <1>17, <1>18 DEF Next, IoLoop

\* ~TcpConnection runs only for a connection that is kDisconnected and whose channel has
\* left its loop, for every number of threads and clients, until ~TcpServer starts to
\* quit the loops: what leaves connections_ has its connectDestroyed waiting in its
\* own loop, which runs it before it lets go of the last TcpConnectionPtr.
THEOREM DeletedIsDownCorrect == Spec => []DeletedIsDown
<1>1. Init => DownInv
  BY ServerAssumption DEF Init, DownInv, accepted
<1>2. ServerTypes /\ DownInv => DeletedIsDown
  <2> SUFFICES ASSUME ServerTypes, DownInv, crash = "none", server \in {"alive", "closing"},
                      NEW c \in accepted, Deleted(c)
               PROVE  state[c] = "kDisconnected" /\ channel[c] = "kNew"
    BY DEF DeletedIsDown
  <2>1. c \notin connections /\ \A f \in Functors : f[2] # c
    BY DEF Deleted
  <2>2. <<"connectDestroyed", c>> \notin Functors
    BY <2>1
  <2> QED
    BY <2>1, <2>2, DownOne
<1> QED
  BY <1>1, <1>2, TypesInit, TypesStep, DownStep, PTL DEF Spec

------------------------------------------------------------------------------
(* Connections are spread evenly *)

LEMMA SpreadKept ==
  ASSUME SpreadInv, UNCHANGED <<loops, next, nextConnId, loopOf>>
  PROVE  SpreadInv'
BY DEF SpreadInv, load, accepted

\* next_ comes round to 0 after the last loop
LEMMA RoundRobin ==
  ASSUME NEW n \in Nat, NEW m \in Nat, n < m
  PROVE  (n + 1) % m = IF n + 1 = m THEN 0 ELSE n + 1
OBVIOUS

\* one more connection on loop l
LEMMA LoadAdds ==
  ASSUME ServerTypes, NEW c \in Conns, c \notin accepted, accepted' = accepted \cup {c},
         NEW l \in Loops, loopOf' = [loopOf EXCEPT ![c] = l]
  PROVE  /\ load(l)' = load(l) + 1 /\ load(l) \in Nat
         /\ \A k \in Loops \ {l} : load(k)' = load(k)
<1> DEFINE S(k) == {d \in accepted : loopOf[d] = k}
           T(k) == {d \in accepted' : loopOf'[d] = k}
<1>1. accepted \subseteq Conns /\ loopOf \in [Conns -> Loops]
  BY ServerAssumption DEF ServerTypes, accepted, Conns
<1>2. IsFiniteSet(accepted)
  <2>1. 1 \in Int /\ nextConnId - 1 \in Int
    BY ServerAssumption DEF ServerTypes
  <2> QED
    BY <2>1, FS_Interval DEF accepted
<1>3. IsFiniteSet(S(l)) /\ c \notin S(l) /\ T(l) = S(l) \cup {c}
  <2>1. S(l) \subseteq accepted
    OBVIOUS
  <2>2. IsFiniteSet(S(l))
    BY <1>2, <2>1, FS_Subset
  <2> QED
    BY <1>1, <2>2
<1>4. \A k \in Loops \ {l} : T(k) = S(k)
  BY <1>1
<1>5. Cardinality(S(l)) \in Nat /\ Cardinality(T(l)) = Cardinality(S(l)) + 1
  BY <1>3, FS_AddElement, FS_CardinalityType
<1> QED
  BY <1>4, <1>5 DEF load

LEMMA SpreadStep == ServerTypes /\ SpreadInv /\ [Next]_vars => SpreadInv'
<1> SUFFICES ASSUME ServerTypes, SpreadInv, [Next]_vars PROVE SpreadInv'
  OBVIOUS
<1>1. CASE start
  <2>1. accepted = {} /\ accepted' = {} /\ next' = 0
    BY <1>1 DEF start, ServerTypes, accepted
  <2>2. \A k \in 1 .. loops' : load(k)' = 0
    <3>1. \A k \in 1 .. loops' : {c \in accepted' : loopOf'[c] = k} = {}
      BY <2>1
    <3> QED
      BY <3>1, FS_EmptySet DEF load
  <2>3. \A k \in 1 .. loops' : ~(k <= next')
    BY <2>1
  <2>4. \A k \in 1 .. loops' : load(k)' = 0 + (IF k <= next' THEN 1 ELSE 0)
    BY <2>2, <2>3
  <2>5. 0 \in Nat
    OBVIOUS
  <2> QED
    BY <2>1, <2>4, <2>5 DEF SpreadInv
<1>2. ASSUME handleRead, newConnection, loops > 0 PROVE SpreadInv'
  <2> DEFINE c == nextConnId
  <2>1. c \in Conns /\ accepted' = accepted \cup {c} /\ c \notin accepted
    <3>1. nextConnId \in 1 .. MaxConns + 1 /\ arrived \in 0 .. MaxConns /\ MaxConns \in Nat
      BY ServerAssumption DEF ServerTypes
    <3>2. arrived >= nextConnId /\ nextConnId' = nextConnId + 1
      BY <1>2 DEF handleRead, newConnection
    <3> QED
      BY <3>1, <3>2 DEF Conns, accepted
  <2>2. /\ loops \in 0 .. MaxThreads /\ MaxThreads \in Nat /\ next \in Nat /\ next < loops
    BY <1>2, ServerAssumption DEF ServerTypes
  <2>3. /\ loops \in Nat /\ loops # 0 /\ next + 1 \in 1 .. loops /\ next + 1 \in Loops
        /\ \A k \in 1 .. loops : k \in Loops
    BY <2>2 DEF Loops
  <2>4. /\ loops' = loops /\ next' = (next + 1) % loops
        /\ loopOf' = [loopOf EXCEPT ![c] = next + 1]
    <3>1. nextLoop = next + 1 /\ nextAfter = (next + 1) % loops
      BY <2>3 DEF nextLoop, nextAfter
    <3> QED
      BY <1>2, <3>1 DEF handleRead, newConnection
  <2>5. next' = IF next + 1 = loops THEN 0 ELSE next + 1
    BY <2>2, <2>3, <2>4, RoundRobin
  <2> HIDE DEF c
  <2>6. PICK l \in Loops : l = next + 1
    BY <2>3
  <2>a. load(l)' = load(l) + 1 /\ \A k \in Loops \ {l} : load(k)' = load(k)
    <3>1. loopOf' = [loopOf EXCEPT ![c] = l]
      BY <2>4, <2>6
    <3> QED
      BY <2>1, <3>1, LoadAdds
  <2>b. PICK n \in Nat : \A k \in 1 .. loops : load(k) = n + (IF k <= next THEN 1 ELSE 0)
    BY <1>2 DEF SpreadInv
  <2>7. \A k \in 1 .. loops : load(k)' = n + (IF k <= next + 1 THEN 1 ELSE 0)
    <3> SUFFICES ASSUME NEW k \in 1 .. loops PROVE load(k)' = n + (IF k <= next + 1 THEN 1 ELSE 0)
      OBVIOUS
    <3>1. CASE k = l
      <4>1. load(l) = n
        BY <2>2, <2>3, <2>6, <2>b
      <4>2. load(l)' = n + 1 /\ l <= next + 1
        BY <2>2, <2>6, <2>a, <4>1
      <4> QED
        BY <3>1, <4>2
    <3>2. CASE k # l
      <4>1. k \in Loops \ {l}
        BY <2>3, <3>2
      <4>2. load(k)' = n + (IF k <= next THEN 1 ELSE 0)
        BY <2>a, <2>b, <4>1
      <4>3. k <= next <=> k <= next + 1
        BY <2>2, <2>3, <2>6, <3>2
      <4> QED
        BY <4>2, <4>3
    <3> QED
      BY <3>1, <3>2
  <2>8. \A d \in accepted' : loopOf'[d] # 0
    <3>1. \A d \in accepted : loopOf[d] # 0 /\ d \in Conns
      BY <1>2, ServerAssumption DEF SpreadInv, ServerTypes, accepted, Conns
    <3>2. loopOf \in [Conns -> Loops]
      BY DEF ServerTypes
    <3> QED
      BY <2>1, <2>2, <2>4, <3>1, <3>2
  <2>9. \E m \in Nat : \A k \in 1 .. loops' : load(k)' = m + (IF k <= next' THEN 1 ELSE 0)
    <3>1. CASE next + 1 = loops
      <4>1. \A k \in 1 .. loops' : load(k)' = (n + 1) + (IF k <= next' THEN 1 ELSE 0)
        <5>1. next' = 0 /\ loops' = loops
          BY <2>4, <2>5, <3>1
        <5>2. \A k \in 1 .. loops : k <= next + 1 /\ ~(k <= 0)
          BY <2>3, <3>1
        <5>3. \A k \in 1 .. loops : load(k)' = n + 1
          BY <2>7, <5>2
        <5>4. n + 1 \in Nat /\ (n + 1) + 0 = n + 1
          OBVIOUS
        <5> QED
          BY <5>1, <5>2, <5>3, <5>4
      <4>2. n + 1 \in Nat
        OBVIOUS
      <4> QED
        BY <4>1, <4>2
    <3>2. CASE next + 1 # loops
      BY <2>4, <2>5, <2>7, <3>2
    <3> QED
      BY <3>1, <3>2
  <2> QED
    BY <2>8, <2>9 DEF SpreadInv
<1>3. ASSUME handleRead, ~(loops > 0) PROVE SpreadInv'
  BY <1>3 DEF handleRead, SpreadInv
<1>4. CASE ~start /\ ~(handleRead /\ newConnection)
  <2>1. UNCHANGED <<loops, next, nextConnId, loopOf>>
    BY <1>4, ZenonT(30) DEF Next, IoLoop, setThreadNum, start, handleRead, BaseFunctor, IoFunctor, Enter, Swap,
       Again, Exit, HandleRead, shutdown, forceClose, Destroy, DestroyConnection, NextVictim,
       QuitVictim, ClientConnects, ClientCloses, Run, handleClose, removeConnection,
       removeConnectionInLoop, connectEstablished, connectDestroyed, Crash, vars, serverVars,
       connVars, serverRest
  <2> QED
    BY <2>1, SpreadKept
<1> QED
  BY <1>1, <1>2, <1>3, <1>4

\* Whatever the number of threads and of connections, two io loops differ by at most one
\* in the connections they were given, and the base loop has none when there is a
\* pool: next_ goes round loops_, and the loops it has passed have one more.
THEOREM BalancedCorrect == Spec => []Balanced
<1>1. Init => SpreadInv
  BY DEF Init, SpreadInv
<1>2. ServerTypes /\ SpreadInv => Balanced
  <2> SUFFICES ASSUME ServerTypes, SpreadInv, loops > 0
               PROVE  load(0) = 0 /\ \A k, l \in 1 .. loops : load(k) <= load(l) + 1
    BY DEF Balanced, load
  <2>1. load(0) = 0
    <3>1. {c \in accepted : loopOf[c] = 0} = {}
      BY DEF SpreadInv
    <3> QED
      BY <3>1, FS_EmptySet DEF load
  <2>2. PICK n \in Nat : \A k \in 1 .. loops : load(k) = n + (IF k <= next THEN 1 ELSE 0)
    BY DEF SpreadInv
  <2>3. \A k \in 1 .. loops : load(k) = n \/ load(k) = n + 1
    BY <2>2
  <2> QED
    BY <2>1, <2>3
<1> QED
  BY <1>1, <1>2, TypesInit, TypesStep, SpreadStep, PTL DEF Spec

------------------------------------------------------------------------------
(* What waits for each loop, in order *)

LEMMA LineTypes ==
  ASSUME NEW q \in [Loops -> Seq(Calls)], NEW b \in [IoLoops -> Seq(Calls)]
  PROVE  /\ LinesOf(q, b) \in [Loops -> Seq(Calls)]
         /\ \A l \in Loops : LinesOf(q, b)[l] = LineOf(q, b, l)
         /\ 0 \in Loops /\ \A l \in Loops : l = 0 \/ l \in IoLoops
         /\ LinesOf(q, b)[0] = q[0]
         /\ \A l \in IoLoops : l # 0 /\ l \in Loops /\ LinesOf(q, b)[l] = b[l] \o q[l]
<1>1. 0 \in Loops /\ (\A l \in Loops : l = 0 \/ l \in IoLoops) /\ \A l \in IoLoops : l # 0 /\ l \in Loops
  BY ServerAssumption DEF Loops, IoLoops
<1>2. \A l \in Loops : LineOf(q, b, l) \in Seq(Calls)
  <2> SUFFICES ASSUME NEW l \in Loops PROVE LineOf(q, b, l) \in Seq(Calls)
    OBVIOUS
  <2>1. CASE l = 0
    BY <1>1, <2>1 DEF LineOf
  <2>2. CASE l # 0
    <3>1. b[l] \in Seq(Calls) /\ q[l] \in Seq(Calls)
      BY <1>1, <2>2
    <3> QED
      BY <2>2, <3>1, ConcatProperties DEF LineOf
  <2> QED
    BY <2>1, <2>2
<1> QED
  BY <1>1, <1>2 DEF LinesOf, LineOf

LEMMA FunctionEqual ==
  ASSUME NEW F \in [Loops -> Seq(Calls)], NEW G \in [Loops -> Seq(Calls)],
         \A l \in Loops : F[l] = G[l]
  PROVE  F = G
OBVIOUS

LEMMA AppendConcat ==
  ASSUME NEW S, NEW a \in Seq(S), NEW s \in Seq(S), NEW g \in S
  PROVE  a \o Append(s, g) = Append(a \o s, g)
<1>1. <<g>> \in Seq(S)
  OBVIOUS
<1>2. Append(s, g) = s \o <<g>>
  BY AppendIsConcat
<1>3. a \o s \in Seq(S)
  BY ConcatProperties
<1>4. Append(a \o s, g) = (a \o s) \o <<g>>
  BY <1>3, AppendIsConcat
<1>5. (a \o s) \o <<g>> = a \o (s \o <<g>>)
  BY <1>1, ConcatAssociative
<1> QED
  BY <1>2, <1>4, <1>5

LEMMA TailConcat ==
  ASSUME NEW S, NEW a \in Seq(S), NEW s \in Seq(S), a # <<>>
  PROVE  /\ a \o s # <<>> /\ Head(a \o s) = Head(a) /\ Tail(a \o s) = Tail(a) \o s
<1>1. /\ Len(a) \in Nat /\ Len(s) \in Nat /\ Len(a) > 0
      /\ Tail(a) \in Seq(S) /\ Len(Tail(a)) = Len(a) - 1
      /\ \A i \in 1 .. Len(a) - 1 : Tail(a)[i] = a[i + 1]
  BY LenProperties, EmptySeq, HeadTailProperties
<1>2. /\ a \o s \in Seq(S) /\ Len(a \o s) = Len(a) + Len(s)
      /\ \A i \in 1 .. Len(a) + Len(s) : (a \o s)[i] = IF i <= Len(a) THEN a[i] ELSE s[i - Len(a)]
  BY ConcatProperties
<1>3. a \o s # <<>>
  BY <1>1, <1>2, EmptySeq
<1>4. /\ Tail(a \o s) \in Seq(S) /\ Len(Tail(a \o s)) = Len(a) + Len(s) - 1
      /\ \A i \in 1 .. Len(a) + Len(s) - 1 : Tail(a \o s)[i] = (a \o s)[i + 1]
  BY <1>2, <1>3, HeadTailProperties
<1>5. /\ Tail(a) \o s \in Seq(S) /\ Len(Tail(a) \o s) = Len(a) - 1 + Len(s)
      /\ \A i \in 1 .. (Len(a) - 1) + Len(s) :
           (Tail(a) \o s)[i] = IF i <= Len(a) - 1 THEN Tail(a)[i] ELSE s[i - (Len(a) - 1)]
  BY <1>1, ConcatProperties
<1>6. \A i \in 1 .. Len(a) + Len(s) - 1 : Tail(a \o s)[i] = (Tail(a) \o s)[i]
  <2> SUFFICES ASSUME NEW i \in 1 .. Len(a) + Len(s) - 1
               PROVE  Tail(a \o s)[i] = (Tail(a) \o s)[i]
    OBVIOUS
  <2>1. i + 1 \in 1 .. Len(a) + Len(s) /\ i \in 1 .. (Len(a) - 1) + Len(s)
    BY <1>1
  <2>2. Tail(a \o s)[i] = IF i + 1 <= Len(a) THEN a[i + 1] ELSE s[(i + 1) - Len(a)]
    BY <1>2, <1>4, <2>1
  <2>3. CASE i + 1 <= Len(a)
    <3>1. i <= Len(a) - 1 /\ i \in 1 .. Len(a) - 1
      BY <1>1, <2>1, <2>3
    <3> QED
      BY <1>1, <1>5, <2>1, <2>2, <2>3, <3>1
  <2>4. CASE ~(i + 1 <= Len(a))
    <3>1. ~(i <= Len(a) - 1) /\ (i + 1) - Len(a) = i - (Len(a) - 1)
      BY <1>1, <2>1, <2>4
    <3> QED
      BY <1>5, <2>1, <2>2, <2>4, <3>1
  <2> QED
    BY <2>3, <2>4
<1>7. Tail(a \o s) = Tail(a) \o s
  <2>1. Len(Tail(a \o s)) = Len(Tail(a) \o s)
    BY <1>1, <1>4, <1>5
  <2> QED
    BY <1>4, <1>5, <1>6, <2>1, SeqEqual
<1>8. Head(a \o s) = (a \o s)[1] /\ Head(a) = a[1]
  OBVIOUS
<1>9. (a \o s)[1] = a[1]
  BY <1>1, <1>2
<1> QED
  BY <1>3, <1>7, <1>8, <1>9

LEMMA LinesPut ==
  ASSUME NEW q \in [Loops -> Seq(Calls)], NEW b \in [IoLoops -> Seq(Calls)],
         NEW k \in Loops, NEW g \in Calls
  PROVE  LinesOf(Put(q, k, g), b) = Put(LinesOf(q, b), k, g)
<1> DEFINE p == Put(q, k, g)
           L == LinesOf(q, b)
           M == LinesOf(p, b)
           N == Put(L, k, g)
<1>1. p \in [Loops -> Seq(Calls)] /\ p[k] = Append(q[k], g) /\ \A l \in Loops \ {k} : p[l] = q[l]
  BY PutType
<1>2. /\ L \in [Loops -> Seq(Calls)] /\ L[0] = q[0] /\ 0 \in Loops
      /\ \A l \in IoLoops : l # 0 /\ l \in Loops /\ L[l] = b[l] \o q[l]
      /\ \A l \in Loops : l = 0 \/ l \in IoLoops
  BY LineTypes
<1> HIDE DEF p
<1>3. /\ M \in [Loops -> Seq(Calls)] /\ M[0] = p[0] /\ \A l \in IoLoops : M[l] = b[l] \o p[l]
  BY <1>1, LineTypes
<1> HIDE DEF L, M
<1>4. N \in [Loops -> Seq(Calls)] /\ N[k] = Append(L[k], g) /\ \A l \in Loops \ {k} : N[l] = L[l]
  BY <1>2, PutType, ZenonT(30)
<1> HIDE DEF N
<1>5. \A l \in Loops : M[l] = N[l]
  <2> SUFFICES ASSUME NEW l \in Loops PROVE M[l] = N[l]
    OBVIOUS
  <2>1. CASE l # k
    BY <1>1, <1>2, <1>3, <1>4, <2>1
  <2>2. CASE l = k /\ k = 0
    BY <1>1, <1>2, <1>3, <1>4, <2>2
  <2>3. CASE l = k /\ k # 0
    <3>1. k \in IoLoops /\ b[k] \in Seq(Calls) /\ q[k] \in Seq(Calls)
      BY <1>2, <2>3
    <3>2. b[k] \o Append(q[k], g) = Append(b[k] \o q[k], g)
      BY <3>1, AppendConcat
    <3> QED
      BY <1>1, <1>2, <1>3, <1>4, <2>3, <3>1, <3>2
  <2> QED
    BY <2>1, <2>2, <2>3
<1>6. M = N
  BY <1>3, <1>4, <1>5, FunctionEqual
<1> QED
  BY <1>6 DEF M, N, L, p

LEMMA LinesPopQueue ==
  ASSUME NEW q \in [Loops -> Seq(Calls)], NEW b \in [IoLoops -> Seq(Calls)], q[0] # <<>>
  PROVE  LinesOf([q EXCEPT ![0] = Tail(@)], b) = [LinesOf(q, b) EXCEPT ![0] = Tail(@)]
<1> DEFINE p == [q EXCEPT ![0] = Tail(@)]
           L == LinesOf(q, b)
           M == LinesOf(p, b)
<1>1. 0 \in Loops
  BY LineTypes
<1>2. Tail(q[0]) \in Seq(Calls)
  BY <1>1, HeadCall
<1>3. p \in [Loops -> Seq(Calls)] /\ p[0] = Tail(q[0]) /\ \A l \in Loops \ {0} : p[l] = q[l]
  BY <1>1, <1>2
<1>4. /\ L \in [Loops -> Seq(Calls)] /\ L[0] = q[0] /\ \A l \in Loops : L[l] = LineOf(q, b, l)
  BY LineTypes
<1> HIDE DEF p
<1>5. /\ M \in [Loops -> Seq(Calls)] /\ M[0] = p[0] /\ \A l \in Loops : M[l] = LineOf(p, b, l)
  BY <1>3, LineTypes
<1> HIDE DEF L, M
<1>6. \A l \in Loops \ {0} : M[l] = L[l]
  BY <1>3, <1>4, <1>5 DEF LineOf
<1>7. M = [L EXCEPT ![0] = Tail(@)]
  BY <1>1, <1>3, <1>4, <1>5, <1>6
<1> QED
  BY <1>7 DEF M, L, p

\* the first of line k is taken
Pop(L, k) == [L EXCEPT ![k] = Tail(@)]

LEMMA LinesPopBatch ==
  ASSUME NEW q \in [Loops -> Seq(Calls)], NEW b \in [IoLoops -> Seq(Calls)], NEW k \in IoLoops,
         b[k] # <<>>
  PROVE  LinesOf(q, Pop(b, k)) = Pop(LinesOf(q, b), k)
<1> DEFINE p == [b EXCEPT ![k] = Tail(@)]
           L == LinesOf(q, b)
           M == LinesOf(q, p)
<1>1. b[k] \in Seq(Calls) /\ Tail(b[k]) \in Seq(Calls) /\ k \in Loops /\ k # 0
  BY HeadCall, LineTypes
<1>2. p \in [IoLoops -> Seq(Calls)] /\ p[k] = Tail(b[k]) /\ \A l \in IoLoops \ {k} : p[l] = b[l]
  BY <1>1
<1> HIDE DEF p
<1>3. /\ L \in [Loops -> Seq(Calls)] /\ L[k] = b[k] \o q[k] /\ q[k] \in Seq(Calls)
      /\ \A l \in Loops : L[l] = LineOf(q, b, l) /\ (l = 0 \/ l \in IoLoops)
  BY <1>1, LineTypes
<1>4. /\ M \in [Loops -> Seq(Calls)] /\ M[k] = p[k] \o q[k] /\ \A l \in Loops : M[l] = LineOf(q, p, l)
  BY <1>1, <1>2, LineTypes
<1> HIDE DEF L, M
<1>5. \A l \in Loops \ {k} : M[l] = L[l]
  BY <1>2, <1>3, <1>4 DEF LineOf
<1>6. Tail(L[k]) = M[k]
  <2>1. Tail(b[k] \o q[k]) = Tail(b[k]) \o q[k]
    BY <1>1, <1>3, TailConcat
  <2> QED
    BY <1>2, <1>3, <1>4, <2>1
<1>7. M = [L EXCEPT ![k] = Tail(@)]
  BY <1>1, <1>3, <1>4, <1>5, <1>6
<1> QED
  BY <1>7 DEF M, L, p, Pop

LEMMA LinesHeadBatch ==
  ASSUME NEW q \in [Loops -> Seq(Calls)], NEW b \in [IoLoops -> Seq(Calls)], NEW k \in IoLoops,
         b[k] # <<>>
  PROVE  LinesOf(q, b)[k] # <<>> /\ Head(LinesOf(q, b)[k]) = Head(b[k])
<1>1. b[k] \in Seq(Calls) /\ k \in Loops /\ q[k] \in Seq(Calls) /\ LinesOf(q, b)[k] = b[k] \o q[k]
  BY LineTypes
<1>2. b[k] \o q[k] # <<>> /\ Head(b[k] \o q[k]) = Head(b[k])
  BY <1>1, TailConcat
<1> QED
  BY <1>1, <1>2

LEMMA LinesSwap ==
  ASSUME NEW q \in [Loops -> Seq(Calls)], NEW b \in [IoLoops -> Seq(Calls)], NEW k \in IoLoops,
         b[k] = <<>>
  PROVE  LinesOf([q EXCEPT ![k] = <<>>], [b EXCEPT ![k] = q[k]]) = LinesOf(q, b)
<1> DEFINE p == [q EXCEPT ![k] = <<>>]
           r == [b EXCEPT ![k] = q[k]]
           L == LinesOf(q, b)
           M == LinesOf(p, r)
<1>1. k \in Loops /\ k # 0 /\ q[k] \in Seq(Calls)
  BY LineTypes
<1>2. /\ p \in [Loops -> Seq(Calls)] /\ p[k] = <<>> /\ \A l \in Loops \ {k} : p[l] = q[l]
      /\ r \in [IoLoops -> Seq(Calls)] /\ r[k] = q[k] /\ \A l \in IoLoops \ {k} : r[l] = b[l]
  BY <1>1
<1>3. /\ L \in [Loops -> Seq(Calls)] /\ L[k] = b[k] \o q[k]
      /\ \A l \in Loops : L[l] = LineOf(q, b, l) /\ (l = 0 \/ l \in IoLoops)
  BY <1>1, LineTypes
<1> HIDE DEF p, r
<1>4. /\ M \in [Loops -> Seq(Calls)] /\ M[k] = r[k] \o p[k] /\ \A l \in Loops : M[l] = LineOf(p, r, l)
  BY <1>1, <1>2, LineTypes
<1> HIDE DEF L, M
<1>5. L[k] = q[k] /\ M[k] = q[k]
  BY <1>1, <1>2, <1>3, <1>4, ConcatEmptySeq
<1>6. \A l \in Loops : M[l] = L[l]
  BY <1>1, <1>2, <1>3, <1>4, <1>5, ZenonT(30) DEF LineOf
<1>7. M = L
  BY <1>3, <1>4, <1>6, FunctionEqual
<1> QED
  BY <1>7 DEF M, L, p, r

\* the functors that drive the life of a connection
Marks == Names \ {"forceCloseInLoop"}
SameMarks(L, M, d) ==
  \A n \in Marks, l \in Loops : <<n, d>> \in Members(L[l]) <=> <<n, d>> \in Members(M[l])

\* g joins line k
LEMMA Added ==
  ASSUME NEW L \in [Loops -> Seq(Calls)], NEW k \in Loops, NEW g \in Calls
  PROVE  LET M == Put(L, k, g)
         IN  /\ M \in [Loops -> Seq(Calls)]
             /\ \A l \in Loops, x \in Calls :
                  /\ x \in Members(M[l]) <=> x \in Members(L[l]) \/ (l = k /\ x = g)
                  /\ Unique(L[l], x) /\ (x = g => g \notin Members(L[k])) => Unique(M[l], x)
<1> DEFINE M == Put(L, k, g)
<1>1. /\ M \in [Loops -> Seq(Calls)] /\ M[k] = Append(L[k], g) /\ L[k] \in Seq(Calls)
      /\ \A l \in Loops \ {k} : M[l] = L[l]
  BY PutType
<1> HIDE DEF M
<1>2. Members(M[k]) = Members(L[k]) \cup {g} /\ (g \notin Members(L[k]) => Unique(M[k], g))
  BY <1>1, PushMembers
<1>3. ASSUME NEW x \in Calls, x # g, Unique(L[k], x) PROVE Unique(M[k], x)
  <2>1. /\ Len(L[k]) \in Nat /\ DOMAIN L[k] = 1 .. Len(L[k]) /\ DOMAIN M[k] = 1 .. Len(L[k]) + 1
        /\ M[k][Len(L[k]) + 1] = g /\ \A i \in 1 .. Len(L[k]) : M[k][i] = L[k][i]
    BY <1>1, AppendProperties, LenProperties
  <2>2. \A i \in DOMAIN M[k] : M[k][i] = x => i \in DOMAIN L[k] /\ L[k][i] = x
    BY <1>3, <2>1
  <2> QED
    BY <1>3, <2>2 DEF Unique
<1>4. \A l \in Loops, x \in Calls :
        x \in Members(M[l]) <=> x \in Members(L[l]) \/ (l = k /\ x = g)
  BY <1>1, <1>2
<1>5. \A l \in Loops, x \in Calls :
        Unique(L[l], x) /\ (x = g => g \notin Members(L[k])) => Unique(M[l], x)
  <2> SUFFICES ASSUME NEW l \in Loops, NEW x \in Calls, Unique(L[l], x),
                      x = g => g \notin Members(L[k])
               PROVE  Unique(M[l], x)
    OBVIOUS
  <2>1. CASE l # k
    BY <1>1, <2>1
  <2>2. CASE l = k /\ x = g
    BY <1>2, <2>2
  <2>3. CASE l = k /\ x # g
    BY <1>3, <2>3
  <2> QED
    BY <2>1, <2>2, <2>3
<1> QED
  BY <1>1, <1>4, <1>5 DEF M

\* the first of line k leaves it
LEMMA Taken ==
  ASSUME NEW L \in [Loops -> Seq(Calls)], NEW k \in Loops, L[k] # <<>>
  PROVE  LET M == [L EXCEPT ![k] = Tail(@)]
             f == Head(L[k])
         IN  /\ M \in [Loops -> Seq(Calls)] /\ f \in Calls /\ f \in Members(L[k])
             /\ \A l \in Loops, x \in Calls :
                  /\ x \in Members(L[l]) <=> x \in Members(M[l]) \/ (l = k /\ x = f)
                  /\ Unique(L[l], x) => Unique(M[l], x)
             /\ Unique(L[k], f) => f \notin Members(M[k])
<1> DEFINE M == [L EXCEPT ![k] = Tail(@)]
           f == Head(L[k])
<1>1. f \in Calls /\ Tail(L[k]) \in Seq(Calls) /\ L[k] \in Seq(Calls)
  BY HeadCall
<1>2. M \in [Loops -> Seq(Calls)] /\ M[k] = Tail(L[k]) /\ \A l \in Loops \ {k} : M[l] = L[l]
  BY <1>1
<1>3. Members(L[k]) = Members(Tail(L[k])) \cup {f}
  BY <1>1, PopMembers
<1>4. \A x : Unique(L[k], x) => Unique(Tail(L[k]), x) /\ (f = x => x \notin Members(Tail(L[k])))
  BY <1>1, PopMembers
<1> HIDE DEF M, f
<1>5. \A l \in Loops, x \in Calls : x \in Members(L[l]) <=> x \in Members(M[l]) \/ (l = k /\ x = f)
  BY <1>2, <1>3
<1>6. \A l \in Loops, x \in Calls : Unique(L[l], x) => Unique(M[l], x)
  BY <1>2, <1>4
<1>7. (Unique(L[k], f) => f \notin Members(M[k])) /\ f \in Members(L[k])
  BY <1>2, <1>3, <1>4
<1> QED
  BY <1>1, <1>2, <1>5, <1>6, <1>7 DEF M, f

LEMMA OrderedAdded ==
  ASSUME NEW L \in [Loops -> Seq(Calls)], NEW k \in Loops, NEW g \in Calls, Placed(L), OnceEach(L),
         k = Home(g), g[2] \in accepted,
         g[1] = "removeConnectionInLoop" => loopOf[g[2]] # 0,
         g[1] # "forceCloseInLoop" => g \notin Members(L[k])
  PROVE  Placed(Put(L, k, g)) /\ OnceEach(Put(L, k, g))
<1> DEFINE M == Put(L, k, g)
<1>1. /\ M \in [Loops -> Seq(Calls)]
      /\ \A l \in Loops, x \in Calls :
           /\ x \in Members(M[l]) <=> x \in Members(L[l]) \/ (l = k /\ x = g)
           /\ Unique(L[l], x) /\ (x = g => g \notin Members(L[k])) => Unique(M[l], x)
  BY ONLY Added, L \in [Loops -> Seq(Calls)], k \in Loops, g \in Calls
<1> HIDE DEF M
<1>2. \A l \in Loops : \A x \in Members(M[l]) : x \in Calls
  <2> SUFFICES ASSUME NEW l \in Loops, NEW i \in DOMAIN M[l] PROVE M[l][i] \in Calls
    BY DEF Members
  <2>1. M[l] \in Seq(Calls)
    BY <1>1
  <2> QED
    BY <2>1, LenProperties, ElementOfSeq
<1>3. Placed(M)
  <2> SUFFICES ASSUME NEW l \in Loops, NEW x \in Members(M[l])
               PROVE  /\ l = Home(x) /\ x[2] \in accepted
                      /\ x[1] = "removeConnectionInLoop" => loopOf[x[2]] # 0
    BY DEF Placed
  <2>1. x \in Members(L[l]) \/ (l = k /\ x = g)
    BY <1>1, <1>2
  <2>2. CASE x \in Members(L[l])
    BY <2>2 DEF Placed
  <2> QED
    BY <2>1, <2>2
<1>4. OnceEach(M)
  <2> SUFFICES ASSUME NEW l \in Loops, NEW x \in Calls, x[1] # "forceCloseInLoop"
               PROVE  Unique(M[l], x)
    BY DEF OnceEach
  <2>1. Unique(L[l], x)
    BY DEF OnceEach
  <2> QED
    BY <1>1, <2>1
<1> QED
  BY <1>3, <1>4 DEF M

LEMMA OrderedTaken ==
  ASSUME NEW L \in [Loops -> Seq(Calls)], NEW k \in Loops, L[k] # <<>>, Placed(L), OnceEach(L)
  PROVE  LET M == [L EXCEPT ![k] = Tail(@)]
             f == Head(L[k])
         IN  /\ M \in [Loops -> Seq(Calls)] /\ Placed(M) /\ OnceEach(M)
             /\ f \in Calls /\ f \in Members(L[k])
             /\ k = Home(f) /\ f[2] \in accepted
             /\ f[1] = "removeConnectionInLoop" => loopOf[f[2]] # 0
             /\ f[1] # "forceCloseInLoop" => f \notin Members(M[k])
             /\ \A l \in Loops, x \in Calls :
                  x \in Members(L[l]) <=> x \in Members(M[l]) \/ (l = k /\ x = f)
<1> DEFINE M == [L EXCEPT ![k] = Tail(@)]
           f == Head(L[k])
<1>1. /\ M \in [Loops -> Seq(Calls)] /\ f \in Calls /\ f \in Members(L[k])
      /\ \A l \in Loops, x \in Calls :
           /\ x \in Members(L[l]) <=> x \in Members(M[l]) \/ (l = k /\ x = f)
           /\ Unique(L[l], x) => Unique(M[l], x)
      /\ Unique(L[k], f) => f \notin Members(M[k])
  BY Taken
<1> HIDE DEF M, f
<1>2. \A l \in Loops : \A x \in Members(M[l]) : x \in Calls
  <2> SUFFICES ASSUME NEW l \in Loops, NEW i \in DOMAIN M[l] PROVE M[l][i] \in Calls
    BY DEF Members
  <2>1. M[l] \in Seq(Calls)
    BY <1>1
  <2> QED
    BY <2>1, LenProperties, ElementOfSeq
<1>3. \A l \in Loops : \A x \in Members(M[l]) : x \in Members(L[l])
  BY <1>1, <1>2
<1>4. Placed(M)
  BY <1>3 DEF Placed
<1>5. OnceEach(M)
  BY <1>1 DEF OnceEach
<1>6. /\ k = Home(f) /\ f[2] \in accepted
      /\ f[1] = "removeConnectionInLoop" => loopOf[f[2]] # 0
  BY <1>1 DEF Placed
<1>7. f[1] # "forceCloseInLoop" => f \notin Members(M[k])
  BY <1>1 DEF OnceEach
<1> QED
  BY <1>1, <1>4, <1>5, <1>6, <1>7 DEF M, f

------------------------------------------------------------------------------
(* connections_, the loops and the connections agree *)

LEMMA MarksAt ==
  ASSUME NEW c \in Conns
  PROVE  /\ Coming(Lines, c) <=> <<"connectEstablished", c>> \in Members(Lines[loopOf[c]])
         /\ Removal(Lines, c) <=> <<"removeConnectionInLoop", c>> \in Members(Lines[0])
         /\ Going(Lines, c) <=> <<"connectDestroyed", c>> \in Members(Lines[loopOf[c]])
BY DEF Coming, Removal, Going, In, Home

LEMMA MarksAtNext ==
  ASSUME NEW c \in Conns
  PROVE  /\ Coming(Lines, c)' <=> <<"connectEstablished", c>> \in Members(Lines'[loopOf'[c]])
         /\ Removal(Lines, c)' <=> <<"removeConnectionInLoop", c>> \in Members(Lines'[0])
         /\ Going(Lines, c)' <=> <<"connectDestroyed", c>> \in Members(Lines'[loopOf'[c]])
BY DEF Coming, Removal, Going, In, Home

\* the phase of c is told by its state
LEMMA LifeIs ==
  ASSUME Lives(Lines), NEW c \in accepted
  PROVE  /\ state[c] = "kConnecting" \/ Coming(Lines, c) => Opening(Lines, c)
         /\ state[c] \in {"kConnected", "kDisconnecting"} \/ channel[c] = "reading" => Up(Lines, c)
         /\ Removal(Lines, c) \/ Going(Lines, c) => Closing(Lines, c)
BY DEF Lives, Life, Opening, Up, Closing, Down

LEMMA LineFacts ==
  ASSUME ServerTypes
  PROVE  /\ Lines \in [Loops -> Seq(Calls)] /\ 0 \in Loops /\ accepted \subseteq Conns
         /\ queue \in [Loops -> Seq(Calls)] /\ batch \in [IoLoops -> Seq(Calls)]
         /\ \A c \in Conns : loopOf[c] \in Loops
<1>1. queue \in [Loops -> Seq(Calls)] /\ batch \in [IoLoops -> Seq(Calls)]
      /\ \A c \in Conns : loopOf[c] \in Loops
  BY DEF ServerTypes
<1>2. Lines \in [Loops -> Seq(Calls)] /\ 0 \in Loops
  BY <1>1, LineTypes DEF Lines
<1>3. accepted \subseteq Conns
  BY ServerAssumption DEF ServerTypes, accepted, Conns
<1> QED
  BY <1>1, <1>2, <1>3

\* one connection d that a step leaves alone
LEMMA LifeKept ==
  ASSUME NEW d \in Conns, Life(Lines, d), loopOf[d] \in Loops, 0 \in Loops, loopOf'[d] = loopOf[d],
         state'[d] = state[d], channel'[d] = channel[d], d \in connections <=> d \in connections',
         SameMarks(Lines, Lines', d)
  PROVE  Life(Lines, d)'
<1>1. /\ Coming(Lines, d)' <=> Coming(Lines, d)
      /\ Removal(Lines, d)' <=> Removal(Lines, d)
      /\ Going(Lines, d)' <=> Going(Lines, d)
  <2>1. "connectEstablished" \in Marks /\ "removeConnectionInLoop" \in Marks /\ "connectDestroyed" \in Marks
    BY DEF Marks, Names
  <2> QED
    BY <2>1, MarksAt, MarksAtNext DEF SameMarks
<1>2. CASE Opening(Lines, d)
  BY <1>1, <1>2 DEF Life, Opening
<1>3. CASE Up(Lines, d)
  BY <1>1, <1>3 DEF Life, Up
<1>4. CASE Closing(Lines, d)
  BY <1>1, <1>4 DEF Life, Closing
<1>5. CASE Down(Lines, d)
  BY <1>1, <1>5 DEF Life, Down
<1> QED
  BY <1>2, <1>3, <1>4, <1>5 DEF Life

\* the steps in which one connection c changes
LEMMA AgreeSet ==
  ASSUME ServerTypes, Lives(Lines), NEW c \in Conns, NEW M, Lines' = M, Placed(M), OnceEach(M),
         loopOf' = loopOf, nextConnId' = nextConnId,
         \A d \in Conns \ {c} : /\ state'[d] = state[d] /\ channel'[d] = channel[d]
                                /\ d \in connections <=> d \in connections'
                                /\ SameMarks(Lines, M, d),
         c \in accepted => Life(Lines, c)'
  PROVE  Agree(Lines)'
<1>1. accepted' = accepted
  BY DEF accepted
<1>2. Placed(Lines)'
  BY <1>1 DEF Placed, Home
<1>3. OnceEach(Lines)'
  BY DEF OnceEach
<1>4. ASSUME NEW d \in accepted' PROVE Life(Lines, d)'
  <2>1. d \in accepted /\ d \in Conns /\ loopOf[d] \in Loops /\ 0 \in Loops
    BY <1>1, <1>4, LineFacts
  <2>2. CASE d = c
    BY <2>1, <2>2
  <2>3. CASE d # c
    <3>1. Life(Lines, d)
      BY <2>1 DEF Lives
    <3> QED
      BY <2>1, <2>3, <3>1, LifeKept
  <2> QED
    BY <2>2, <2>3
<1> QED
  BY <1>2, <1>3, <1>4 DEF Agree, Lives

\* g, of connection c, joins line k: what the other connections see
LEMMA AddedMarks ==
  ASSUME NEW L \in [Loops -> Seq(Calls)], NEW k \in Loops, NEW n \in Names, NEW c \in Conns
  PROVE  /\ \A d \in Conns \ {c} : SameMarks(L, Put(L, k, <<n, c>>), d)
         /\ <<n, c>> \in Members(Put(L, k, <<n, c>>)[k])
         /\ \A m \in Names, l \in Loops : m # n /\ <<m, c>> \notin Members(L[l]) =>
              <<m, c>> \notin Members(Put(L, k, <<n, c>>)[l])
<1> DEFINE g == <<n, c>>
           M == Put(L, k, g)
<1>1. g \in Calls /\ \A m \in Names, d \in Conns : <<m, d>> \in Calls
  BY DEF Calls
<1>2. \A m \in Names, d \in Conns : <<m, d>> = g <=> m = n /\ d = c
  OBVIOUS
<1> HIDE DEF g
<1>3. \A l \in Loops, x \in Calls : x \in Members(M[l]) <=> x \in Members(L[l]) \/ (l = k /\ x = g)
  BY ONLY Added, L \in [Loops -> Seq(Calls)], k \in Loops, <1>1
<1> HIDE DEF M
<1>4. \A m \in Names, d \in Conns, l \in Loops :
        <<m, d>> \in Members(M[l]) <=> <<m, d>> \in Members(L[l]) \/ (l = k /\ m = n /\ d = c)
  BY <1>1, <1>2, <1>3
<1>5. \A d \in Conns \ {c} : SameMarks(L, M, d)
  BY <1>4 DEF SameMarks, Marks
<1>6. g \in Members(M[k]) /\ \A m \in Names, l \in Loops :
        m # n /\ <<m, c>> \notin Members(L[l]) => <<m, c>> \notin Members(M[l])
  BY <1>1, <1>3, <1>4
<1> QED
  BY <1>5, <1>6 DEF M, g

\* two lines after one another
LEMMA MarksThrough ==
  ASSUME NEW L, NEW M, NEW N, NEW d, SameMarks(L, M, d), SameMarks(M, N, d)
  PROVE  SameMarks(L, N, d)
BY DEF SameMarks

\* handleClose of a connection that is up, when M is what waits
LEMMA CloseAgree ==
  ASSUME ServerTypes, Lives(Lines), server = "alive", crash = "none",
         NEW c \in accepted, Up(Lines, c),
         NEW q \in [Loops -> Seq(Calls)], NEW b \in [IoLoops -> Seq(Calls)],
         Placed(LinesOf(q, b)), OnceEach(LinesOf(q, b)),
         \A d \in Conns : SameMarks(Lines, LinesOf(q, b), d),
         handleClose(c, q), batch' = b, UNCHANGED serverRest
  PROVE  crash' = "none" /\ Agree(Lines)'
<1> DEFINE M == LinesOf(q, b)
<1>1. /\ M \in [Loops -> Seq(Calls)] /\ 0 \in Loops /\ c \in Conns /\ loopOf[c] \in Loops
      /\ "connectDestroyed" \in Names /\ "removeConnectionInLoop" \in Names
      /\ "connectEstablished" \in Names
      /\ "connectDestroyed" \in Marks /\ "removeConnectionInLoop" \in Marks /\ "connectEstablished" \in Marks
  BY LineTypes, LineFacts DEF Names, Marks
<1>2. /\ state'[c] = "kDisconnected" /\ channel'[c] = "kDeleted"
      /\ \A d \in Conns \ {c} : state'[d] = state[d] /\ channel'[d] = channel[d]
      /\ loopOf' = loopOf /\ nextConnId' = nextConnId /\ c \in connections
  BY <1>1, ConnTypes DEF handleClose, serverRest, Up
<1> HIDE DEF M
<1>3. /\ <<"connectEstablished", c>> \notin Members(M[loopOf[c]])
      /\ <<"removeConnectionInLoop", c>> \notin Members(M[0])
      /\ <<"connectDestroyed", c>> \notin Members(M[loopOf[c]])
  <2>1. SameMarks(Lines, M, c)
    BY <1>1 DEF M
  <2>2. ~Coming(Lines, c) /\ ~Removal(Lines, c) /\ ~Going(Lines, c)
    BY DEF Up
  <2> QED
    BY <1>1, <2>1, <2>2, MarksAt DEF SameMarks
<1>4. CASE loopOf[c] = 0
  <2> DEFINE g == <<"connectDestroyed", c>>
             N == Put(M, 0, g)
  <2>1. /\ connections' = connections \ {c} /\ queue' = Put(q, 0, g) /\ crash' = "none"
    BY <1>2, <1>4 DEF handleClose, removeConnection, removeConnectionInLoop
  <2>2. g \in Calls /\ g[1] = "connectDestroyed" /\ g[2] = c /\ Home(g) = 0
    BY <1>1, <1>4, CallIs DEF Home
  <2>3. /\ \A d \in Conns \ {c} : SameMarks(M, N, d)
        /\ <<"connectDestroyed", c>> \in Members(N[0])
        /\ <<"connectEstablished", c>> \notin Members(N[0])
        /\ <<"removeConnectionInLoop", c>> \notin Members(N[0])
    <3>1. /\ \A d \in Conns \ {c} : SameMarks(M, N, d)
          /\ <<"connectDestroyed", c>> \in Members(N[0])
          /\ \A m \in Names, l \in Loops :
               m # "connectDestroyed" /\ <<m, c>> \notin Members(M[l]) =>
                 <<m, c>> \notin Members(N[l])
      BY ONLY <1>1, AddedMarks
    <3> HIDE DEF N
    <3> QED
      BY <1>1, <1>3, <1>4, <3>1
  <2> HIDE DEF g
  <2>4. Lines' = N
    BY <1>1, <2>1, <2>2, LinesPut DEF Lines, M
  <2>5. Placed(N) /\ OnceEach(N)
    <3>1. /\ Placed(M) /\ OnceEach(M) /\ g \notin Members(M[0])
      BY <1>3, <1>4 DEF M, g
    <3> QED
      BY <1>1, <2>2, <3>1, OrderedAdded
  <2> HIDE DEF N
  <2>6. \A d \in Conns \ {c} : SameMarks(Lines, N, d)
    BY <2>3, MarksThrough DEF M
  <2>7. Life(Lines, c)'
    <3>1. ~Coming(Lines, c)' /\ ~Removal(Lines, c)' /\ Going(Lines, c)'
      BY <1>1, <1>2, <1>4, <2>3, <2>4, MarksAtNext
    <3> QED
      BY <1>2, <2>1, <3>1 DEF Life, Closing
  <2> QED
    BY <1>1, <1>2, <2>1, <2>4, <2>5, <2>6, <2>7, AgreeSet
<1>5. CASE loopOf[c] # 0
  <2> DEFINE g == <<"removeConnectionInLoop", c>>
             N == Put(M, 0, g)
  <2>1. connections' = connections /\ queue' = Put(q, 0, g) /\ crash' = "none"
    BY <1>5 DEF handleClose, removeConnection
  <2>2. g \in Calls /\ g[1] = "removeConnectionInLoop" /\ g[2] = c /\ Home(g) = 0
    BY <1>1, CallIs DEF Home
  <2>3. /\ \A d \in Conns \ {c} : SameMarks(M, N, d)
        /\ <<"removeConnectionInLoop", c>> \in Members(N[0])
        /\ <<"connectEstablished", c>> \notin Members(N[loopOf[c]])
        /\ <<"connectDestroyed", c>> \notin Members(N[loopOf[c]])
    <3>1. /\ \A d \in Conns \ {c} : SameMarks(M, N, d)
          /\ <<"removeConnectionInLoop", c>> \in Members(N[0])
          /\ \A m \in Names, l \in Loops :
               m # "removeConnectionInLoop" /\ <<m, c>> \notin Members(M[l]) =>
                 <<m, c>> \notin Members(N[l])
      BY ONLY <1>1, AddedMarks
    <3> HIDE DEF N
    <3> QED
      BY <1>1, <1>3, <1>5, <3>1
  <2> HIDE DEF g
  <2>4. Lines' = N
    BY <1>1, <2>1, <2>2, LinesPut DEF Lines, M
  <2>5. Placed(N) /\ OnceEach(N)
    <3>1. /\ Placed(M) /\ OnceEach(M) /\ g \notin Members(M[0])
      BY <1>3 DEF M, g
    <3> QED
      BY <1>1, <1>5, <2>2, <3>1, OrderedAdded
  <2> HIDE DEF N
  <2>6. \A d \in Conns \ {c} : SameMarks(Lines, N, d)
    BY <2>3, MarksThrough DEF M
  <2>7. Life(Lines, c)'
    <3>1. ~Coming(Lines, c)' /\ Removal(Lines, c)' /\ ~Going(Lines, c)'
      BY <1>1, <1>2, <2>3, <2>4, MarksAtNext
    <3> QED
      BY <1>2, <2>1, <3>1 DEF Life, Closing
  <2> QED
    BY <1>1, <1>2, <2>1, <2>4, <2>5, <2>6, <2>7, AgreeSet
<1> QED
  BY <1>4, <1>5

\* one functor, the first that waits for loop k
LEMMA RunAgree ==
  ASSUME ServerTypes, Agree(Lines), server = "alive", crash = "none",
         NEW k \in Loops, Lines[k] # <<>>, NEW f, f = Head(Lines[k]),
         NEW q \in [Loops -> Seq(Calls)], NEW b \in [IoLoops -> Seq(Calls)],
         LinesOf(q, b) = [Lines EXCEPT ![k] = Tail(@)],
         Run(f, q), batch' = b, UNCHANGED serverRest
  PROVE  crash' = "none" /\ Agree(Lines)'
<1> DEFINE M == LinesOf(q, b)
           c == f[2]
<1>1. Placed(Lines) /\ OnceEach(Lines) /\ Lives(Lines)
  BY DEF Agree
<1>2. /\ Lines \in [Loops -> Seq(Calls)] /\ 0 \in Loops /\ accepted \subseteq Conns
      /\ \A d \in Conns : loopOf[d] \in Loops
  BY LineFacts
<1>3. /\ M \in [Loops -> Seq(Calls)] /\ Placed(M) /\ OnceEach(M)
      /\ f \in Calls /\ f \in Members(Lines[k])
      /\ k = Home(f) /\ f[2] \in accepted
      /\ f[1] = "removeConnectionInLoop" => loopOf[f[2]] # 0
      /\ f[1] # "forceCloseInLoop" => f \notin Members(M[k])
      /\ \A l \in Loops, x \in Calls :
           x \in Members(Lines[l]) <=> x \in Members(M[l]) \/ (l = k /\ x = f)
  <2> DEFINE L == Lines
  <2>1. /\ L \in [Loops -> Seq(Calls)] /\ L[k] # <<>> /\ Placed(L) /\ OnceEach(L) /\ f = Head(L[k])
        /\ M = [L EXCEPT ![k] = Tail(@)]
    BY <1>1, <1>2
  <2> HIDE DEF L, M
  <2>2. /\ M \in [Loops -> Seq(Calls)] /\ Placed(M) /\ OnceEach(M)
        /\ f \in Calls /\ f \in Members(L[k])
        /\ k = Home(f) /\ f[2] \in accepted
        /\ f[1] = "removeConnectionInLoop" => loopOf[f[2]] # 0
        /\ f[1] # "forceCloseInLoop" => f \notin Members(M[k])
        /\ \A l \in Loops, x \in Calls :
             x \in Members(L[l]) <=> x \in Members(M[l]) \/ (l = k /\ x = f)
    BY ONLY <2>1, k \in Loops, OrderedTaken
  <2> QED
    BY <2>2 DEF L
<1>4. \A l \in Loops, x \in Calls :
        x \in Members(Lines[l]) <=> x \in Members(M[l]) \/ (l = k /\ x = f)
  BY <1>3
<1>5. \/ f[1] = "connectEstablished" /\ connectEstablished(c) /\ queue' = q /\ UNCHANGED connections
      \/ f[1] = "connectDestroyed" /\ connectDestroyed(c) /\ queue' = q /\ UNCHANGED connections
      \/ f[1] = "removeConnectionInLoop" /\ removeConnectionInLoop(c, q) /\ UNCHANGED connVars
      \/ /\ f[1] = "forceCloseInLoop" /\ state[c] \in {"kConnected", "kDisconnecting"}
         /\ handleClose(c, q)
      \/ f[1] = "forceCloseInLoop" /\ queue' = q /\ UNCHANGED <<connections, connVars, crash>>
  BY DEF Run
<1>6. c \in accepted /\ c \in Conns /\ f = <<f[1], c>> /\ f[1] \in Names /\ loopOf[c] \in Loops
  <2>1. f \in Calls /\ c \in accepted
    BY <1>3
  <2>2. f = <<f[1], c>> /\ f[1] \in Names
    BY ONLY <2>1 DEF Calls
  <2> QED
    BY ONLY <1>2, <2>1, <2>2
<1>7. /\ "connectDestroyed" \in Names /\ "removeConnectionInLoop" \in Names
      /\ "connectEstablished" \in Names
      /\ \A n \in Marks : n \in Names /\ n # "forceCloseInLoop"
      /\ \A n \in Names, d \in Conns : <<n, d>> \in Calls
  BY DEF Names, Marks, Calls
<1> HIDE DEF M, c
<1>8. \A d \in Conns \ {c} : SameMarks(Lines, M, d)
  BY <1>4, <1>6, <1>7 DEF SameMarks
<1>9. queue' = q => Lines' = M
  BY DEF Lines, M
<1>10. nextConnId' = nextConnId /\ server' = server
  BY DEF serverRest
<1>11. \A m \in Names, l \in Loops : m # f[1] =>
         (<<m, c>> \in Members(Lines[l]) <=> <<m, c>> \in Members(M[l]))
  BY <1>4, <1>6, <1>7
<1>12. CASE f[1] = "connectEstablished" /\ connectEstablished(c) /\ queue' = q /\ UNCHANGED connections
  <2>1. k = loopOf[c]
    BY <1>3, <1>12 DEF Home, c
  <2>2. <<"connectEstablished", c>> \in Members(Lines[loopOf[c]])
    BY <1>3, <1>6, <1>12, <2>1
  <2>3. Opening(Lines, c)
    BY <1>1, <1>6, <2>2, LifeIs, MarksAt
  <2>4. /\ state[c] = "kConnecting" /\ c \in connections /\ ~Removal(Lines, c) /\ ~Going(Lines, c)
    BY <2>3 DEF Opening
  <2>5. /\ state'[c] = "kConnected" /\ channel'[c] = "reading" /\ loopOf' = loopOf /\ crash' = "none"
        /\ \A d \in Conns \ {c} : state'[d] = state[d] /\ channel'[d] = channel[d]
    BY <1>6, <1>12, <2>4, ConnTypes DEF connectEstablished, Crash
  <2>6. /\ <<"connectEstablished", c>> \notin Members(M[loopOf[c]])
        /\ <<"removeConnectionInLoop", c>> \notin Members(M[0])
        /\ <<"connectDestroyed", c>> \notin Members(M[loopOf[c]])
    <3>1. f \notin Members(M[k])
      BY <1>3, <1>12
    <3> QED
      BY <1>2, <1>6, <1>7, <1>11, <1>12, <2>1, <2>4, <3>1, MarksAt
  <2>7. ~Coming(Lines, c)' /\ ~Removal(Lines, c)' /\ ~Going(Lines, c)'
    BY <1>6, <1>9, <1>12, <2>5, <2>6, MarksAtNext
  <2>8. Life(Lines, c)'
    BY <1>12, <2>4, <2>5, <2>7 DEF Life, Up
  <2> QED
    BY <1>1, <1>3, <1>6, <1>8, <1>9, <1>10, <1>12, <2>5, <2>8, AgreeSet
<1>13. CASE f[1] = "connectDestroyed" /\ connectDestroyed(c) /\ queue' = q /\ UNCHANGED connections
  <2>1. k = loopOf[c]
    BY <1>3, <1>13 DEF Home, c
  <2>2. <<"connectDestroyed", c>> \in Members(Lines[loopOf[c]])
    BY <1>3, <1>6, <1>13, <2>1
  <2>3. Closing(Lines, c) /\ Going(Lines, c)
    BY <1>1, <1>6, <2>2, LifeIs, MarksAt
  <2>4. /\ state[c] = "kDisconnected" /\ channel[c] = "kDeleted" /\ c \notin connections
        /\ ~Coming(Lines, c) /\ ~Removal(Lines, c)
    BY <2>3 DEF Closing
  <2>5. /\ state'[c] = "kDisconnected" /\ channel'[c] = "kNew" /\ loopOf' = loopOf /\ crash' = "none"
        /\ \A d \in Conns \ {c} : state'[d] = state[d] /\ channel'[d] = channel[d]
    BY <1>6, <1>13, <2>4, ConnTypes DEF connectDestroyed, Crash
  <2>6. /\ <<"connectEstablished", c>> \notin Members(M[loopOf[c]])
        /\ <<"removeConnectionInLoop", c>> \notin Members(M[0])
        /\ <<"connectDestroyed", c>> \notin Members(M[loopOf[c]])
    <3>1. f \notin Members(M[k])
      BY <1>3, <1>13
    <3> QED
      BY <1>2, <1>6, <1>7, <1>11, <1>13, <2>1, <2>4, <3>1, MarksAt
  <2>7. ~Coming(Lines, c)' /\ ~Removal(Lines, c)' /\ ~Going(Lines, c)'
    BY <1>6, <1>9, <1>13, <2>5, <2>6, MarksAtNext
  <2>8. Life(Lines, c)'
    BY <1>13, <2>4, <2>5, <2>7 DEF Life, Down
  <2> QED
    BY <1>1, <1>3, <1>6, <1>8, <1>9, <1>10, <1>13, <2>5, <2>8, AgreeSet
<1>14. CASE f[1] = "removeConnectionInLoop" /\ removeConnectionInLoop(c, q) /\ UNCHANGED connVars
  <2>1. k = 0
    BY <1>3, <1>14 DEF Home
  <2>2. <<"removeConnectionInLoop", c>> \in Members(Lines[0])
    BY <1>3, <1>6, <1>14, <2>1
  <2>3. Closing(Lines, c) /\ Removal(Lines, c)
    BY <1>1, <1>6, <2>2, LifeIs, MarksAt
  <2>4. /\ state[c] = "kDisconnected" /\ channel[c] = "kDeleted" /\ c \in connections
        /\ ~Coming(Lines, c) /\ ~Going(Lines, c)
    BY <2>3 DEF Closing
  <2>a. PICK j \in Loops : j = loopOf[c]
    BY <1>6
  <2> DEFINE g == <<"connectDestroyed", c>>
             N == Put(M, j, g)
  <2>5. connections' = connections \ {c} /\ crash' = "none" /\ queue' = Put(q, j, g)
    BY <1>14, <2>4, <2>a DEF removeConnectionInLoop
  <2>6. state' = state /\ channel' = channel /\ loopOf' = loopOf
    BY <1>14 DEF connVars
  <2>7. /\ <<"connectEstablished", c>> \notin Members(M[j])
        /\ <<"removeConnectionInLoop", c>> \notin Members(M[0])
        /\ <<"connectDestroyed", c>> \notin Members(M[j])
    <3>1. f \notin Members(M[k])
      BY <1>3, <1>14
    <3> QED
      BY <1>2, <1>6, <1>7, <1>11, <1>14, <2>1, <2>4, <2>a, <3>1, MarksAt
  <2>8. g \in Calls /\ g[1] = "connectDestroyed" /\ g[2] = c /\ Home(g) = j /\ j \in Loops
    BY <1>6, <1>7, <2>a, CallIs DEF Home
  <2>9. /\ \A d \in Conns \ {c} : SameMarks(M, N, d)
        /\ <<"connectDestroyed", c>> \in Members(N[j])
        /\ <<"connectEstablished", c>> \notin Members(N[j])
        /\ <<"removeConnectionInLoop", c>> \notin Members(N[0])
    <3>1. M \in [Loops -> Seq(Calls)] /\ c \in Conns /\ "connectDestroyed" \in Names /\ j \in Loops
      BY <1>3, <1>6, <1>7
    <3>2. /\ \A d \in Conns \ {c} : SameMarks(M, N, d)
          /\ <<"connectDestroyed", c>> \in Members(N[j])
          /\ \A m \in Names, l \in Loops :
               m # "connectDestroyed" /\ <<m, c>> \notin Members(M[l]) =>
                 <<m, c>> \notin Members(N[l])
      BY ONLY <3>1, AddedMarks
    <3> HIDE DEF N
    <3> QED
      BY <1>2, <1>7, <2>7, <2>8, <3>2
  <2> HIDE DEF g
  <2>10. Lines' = N
    <3>0. g \in Calls /\ j \in Loops /\ q \in [Loops -> Seq(Calls)] /\ b \in [IoLoops -> Seq(Calls)]
      BY <2>8
    <3>1. LinesOf(Put(q, j, g), b) = Put(LinesOf(q, b), j, g)
      BY ONLY <3>0, LinesPut
    <3> QED
      BY <2>5, <3>1 DEF Lines, M
  <2>11. Placed(N) /\ OnceEach(N)
    <3>1. g \notin Members(M[j]) /\ g[1] # "removeConnectionInLoop" /\ g[2] \in accepted
      BY <1>6, <2>7, <2>8 DEF g
    <3> QED
      BY <1>3, <2>8, <3>1, OrderedAdded
  <2> HIDE DEF N
  <2>12. \A d \in Conns \ {c} : SameMarks(Lines, N, d)
    BY <1>8, <2>9, MarksThrough
  <2>13. Life(Lines, c)'
    <3>1. ~Coming(Lines, c)' /\ ~Removal(Lines, c)' /\ Going(Lines, c)'
      BY <1>6, <2>6, <2>9, <2>10, <2>a, MarksAtNext
    <3> QED
      BY <2>4, <2>5, <2>6, <3>1 DEF Life, Closing
  <2> QED
    BY <1>1, <1>6, <1>10, <2>5, <2>6, <2>10, <2>11, <2>12, <2>13, AgreeSet
<1>15. CASE f[1] = "forceCloseInLoop"
  <2>1. \A d \in Conns : SameMarks(Lines, M, d)
    BY <1>4, <1>6, <1>7, <1>15 DEF SameMarks
  <2>2. CASE state[c] \in {"kConnected", "kDisconnecting"} /\ handleClose(c, q)
    <3>1. Up(Lines, c)
      BY <1>1, <1>6, <2>2, LifeIs
    <3> QED
      BY <1>1, <1>3, <1>6, <2>1, <2>2, <3>1, CloseAgree DEF M
  <2>3. CASE queue' = q /\ UNCHANGED <<connections, connVars, crash>>
    <3>1. state' = state /\ channel' = channel /\ loopOf' = loopOf /\ Lines' = M
          /\ connections' = connections /\ crash' = "none"
      BY <1>9, <2>3 DEF connVars
    <3>2. Life(Lines, c)'
      <4>1. Life(Lines, c)
        BY <1>1, <1>6 DEF Lives
      <4>2. SameMarks(Lines, Lines', c)
        BY <1>6, <2>1, <3>1
      <4> QED
        BY <1>2, <1>6, <3>1, <4>1, <4>2, LifeKept
    <3> QED
      BY <1>1, <1>3, <1>6, <1>10, <2>1, <3>1, <3>2, AgreeSet
  <2> QED
    BY <1>5, <1>15, <2>2, <2>3
<1> QED
  BY <1>5, <1>12, <1>13, <1>14, <1>15

LEMMA AgreeKept ==
  ASSUME Agree(Lines), Lines' = Lines, UNCHANGED <<connVars, connections, nextConnId>>
  PROVE  Agree(Lines)'
<1>1. accepted' = accepted /\ loopOf' = loopOf /\ state' = state /\ channel' = channel
      /\ connections' = connections
  BY DEF accepted, connVars
<1> QED
  BY <1>1 DEF Agree, Placed, OnceEach, Lives, Life, Opening, Up, Closing, Down, Coming, Removal, Going,
     In, Home

\* newConnection: nothing waits for the new connection but its connectEstablished
LEMMA NewAgree ==
  ASSUME ServerTypes, Agree(Lines), handleRead, newConnection
  PROVE  Agree(Lines)'
<1>1. PICK c \in Conns : /\ c = nextConnId /\ accepted' = accepted \cup {c} /\ c \notin accepted
                         /\ connections' = connections \cup {c}
  <2>1. nextConnId \in 1 .. MaxConns + 1 /\ arrived \in 0 .. MaxConns /\ MaxConns \in Nat
    BY ServerAssumption DEF ServerTypes
  <2>2. arrived >= nextConnId /\ nextConnId' = nextConnId + 1
        /\ connections' = connections \cup {nextConnId}
    BY DEF handleRead, newConnection
  <2> QED
    BY <2>1, <2>2 DEF Conns, accepted
<1>2. PICK k \in Loops : k = nextLoop
  BY ServerAssumption DEF nextLoop, ServerTypes, Loops
<1>3. /\ Lines \in [Loops -> Seq(Calls)] /\ 0 \in Loops /\ accepted \subseteq Conns
      /\ queue \in [Loops -> Seq(Calls)] /\ batch \in [IoLoops -> Seq(Calls)]
      /\ \A d \in Conns : loopOf[d] \in Loops
      /\ Placed(Lines) /\ OnceEach(Lines) /\ Lives(Lines)
  BY LineFacts DEF Agree
<1>4. /\ loopOf'[c] = k /\ \A d \in Conns \ {c} : loopOf'[d] = loopOf[d]
      /\ state'[c] = (IF k = 0 THEN "kConnected" ELSE "kConnecting")
      /\ channel'[c] = (IF k = 0 THEN "reading" ELSE "kNew")
      /\ \A d \in Conns \ {c} : state'[d] = state[d] /\ channel'[d] = channel[d]
      /\ queue' = IF k = 0 THEN queue ELSE Put(queue, k, <<"connectEstablished", c>>)
      /\ batch' = batch
  BY <1>1, <1>2, ConnTypes DEF newConnection, Establish, handleRead, loopVars, ServerTypes
<1>5. \A n \in Names, l \in Loops : <<n, c>> \notin Members(Lines[l])
  BY <1>1, <1>3 DEF Placed
<1> DEFINE g == <<"connectEstablished", c>>
<1>6. /\ g \in Calls /\ g[1] = "connectEstablished" /\ g[2] = c
      /\ "connectDestroyed" \in Names /\ "removeConnectionInLoop" \in Names
      /\ "connectEstablished" \in Names
  BY CallIs DEF Names
<1>7. /\ \A d \in Conns \ {c} : SameMarks(Lines, Lines', d)
      /\ k = 0 => Lines' = Lines
      /\ k # 0 => g \in Members(Lines'[k])
      /\ \A m \in Names, l \in Loops : m # "connectEstablished" => <<m, c>> \notin Members(Lines'[l])
      /\ \A l \in Loops : \A x \in Members(Lines'[l]) :
           x \in Members(Lines[l]) \/ (k # 0 /\ l = k /\ x = g)
      /\ \A l \in Loops, x \in Calls : Unique(Lines[l], x) => Unique(Lines'[l], x)
  <2>1. CASE k = 0
    <3>1. Lines' = Lines
      BY <1>4, <2>1 DEF Lines
    <3> QED
      BY <1>5, <2>1, <3>1 DEF SameMarks
  <2>2. CASE k # 0
    <3> DEFINE L == Lines
               M == Put(L, k, g)
    <3>1. Lines' = M
      <4>1. queue' = Put(queue, k, g) /\ batch' = batch
        BY <1>4, <2>2
      <4> HIDE DEF g
      <4>2. LinesOf(Put(queue, k, g), batch) = Put(LinesOf(queue, batch), k, g)
        BY ONLY <1>3, <1>6, k \in Loops, LinesPut
      <4> QED
        BY <4>1, <4>2 DEF Lines
    <3>2. L \in [Loops -> Seq(Calls)]
      BY <1>3
    <3> HIDE DEF L
    <3>3. /\ \A d \in Conns \ {c} : SameMarks(L, M, d)
          /\ g \in Members(M[k])
          /\ \A m \in Names, l \in Loops : m # "connectEstablished" /\ <<m, c>> \notin Members(L[l]) =>
               <<m, c>> \notin Members(M[l])
      BY ONLY <1>6, <3>2, k \in Loops, c \in Conns, AddedMarks
    <3> HIDE DEF g
    <3>4. /\ M \in [Loops -> Seq(Calls)]
          /\ \A l \in Loops, x \in Calls :
               /\ x \in Members(M[l]) <=> x \in Members(L[l]) \/ (l = k /\ x = g)
               /\ Unique(L[l], x) /\ (x = g => g \notin Members(L[k])) => Unique(M[l], x)
      BY ONLY <1>6, <3>2, k \in Loops, Added
    <3> HIDE DEF M
    <3>5. \A l \in Loops : \A x \in Members(M[l]) : x \in Calls
      <4> SUFFICES ASSUME NEW l \in Loops, NEW i \in DOMAIN M[l] PROVE M[l][i] \in Calls
        BY DEF Members
      <4>1. M[l] \in Seq(Calls)
        BY <3>4
      <4> QED
        BY <4>1, LenProperties, ElementOfSeq
    <3>6. g \notin Members(L[k])
      BY <1>5, <1>6 DEF g, L
    <3>7. /\ \A l \in Loops : \A x \in Members(M[l]) : x \in Members(L[l]) \/ (l = k /\ x = g)
          /\ \A l \in Loops, x \in Calls : Unique(L[l], x) => Unique(M[l], x)
      BY <3>4, <3>5, <3>6
    <3>8. \A m \in Names, l \in Loops : m # "connectEstablished" => <<m, c>> \notin Members(M[l])
      BY <1>5, <3>3 DEF L
    <3> QED
      BY <2>2, <3>1, <3>3, <3>7, <3>8 DEF L
  <2> QED
    BY <2>1, <2>2
<1>8. Placed(Lines)'
  <2> SUFFICES ASSUME NEW l \in Loops, NEW x \in Members(Lines'[l])
               PROVE  /\ l = Home(x)' /\ x[2] \in accepted'
                      /\ x[1] = "removeConnectionInLoop" => loopOf'[x[2]] # 0
    BY DEF Placed
  <2>1. CASE x \in Members(Lines[l])
    <3>1. /\ l = Home(x) /\ x[2] \in accepted
          /\ x[1] = "removeConnectionInLoop" => loopOf[x[2]] # 0
      BY <1>3, <2>1 DEF Placed
    <3>2. x[2] \in accepted' /\ x[2] \in Conns \ {c}
      BY <1>1, <1>3, <3>1
    <3>3. loopOf'[x[2]] = loopOf[x[2]]
      BY <1>4, <3>2
    <3> QED
      BY <3>1, <3>2, <3>3 DEF Home
  <2>2. CASE k # 0 /\ l = k /\ x = g
    BY <1>1, <1>4, <1>6, <2>2 DEF Home
  <2> QED
    BY <1>7, <2>1, <2>2
<1>9. OnceEach(Lines)'
  <2> SUFFICES ASSUME NEW l \in Loops, NEW x \in Calls, x[1] # "forceCloseInLoop"
               PROVE  Unique(Lines'[l], x)
    BY DEF OnceEach
  <2>1. Unique(Lines[l], x)
    BY <1>3 DEF OnceEach
  <2> QED
    BY <1>7, <2>1
<1>10. ASSUME NEW d \in accepted' PROVE Life(Lines, d)'
  <2>1. CASE d \in accepted
    <3>1. Life(Lines, d) /\ d \in Conns \ {c} /\ loopOf[d] \in Loops
      BY <1>1, <1>3, <2>1 DEF Lives
    <3> QED
      BY <1>1, <1>3, <1>4, <1>7, <3>1, LifeKept
  <2>2. Life(Lines, c)'
    <3>1. /\ Removal(Lines, c)' <=> <<"removeConnectionInLoop", c>> \in Members(Lines'[0])
          /\ Going(Lines, c)' <=> <<"connectDestroyed", c>> \in Members(Lines'[loopOf'[c]])
          /\ Coming(Lines, c)' <=> <<"connectEstablished", c>> \in Members(Lines'[loopOf'[c]])
      BY MarksAtNext
    <3>2. ~Removal(Lines, c)' /\ ~Going(Lines, c)'
      BY <1>3, <1>4, <1>6, <1>7, <3>1
    <3>3. CASE k = 0
      <4>1. ~Coming(Lines, c)'
        BY <1>3, <1>4, <1>5, <1>6, <1>7, <3>1, <3>3
      <4> QED
        BY <1>1, <1>4, <3>2, <3>3, <4>1 DEF Life, Up
    <3>4. CASE k # 0
      <4>1. Coming(Lines, c)'
        BY <1>4, <1>7, <3>1, <3>4
      <4> QED
        BY <1>1, <1>4, <3>2, <3>4, <4>1 DEF Life, Opening
    <3> QED
      BY <3>3, <3>4
  <2> QED
    BY <1>1, <1>10, <2>1, <2>2
<1> QED
  BY <1>8, <1>9, <1>10 DEF Agree, Lives

LEMMA AgreeStep == ServerTypes /\ AgreeInv /\ [Next]_vars => AgreeInv'
<1> SUFFICES ASSUME ServerTypes, AgreeInv, [Next]_vars, server' = "alive"
             PROVE  crash' \in {"none", "accept: EMFILE"} /\ Agree(Lines)'
  BY DEF AgreeInv
<1> DEFINE Goal == crash' \in {"none", "accept: EMFILE"} /\ Agree(Lines)'
<1>0. server = "alive" => crash \in {"none", "accept: EMFILE"} /\ Agree(Lines)
  BY DEF AgreeInv
<1>f. /\ Lines \in [Loops -> Seq(Calls)] /\ 0 \in Loops /\ accepted \subseteq Conns
      /\ queue \in [Loops -> Seq(Calls)] /\ batch \in [IoLoops -> Seq(Calls)]
      /\ \A c \in Conns : loopOf[c] \in Loops
  BY LineFacts
<1>k. ASSUME server = "alive", UNCHANGED <<connVars, connections, nextConnId, queue, batch, crash>>
      PROVE  Goal
  <2>1. Lines' = Lines
    BY <1>k DEF Lines
  <2> QED
    BY <1>0, <1>k, <2>1, AgreeKept
<1>1. ASSUME NEW n \in 0 .. MaxThreads, setThreadNum(n) PROVE Goal
  BY <1>1, <1>k DEF setThreadNum, loopVars
<1>2. CASE start
  BY <1>2, <1>k DEF start
<1>3. CASE handleRead
  <2>1. server = "alive" /\ crash = "none"
    BY <1>3 DEF handleRead, Alive, Running
  <2>2. CASE crash' = "accept: EMFILE" /\ UNCHANGED <<next, nextConnId, connections, connVars, queue>>
    <3>1. Lines' = Lines
      BY <1>3, <2>2 DEF handleRead, loopVars, Lines
    <3> QED
      BY <1>0, <2>1, <2>2, <3>1, AgreeKept
  <2>3. CASE newConnection /\ UNCHANGED crash
    BY <1>0, <1>3, <2>1, <2>3, NewAgree
  <2> QED
    BY <1>3, <2>2, <2>3 DEF handleRead
<1>4. CASE BaseFunctor
  <2> DEFINE q == [queue EXCEPT ![0] = Tail(@)]
  <2>1. /\ Run(Head(queue[0]), q) /\ crash = "none" /\ queue[0] # <<>> /\ batch' = batch
        /\ UNCHANGED serverRest /\ server = "alive"
    BY <1>4 DEF BaseFunctor, Running, loopVars, serverRest
  <2>2. Tail(queue[0]) \in Seq(Calls)
    BY <1>f, <2>1, HeadCall
  <2>3. q \in [Loops -> Seq(Calls)]
    BY <1>f, <2>2
  <2>4. LinesOf(q, batch) = [Lines EXCEPT ![0] = Tail(@)]
    BY <1>f, <2>1, LinesPopQueue DEF Lines
  <2>5. Lines[0] = queue[0]
    BY <1>f, LineTypes DEF Lines
  <2> HIDE DEF q
  <2>6. Agree(Lines)
    BY <1>0, <2>1
  <2>7. crash' = "none" /\ Agree(Lines)'
    BY <1>f, <2>1, <2>3, <2>4, <2>5, <2>6, RunAgree
  <2> QED
    BY <2>7
<1>5. ASSUME NEW l \in IoLoops, IoFunctor(l) PROVE Goal
  <2> DEFINE b == [batch EXCEPT ![l] = Tail(@)]
  <2>1. /\ Run(Head(batch[l]), queue) /\ crash = "none" /\ batch[l] # <<>> /\ batch' = b
        /\ UNCHANGED serverRest /\ server = "alive"
    BY <1>5 DEF IoFunctor, Running, serverRest
  <2>2. Tail(batch[l]) \in Seq(Calls) /\ l \in Loops
    BY <1>f, <2>1, HeadCall, LineTypes
  <2>3. b \in [IoLoops -> Seq(Calls)]
    BY <1>f, <2>2
  <2>4. /\ LinesOf(queue, b) = [Lines EXCEPT ![l] = Tail(@)]
        /\ Lines[l] # <<>> /\ Head(Lines[l]) = Head(batch[l])
    <3>1. queue \in [Loops -> Seq(Calls)] /\ batch \in [IoLoops -> Seq(Calls)] /\ batch[l] # <<>>
      BY <1>f, <2>1
    <3>2. LinesOf(queue, batch)[l] # <<>> /\ Head(LinesOf(queue, batch)[l]) = Head(batch[l])
      BY <3>1, LinesHeadBatch
    <3>3. LinesOf(queue, b) = [LinesOf(queue, batch) EXCEPT ![l] = Tail(@)]
      <4>1. LinesOf(queue, Pop(batch, l)) = Pop(LinesOf(queue, batch), l)
        BY <3>1, LinesPopBatch
      <4> QED
        BY <4>1 DEF Pop
    <3> QED
      BY <3>2, <3>3 DEF Lines
  <2> HIDE DEF b
  <2>5. Agree(Lines)
    BY <1>0, <2>1
  <2>6. crash' = "none" /\ Agree(Lines)'
    BY <1>f, <2>1, <2>2, <2>3, <2>4, <2>5, RunAgree
  <2> QED
    BY <2>6
<1>6. ASSUME NEW l \in IoLoops, Enter(l) PROVE Goal
  BY <1>6, <1>k DEF Enter, serverVars
<1>7. ASSUME NEW l \in IoLoops, Swap(l) PROVE Goal
  <2>1. /\ batch' = [batch EXCEPT ![l] = queue[l]] /\ queue' = [queue EXCEPT ![l] = <<>>]
        /\ place[l] = "poll" /\ UNCHANGED <<connVars, connections, nextConnId, server, crash>>
    BY <1>7 DEF Swap, serverVars
  <2>2. batch[l] = <<>>
    BY <2>1 DEF ServerTypes
  <2>3. Lines' = Lines
    BY <1>f, <2>1, <2>2, LinesSwap DEF Lines
  <2> QED
    BY <1>0, <2>1, <2>3, AgreeKept
<1>8. ASSUME NEW l \in IoLoops, Again(l) PROVE Goal
  BY <1>8, <1>k DEF Again, serverVars
<1>9. ASSUME NEW l \in IoLoops, Exit(l) PROVE Goal
  BY <1>9 DEF Exit, serverVars, ServerTypes
<1>10. ASSUME NEW c \in Conns, HandleRead(c) PROVE Goal
  <2>1. /\ channel[c] = "reading" /\ handleClose(c, queue) /\ crash = "none"
        /\ UNCHANGED serverRest /\ batch' = batch /\ server = "alive"
    BY <1>10 DEF HandleRead, Handling, Running, loopVars, serverRest
  <2>2. c \in accepted
    BY <2>1 DEF ServerTypes
  <2>3. Placed(Lines) /\ OnceEach(Lines) /\ Lives(Lines)
    BY <1>0, <2>1 DEF Agree
  <2>4. Up(Lines, c)
    BY <2>1, <2>2, <2>3, LifeIs
  <2>5. \A d \in Conns : SameMarks(Lines, LinesOf(queue, batch), d)
    BY DEF SameMarks, Lines
  <2>6. Placed(LinesOf(queue, batch)) /\ OnceEach(LinesOf(queue, batch))
    BY <2>3 DEF Lines
  <2> QED
    BY <1>f, <2>1, <2>2, <2>3, <2>4, <2>5, <2>6, CloseAgree
<1>11. ASSUME NEW c \in Conns, shutdown(c) \/ forceClose(c) PROVE Goal
  <2>1. /\ state[c] \in {"kConnected", "kDisconnecting"} /\ crash = "none"
        /\ state' = [state EXCEPT ![c] = "kDisconnecting"]
        /\ UNCHANGED <<serverVars, clientVars, loopOf, channel, loopVars, crash>>
        /\ queue' = queue \/ queue' = Put(queue, loopOf[c], <<"forceCloseInLoop", c>>)
    BY <1>11 DEF shutdown, forceClose, InCallback, Running
  <2>2. /\ server = "alive" /\ connections' = connections /\ nextConnId' = nextConnId
        /\ loopOf' = loopOf /\ batch' = batch /\ channel' = channel
        /\ state'[c] = "kDisconnecting" /\ \A d \in Conns \ {c} : state'[d] = state[d]
    BY <2>1, ConnTypes DEF serverVars, loopVars
  <2>3. c \in accepted
    BY <2>1 DEF ServerTypes
  <2>4. Placed(Lines) /\ OnceEach(Lines) /\ Lives(Lines)
    BY <1>0, <2>2 DEF Agree
  <2>5. /\ Up(Lines, c) /\ channel[c] = "reading" /\ c \in connections
        /\ ~Coming(Lines, c) /\ ~Removal(Lines, c) /\ ~Going(Lines, c)
    BY <2>1, <2>3, <2>4, LifeIs DEF Up
  <2>6. CASE queue' = queue
    <3>1. Lines' = Lines
      BY <2>2, <2>6 DEF Lines
    <3>2. ~Coming(Lines, c)' /\ ~Removal(Lines, c)' /\ ~Going(Lines, c)'
      BY <2>2, <2>5, <3>1, MarksAt, MarksAtNext
    <3>3. Life(Lines, c)'
      BY <2>2, <2>5, <3>2 DEF Life, Up
    <3>4. \A d \in Conns : SameMarks(Lines, Lines, d)
      BY DEF SameMarks
    <3>5. Agree(Lines)'
      BY <2>2, <2>4, <3>1, <3>3, <3>4, AgreeSet
    <3> QED
      BY <2>1, <3>5
  <2>7. CASE queue' = Put(queue, loopOf[c], <<"forceCloseInLoop", c>>)
    <3>1. PICK j \in Loops : j = loopOf[c]
      BY <1>f
    <3> DEFINE g == <<"forceCloseInLoop", c>>
               L == Lines
               N == Put(L, j, g)
    <3>2. /\ g \in Calls /\ g[1] = "forceCloseInLoop" /\ g[2] = c /\ Home(g) = j
          /\ "forceCloseInLoop" \in Names /\ "connectDestroyed" \in Names
          /\ "removeConnectionInLoop" \in Names /\ "connectEstablished" \in Names
          /\ L \in [Loops -> Seq(Calls)] /\ Placed(L) /\ OnceEach(L)
      BY <1>f, <2>4, <3>1, CallIs, ConnTypes DEF Home
    <3>3. Lines' = N
      <4> HIDE DEF g
      <4>1. LinesOf(Put(queue, j, g), batch) = Put(LinesOf(queue, batch), j, g)
        BY ONLY <1>f, <3>2, j \in Loops, LinesPut
      <4> QED
        BY <2>2, <2>7, <3>1, <4>1 DEF Lines, g
    <3> HIDE DEF L
    <3>4. /\ \A d \in Conns \ {c} : SameMarks(L, N, d)
          /\ \A m \in Names, l \in Loops : m # "forceCloseInLoop" /\ <<m, c>> \notin Members(L[l]) =>
               <<m, c>> \notin Members(N[l])
      BY ONLY <3>2, j \in Loops, c \in Conns, AddedMarks
    <3> HIDE DEF g
    <3>5. Placed(N) /\ OnceEach(N)
      BY <2>3, <3>2, OrderedAdded
    <3> HIDE DEF N
    <3>6. ~Coming(Lines, c)' /\ ~Removal(Lines, c)' /\ ~Going(Lines, c)'
      BY <1>f, <2>2, <2>5, <3>1, <3>2, <3>3, <3>4, MarksAt, MarksAtNext DEF L
    <3>7. Life(Lines, c)'
      BY <2>2, <2>5, <3>6 DEF Life, Up
    <3>8. \A d \in Conns \ {c} : SameMarks(Lines, N, d)
      BY <3>4 DEF L
    <3>9. Agree(Lines)'
      BY <2>2, <2>4, <3>3, <3>5, <3>7, <3>8, AgreeSet
    <3> QED
      BY <2>1, <3>9
  <2> QED
    BY <2>1, <2>6, <2>7
<1>12. CASE Destroy
  BY <1>12 DEF Destroy
<1>13. ASSUME NEW c \in Conns, DestroyConnection(c) PROVE Goal
  BY <1>13 DEF DestroyConnection, serverRest
<1>14. CASE NextVictim
  BY <1>14 DEF NextVictim
<1>15. CASE QuitVictim
  BY <1>15 DEF QuitVictim
<1>16. CASE ClientConnects
  BY <1>16, <1>k DEF ClientConnects, serverVars, loopVars
<1>17. ASSUME NEW c \in Conns, ClientCloses(c) PROVE Goal
  BY <1>17, <1>k DEF ClientCloses, serverVars, loopVars
<1>18. CASE UNCHANGED vars
  BY <1>18, <1>k DEF vars, serverVars, loopVars
<1> QED
  BY <1>1, <1>2, <1>3, <1>4, <1>5, <1>6, <1>7, <1>8, <1>9, <1>10, <1>11, <1>12, <1>13, <1>14,
     <1>15, <1>16, <1>17, <1>18 DEF Next, IoLoop

LEMMA AgreeInit == Init => AgreeInv
<1> SUFFICES ASSUME Init PROVE crash \in {"none", "accept: EMFILE"} /\ Agree(Lines)
  BY DEF AgreeInv
<1>1. accepted = {}
  BY DEF Init, accepted
<1>2. \A l \in Loops : Lines[l] = <<>>
  <2>1. queue \in [Loops -> Seq(Calls)] /\ batch \in [IoLoops -> Seq(Calls)]
    BY DEF Init
  <2>2. /\ Lines[0] = queue[0] /\ \A l \in Loops : l = 0 \/ l \in IoLoops
        /\ \A l \in IoLoops : l \in Loops /\ Lines[l] = batch[l] \o queue[l]
        /\ 0 \in Loops
    BY <2>1, LineTypes DEF Lines
  <2>3. \A l \in IoLoops : batch[l] = <<>>
    BY DEF Init
  <2>4. \A l \in Loops : queue[l] = <<>>
    BY DEF Init
  <2>5. <<>> \o <<>> = <<>>
    <3>1. <<>> \in Seq(Calls)
      OBVIOUS
    <3> QED
      BY <3>1, ConcatEmptySeq
  <2> QED
    BY <2>2, <2>3, <2>4, <2>5
<1>3. \A l \in Loops : Members(Lines[l]) = {}
  BY <1>2 DEF Members
<1>4. \A l \in Loops, f \in Calls : Unique(Lines[l], f)
  BY <1>2 DEF Unique
<1> QED
  BY <1>1, <1>3, <1>4 DEF Init, Agree, Placed, OnceEach, Lives

LEMMA CountUnique ==
  ASSUME NEW s \in Seq(Calls), NEW f, Unique(s, f)
  PROVE  Occurrences(s, f) = IF f \in Members(s) THEN 1 ELSE 0
<1> DEFINE I == {i \in DOMAIN s : s[i] = f}
<1>1. CASE f \in Members(s)
  <2>1. PICK i \in DOMAIN s : s[i] = f
    BY <1>1 DEF Members
  <2>2. I = {i}
    BY <2>1 DEF Unique
  <2> QED
    BY <1>1, <2>2, FS_Singleton DEF Occurrences
<1>2. CASE f \notin Members(s)
  <2>1. I = {}
    BY <1>2 DEF Members
  <2> QED
    BY <1>2, <2>1, FS_EmptySet DEF Occurrences
<1> QED
  BY <1>1, <1>2

\* what waits once in a line waits once, in the vector or in the queue
LEMMA SplitUnique ==
  ASSUME NEW s \in Seq(Calls), NEW t \in Seq(Calls), NEW f, Unique(s \o t, f)
  PROVE  /\ Unique(s, f) /\ Unique(t, f) /\ ~(f \in Members(s) /\ f \in Members(t))
         /\ f \in Members(s \o t) <=> f \in Members(s) \/ f \in Members(t)
<1> DEFINE m == Len(s)
           n == Len(t)
           u == s \o t
<1>1. /\ m \in Nat /\ n \in Nat /\ DOMAIN s = 1 .. m /\ DOMAIN t = 1 .. n /\ DOMAIN u = 1 .. m + n
      /\ \A i \in 1 .. m + n : u[i] = IF i <= m THEN s[i] ELSE t[i - m]
  BY LenProperties, ConcatProperties
<1> HIDE DEF m, n, u
<1>2. \A i \in DOMAIN s : i \in DOMAIN u /\ u[i] = s[i] /\ i <= m
  BY <1>1
<1>3. \A i \in DOMAIN t : i + m \in DOMAIN u /\ u[i + m] = t[i] /\ ~(i + m <= m)
  <2> SUFFICES ASSUME NEW i \in DOMAIN t
               PROVE  i + m \in DOMAIN u /\ u[i + m] = t[i] /\ ~(i + m <= m)
    OBVIOUS
  <2>1. i + m \in 1 .. m + n /\ ~(i + m <= m) /\ (i + m) - m = i
    BY <1>1
  <2> QED
    BY <1>1, <2>1
<1>4. \A i \in DOMAIN u : \/ i \in DOMAIN s /\ u[i] = s[i]
                          \/ i - m \in DOMAIN t /\ u[i] = t[i - m]
  BY <1>1
<1>5. \A i, j \in DOMAIN u : u[i] = f /\ u[j] = f => i = j
  BY DEF Unique, u
<1>6. Unique(s, f)
  BY <1>2, <1>5 DEF Unique
<1>7. Unique(t, f)
  <2> SUFFICES ASSUME NEW i \in DOMAIN t, NEW j \in DOMAIN t, t[i] = f, t[j] = f PROVE i = j
    BY DEF Unique
  <2>1. i + m = j + m
    BY <1>3, <1>5
  <2> QED
    BY <1>1, <2>1
<1>8. ~(f \in Members(s) /\ f \in Members(t))
  <2> SUFFICES ASSUME NEW i \in DOMAIN s, NEW j \in DOMAIN t, s[i] = f, t[j] = f PROVE FALSE
    BY DEF Members
  <2>1. i = j + m
    BY <1>2, <1>3, <1>5
  <2> QED
    BY <1>2, <1>3, <2>1
<1>9. f \in Members(u) => f \in Members(s) \/ f \in Members(t)
  BY <1>4 DEF Members
<1>10. f \in Members(s) \/ f \in Members(t) => f \in Members(u)
  BY <1>2, <1>3 DEF Members
<1> QED
  BY <1>6, <1>7, <1>8, <1>9, <1>10 DEF u

\* Waiting counts a functor that drives the life of a connection at most once
LEMMA WaitingIs ==
  ASSUME ServerTypes, OnceEach(Lines), NEW l \in Loops, NEW n \in Marks, NEW c \in Conns
  PROVE  Waiting(l, n, c) = IF <<n, c>> \in Members(Lines[l]) THEN 1 ELSE 0
<1> DEFINE f == <<n, c>>
<1>1. f \in Calls /\ f[1] # "forceCloseInLoop"
  BY DEF Calls, Marks
<1> HIDE DEF f
<1>2. Unique(Lines[l], f)
  BY <1>1 DEF OnceEach
<1>3. /\ queue \in [Loops -> Seq(Calls)] /\ batch \in [IoLoops -> Seq(Calls)]
  BY LineFacts
<1>4. /\ Lines[0] = queue[0] /\ (l = 0 \/ l \in IoLoops)
      /\ l \in IoLoops => Lines[l] = batch[l] \o queue[l]
  BY <1>3, LineTypes DEF Lines
<1>5. CASE l = 0
  <2>1. Occurrences(queue[0], f) = IF f \in Members(Lines[0]) THEN 1 ELSE 0
    BY <1>2, <1>3, <1>4, <1>5, CountUnique
  <2>2. Waiting(0, n, c) = Occurrences(queue[0], f) + 0
    BY DEF Waiting, f
  <2> QED
    BY <1>5, <2>1, <2>2 DEF f
<1>6. CASE l # 0
  <2>1. batch[l] \in Seq(Calls) /\ queue[l] \in Seq(Calls) /\ Lines[l] = batch[l] \o queue[l]
    BY <1>3, <1>4, <1>6
  <2>2. /\ Unique(batch[l], f) /\ Unique(queue[l], f)
        /\ ~(f \in Members(batch[l]) /\ f \in Members(queue[l]))
        /\ f \in Members(Lines[l]) <=> f \in Members(batch[l]) \/ f \in Members(queue[l])
    BY <1>2, <2>1, SplitUnique
  <2>3. /\ Occurrences(queue[l], f) = IF f \in Members(queue[l]) THEN 1 ELSE 0
        /\ Occurrences(batch[l], f) = IF f \in Members(batch[l]) THEN 1 ELSE 0
    BY <2>1, <2>2, CountUnique
  <2>4. Waiting(l, n, c) = Occurrences(queue[l], f) + Occurrences(batch[l], f)
    BY <1>6 DEF Waiting, f
  <2>5. Waiting(l, n, c) = IF f \in Members(Lines[l]) THEN 1 ELSE 0
    BY <2>2, <2>3, <2>4
  <2> QED
    BY <2>5 DEF f
<1> QED
  BY <1>5, <1>6

\* Whatever the number of loops and of clients and however their steps interleave, until
\* ~TcpServer starts: an accepted connection is waiting to be established, open,
\* closed with one removal waiting in the base loop, removed with one
\* connectDestroyed waiting in its own loop, or gone, and connections_, state_ and
\* the channel say the same of it; no assert on this path fails.
THEOREM ConnectionsAgreeCorrect == Spec => []ConnectionsAgree
<1>1. ServerTypes /\ AgreeInv => ConnectionsAgree
  <2> SUFFICES ASSUME ServerTypes, AgreeInv, server = "alive", NEW c \in accepted
               PROVE  LET l == loopOf[c]
                          coming == Waiting(l, "connectEstablished", c)
                          removal == Waiting(0, "removeConnectionInLoop", c)
                          going == Waiting(l, "connectDestroyed", c)
                      IN  /\ state[c] = "kConnecting" <=> coming = 1
                          /\ coming <= 1 /\ removal <= 1 /\ going <= 1
                          /\ c \in connections <=> state[c] # "kDisconnected" \/ removal = 1
                          /\ removal = 1 \/ going = 1 <=> channel[c] = "kDeleted"
                          /\ removal + going <= 1
    BY DEF ConnectionsAgree, AgreeInv, ServerTypes
  <2>1. OnceEach(Lines) /\ Life(Lines, c)
    BY DEF AgreeInv, Agree, Lives
  <2>2. c \in Conns /\ loopOf[c] \in Loops /\ 0 \in Loops
        /\ "connectEstablished" \in Marks /\ "removeConnectionInLoop" \in Marks
        /\ "connectDestroyed" \in Marks
    BY LineFacts DEF Marks, Names
  <2> DEFINE coming == Waiting(loopOf[c], "connectEstablished", c)
             removal == Waiting(0, "removeConnectionInLoop", c)
             going == Waiting(loopOf[c], "connectDestroyed", c)
  <2>3. /\ coming = IF Coming(Lines, c) THEN 1 ELSE 0
        /\ removal = IF Removal(Lines, c) THEN 1 ELSE 0
        /\ going = IF Going(Lines, c) THEN 1 ELSE 0
    BY <2>1, <2>2, WaitingIs, MarksAt
  <2>4. ~(Removal(Lines, c) /\ Going(Lines, c))
    BY <2>1 DEF Life, Opening, Up, Closing, Down
  <2>5. /\ state[c] = "kConnecting" <=> Coming(Lines, c)
        /\ c \in connections <=> state[c] # "kDisconnected" \/ Removal(Lines, c)
        /\ Removal(Lines, c) \/ Going(Lines, c) <=> channel[c] = "kDeleted"
    BY <2>1 DEF Life, Opening, Up, Closing, Down
  <2> HIDE DEF coming, removal, going
  <2>6. /\ coming \in {0, 1} /\ removal \in {0, 1} /\ going \in {0, 1}
        /\ coming = 1 <=> Coming(Lines, c)
        /\ removal = 1 <=> Removal(Lines, c)
        /\ going = 1 <=> Going(Lines, c)
    BY <2>3
  <2>7. coming <= 1 /\ removal <= 1 /\ going <= 1 /\ removal + going <= 1
    BY <2>4, <2>6
  <2>8. /\ state[c] = "kConnecting" <=> coming = 1
        /\ c \in connections <=> state[c] # "kDisconnected" \/ removal = 1
        /\ removal = 1 \/ going = 1 <=> channel[c] = "kDeleted"
    BY <2>5, <2>6
  <2> QED
    BY <2>7, <2>8 DEF coming, removal, going
<1> QED
  BY <1>1, TypesInit, TypesStep, AgreeInit, AgreeStep, PTL DEF Spec
==============================================================================
