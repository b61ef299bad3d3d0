------------------------------ MODULE TcpServer ------------------------------
(***************************************************************************)
(* TcpServer with its Acceptor and its EventLoopThreadPool                 *)
(* (starry/net/src/tcp_server.cpp, acceptor.cpp, eventloop_threadpool.cpp):*)
(* connections are accepted on the base loop, spread over the io loops,    *)
(* closed there, removed from connections_ on the base loop and destroyed  *)
(* on their own loop, while the server may be destructed.                  *)
(*                                                                         *)
(* Loop 0 is the base loop, 1 .. MaxThreads are the loops of the pool.  A  *)
(* loop is a FIFO queue of functors, which EventLoop.tla shows it to be;   *)
(* an io loop also has the vector swapped out by doPendingFunctors, for    *)
(* what is in it still runs after quit().  A connection is its state_, its *)
(* channel and whether the peer has closed; TcpConnection.tla has the      *)
(* rest.  A functor is <<member function, connection>>.  A failed assert   *)
(* and LOG_FATAL set crash and end the behaviour.                          *)
(***************************************************************************)
EXTENDS Integers, Sequences, FiniteSets

CONSTANTS
  MaxThreads,   \* bound on the threads of the pool
  MaxConns,     \* bound on the clients
  MaxFds        \* file descriptors left for connections

ASSUME ServerAssumption ==
  MaxThreads \in Nat /\ MaxConns \in Nat /\ MaxFds \in Nat \ {0}

Conns == 1 .. MaxConns
IoLoops == 1 .. MaxThreads
Loops == 0 .. MaxThreads

VARIABLES
  started,      \* started_
  numThreads,   \* numThreads_ of the pool
  loops,        \* loops_.size()
  next,         \* next_
  nextConnId,   \* nextConnId_
  connections,  \* connections_
  server,       \* "alive", or where ~TcpServer is, see ServerPCs
  victim,       \* the EventLoopThread that ~EventLoopThreadPool is at
  arrived,      \* clients that have connected to the listening socket
  peerClosed,   \* clients that have closed their end
  state,        \* state_ of each connection, "none" before it is accepted
  loopOf,       \* loop_ of each connection
  channel,      \* "kNew", "reading" (in epoll) or "kDeleted" (disabled)
  queue,        \* the functors waiting in each loop
  batch,        \* functors of doPendingFunctors in each io loop
  place,        \* where the thread of each io loop is, see Places
  quit,         \* quit_ of each io loop
  crash         \* what ended the process

serverVars == <<started, numThreads, loops, next, nextConnId, connections, server, victim>>
clientVars == <<arrived, peerClosed>>
connVars == <<state, loopOf, channel>>
loopVars == <<batch, place, quit>>
vars == <<serverVars, clientVars, connVars, loopVars, queue, crash>>

ServerPCs == {"alive",
              "closing",   \* in the for loop of ~TcpServer
              "quit",      \* ~EventLoopThread of victim, before loop_->quit()
              "join",      \* in its thread_.join()
              "gone"}      \* the destructor has returned

Places == {"none", "enter",   \* before loop()
           "poll",            \* in epoll_wait, or handling channels
           "run",             \* in doPendingFunctors, and then at while (!quit_)
           "exited"}          \* the EventLoop has been deleted

States == {"none", "kConnecting", "kConnected", "kDisconnecting", "kDisconnected"}

Members(s) == {s[i] : i \in DOMAIN s}
accepted == 1 .. nextConnId - 1

\* what holds a TcpConnectionPtr besides connections_
Functors ==
  (UNION {Members(queue[l]) : l \in Loops}) \cup (UNION {Members(batch[l]) : l \in IoLoops})

\* ~TcpConnection has run: the last TcpConnectionPtr is gone
Deleted(c) ==
  c \in accepted /\ c \notin connections /\ \A f \in Functors : f[2] # c

\* TcpServer::TcpServer, with the Acceptor and the pool it makes
Init ==
  /\ started = FALSE /\ numThreads = 0 /\ loops = 0 /\ next = 0
  /\ nextConnId = 1 /\ connections = {} /\ server = "alive" /\ victim = 0
  /\ arrived = 0 /\ peerClosed = {}
  /\ state = [c \in Conns |-> "none"]
  /\ loopOf = [c \in Conns |-> 0]
  /\ channel = [c \in Conns |-> "kNew"]
  /\ queue = [l \in Loops |-> <<>>]
  /\ batch = [l \in IoLoops |-> <<>>]
  /\ place = [l \in IoLoops |-> "none"]
  /\ quit = [l \in IoLoops |-> FALSE]
  /\ crash = "none"

------------------------------------------------------------------------------
(* What TcpConnection does on its own loop *)

\* queueInLoop of f on loop l, when q are the functors that wait
Put(q, l, f) == [q EXCEPT ![l] = Append(@, f)]

Crash(what) == crash' = what /\ UNCHANGED connVars

connectEstablished(c) ==
  \/ /\ state[c] # "kConnecting"
     /\ Crash("connectEstablished: state")
  \/ /\ state[c] = "kConnecting"
     /\ state' = [state EXCEPT ![c] = "kConnected"]
     /\ channel' = [channel EXCEPT ![c] = "reading"]
     /\ UNCHANGED <<loopOf, crash>>

\* connectDestroyed: a connection that is not kConnected must have been disabled by
\* handleClose before Channel::remove
connectDestroyed(c) ==
  \/ /\ channel[c] = "kNew" \/ (channel[c] = "reading" /\ state[c] # "kConnected")
     /\ Crash("Channel::remove: events or index")
  \/ /\ channel[c] = "kDeleted" \/ (channel[c] = "reading" /\ state[c] = "kConnected")
     /\ state' = [state EXCEPT ![c] = IF @ = "kConnected" THEN "kDisconnected" ELSE @]
     /\ channel' = [channel EXCEPT ![c] = "kNew"]
     /\ UNCHANGED <<loopOf, crash>>

------------------------------------------------------------------------------
(* TcpServer, on the base loop *)

Running == crash = "none"
Alive == Running /\ server = "alive"

\* setThreadNum; a call after start() would change nothing but numThreads_
setThreadNum(n) ==
  /\ Alive /\ ~started
  /\ numThreads' = n
  /\ UNCHANGED <<started, loops, next, nextConnId, connections, server, victim,
                 clientVars, connVars, loopVars, queue, crash>>

\* EventLoopThreadPool::start has returned when every startLoop has
StartPool ==
  /\ loops' = numThreads
  /\ place' = [l \in IoLoops |-> IF l <= numThreads THEN "enter" ELSE "none"]

\* start; Acceptor::listen runs at once, for the pool wants the base loop's thread
start ==
  /\ Alive /\ ~started
  /\ started' = TRUE
  /\ StartPool
  /\ UNCHANGED <<numThreads, next, nextConnId, connections, server, victim,
                 clientVars, connVars, batch, quit, queue, crash>>

\* listening_, and the acceptChannel_ is in epoll
listening == started

\* the loop that getNextLoop returns, and next_ after it
nextLoop == IF loops = 0 THEN 0 ELSE next + 1

\* Mutant: next_ is not incremented.
nextAfterSame == IF loops = 0 THEN next ELSE next % loops

nextAfter == IF loops = 0 THEN next ELSE (next + 1) % loops

\* sockets that are open
OpenSockets == {c \in accepted : ~Deleted(c)}

\* sockets::accept calls LOG_FATAL whenever accept4 fails, here for want of a file
\* descriptor, so that Acceptor never gets to giving up idleFd_
AcceptFails == Cardinality(OpenSockets) >= MaxFds

\* Mutant: runInLoop(connectEstablished) is forgotten for an io loop.
EstablishForgotten(c, l) ==
  /\ state' = [state EXCEPT ![c] = IF l = 0 THEN "kConnected" ELSE "kConnecting"]
  /\ channel' = [channel EXCEPT ![c] = IF l = 0 THEN "reading" ELSE "kNew"]
  /\ UNCHANGED queue

\* ioLoop->runInLoop(connectEstablished) for the new connection: at once on the base
\* loop, queued on another one
Establish(c, l) ==
  /\ state' = [state EXCEPT ![c] = IF l = 0 THEN "kConnected" ELSE "kConnecting"]
  /\ channel' = [channel EXCEPT ![c] = IF l = 0 THEN "reading" ELSE "kNew"]
  /\ queue' = IF l = 0 THEN queue ELSE Put(queue, l, <<"connectEstablished", c>>)

\* newConnection, the callback of the Acceptor
newConnection ==
  /\ nextConnId' = nextConnId + 1
  /\ connections' = connections \cup {nextConnId}
  /\ loopOf' = [loopOf EXCEPT ![nextConnId] = nextLoop]
  /\ next' = nextAfter
  /\ Establish(nextConnId, nextLoop)

\* Acceptor::handleRead
handleRead ==
  /\ Alive /\ listening
  /\ arrived >= nextConnId
  /\ \/ /\ AcceptFails
        /\ crash' = "accept: EMFILE"
        /\ UNCHANGED <<next, nextConnId, connections, connVars, queue>>
     \/ ~AcceptFails /\ newConnection /\ UNCHANGED crash
  /\ UNCHANGED <<started, numThreads, loops, server, victim, clientVars, loopVars>>

\* Mutant: the connection is erased and its connectDestroyed is forgotten.
removeConnectionForgets(c, q) ==
  /\ connections' = connections \ {c}
  /\ queue' = q
  /\ UNCHANGED crash

\* removeConnectionInLoop: erase, assert(n == 1), queueInLoop(connectDestroyed); q are
\* the functors that wait when it starts
removeConnectionInLoop(c, q) ==
  /\ connections' = connections \ {c}
  /\ crash' = CASE server = "gone" -> "TcpServer used after free"
               [] server # "gone" /\ c \notin connections -> "removeConnectionInLoop: n == 1"
               [] OTHER -> "none"
  /\ queue' = Put(q, loopOf[c], <<"connectDestroyed", c>>)

\* Mutant: removeConnection leaves the base loop alone and does its work on the loop
\* of the connection only when that is the base loop.
removeConnectionNever(c, q) ==
  \/ loopOf[c] = 0 /\ removeConnectionInLoop(c, q)
  \/ loopOf[c] # 0 /\ queue' = q /\ UNCHANGED <<connections, crash>>

\* removeConnection, called by handleClose on the loop of c: runInLoop on the base loop
removeConnection(c, q) ==
  \/ loopOf[c] = 0 /\ removeConnectionInLoop(c, q)
  \/ /\ loopOf[c] # 0
     /\ queue' = Put(q, 0, <<"removeConnectionInLoop", c>>)
     /\ UNCHANGED <<connections, crash>>

------------------------------------------------------------------------------
(* Events and calls on the loop of a connection *)

\* the base loop's thread is not in the destructor
BaseRuns == server \in {"alive", "gone"}

\* loop l handles channels
Handling(l) == Running /\ IF l = 0 THEN BaseRuns ELSE place[l] = "poll"

\* callbacks of the user are called by channels and by functors
InCallback(l) == Running /\ IF l = 0 THEN BaseRuns ELSE place[l] \in {"poll", "run"}

\* Mutant: handleClose leaves the channel enabled.
handleCloseEnabled(c, q) ==
  /\ state' = [state EXCEPT ![c] = "kDisconnected"]
  /\ removeConnection(c, q)
  /\ UNCHANGED <<loopOf, channel>>

\* handleClose: setState, disableAll, closeCallback_
handleClose(c, q) ==
  /\ state' = [state EXCEPT ![c] = "kDisconnected"]
  /\ channel' = [channel EXCEPT ![c] = "kDeleted"]
  /\ removeConnection(c, q)
  /\ UNCHANGED loopOf

\* rest of the server, and of the loops, which these steps leave alone
serverRest == <<started, numThreads, loops, next, nextConnId, server, victim>>

\* handleRead: the end of the stream
HandleRead(c) ==
  /\ Handling(loopOf[c])
  /\ c \in peerClosed /\ channel[c] = "reading"
  /\ handleClose(c, queue)
  /\ UNCHANGED <<serverRest, clientVars, loopVars>>

\* shutdown() in a callback
shutdown(c) ==
  /\ InCallback(loopOf[c])
  /\ state[c] = "kConnected"
  /\ state' = [state EXCEPT ![c] = "kDisconnecting"]
  /\ UNCHANGED <<serverVars, clientVars, loopOf, channel, loopVars, queue, crash>>

\* forceClose() in a callback; bound: one waits at a time
forceClose(c) ==
  /\ InCallback(loopOf[c])
  /\ state[c] \in {"kConnected", "kDisconnecting"}
  /\ <<"forceCloseInLoop", c>> \notin Functors
  /\ state' = [state EXCEPT ![c] = "kDisconnecting"]
  /\ queue' = Put(queue, loopOf[c], <<"forceCloseInLoop", c>>)
  /\ UNCHANGED <<serverVars, clientVars, loopOf, channel, loopVars, crash>>

------------------------------------------------------------------------------
(* The loops *)

\* one functor f, the others in q
Run(f, q) ==
  LET c == f[2]
  IN \/ /\ f[1] = "connectEstablished" /\ connectEstablished(c)
        /\ queue' = q /\ UNCHANGED connections
     \/ /\ f[1] = "connectDestroyed" /\ connectDestroyed(c)
        /\ queue' = q /\ UNCHANGED connections
     \/ /\ f[1] = "removeConnectionInLoop" /\ removeConnectionInLoop(c, q)
        /\ UNCHANGED connVars
     \/ /\ f[1] = "forceCloseInLoop" /\ state[c] \in {"kConnected", "kDisconnecting"}
        /\ handleClose(c, q)
     \/ /\ f[1] = "forceCloseInLoop" /\ state[c] \notin {"kConnected", "kDisconnecting"}
        /\ queue' = q /\ UNCHANGED <<connections, connVars, crash>>

\* the base loop
BaseFunctor ==
  /\ Running /\ BaseRuns
  /\ queue[0] # <<>>
  /\ Run(Head(queue[0]), [queue EXCEPT ![0] = Tail(@)])
  /\ UNCHANGED <<serverRest, clientVars, loopVars>>

IoFunctor(l) ==
  /\ Running /\ place[l] = "run" /\ batch[l] # <<>>
  /\ Run(Head(batch[l]), queue)
  /\ batch' = [batch EXCEPT ![l] = Tail(@)]
  /\ UNCHANGED <<serverRest, clientVars, place, quit>>

\* loop(): quit_ = false
Enter(l) ==
  /\ Running /\ place[l] = "enter"
  /\ place' = [place EXCEPT ![l] = "run"]
  /\ quit' = [quit EXCEPT ![l] = FALSE]
  /\ UNCHANGED <<serverVars, clientVars, connVars, batch, queue, crash>>

\* epoll_wait was woken up and doPendingFunctors swaps
Swap(l) ==
  /\ Running /\ place[l] = "poll"
  /\ queue[l] # <<>> \/ quit[l]
  /\ place' = [place EXCEPT ![l] = "run"]
  /\ batch' = [batch EXCEPT ![l] = queue[l]]
  /\ queue' = [queue EXCEPT ![l] = <<>>]
  /\ UNCHANGED <<serverVars, clientVars, connVars, quit, crash>>

\* while (!quit_) goes on
Again(l) ==
  /\ Running /\ place[l] = "run" /\ batch[l] = <<>> /\ ~quit[l]
  /\ place' = [place EXCEPT ![l] = "poll"]
  /\ UNCHANGED <<serverVars, clientVars, connVars, batch, quit, queue, crash>>

\* connections that lose their last TcpConnectionPtr when loop l is deleted
Dropped(l) ==
  {c \in accepted :
     /\ c \notin connections
     /\ \E f \in Members(queue[l]) : f[2] = c
     /\ \A k \in Loops \ {l} : \A f \in Members(queue[k]) : f[2] # c}

\* what the asserts of ~TcpConnection and of ~Channel say of a connection that is deleted
deleteFails(c) ==
  CASE state[c] # "kDisconnected" -> "~TcpConnection: state"
    [] state[c] = "kDisconnected" /\ channel[c] # "kNew" -> "~Channel: addedToLoop"
    [] OTHER -> "none"

\* while (!quit_) ends, threadFunc deletes the EventLoop and with it pendingFunctors_
Exit(l) ==
  /\ Running /\ place[l] = "run" /\ batch[l] = <<>> /\ quit[l]
  /\ place' = [place EXCEPT ![l] = "exited"]
  /\ queue' = [queue EXCEPT ![l] = <<>>]
  /\ \/ crash' = "none" /\ \A c \in Dropped(l) : deleteFails(c) = "none"
     \/ \E c \in Dropped(l) : deleteFails(c) # "none" /\ crash' = deleteFails(c)
  /\ UNCHANGED <<serverVars, clientVars, connVars, batch, quit>>

------------------------------------------------------------------------------
(* ~TcpServer, on the base loop *)

Destroy ==
  /\ Alive
  /\ server' = "closing"
  /\ UNCHANGED <<started, numThreads, loops, next, nextConnId, connections, victim,
                 clientVars, connVars, loopVars, queue, crash>>

\* one connection of connections_: runInLoop(connectDestroyed)
DestroyConnection(c) ==
  /\ Running /\ server = "closing" /\ c \in connections
  /\ connections' = connections \ {c}
  /\ \/ loopOf[c] = 0 /\ connectDestroyed(c) /\ UNCHANGED queue
     \/ /\ loopOf[c] # 0
        /\ queue' = Put(queue, loopOf[c], <<"connectDestroyed", c>>)
        /\ UNCHANGED <<connVars, crash>>
  /\ UNCHANGED <<serverRest, clientVars, loopVars>>

\* the threads of the pool are destructed one after the other, then the acceptor
NextVictim ==
  /\ Running
  /\ \/ server = "closing" /\ connections = {}
     \/ server = "join" /\ place[victim] = "exited"
  /\ victim' = victim + 1
  /\ server' = IF victim < loops THEN "quit" ELSE "gone"
  /\ UNCHANGED <<started, numThreads, loops, next, nextConnId, connections, clientVars,
                 connVars, loopVars, queue, crash>>

\* ~EventLoopThread: loop_->quit()
QuitVictim ==
  /\ Running /\ server = "quit"
  /\ quit' = [quit EXCEPT ![victim] = TRUE]
  /\ server' = "join"
  /\ UNCHANGED <<started, numThreads, loops, next, nextConnId, connections, victim,
                 clientVars, connVars, batch, place, queue, crash>>

------------------------------------------------------------------------------
(* The clients *)

ClientConnects ==
  /\ Alive /\ listening /\ arrived < MaxConns
  /\ arrived' = arrived + 1
  /\ UNCHANGED <<serverVars, peerClosed, connVars, loopVars, queue, crash>>

ClientCloses(c) ==
  /\ Running /\ c <= arrived /\ c \notin peerClosed
  /\ peerClosed' = peerClosed \cup {c}
  /\ UNCHANGED <<serverVars, arrived, connVars, loopVars, queue, crash>>

------------------------------------------------------------------------------
IoLoop(l) == IoFunctor(l) \/ Enter(l) \/ Swap(l) \/ Again(l) \/ Exit(l)

Next ==
  \/ \E n \in 0 .. MaxThreads : setThreadNum(n)
  \/ start \/ handleRead \/ BaseFunctor
  \/ Destroy \/ NextVictim \/ QuitVictim
  \/ ClientConnects
  \/ \E l \in IoLoops : IoLoop(l)
  \/ \E c \in Conns : \/ HandleRead(c) \/ shutdown(c) \/ forceClose(c)
                       \/ DestroyConnection(c) \/ ClientCloses(c)

Spec == Init /\ [][Next]_vars

\* Every loop runs: epoll reports the listening socket and the end of a stream for as
\* long as they are ready, and functors get their turn.  Nothing is assumed of the
\* clients, of the user's calls or of the destructor.
FairSpec ==
  /\ Spec
  /\ WF_vars(handleRead) /\ WF_vars(BaseFunctor)
  /\ \A l \in IoLoops : WF_vars(IoLoop(l))
  /\ \A c \in Conns : WF_vars(HandleRead(c))

------------------------------------------------------------------------------
(* Properties *)

Occurrences(s, f) == Cardinality({i \in DOMAIN s : s[i] = f})

\* how often the functor waits, in the queue of l or in the vector swapped out of it
Waiting(l, name, c) ==
  Occurrences(queue[l], <<name, c>>) +
  (IF l = 0 THEN 0 ELSE Occurrences(batch[l], <<name, c>>))

TypeOK ==
  /\ nextConnId \in 1 .. arrived + 1
  /\ connections \subseteq accepted
  /\ server \in ServerPCs
  /\ victim \in 0 .. loops + 1
  /\ state \in [Conns -> States]
  /\ channel \in [Conns -> {"kNew", "reading", "kDeleted"}]
  /\ place \in [IoLoops -> Places]

\* Until the server is destructed, what connections_, the loops and the connection say
\* of an accepted connection agrees: it is waiting to be established, or open, or
\* closed with one removal waiting in the base loop, or removed with one
\* connectDestroyed waiting in its own loop, or deleted.  So connections_ never
\* keeps a dead connection, the asserts of connectEstablished, connectDestroyed
\* and removeConnectionInLoop hold, and nothing waits in the wrong loop.
\* With the types.
ConnectionsAgree ==
  /\ TypeOK
  /\ server = "alive" =>
       /\ crash \in {"none", "accept: EMFILE"}
       /\ \A c \in accepted :
            LET l == loopOf[c]
                coming == Waiting(l, "connectEstablished", c)
                removal == Waiting(0, "removeConnectionInLoop", c)
                going == Waiting(l, "connectDestroyed", c)
            IN /\ state[c] = "kConnecting" <=> coming = 1
               /\ coming <= 1 /\ removal <= 1 /\ going <= 1
               /\ c \in connections <=> state[c] # "kDisconnected" \/ removal = 1
               /\ removal = 1 \/ going = 1 <=> channel[c] = "kDeleted"
               /\ removal + going <= 1

\* A connection is deleted only after its state is kDisconnected and its channel has
\* left the loop, also while ~TcpServer destroys the connections that are left;
\* not once it quits the io loops, see ConnectionIsDownWhenDeleted.
DeletedIsDown ==
  crash = "none" /\ server \in {"alive", "closing"} =>
    \A c \in accepted : Deleted(c) => state[c] = "kDisconnected" /\ channel[c] = "kNew"

\* The connections accepted so far are spread evenly: those of two io loops differ in
\* number by one at most, and the base loop gets none when there is a pool.
Balanced ==
  LET load(l) == Cardinality({c \in accepted : loopOf[c] = l})
  IN loops > 0 => /\ load(0) = 0
                  /\ \A k, l \in 1 .. loops : load(k) <= load(l) + 1

\* A connection whose client has closed is closed, removed and deleted, across its own
\* loop, the base loop and its own loop again.
ClosedIsReleased ==
  \A c \in Conns :
    c \in peerClosed /\ c \in accepted ~> Deleted(c) \/ crash # "none" \/ server # "alive"

\* A client that has connected gets a connection that is established.
ClientIsServed ==
  \A c \in Conns :
    c <= arrived ~> \/ state[c] \in {"kConnected", "kDisconnecting", "kDisconnected"}
                   \/ crash # "none" \/ server # "alive"

\* ~TcpConnection: assert(state_ == kDisconnected)
ConnectionIsDownWhenDeleted == crash # "~TcpConnection: state"
==============================================================================
