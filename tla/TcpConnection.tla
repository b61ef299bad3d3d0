---------------------------- MODULE TcpConnection ----------------------------
(***************************************************************************)
(* One connection of a TcpServer: TcpConnection with its Channel, the part *)
(* of EpollPoller that registers the channel, the removal by TcpServer on  *)
(* the base loop, a user thread that holds a TcpConnectionPtr, the peer    *)
(* and the kernel.                                                         *)
(*                                                                         *)
(* The io loop and the base loop are FIFO queues of functors, which is     *)
(* what EventLoop.tla proves of queueInLoop; callbacks of the user on the  *)
(* io loop are calls of send, shutdown, ... between any two steps.  The    *)
(* stream is a sequence of numbered units; the kernel takes any prefix of  *)
(* a write.  A failed assert, LOG_FATAL and the use of a freed object set  *)
(* crash and end the behaviour.                                            *)
(***************************************************************************)
EXTENDS Naturals, Sequences, FiniteSets

CONSTANTS
  Usages,        \* the ways programs use a connection, see usage
  PeerResets,    \* whether the peer may reset the connection
  MsgLen,        \* units in a message
  HighWaterMark, \* highWaterMark_
  MaxUnits,      \* bound on the units accepted for sending
  MaxIn,         \* bound on the messages of the peer
  MaxFunctors,   \* bound on the functors waiting in the io loop
  MaxBase        \* bound on the functors waiting in the base loop

Ops == {"send", "shutdown", "forceClose", "startRead", "stopRead"}

ASSUME TcpAssumption ==
  /\ Usages \subseteq [loop: SUBSET Ops, foreign: SUBSET Ops, stops: BOOLEAN,
                    late: BOOLEAN]
  /\ PeerResets \in BOOLEAN
  /\ MsgLen \in Nat \ {0} /\ HighWaterMark \in Nat \ {0}
  /\ MaxUnits \in Nat /\ MaxIn \in Nat /\ MaxFunctors \in Nat /\ MaxBase \in Nat

VARIABLES
  usage,       \* how this program uses it: what callbacks on the io loop call, what
               \* the other thread calls, whether the TcpServer may be destroyed, and
               \* whether startRead and stopRead are called when not connected() too
  state,       \* state_
  reading,     \* reading_
  output,      \* outputBuffer_
  events,      \* events_ of the channel
  index,       \* index_ of the channel: what EpollPoller knows of it
  revents,     \* events of the channel that EventLoop::loop has yet to handle
  functors,    \* the functors waiting in the io loop
  base,        \* the functors waiting in the base loop
  connections, \* the TcpServer's connections_ holds the connection
  server,      \* the TcpServer exists
  user,        \* the other thread: its TcpConnectionPtr, and the call it is in
  dead,        \* the TcpConnection has been deleted
  peer,        \* "open", "fin" (no more data will come) or "rst"
  inData,      \* messages of the peer that wait in the socket
  received,    \* messages the peer has sent
  accepted,    \* units taken by sendInLoop
  wire,        \* units handed to the kernel
  finSent,     \* shutdownWrite was called
  ups,         \* connectionCallback_ calls with connected()
  downs,       \* connectionCallback_ calls without
  crash        \* what ended the process

connVars == <<state, reading, output, events, index, accepted, wire, finSent, ups, downs>>
peerVars == <<peer, inData, received>>
vars == <<usage, connVars, revents, functors, base, connections, server, user, dead,
          peerVars, crash>>

isWriting == "write" \in events
isReading == "read" \in events

\* functors bound to shared_from_this(); the others are bound to a raw this
Shared == {"connectEstablished", "connectDestroyed", "forceClose", "writeComplete", "highWater"}
Members(s) == {s[i] : i \in DOMAIN s}

\* someone holds a TcpConnectionPtr
Referenced ==
  \/ connections
  \/ base # <<>>
  \/ Members(functors) \cap Shared # {}
  \/ user \notin {"none", "gone"}

\* TcpConnection::TcpConnection
Construct ==
  /\ state = "kConnecting" /\ reading = TRUE /\ output = <<>>
  /\ accepted = 0 /\ wire = <<>> /\ finSent = FALSE
  /\ ups = 0 /\ downs = 0

\* Channel::Channel
ConstructChannel == events = {} /\ index = "kNew" /\ revents = {}

\* TcpServer::newConnection has queued connectEstablished
Init ==
  /\ usage \in Usages
  /\ Construct /\ ConstructChannel
  /\ functors = <<"connectEstablished">> /\ base = <<>>
  /\ connections = TRUE /\ server = TRUE /\ user = "none" /\ dead = FALSE
  /\ peer = "open" /\ inData = 0 /\ received = 0
  /\ crash = "none"

------------------------------------------------------------------------------
(* Channel and EpollPoller *)

\* Channel::update and EpollPoller::updateChannel: a channel that epoll does not
\* know is added, even when it wants no event
update(e) ==
  /\ events' = e
  /\ index' = IF index = "kAdded" /\ e = {} THEN "kDeleted" ELSE "kAdded"

\* Channel::remove and EventLoop::removeChannel: what their asserts, and those of the
\* poller, want of a channel whose events are e
mayRemove(e) == e = {} /\ index \in {"kAdded", "kDeleted"}

\* EpollPoller::removeChannel
removeChannel == events' = {} /\ index' = "kNew"

\* Channel::~Channel: assert(!addedToLoop_)
addedToLoop == index # "kNew"

Crash(what) == crash' = what /\ UNCHANGED <<connVars, base>>

------------------------------------------------------------------------------
(* The handlers of TcpConnection.  Each runs on the io loop; fs is what remains *)
(* of the loop's functors when it starts.                                      *)

Units(n) == [i \in 1 .. n |-> accepted + i]

\* what the rest of a message adds to the loop's functors
HighWater(remaining) ==
  IF /\ Len(output) + remaining >= HighWaterMark
     /\ Len(output) < HighWaterMark
  THEN <<"highWater">> ELSE <<>>

\* Mutant: sendInLoop writes at once without looking at the output buffer.
sendAtOnceAlways == TRUE

\* if (!channel_->isWriting() && outputBuffer_.readableBytes() == 0)
sendAtOnce == ~isWriting /\ output = <<>>

\* Mutant: EPOLLOUT is enabled when the output exceeds the mark, as README.md:457 has it.
mustEnableAboveMark(remaining) == ~isWriting /\ Len(output) + remaining > HighWaterMark

\* if (!channel_->isWriting()) channel_->enableWriting(), after the rest was buffered
mustEnable(remaining) == ~isWriting

\* sendInLoop of one message; n units are written at once, 0 being EWOULDBLOCK
sendInLoop(fs) ==
  \/ /\ state = "kDisconnected"
     /\ functors' = fs
     /\ UNCHANGED <<connVars, base, crash>>
  \/ /\ state # "kDisconnected"
     /\ sendAtOnce /\ (finSent \/ peer = "rst")
     /\ functors' = fs
     /\ Crash("EPIPE")
  \/ /\ state # "kDisconnected"
     /\ ~(sendAtOnce /\ (finSent \/ peer = "rst"))
     /\ accepted' = accepted + MsgLen
     /\ \E n \in IF sendAtOnce THEN 0 .. MsgLen ELSE {0} :
          /\ wire' = wire \o SubSeq(Units(MsgLen), 1, n)
          /\ output' = output \o SubSeq(Units(MsgLen), n + 1, MsgLen)
          /\ functors' = fs \o (IF n = MsgLen THEN <<"writeComplete">>
                                ELSE HighWater(MsgLen - n))
          /\ IF n < MsgLen /\ mustEnable(MsgLen - n)
               THEN update(events \cup {"write"})
               ELSE UNCHANGED <<events, index>>
     /\ UNCHANGED <<state, reading, finSent, ups, downs, base, crash>>

\* Mutant: shutdownInLoop does not wait for the output.
mayShutdownAlways(ev) == TRUE

\* if (!channel_->isWriting())
mayShutdown(ev) == "write" \notin ev

\* Socket::shutdownWrite: ENOTCONN, a LOG_FATAL, when the socket is closed already
shutdownWrite ==
  CASE peer = "rst" -> {"ENOTCONN"}
    [] peer = "fin" /\ finSent -> {"none", "ENOTCONN"}
    [] OTHER -> {"none"}

\* shutdownInLoop, called when state_ is st
shutdownInLoop(fs, st) ==
  /\ state' = st
  /\ functors' = fs
  /\ finSent' = (finSent \/ mayShutdown(events))
  /\ crash' \in IF mayShutdown(events) THEN shutdownWrite ELSE {"none"}
  /\ UNCHANGED <<reading, output, events, index, accepted, wire, ups, downs, base>>

\* handleClose: closeCallback_ is TcpServer::removeConnection, bound to a raw this
handleClose(fs) ==
  /\ functors' = fs
  /\ \/ /\ state \notin {"kConnected", "kDisconnecting"}
        /\ Crash("handleClose: state")
     \/ /\ state \in {"kConnected", "kDisconnecting"}
        /\ state' = "kDisconnected"
        /\ update({})
        /\ downs' = downs + 1
        /\ base' = IF server THEN Append(base, "removeConnection") ELSE base
        /\ crash' = IF server THEN "none" ELSE "TcpServer used after free"
        /\ UNCHANGED <<reading, output, accepted, wire, finSent, ups>>

\* Mutant: forceCloseInLoop closes without looking at the state.
mayForceCloseAlways == TRUE

\* the condition of forceClose and of forceCloseInLoop
mayForceClose == state \in {"kConnected", "kDisconnecting"}

forceCloseInLoop(fs) ==
  \/ mayForceClose /\ handleClose(fs)
  \/ ~mayForceClose /\ functors' = fs /\ UNCHANGED <<connVars, base, crash>>

startReadInLoop(fs) ==
  /\ functors' = fs
  /\ IF ~reading \/ ~isReading
       THEN update(events \cup {"read"}) /\ reading' = TRUE
       ELSE UNCHANGED <<events, index, reading>>
  /\ UNCHANGED <<state, output, accepted, wire, finSent, ups, downs, base, crash>>

stopReadInLoop(fs) ==
  /\ functors' = fs
  /\ IF reading \/ isReading
       THEN update(events \ {"read"}) /\ reading' = FALSE
       ELSE UNCHANGED <<events, index, reading>>
  /\ UNCHANGED <<state, output, accepted, wire, finSent, ups, downs, base, crash>>

connectEstablished(fs) ==
  /\ functors' = fs
  /\ \/ /\ state # "kConnecting"
        /\ Crash("connectEstablished: state")
     \/ /\ state = "kConnecting"
        /\ state' = "kConnected"
        /\ update(events \cup {"read"})
        /\ ups' = ups + 1
        /\ UNCHANGED <<reading, output, accepted, wire, finSent, downs, base, crash>>

\* connectDestroyed
connectDestroyed(fs) ==
  LET left == IF state = "kConnected" THEN {} ELSE events
  IN /\ functors' = fs
     /\ \/ /\ ~mayRemove(left)
           /\ Crash("Channel::remove: events or index")
        \/ /\ mayRemove(left)
           /\ state' = IF state = "kConnected" THEN "kDisconnected" ELSE state
           /\ downs' = IF state = "kConnected" THEN downs + 1 ELSE downs
           /\ removeChannel
           /\ UNCHANGED <<reading, output, accepted, wire, finSent, ups, base, crash>>

\* Mutant: handleWrite forgets the shutdown that waited for the output.
shutdownWaitsNever == FALSE

\* handleWrite, output drained: if (state_ == kDisconnecting) shutdownInLoop()
shutdownWaits == state = "kDisconnecting"

\* handleWrite; the kernel takes n units
handleWrite(fs) ==
  \/ /\ ~isWriting
     /\ functors' = fs
     /\ UNCHANGED <<connVars, base, crash>>
  \/ /\ isWriting /\ (peer = "rst" \/ finSent)
     /\ functors' = fs
     /\ Crash("EPIPE")
  \/ /\ isWriting /\ peer # "rst" /\ ~finSent
     /\ \E n \in 1 .. Len(output) :
          /\ wire' = wire \o SubSeq(output, 1, n)
          /\ output' = SubSeq(output, n + 1, Len(output))
          /\ IF n = Len(output)
               THEN /\ update(events \ {"write"})
                    /\ functors' = Append(fs, "writeComplete")
                    /\ finSent' = shutdownWaits
               ELSE /\ functors' = fs
                    /\ UNCHANGED <<events, index, finSent>>
     /\ UNCHANGED <<state, reading, accepted, ups, downs, base, crash>>

------------------------------------------------------------------------------
(* The io loop *)

\* The object is deleted as soon as nobody refers to it; see Destruct.
Running == crash = "none" /\ (Referenced \/ dead)

others == <<usage, connections, server, user, dead>>

\* what epoll reports; EPOLLHUP is reported whether asked for or not
Ready ==
  (IF isReading /\ (inData > 0 \/ peer # "open") THEN {"IN"} ELSE {}) \cup
  (IF isWriting THEN {"OUT"} ELSE {}) \cup
  (IF peer = "rst" \/ (peer = "fin" /\ finSent) THEN {"HUP"} ELSE {})

\* epoll_wait; a socket whose send buffer is full is not ready for writing
Poll ==
  /\ Running /\ index = "kAdded" /\ revents = {}
  /\ \E r \in {Ready, Ready \ {"OUT"}} : r # {} /\ revents' = r
  /\ UNCHANGED <<connVars, functors, base, others, peerVars, crash>>

\* handleEventWithGuard: EPOLLHUP without EPOLLIN closes; with it handleError takes the
\* error of a reset from the socket, which ERR remembers for HandleRead
HandleHup ==
  /\ Running /\ "HUP" \in revents
  /\ \/ /\ "IN" \notin revents
        /\ revents' = revents \ {"HUP", "ERR"}
        /\ handleClose(functors)
     \/ /\ "IN" \in revents
        /\ revents' = (revents \ {"HUP"}) \cup (IF peer = "rst" THEN {"ERR"} ELSE {})
        /\ UNCHANGED <<connVars, functors, base, crash>>
  /\ UNCHANGED <<others, peerVars>>

\* handleRead: data for messageCallback_; n < 0, a reset that came after epoll_wait, is
\* only logged; or the end of the stream
HandleRead ==
  /\ Running /\ "IN" \in revents /\ "HUP" \notin revents
  /\ revents' = revents \ {"IN", "ERR"}
  /\ \/ /\ inData > 0
        /\ inData' = 0
        /\ UNCHANGED <<connVars, functors, base, crash>>
     \/ /\ inData = 0 /\ peer = "rst" /\ "ERR" \notin revents
        /\ UNCHANGED <<connVars, functors, base, crash, inData>>
     \/ /\ inData = 0 /\ (peer # "rst" \/ "ERR" \in revents)
        /\ handleClose(functors)
        /\ UNCHANGED inData
  /\ UNCHANGED <<others, peer, received>>

HandleWrite ==
  /\ Running /\ revents = {"OUT"}
  /\ revents' = {}
  /\ handleWrite(functors)
  /\ UNCHANGED <<others, peerVars>>

\* doPendingFunctors, one functor, after all channels have been handled
RunFunctor ==
  /\ Running /\ revents = {} /\ functors # <<>>
  /\ LET f == Head(functors)
         fs == Tail(functors)
     IN \/ /\ dead
           /\ crash' = "TcpConnection used after free"
           /\ functors' = fs
           /\ UNCHANGED <<connVars, base>>
        \/ /\ ~dead
           /\ \/ f = "connectEstablished" /\ connectEstablished(fs)
              \/ f = "connectDestroyed" /\ connectDestroyed(fs)
              \/ f = "send" /\ sendInLoop(fs)
              \/ f = "shutdown" /\ shutdownInLoop(fs, state)
              \/ f = "forceClose" /\ forceCloseInLoop(fs)
              \/ f = "startRead" /\ startReadInLoop(fs)
              \/ f = "stopRead" /\ stopReadInLoop(fs)
              \/ /\ f \in {"writeComplete", "highWater"}
                 /\ functors' = fs
                 /\ UNCHANGED <<connVars, base, crash>>
  /\ UNCHANGED <<revents, others, peerVars>>

------------------------------------------------------------------------------
(* Callbacks of the user on the io loop, between the first call of              *)
(* connectionCallback_ and the end of the object                               *)

InCallback(op) ==
  /\ Running /\ ~dead /\ ups > 0
  /\ op \in usage.loop
  /\ Len(functors) < MaxFunctors
  /\ UNCHANGED <<revents, others, peerVars>>

LoopSend ==
  /\ InCallback("send") /\ state = "kConnected" /\ accepted + MsgLen <= MaxUnits
  /\ sendInLoop(functors)

LoopShutdown ==
  /\ InCallback("shutdown") /\ state = "kConnected"
  /\ shutdownInLoop(functors, "kDisconnecting")

LoopForceClose ==
  /\ InCallback("forceClose") /\ mayForceClose
  /\ state' = "kDisconnecting"
  /\ functors' = Append(functors, "forceClose")
  /\ UNCHANGED <<reading, output, events, index, accepted, wire, finSent, ups, downs,
                 base, crash>>

\* startRead and stopRead do not look at the state: whether they are called when the
\* connection is closing or down, as from its last callback, is up to the program
mayRead == state = "kConnected" \/ usage.late

LoopStartRead == InCallback("startRead") /\ mayRead /\ startReadInLoop(functors)

LoopStopRead == InCallback("stopRead") /\ mayRead /\ stopReadInLoop(functors)

LoopCalls == LoopSend \/ LoopShutdown \/ LoopForceClose \/ LoopStartRead \/ LoopStopRead

------------------------------------------------------------------------------
(* The other thread.  A call of send, shutdown or forceClose first reads state_, *)
(* then writes it, then queues its functor.                                     *)

rest == <<usage, connections, server, dead, base, revents, peerVars, crash>>

\* connectionCallback_ hands a TcpConnectionPtr to the other thread
UserGets ==
  /\ Running /\ user = "none" /\ state = "kConnected" /\ usage.foreign # {}
  /\ user' = "holds"
  /\ UNCHANGED <<connVars, functors, rest>>

UserDrops ==
  /\ Running /\ user = "holds"
  /\ user' = "gone"
  /\ UNCHANGED <<connVars, functors, rest>>

\* if (state_ == kConnected ...)
UserChecks(op) ==
  /\ Running /\ user = "holds" /\ Len(base) < MaxBase
  /\ CASE op = "send" -> state = "kConnected" /\ accepted + MsgLen <= MaxUnits
       [] op = "forceClose" -> mayForceClose
       [] op = "shutdown" -> state = "kConnected"
       [] OTHER -> mayRead
  /\ user' = op
  /\ UNCHANGED <<connVars, functors, rest>>

\* setState(kDisconnecting)
UserSetsState ==
  /\ Running /\ user \in {"shutdown", "forceClose"}
  /\ state' = "kDisconnecting"
  /\ user' = IF user = "shutdown" THEN "queue shutdown" ELSE "queue forceClose"
  /\ UNCHANGED <<reading, output, events, index, accepted, wire, finSent, ups, downs,
                 functors, rest>>

Queued ==
  CASE user = "queue shutdown" -> "shutdown"
    [] user = "queue forceClose" -> "forceClose"
    [] OTHER -> user

\* loop_->runInLoop or queueInLoop
UserQueues ==
  /\ Running /\ user \in {"queue shutdown", "queue forceClose", "send", "startRead", "stopRead"}
  /\ Len(functors) < MaxFunctors
  /\ functors' = Append(functors, Queued)
  /\ user' = "holds"
  /\ UNCHANGED <<connVars, rest>>

OtherThread ==
  UserGets \/ UserDrops \/ UserSetsState \/ UserQueues \/ \E op \in usage.foreign : UserChecks(op)

------------------------------------------------------------------------------
(* The base loop, the peer, and the end of the object *)

\* Mutant: the connection stays in connections_.
RemoveConnectionKeeps ==
  /\ Running /\ base # <<>>
  /\ base' = Tail(base)
  /\ functors' = Append(functors, "connectDestroyed")
  /\ UNCHANGED <<connVars, revents, others, peerVars, crash>>

\* TcpServer::removeConnectionInLoop, bound to a raw this
RemoveConnection ==
  /\ Running /\ base # <<>>
  /\ base' = Tail(base)
  /\ connections' = FALSE
  /\ crash' = CASE ~server -> "TcpServer used after free"
               [] server /\ ~connections -> "removeConnectionInLoop: n == 1"
               [] OTHER -> "none"
  /\ functors' = Append(functors, "connectDestroyed")
  /\ UNCHANGED <<usage, connVars, revents, server, user, dead, peerVars>>

\* TcpServer::~TcpServer
DestroyServer ==
  /\ Running /\ usage.stops /\ server
  /\ server' = FALSE
  /\ connections' = FALSE
  /\ functors' = IF connections THEN Append(functors, "connectDestroyed") ELSE functors
  /\ UNCHANGED <<usage, connVars, revents, base, user, dead, peerVars, crash>>

PeerSends ==
  /\ Running /\ peer = "open" /\ received < MaxIn
  /\ inData' = inData + 1
  /\ received' = received + 1
  /\ UNCHANGED <<connVars, revents, functors, base, others, peer, crash>>

PeerCloses ==
  /\ Running /\ peer = "open"
  /\ peer' = "fin"
  /\ UNCHANGED <<connVars, revents, functors, base, others, inData, received, crash>>

\* what has not been read yet is lost
PeerReset ==
  /\ Running /\ PeerResets /\ peer # "rst"
  /\ peer' = "rst"
  /\ inData' = 0
  /\ UNCHANGED <<connVars, revents, functors, base, others, received, crash>>

\* ~TcpConnection and ~Channel
Destruct ==
  /\ crash = "none" /\ ~Referenced /\ ~dead
  /\ dead' = TRUE
  /\ revents' = {}
  /\ crash' = CASE state # "kDisconnected" -> "~TcpConnection: state"
               [] state = "kDisconnected" /\ addedToLoop -> "~Channel: addedToLoop"
               [] OTHER -> "none"
  /\ UNCHANGED <<usage, connVars, functors, base, connections, server, user, peerVars>>

IoLoop == HandleHup \/ HandleRead \/ HandleWrite \/ RunFunctor

Next ==
  \/ Poll \/ IoLoop \/ RemoveConnection \/ Destruct
  \/ LoopCalls \/ OtherThread \/ DestroyServer
  \/ PeerSends \/ PeerCloses \/ PeerReset

Spec == Init /\ [][Next]_vars

\* Both loops run: epoll_wait reports what is ready, in particular a send buffer that
\* has room again, and every functor gets its turn.  Nothing is assumed of the
\* peer, of the user's callbacks or of the other thread.
FairSpec ==
  /\ Spec
  /\ WF_vars(Poll) /\ WF_vars(IoLoop) /\ WF_vars(RemoveConnection) /\ WF_vars(Destruct)

------------------------------------------------------------------------------
(* Properties *)

States == {"kConnecting", "kConnected", "kDisconnecting", "kDisconnected"}

\* what waits in the io loop, and where the other thread may be
Functors == Shared \cup {"send", "shutdown", "startRead", "stopRead"}
UserPCs == {"none", "holds", "gone", "queue shutdown", "queue forceClose"} \cup Ops

\* Types; the channel wants events only while epoll knows it; a deleted connection
\* has left the server.
TypeOK ==
  /\ usage \in Usages
  /\ state \in States
  /\ reading \in BOOLEAN /\ finSent \in BOOLEAN
  /\ output \in Seq(Nat) /\ wire \in Seq(Nat)
  /\ accepted \in Nat /\ ups \in Nat /\ downs \in Nat
  /\ events \subseteq {"read", "write"}
  /\ index \in {"kNew", "kAdded", "kDeleted"}
  /\ events # {} => index = "kAdded"
  /\ revents \subseteq {"IN", "OUT", "HUP", "ERR"}
  /\ functors \in Seq(Functors) /\ base \in Seq({"removeConnection"})
  /\ user \in UserPCs
  /\ dead => ~connections

\* The units on the wire followed by those in outputBuffer_ are the units taken by
\* sendInLoop, in that order: direct writes, partial writes and handleWrite
\* neither lose, repeat nor reorder any; and until the connection is closed the
\* write side is shut down only after all of them.  With the types.
StreamOrder ==
  /\ TypeOK
  /\ wire \o output = [i \in 1 .. accepted |-> i]
  /\ finSent /\ downs = 0 => output = <<>>

BS == INSTANCE ByteStream WITH taken <- accepted, sent <- wire, fin <- finSent,
                               closed <- downs > 0

\* To the peer the connection is a plain stream: whatever both threads send and however
\* the kernel splits the writes, what sendInLoop takes arrives in its order, FIN comes
\* after all of it, and nothing is written after FIN.
ImplementsByteStream == BS!Spec

\* Until the connection is closed the channel waits for EPOLLOUT exactly while
\* there is output, however little: nothing is stuck in the buffer, and no busy loop.
\* README.md:457 has it that EPOLLOUT is enabled when the output exceeds the high-water
\* mark; with that rule, which is the mutant, what is left below the mark would never be
\* written.
WritesWhileOutput == downs = 0 => (isWriting <=> output # <<>>)

\* nobody but the io loop and the TcpServer has had the connection, the server is not
\* destroyed, and reading is not turned on or off once the connection closes; see
\* RemovedOnce and TcpServer.tla for what else can happen
Confined == user = "none" /\ server /\ ~usage.late

\* The user sees the connection go up once and then down at most once, no assert of
\* TcpConnection, Channel, EpollPoller and TcpServer fails, and nothing is used
\* after it was freed: only a write to a connection that was reset ends the
\* process.  The asserts not after stopRead: the disableAll of handleClose then
\* adds the channel to epoll again, and a reset makes handleClose run twice.
NoAssertFails ==
  Confined =>
    /\ ups <= 1 /\ downs <= ups
    /\ reading => crash \in {"none", "EPIPE", "ENOTCONN"}

\* After shutdown() or forceClose() the write side is shut down as soon as the output
\* is written, unless the connection is closed before.
ShutdownCompletes ==
  state = "kDisconnecting" ~> finSent \/ downs > 0 \/ crash # "none" \/ ~Confined

\* A closed connection leaves both loops and is deleted, if the other thread that got
\* a TcpConnectionPtr lets go of it.
CloseReleases ==
  downs > 0 ~> dead \/ crash # "none" \/ user \notin {"none", "gone"}

\* removeConnectionInLoop: assert(n == 1), a connection is removed once.
RemovedOnce == crash # "removeConnectionInLoop: n == 1"
==============================================================================
