------------------------------ MODULE TcpClient ------------------------------
(***************************************************************************)
(* TcpClient and its Connector (starry/net/src/tcp_client.cpp,             *)
(* connector.cpp): non-blocking connect, retry with a growing delay, stop, *)
(* and the loss of the connection.                                         *)
(*                                                                         *)
(* The loop is a FIFO queue of functors (EventLoop.tla) and timers that    *)
(* fire at any time.  A TcpConnection is "up" until its closeCallback_ is  *)
(* called (TcpConnection.tla).  A failed assert, a null pointer, the use   *)
(* of a freed Connector and LOG_FATAL set crash and end the behaviour.     *)
(* LOG_FATAL comes from connect, and from TimerQueue::reset when a timer   *)
(* of the client fires and no timer is left in the loop (TimerQueue.tla).  *)
(***************************************************************************)
EXTENDS Naturals, Sequences, FiniteSets

CONSTANTS
  DestroyAnyTime,   \* the client may be destroyed while functors wait
  kInitRetryDelayMs, kMaxRetryDelayMs,
  MaxConnects,      \* bound on the calls of connect
  MaxFunctors       \* bound on the functors waiting when a user calls

ASSUME ClientAssumption ==
  /\ DestroyAnyTime \in BOOLEAN
  /\ kInitRetryDelayMs \in Nat \ {0} /\ kMaxRetryDelayMs \in Nat
  /\ kInitRetryDelayMs <= kMaxRetryDelayMs
  /\ MaxConnects \in Nat /\ MaxFunctors \in Nat

VARIABLES
  \* Connector
  state,         \* state_
  connecting_,   \* Connector::connect_
  channel,       \* "none", "added", or "removed" until resetChannel deletes it
  retryDelayMs,  \* retryDelayMs_
  retries,       \* timers of retry that are waiting, each holding the Connector
  sockets,       \* attempts whose socket is open and not handed to a connection
  \* TcpClient
  client,        \* the TcpClient exists
  connector,     \* connector_ is not null
  connect_,      \* TcpClient::connect_
  retry_,        \* TcpClient::retry_
  connection,    \* connection_: "none" or "up"
  keeper,        \* the 1 s timer of ~TcpClient that holds the Connector
  \* the loop, and history
  functors,      \* the functors of Connector waiting in the loop
  connects,      \* calls of connect
  crash          \* "none", or how the process ended

connectorVars == <<state, channel, retryDelayMs, retries, sockets>>
clientVars == <<client, connector, connect_, connection, keeper, retry_>>
vars == <<connectorVars, connecting_, clientVars, functors, connects, crash>>

\* a shared_ptr to the Connector exists; its functors are bound to a raw this
Held == connector \/ retries > 0 \/ keeper

\* ~Connector, when the client and the 1 s timer let go of it: assert(!channel_)
released(owned, kept) ==
  IF ~owned /\ ~kept /\ retries = 0 /\ channel # "none"
  THEN "~Connector: channel_" ELSE "none"

Running == crash = "none"

\* Connector::Connector
ConstructConnector ==
  /\ state = "kDisconnected" /\ connecting_ = FALSE /\ channel = "none"
  /\ retryDelayMs = kInitRetryDelayMs /\ retries = 0 /\ sockets = 0

\* TcpClient::TcpClient
Init ==
  /\ ConstructConnector
  /\ client = TRUE /\ connector = TRUE /\ connect_ = TRUE
  /\ connection = "none" /\ keeper = FALSE /\ retry_ = FALSE
  /\ functors = <<>> /\ connects = 0 /\ crash = "none"

------------------------------------------------------------------------------
(* Connector, on the loop's thread; fs is what remains of the functors *)

Crash(what) ==
  /\ crash' = what
  /\ UNCHANGED <<connectorVars, connecting_, clientVars, functors, connects>>

least(a, b) == IF a <= b THEN a ELSE b

nextDelay == least(retryDelayMs * 2, kMaxRetryDelayMs)

\* Mutant: the retry timer is forgotten.
retryForgotten(left) ==
  /\ state' = "kDisconnected"
  /\ sockets' = sockets - 1
  /\ retries' = left
  /\ retryDelayMs' = nextDelay

\* retry: the socket is closed and, unless stopped, a timer started; left is the
\* number of timers that are waiting already
retry(left) ==
  /\ state' = "kDisconnected"
  /\ sockets' = sockets - 1
  /\ retries' = IF connecting_ THEN left + 1 ELSE left
  /\ retryDelayMs' = IF connecting_ THEN nextDelay ELSE retryDelayMs

\* How a step ends that runs in the callback of a timer (fired), or not: after the
\* callback TimerQueue::reset hands the epoch to timerfd_settime, and LOG_FATAL aborts,
\* if none of the left timers of the client is in the loop, nor the 1 s timer (kept),
\* nor a timer of the rest of the program, which is its choice.
AfterTimer(fired, left, kept) ==
  IF fired /\ left = 0 /\ ~kept THEN {"none", "timerfd_settime"} ELSE {"none"}

\* Connector::connecting; sockets counts the new socket
connecting(left, fired) ==
  \/ /\ channel # "none"
     /\ crash' = "connecting: channel_"
     /\ UNCHANGED connectorVars
  \/ /\ channel = "none"
     /\ state' = "kConnecting"
     /\ channel' = "added"
     /\ sockets' = sockets + 1
     /\ retries' = left
     /\ crash' \in AfterTimer(fired, left, keeper)
     /\ UNCHANGED retryDelayMs

\* Connector::connect; a connect that fails at once closes its new socket in retry, or
\* is LOG_FATAL
connect(left, fired) ==
  \/ connecting(left, fired)
  \/ /\ state' = "kDisconnected"
     /\ retries' = left + 1
     /\ retryDelayMs' = nextDelay
     /\ UNCHANGED <<channel, sockets, crash>>
  \/ /\ crash' = "connect error"
     /\ UNCHANGED connectorVars

\* Mutant: a stopped Connector looks again after the next delay.
startInLoopPolls(left, want, fired) ==
  \/ /\ state # "kDisconnected"
     /\ crash' = "startInLoop: state_"
     /\ UNCHANGED connectorVars
  \/ /\ state = "kDisconnected" /\ want
     /\ connect(left, fired)
  \/ /\ state = "kDisconnected" /\ ~want
     /\ retries' = left + 1
     /\ UNCHANGED <<state, channel, retryDelayMs, sockets, crash>>

\* startInLoop, called at once, as a functor, or by a timer that fired, left being the
\* timers that remain; want is connect_
startInLoop(left, want, fired) ==
  \/ /\ state # "kDisconnected"
     /\ crash' = "startInLoop: state_"
     /\ UNCHANGED connectorVars
  \/ /\ state = "kDisconnected" /\ want
     /\ connect(left, fired)
  \/ /\ state = "kDisconnected" /\ ~want
     /\ retries' = left
     /\ crash' \in AfterTimer(fired, left, keeper)
     /\ UNCHANGED <<state, channel, retryDelayMs, sockets>>

\* Mutant: the removed channel is never deleted.
removeChannelOnly(fs) ==
  /\ channel' = "removed"
  /\ functors' = fs

\* removeAndResetChannel, with the functors it leaves
removeAndResetChannel(fs) ==
  /\ channel' = "removed"
  /\ functors' = Append(fs, "resetChannel")

\* Mutant: stopInLoop removes the channel but keeps the socket.
stopInLoopLeaks(fs) ==
  \/ /\ state = "kConnecting"
     /\ removeAndResetChannel(fs)
     /\ state' = "kDisconnected"
     /\ UNCHANGED <<sockets, retries, retryDelayMs>>
  \/ /\ state # "kConnecting"
     /\ functors' = fs
     /\ UNCHANGED connectorVars

stopInLoop(fs) ==
  \/ /\ state = "kConnecting"
     /\ removeAndResetChannel(fs)
     /\ retry(retries)
  \/ /\ state # "kConnecting"
     /\ functors' = fs
     /\ UNCHANGED connectorVars

\* Connector::start on the loop's thread, and on another one
start == connecting_' = TRUE /\ startInLoop(retries, TRUE, FALSE)

startForeign == connecting_' = TRUE /\ functors' = Append(functors, "startInLoop")

\* Connector::stop, on any thread
stop == connecting_' = FALSE /\ functors' = Append(functors, "stopInLoop")

\* handleEvent of a socket with an error: handleError, then handleWrite, which finds
\* kDisconnected; or handleWrite alone, with SO_ERROR set or a self-connect
HandleFailure ==
  /\ Running /\ channel = "added"
  /\ removeAndResetChannel(functors)
  /\ retry(retries)
  /\ UNCHANGED <<connecting_, clientVars, connects, crash>>

\* TcpClient::newConnection: a TcpConnection takes the socket
newConnection == connection' = "up"

\* handleWrite of a connected socket: for the client, or closed after a stop
HandleConnected ==
  /\ Running /\ channel = "added"
  /\ removeAndResetChannel(functors)
  /\ state' = "kConnected"
  /\ sockets' = sockets - 1
  /\ IF connecting_ THEN newConnection ELSE UNCHANGED connection
  /\ UNCHANGED <<retryDelayMs, retries, connecting_, client, connector, connect_, keeper,
                 retry_,
                 connects, crash>>

\* resetChannel: channel_.reset()
resetChannel == channel' = "none"

\* Delays are longer than an iteration of the loop: what removeAndResetChannel or stop
\* queued is run before a timer that was started with it.
Waiting(f) == \E i \in DOMAIN functors : functors[i] = f

\* the timer of retry fires: startInLoop on the Connector that it holds, and reset
RetryTimer ==
  /\ Running /\ retries > 0 /\ ~Waiting("resetChannel")
  /\ startInLoop(retries - 1, connecting_, TRUE)
  /\ UNCHANGED <<connecting_, clientVars, functors, connects>>

------------------------------------------------------------------------------
(* The loop *)

\* doPendingFunctors, one functor, on the Connector it is bound to
RunFunctor ==
  /\ Running /\ functors # <<>>
  /\ LET f == Head(functors)
         fs == Tail(functors)
     IN \/ ~Held /\ Crash("Connector used after free")
        \/ /\ Held
           /\ UNCHANGED <<connecting_, clientVars, connects>>
           /\ \/ f = "startInLoop" /\ functors' = fs /\ startInLoop(retries, connecting_, FALSE)
              \/ f = "stopInLoop" /\ stopInLoop(fs) /\ UNCHANGED crash
              \/ /\ f = "resetChannel"
                 /\ functors' = fs
                 /\ resetChannel
                 /\ UNCHANGED <<state, retryDelayMs, retries, sockets, crash>>

------------------------------------------------------------------------------
(* The users of TcpClient *)

MayCall == Running /\ client /\ Len(functors) < MaxFunctors

\* connect on the loop's thread
Connect ==
  /\ MayCall /\ connects < MaxConnects
  /\ \/ ~connector /\ Crash("connector_ is null")
     \/ /\ connector
        /\ connects' = connects + 1
        /\ connect_' = TRUE
        /\ start
        /\ UNCHANGED <<client, connector, connection, keeper, retry_, functors>>

\* connect on another thread
ConnectForeign ==
  /\ MayCall /\ connects < MaxConnects /\ connector
  /\ connects' = connects + 1
  /\ connect_' = TRUE
  /\ startForeign
  /\ UNCHANGED <<connectorVars, client, connector, connection, keeper, retry_, crash>>

\* disconnect: the connection is half closed and closes in its time
Disconnect ==
  /\ MayCall
  /\ connect_' = FALSE
  /\ UNCHANGED <<connectorVars, connecting_, client, connector, connection, keeper, retry_,
                 functors, connects, crash>>

\* stop, on any thread
Stop ==
  /\ MayCall
  /\ \/ ~connector /\ Crash("connector_ is null")
     \/ /\ connector
        /\ connect_' = FALSE
        /\ stop
        /\ UNCHANGED <<connectorVars, client, connector, connection, keeper, retry_, connects,
                       crash>>

\* the connection closes: TcpClient::removeConnection
RemoveConnection ==
  /\ Running /\ client /\ connection = "up"
  /\ connection' = "none"
  /\ connector' = (connector /\ ~(retry_ /\ connect_))
  /\ crash' = released(connector', keeper)
  /\ UNCHANGED <<connectorVars, connecting_, client, connect_, keeper, retry_, functors,
                 connects>>

\* ~TcpClient on the loop's thread.  With a connection, its callback is replaced and
\* the Connector is let go; without one the Connector is stopped and kept for 1 s.
Destroy ==
  /\ MayCall /\ (DestroyAnyTime \/ functors = <<>>)
  /\ \/ /\ connection = "up"
        /\ client' = FALSE
        /\ connector' = FALSE
        /\ connection' = "none"
        /\ crash' = released(FALSE, keeper)
        /\ UNCHANGED <<keeper, connecting_, functors>>
     \/ /\ connection = "none" /\ connector
        /\ client' = FALSE
        /\ connector' = FALSE
        /\ keeper' = TRUE
        /\ stop
        /\ UNCHANGED <<connection, crash>>
     \/ /\ connection = "none" /\ ~connector
        /\ crash' = "connector_ is null"
        /\ UNCHANGED <<client, connector, connection, keeper, connecting_, functors>>
  /\ UNCHANGED <<connectorVars, connect_, retry_, connects>>

\* removeConnector, 1 s after ~TcpClient: nothing, but the timer lets go of the Connector
KeeperTimer ==
  /\ Running /\ keeper /\ ~Waiting("resetChannel") /\ ~Waiting("stopInLoop")
  /\ keeper' = FALSE
  /\ crash' \in IF released(connector, FALSE) = "none" THEN AfterTimer(TRUE, retries, FALSE)
                ELSE {released(connector, FALSE)}
  /\ UNCHANGED <<connectorVars, connecting_, client, connector, connect_, retry_,
                 connection,
                 functors, connects>>

\* enableRetry, before or after connect
enableRetry ==
  /\ MayCall /\ ~retry_
  /\ retry_' = TRUE
  /\ UNCHANGED <<connectorVars, connecting_, client, connector, connect_, connection, keeper,
                 functors, connects, crash>>

Users == enableRetry \/ Connect \/ ConnectForeign \/ Disconnect \/ Stop \/ Destroy

Next ==
  \/ RunFunctor \/ RetryTimer \/ HandleFailure \/ HandleConnected \/ KeeperTimer
  \/ RemoveConnection \/ Users

Spec == Init /\ [][Next]_vars

\* The loop runs its functors, timers expire, an attempt ends one way or the other,
\* and a server that is tried again and again accepts in the end, in particular
\* connect does not fail at once for ever.  Nothing is assumed of the users.
FairSpec ==
  /\ Spec
  /\ WF_vars(RunFunctor) /\ WF_vars(RetryTimer) /\ WF_vars(KeeperTimer)
  /\ WF_vars(HandleFailure \/ HandleConnected)
  /\ SF_vars(HandleConnected)

------------------------------------------------------------------------------
(* Properties *)

\* Types; the delay stays between its limits, and the state of the Connector fits its
\* channel.
TypeOK ==
  /\ state \in {"kDisconnected", "kConnecting", "kConnected"}
  /\ connecting_ \in BOOLEAN /\ connect_ \in BOOLEAN
  /\ channel \in {"none", "added", "removed"}
  /\ retryDelayMs \in kInitRetryDelayMs .. kMaxRetryDelayMs
  /\ client \in BOOLEAN /\ connector \in BOOLEAN /\ keeper \in BOOLEAN
  /\ connection \in {"none", "up"}
  /\ state = "kConnecting" <=> channel = "added"

\* Every socket that connect opened is watched by the channel, was handed to a
\* connection, or is closed: no stop, retry or destruction leaks one.
\* With the types.
NoSocketLeak ==
  /\ TypeOK
  /\ sockets = IF channel = "added" THEN 1 ELSE 0

\* the ends by LOG_FATAL
Aborts == {"connect error", "timerfd_settime"}

\* With one call of connect, and without enableRetry, no assert fails and nothing is
\* used after its delete: there is one attempt, one retry timer, or one start waiting
\* in the loop at any time. LOG_FATAL may end the process.
OneAttempt ==
  connects <= 1 /\ ~retry_ =>
    /\ crash \in {"none"} \cup Aborts
    /\ retries + Cardinality({i \in DOMAIN functors : functors[i] = "startInLoop"})
         + (IF state = "kDisconnected" THEN 0 ELSE 1) <= 1

\* After stop, or the end of the client, the Connector comes to rest: no channel, no
\* timer, no attempt.
StopSettles ==
  ~connecting_ ~>
    connecting_ \/ crash # "none"
      \/ (channel = "none" /\ retries = 0 /\ sockets = 0)

\* connect leads to a connection, unless the client is stopped or destroyed or the
\* process ends. After any number of failed attempts this is so only if the program has
\* a timer of its own in the loop: without one, TimerQueue::reset aborts the process
\* when the first retry timer fires and its attempt does not fail at once.
ConnectSucceeds ==
  connecting_ /\ connection = "none" /\ state # "kConnected"
    ~> connection = "up" \/ ~connecting_ \/ ~client \/ crash # "none"
==============================================================================
