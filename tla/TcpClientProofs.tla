--------------------------- MODULE TcpClientProofs ---------------------------
(***************************************************************************)
(* Proofs about TcpClient and its Connector, for any delays and any number *)
(* of calls and functors: no socket is leaked, and one connect makes one   *)
(* attempt at a time, without a failed assert or a use after delete.       *)
(***************************************************************************)
EXTENDS TcpClient, SequenceTheorems, FiniteSetTheorems, TLAPS

FunctorNames == {"startInLoop", "stopInLoop", "resetChannel"}

Among(s, f) == \E i \in DOMAIN s : s[i] = f
Unique(s, f) == \A i, j \in DOMAIN s : s[i] = f /\ s[j] = f => i = j

\* The socket of an attempt is open while its channel is watched, and a channel that
\* was removed has exactly one resetChannel coming, which finds it removed.
SocketInv ==
  /\ NoSocketLeak
  /\ retries \in Nat /\ connects \in Nat /\ retry_ \in BOOLEAN
  /\ functors \in Seq(FunctorNames)
  /\ Unique(functors, "resetChannel")
  /\ channel = "removed" <=> Among(functors, "resetChannel")

\* before the first connect
Untouched ==
  /\ state = "kDisconnected" /\ channel = "none" /\ retries = 0 /\ connection = "none"
  /\ ~Among(functors, "startInLoop")

\* one start that waits, one timer, one attempt or one connection
AtMostOne ==
  /\ Unique(functors, "startInLoop")
  /\ Among(functors, "startInLoop") =>
       retries = 0 /\ state = "kDisconnected" /\ channel = "none"
  /\ retries <= 1
  /\ retries = 1 => state = "kDisconnected"
  /\ connection = "up" => state = "kConnected"

\* The client holds the Connector as long as it lives, then its timer does, until
\* nothing that is bound to the Connector waits.
Outlives ==
  /\ client <=> connector
  /\ ~client => /\ ~Among(functors, "startInLoop") /\ connection = "none"
                /\ connecting_ => state = "kConnected"
  /\ ~client /\ ~keeper => functors = <<>> /\ channel = "none"
  /\ keeper => ~client
  /\ keeper /\ state = "kConnecting" => Among(functors, "stopInLoop")

AttemptInv ==
  connects <= 1 /\ ~retry_ =>
    /\ crash \in {"none"} \cup Aborts
    /\ connects = 0 => Untouched
    /\ AtMostOne
    /\ Outlives

------------------------------------------------------------------------------
(* The queue of functors *)

LEMMA Pushed ==
  ASSUME NEW s \in Seq(FunctorNames), NEW f \in FunctorNames, NEW g \in FunctorNames
  PROVE  /\ Append(s, f) \in Seq(FunctorNames)
         /\ Among(Append(s, f), g) <=> (Among(s, g) \/ f = g)
         /\ Unique(s, g) /\ (f = g => ~Among(s, g)) => Unique(Append(s, f), g)
<1>1. /\ Append(s, f) \in Seq(FunctorNames) /\ Len(s) \in Nat
      /\ DOMAIN s = 1 .. Len(s) /\ DOMAIN Append(s, f) = 1 .. Len(s) + 1
      /\ \A i \in 1 .. Len(s) : Append(s, f)[i] = s[i]
      /\ Append(s, f)[Len(s) + 1] = f
  BY AppendProperties, LenProperties
<1>2. \A i \in DOMAIN Append(s, f) : i \in DOMAIN s \/ i = Len(s) + 1
  BY <1>1
<1>3. Among(Append(s, f), g) <=> (Among(s, g) \/ f = g)
  BY <1>1, <1>2 DEF Among
<1>4. Unique(s, g) /\ (f = g => ~Among(s, g)) => Unique(Append(s, f), g)
  BY <1>1, <1>2 DEF Among, Unique
<1> QED
  BY <1>1, <1>3, <1>4

LEMMA Popped ==
  ASSUME NEW s \in Seq(FunctorNames), s # <<>>, NEW g \in FunctorNames
  PROVE  /\ Tail(s) \in Seq(FunctorNames) /\ Head(s) \in FunctorNames
         /\ Among(s, g) <=> (Head(s) = g \/ Among(Tail(s), g))
         /\ Unique(s, g) => Unique(Tail(s), g)
         /\ Unique(s, g) /\ Head(s) = g => ~Among(Tail(s), g)
<1>1. /\ Tail(s) \in Seq(FunctorNames) /\ Head(s) \in FunctorNames
      /\ Len(s) \in Nat \ {0} /\ Head(s) = s[1]
      /\ DOMAIN s = 1 .. Len(s) /\ DOMAIN Tail(s) = 1 .. Len(s) - 1
      /\ \A i \in 1 .. Len(s) - 1 : Tail(s)[i] = s[i + 1]
  BY HeadTailProperties, LenProperties, EmptySeq
<1>2. ASSUME NEW i \in DOMAIN Tail(s)
      PROVE  i \in Nat /\ i + 1 \in DOMAIN s /\ i + 1 # 1 /\ Tail(s)[i] = s[i + 1]
  BY <1>1
<1>3. ASSUME NEW j \in DOMAIN s, j # 1
      PROVE  j - 1 \in DOMAIN Tail(s) /\ Tail(s)[j - 1] = s[j]
  BY <1>1, <1>3
<1>4. 1 \in DOMAIN s
  BY <1>1
<1>5. Among(s, g) => Head(s) = g \/ Among(Tail(s), g)
  BY <1>1, <1>3 DEF Among
<1>6. Head(s) = g \/ Among(Tail(s), g) => Among(s, g)
  BY <1>1, <1>2, <1>4 DEF Among
<1>7. Unique(s, g) => Unique(Tail(s), g)
  <2> SUFFICES ASSUME Unique(s, g), NEW i \in DOMAIN Tail(s), NEW j \in DOMAIN Tail(s),
                      Tail(s)[i] = g, Tail(s)[j] = g
               PROVE  i = j
    BY DEF Unique
  <2>1. i + 1 = j + 1
    BY <1>2 DEF Unique
  <2> QED
    BY <1>2, <2>1
<1>8. Unique(s, g) /\ Head(s) = g => ~Among(Tail(s), g)
  BY <1>1, <1>2, <1>4 DEF Among, Unique
<1> QED
  BY <1>1, <1>5, <1>6, <1>7, <1>8

LEMMA EmptyQueue ==
  ASSUME NEW g
  PROVE  ~Among(<<>>, g) /\ Unique(<<>>, g) /\ <<>> \in Seq(FunctorNames)
BY EmptySeq DEF Among, Unique

\* a queue without any of the three names
LEMMA NothingWaits ==
  ASSUME NEW s \in Seq(FunctorNames), \A g \in FunctorNames : ~Among(s, g)
  PROVE  s = <<>>
<1>1. SUFFICES ASSUME s # <<>> PROVE FALSE
  OBVIOUS
<1>2. Head(s) \in FunctorNames /\ Among(s, Head(s))
  BY <1>1, Popped DEF FunctorNames
<1> QED
  BY <1>2

LEMMA WaitingAmong == \A f : Waiting(f) <=> Among(functors, f)
BY DEF Waiting, Among

------------------------------------------------------------------------------
(* No socket is leaked *)

\* what the Connector does to its channel, sockets and delay, with the functors it leaves
Sound(q) ==
  /\ state' \in {"kDisconnected", "kConnecting", "kConnected"}
  /\ channel' \in {"none", "added", "removed"}
  /\ retryDelayMs' \in kInitRetryDelayMs .. kMaxRetryDelayMs
  /\ state' = "kConnecting" <=> channel' = "added"
  /\ sockets' = IF channel' = "added" THEN 1 ELSE 0
  /\ retries' \in Nat
  /\ q \in Seq(FunctorNames)
  /\ Unique(q, "resetChannel")
  /\ channel' = "removed" <=> Among(q, "resetChannel")

LEMMA SoundIs ==
  ASSUME Sound(functors'),
         connecting_' \in BOOLEAN, connect_' \in BOOLEAN, client' \in BOOLEAN,
         connector' \in BOOLEAN, keeper' \in BOOLEAN, connection' \in {"none", "up"},
         connects' \in Nat, retry_' \in BOOLEAN
  PROVE  SocketInv'
BY DEF SocketInv, Sound, NoSocketLeak, TypeOK

LEMMA SoundFacts ==
  ASSUME SocketInv
  PROVE  /\ state \in {"kDisconnected", "kConnecting", "kConnected"}
         /\ channel \in {"none", "added", "removed"}
         /\ retryDelayMs \in kInitRetryDelayMs .. kMaxRetryDelayMs
         /\ state = "kConnecting" <=> channel = "added"
         /\ sockets = IF channel = "added" THEN 1 ELSE 0
         /\ retries \in Nat /\ connects \in Nat
         /\ functors \in Seq(FunctorNames)
         /\ Unique(functors, "resetChannel")
         /\ channel = "removed" <=> Among(functors, "resetChannel")
         /\ connecting_ \in BOOLEAN /\ connect_ \in BOOLEAN /\ client \in BOOLEAN
         /\ connector \in BOOLEAN /\ keeper \in BOOLEAN /\ retry_ \in BOOLEAN
         /\ connection \in {"none", "up"}
BY DEF SocketInv, NoSocketLeak, TypeOK

\* q: a queue with as many resetChannel as functors
SameResets(q) ==
  /\ q \in Seq(FunctorNames) /\ Unique(q, "resetChannel")
  /\ Among(q, "resetChannel") <=> Among(functors, "resetChannel")

LEMMA SoundSame ==
  ASSUME SocketInv, UNCHANGED connectorVars, NEW q, SameResets(q)
  PROVE  Sound(q)
BY SoundFacts DEF connectorVars, Sound, SameResets

LEMMA DelayGrows ==
  ASSUME SocketInv
  PROVE  nextDelay \in kInitRetryDelayMs .. kMaxRetryDelayMs
BY SoundFacts, ClientAssumption DEF nextDelay, least

\* the attempt ends, and its channel is removed
LEMMA SoundRemove ==
  ASSUME SocketInv, channel = "added", NEW q, SameResets(q), removeAndResetChannel(q),
         state' \in {"kDisconnected", "kConnected"}, sockets' = sockets - 1,
         retryDelayMs' \in {retryDelayMs, nextDelay}, retries' \in Nat
  PROVE  Sound(functors')
<1>1. "resetChannel" \in FunctorNames /\ ~Among(q, "resetChannel")
  BY SoundFacts DEF SameResets, FunctorNames
<1>2. /\ functors' = Append(q, "resetChannel") /\ functors' \in Seq(FunctorNames)
      /\ Unique(functors', "resetChannel") /\ Among(functors', "resetChannel")
  BY <1>1, Pushed DEF SameResets, removeAndResetChannel
<1>3. retryDelayMs' \in kInitRetryDelayMs .. kMaxRetryDelayMs
  BY SoundFacts, DelayGrows
<1> QED
  BY <1>2, <1>3, SoundFacts DEF Sound, removeAndResetChannel

LEMMA SoundStart ==
  ASSUME SocketInv, NEW left \in Nat, NEW want, NEW fired, startInLoop(left, want, fired),
         NEW q, SameResets(q)
  PROVE  Sound(q)
<1>1. CASE UNCHANGED connectorVars
  BY <1>1, SoundSame
<1>2. CASE connecting(left, fired) /\ channel = "none"
  BY <1>2, SoundFacts DEF connecting, Sound, SameResets
<1>3. CASE /\ state = "kDisconnected" /\ state' = "kDisconnected" /\ retries' = left + 1
           /\ retryDelayMs' = nextDelay /\ UNCHANGED <<channel, sockets>>
  BY <1>3, SoundFacts, DelayGrows DEF Sound, SameResets
<1>4. CASE /\ state = "kDisconnected" /\ retries' = left
           /\ UNCHANGED <<state, channel, retryDelayMs, sockets>>
  BY <1>4, SoundFacts DEF Sound, SameResets
<1> QED
  BY <1>1, <1>2, <1>3, <1>4 DEF startInLoop, connect, connecting

LEMMA SoundStop ==
  ASSUME SocketInv, NEW q, SameResets(q), stopInLoop(q)
  PROVE  Sound(functors')
<1>1. CASE state = "kConnecting"
  <2>1. channel = "added" /\ removeAndResetChannel(q) /\ retry(retries)
    BY <1>1, SoundFacts DEF stopInLoop
  <2>2. /\ state' = "kDisconnected" /\ sockets' = sockets - 1
        /\ retryDelayMs' \in {retryDelayMs, nextDelay} /\ retries' \in Nat
    BY <2>1, SoundFacts DEF retry
  <2> QED
    BY <2>1, <2>2, SoundRemove
<1>2. CASE state # "kConnecting"
  <2>1. functors' = q /\ UNCHANGED connectorVars
    BY <1>2 DEF stopInLoop
  <2> QED
    BY <2>1, SoundSame
<1> QED
  BY <1>1, <1>2

LEMMA SameQueue ==
  ASSUME SocketInv
  PROVE  SameResets(functors)
BY SoundFacts DEF SameResets

LEMMA PushOther ==
  ASSUME SocketInv, NEW f \in {"startInLoop", "stopInLoop"}
  PROVE  SameResets(Append(functors, f))
<1>1. f \in FunctorNames /\ "resetChannel" \in FunctorNames /\ f # "resetChannel"
  BY DEF FunctorNames
<1> QED
  BY <1>1, SoundFacts, Pushed DEF SameResets

LEMMA PopOther ==
  ASSUME SocketInv, functors # <<>>, Head(functors) # "resetChannel"
  PROVE  SameResets(Tail(functors))
<1>1. "resetChannel" \in FunctorNames
  BY DEF FunctorNames
<1> QED
  BY <1>1, SoundFacts, Popped DEF SameResets

LEMMA SocketStep == SocketInv /\ [Next]_vars => SocketInv'
<1> SUFFICES ASSUME SocketInv, [Next]_vars PROVE SocketInv'
  OBVIOUS
<1> USE SoundFacts
<1>0. ASSUME SameResets(functors'), UNCHANGED connectorVars PROVE Sound(functors')
  BY <1>0, SoundSame
<1>1. ASSUME NEW what, Crash(what) PROVE SocketInv'
  <2>1. Sound(functors')
    BY <1>0, <1>1, SameQueue DEF Crash
  <2> QED
    BY <1>1, <2>1, SoundIs DEF Crash, clientVars
<1>2. CASE RunFunctor
  <2> DEFINE f == Head(functors)
             fs == Tail(functors)
  <2> SUFFICES ASSUME Held, functors # <<>>,
                      UNCHANGED <<connecting_, clientVars, connects>>,
                      \/ f = "startInLoop" /\ functors' = fs /\ startInLoop(retries, connecting_, FALSE)
                      \/ f = "stopInLoop" /\ stopInLoop(fs) /\ UNCHANGED crash
                      \/ /\ f = "resetChannel"
                         /\ functors' = fs
                         /\ resetChannel
                         /\ UNCHANGED <<state, retryDelayMs, retries, sockets, crash>>
               PROVE  Sound(functors')
    BY <1>1, <1>2, SoundIs DEF RunFunctor, clientVars
  <2>1. CASE f = "startInLoop"
    BY <2>1, PopOther, SoundStart
  <2>2. CASE f = "stopInLoop"
    BY <2>2, PopOther, SoundStop
  <2>3. CASE f = "resetChannel"
    <3>1. "resetChannel" \in FunctorNames
      BY DEF FunctorNames
    <3>2. fs \in Seq(FunctorNames) /\ ~Among(fs, "resetChannel") /\ Unique(fs, "resetChannel")
          /\ Among(functors, "resetChannel")
      BY <2>3, <3>1, Popped
    <3>3. functors' = fs /\ resetChannel /\ UNCHANGED <<state, retryDelayMs, retries, sockets>>
      BY <2>3
    <3> QED
      BY <3>2, <3>3 DEF Sound, resetChannel
  <2> QED
    BY <2>1, <2>2, <2>3
<1>3. CASE RetryTimer
  <2>0. retries - 1 \in Nat
    BY <1>3 DEF RetryTimer
  <2>1. startInLoop(retries - 1, connecting_, TRUE) /\ functors' = functors
    BY <1>3, Zenon DEF RetryTimer
  <2>2. Sound(functors')
    BY <2>0, <2>1, SameQueue, SoundStart, Zenon
  <2> QED
    BY <1>3, <2>2, SoundIs DEF RetryTimer, clientVars
<1>4. CASE HandleFailure
  <2>1. /\ channel = "added" /\ removeAndResetChannel(functors)
        /\ state' = "kDisconnected" /\ sockets' = sockets - 1
        /\ retryDelayMs' \in {retryDelayMs, nextDelay} /\ retries' \in Nat
    BY <1>4 DEF HandleFailure, retry
  <2>2. Sound(functors')
    BY <2>1, SameQueue, SoundRemove
  <2> QED
    BY <1>4, <2>2, SoundIs DEF HandleFailure, clientVars
<1>5. CASE HandleConnected
  <2>1. /\ channel = "added" /\ removeAndResetChannel(functors)
        /\ state' = "kConnected" /\ sockets' = sockets - 1
        /\ retryDelayMs' \in {retryDelayMs, nextDelay} /\ retries' \in Nat
    BY <1>5 DEF HandleConnected
  <2>2. Sound(functors')
    BY <2>1, SameQueue, SoundRemove
  <2> QED
    BY <1>5, <2>2, SoundIs DEF HandleConnected, newConnection
<1>6. CASE KeeperTimer
  <2>1. Sound(functors')
    BY <1>0, <1>6, SameQueue DEF KeeperTimer
  <2> QED
    BY <1>6, <2>1, SoundIs DEF KeeperTimer
<1>7. CASE RemoveConnection
  <2>1. Sound(functors')
    BY <1>0, <1>7, SameQueue DEF RemoveConnection
  <2> QED
    BY <1>7, <2>1, SoundIs DEF RemoveConnection
<1>8. CASE Connect
  <2>1. CASE start /\ connector
    <3>1. Sound(functors')
      BY <1>8, <2>1, SameQueue, SoundStart DEF Connect, start, Crash
    <3> QED
      BY <1>8, <2>1, <3>1, SoundIs, <1>1 DEF Connect, start
  <2> QED
    BY <1>1, <1>8, <2>1 DEF Connect
<1>9. CASE ConnectForeign
  <2>1. Sound(functors')
    BY <1>0, <1>9, PushOther DEF ConnectForeign, startForeign
  <2> QED
    BY <1>9, <2>1, SoundIs DEF ConnectForeign, startForeign
<1>10. CASE Disconnect \/ enableRetry
  <2>1. Sound(functors')
    BY <1>0, <1>10, SameQueue DEF Disconnect, enableRetry
  <2> QED
    BY <1>10, <2>1, SoundIs DEF Disconnect, enableRetry
<1>11. CASE Stop
  <2>1. CASE connector /\ stop /\ UNCHANGED connectorVars
    <3>1. Sound(functors')
      BY <1>0, <2>1, PushOther DEF stop
    <3> QED
      BY <1>11, <2>1, <3>1, SoundIs, <1>1 DEF Stop, stop
  <2> QED
    BY <1>1, <1>11, <2>1 DEF Stop
<1>12. CASE Destroy
  <2>1. Sound(functors')
    BY <1>0, <1>12, SameQueue, PushOther DEF Destroy, stop
  <2> QED
    BY <1>12, <2>1, SoundIs DEF Destroy, stop
<1>13. CASE UNCHANGED vars
  <2>1. Sound(functors')
    BY <1>0, <1>13, SameQueue DEF vars
  <2> QED
    BY <1>13, <2>1, SoundIs DEF vars, clientVars
<1> QED
  BY <1>2, <1>3, <1>4, <1>5, <1>6, <1>7, <1>8, <1>9, <1>10, <1>11, <1>12, <1>13 DEF Next, Users

LEMMA SocketInit == Init => SocketInv
<1> SUFFICES ASSUME Init PROVE SocketInv
  OBVIOUS
<1>1. functors \in Seq(FunctorNames) /\ Unique(functors, "resetChannel")
      /\ ~Among(functors, "resetChannel")
  BY EmptyQueue DEF Init
<1>2. /\ connecting_ \in BOOLEAN /\ connect_ \in BOOLEAN /\ client \in BOOLEAN
      /\ connector \in BOOLEAN /\ keeper \in BOOLEAN /\ retry_ \in BOOLEAN
  BY DEF Init, ConstructConnector
<1>3. /\ state = "kDisconnected" /\ channel = "none" /\ connection = "none"
      /\ retries \in Nat /\ connects \in Nat /\ sockets = 0
      /\ retryDelayMs = kInitRetryDelayMs
  BY DEF Init, ConstructConnector
<1>4. retryDelayMs \in kInitRetryDelayMs .. kMaxRetryDelayMs
  BY <1>3, ClientAssumption
<1> QED
  BY <1>1, <1>2, <1>3, <1>4 DEF SocketInv, NoSocketLeak, TypeOK

LEMMA SocketCorrect == Spec => []SocketInv
<1> QED
  BY SocketInit, SocketStep, PTL DEF Spec

\* NoSocketLeak: whatever users, timers and the network do, Connector's socket is open
\* while its channel is watched and never otherwise, and its delay stays between
\* kInitRetryDelayMs and kMaxRetryDelayMs.
THEOREM NoSocketLeakCorrect == FairSpec => []NoSocketLeak
<1>1. SocketInv => NoSocketLeak
  BY DEF SocketInv
<1> QED
  BY <1>1, SocketCorrect, PTL DEF FairSpec

------------------------------------------------------------------------------
(* One attempt at a time *)

\* q waits for the loop instead of functors, with none of the two names in addition
NoMore(q) ==
  /\ Unique(q, "startInLoop")
  /\ Among(q, "startInLoop") => Among(functors, "startInLoop")

LEMMA PopFacts ==
  ASSUME SocketInv, functors # <<>>, Unique(functors, "startInLoop")
  PROVE  /\ NoMore(Tail(functors)) /\ Tail(functors) \in Seq(FunctorNames)
         /\ Head(functors) = "startInLoop" => /\ Among(functors, "startInLoop")
                                              /\ ~Among(Tail(functors), "startInLoop")
         /\ Head(functors) = "resetChannel" => Among(functors, "resetChannel")
         /\ Among(functors, "stopInLoop") =>
              Head(functors) = "stopInLoop" \/ Among(Tail(functors), "stopInLoop")
<1>1. /\ "startInLoop" \in FunctorNames /\ "stopInLoop" \in FunctorNames
      /\ "resetChannel" \in FunctorNames
  BY DEF FunctorNames
<1> QED
  BY <1>1, SoundFacts, Popped DEF NoMore

LEMMA PushFacts ==
  ASSUME NEW s \in Seq(FunctorNames), NEW f \in {"stopInLoop", "resetChannel"},
         Unique(s, "startInLoop")
  PROVE  /\ Unique(Append(s, f), "startInLoop")
         /\ Among(Append(s, f), "startInLoop") <=> Among(s, "startInLoop")
         /\ Among(s, "stopInLoop") => Among(Append(s, f), "stopInLoop")
         /\ f = "stopInLoop" => Among(Append(s, f), "stopInLoop")
<1>1. /\ "startInLoop" \in FunctorNames /\ "stopInLoop" \in FunctorNames
      /\ f \in FunctorNames /\ f # "startInLoop"
  BY DEF FunctorNames
<1> QED
  BY <1>1, Pushed

LEMMA PushStart ==
  ASSUME NEW s \in Seq(FunctorNames), ~Among(s, "startInLoop"), Unique(s, "startInLoop")
  PROVE  Unique(Append(s, "startInLoop"), "startInLoop")
<1>1. "startInLoop" \in FunctorNames
  BY DEF FunctorNames
<1> QED
  BY <1>1, Pushed

\* startInLoop with nothing of an attempt left over and no other timer: no assert fails
LEMMA StartSafe ==
  ASSUME SocketInv, state = "kDisconnected", channel = "none", crash = "none",
         retries \in {0, 1}, NEW want, NEW fired, startInLoop(0, want, fired)
  PROVE  /\ crash' \in {"none"} \cup Aborts /\ retries' \in {0, 1}
         /\ state' \in {"kDisconnected", "kConnecting"}
         /\ retries' = 1 => state' = "kDisconnected"
         /\ ~want => state' = state /\ channel' = channel
<1>1. \A k : AfterTimer(fired, 0, k) \subseteq {"none"} \cup Aborts
  BY DEF AfterTimer, Aborts
<1>2. crash' \in {"none"} \cup Aborts
  BY <1>1, Zenon DEF startInLoop, connect, connecting, Aborts
<1>3. /\ retries' \in {0, 1} /\ state' \in {"kDisconnected", "kConnecting"}
      /\ retries' = 1 => state' = "kDisconnected"
      /\ ~want => state' = state /\ channel' = channel
  <2>1. \/ state' = "kConnecting" /\ retries' = 0 /\ want
        \/ state' = "kDisconnected" /\ retries' = 0 + 1 /\ want
        \/ UNCHANGED <<state, channel, retries>>
        \/ retries' = 0 /\ UNCHANGED <<state, channel>>
    BY Zenon DEF startInLoop, connect, connecting, connectorVars
  <2> QED
    BY <2>1
<1> QED
  BY <1>2, <1>3

LEMMA RunAttempt ==
  ASSUME SocketInv, SocketInv', AttemptInv, connects <= 1, ~retry_, RunFunctor
  PROVE  AttemptInv'
<1> USE SoundFacts
<1> DEFINE f == Head(functors)
           fs == Tail(functors)
<1>0. /\ crash = "none" /\ AtMostOne /\ Outlives /\ functors # <<>>
      /\ connects = 0 => Untouched
  BY DEF AttemptInv, RunFunctor, Running
<1>1. Held /\ (~client => keeper)
  BY <1>0 DEF Outlives, Held
<1>2. /\ UNCHANGED <<connecting_, clientVars, connects>>
      /\ \/ f = "startInLoop" /\ functors' = fs /\ startInLoop(retries, connecting_, FALSE)
         \/ f = "stopInLoop" /\ stopInLoop(fs) /\ UNCHANGED crash
         \/ /\ f = "resetChannel"
            /\ functors' = fs
            /\ resetChannel
            /\ UNCHANGED <<state, retryDelayMs, retries, sockets, crash>>
  BY <1>1 DEF RunFunctor
<1>3. UNCHANGED <<connecting_, client, connector, connection, keeper, connects>>
  BY <1>2 DEF clientVars
<1>4. /\ NoMore(fs) /\ fs \in Seq(FunctorNames)
      /\ f = "startInLoop" => Among(functors, "startInLoop") /\ ~Among(fs, "startInLoop")
      /\ f = "resetChannel" => Among(functors, "resetChannel")
      /\ Among(functors, "stopInLoop") => f = "stopInLoop" \/ Among(fs, "stopInLoop")
  BY <1>0, PopFacts DEF AtMostOne
<1> HIDE DEF f, fs
<1>5. CASE f = "startInLoop"
  <2>1. functors' = fs /\ startInLoop(retries, connecting_, FALSE)
    BY <1>2, <1>5
  <2>2. /\ retries = 0 /\ state = "kDisconnected" /\ channel = "none" /\ connects # 0
        /\ connection = "none" /\ client
    BY <1>0, <1>4, <1>5 DEF AtMostOne, Untouched, Outlives
  <2>3. /\ crash' \in {"none"} \cup Aborts /\ retries' \in {0, 1}
        /\ state' \in {"kDisconnected", "kConnecting"}
        /\ retries' = 1 => state' = "kDisconnected"
    BY <1>0, <2>1, <2>2, StartSafe
  <2>4. AtMostOne'
    BY <1>3, <1>4, <1>5, <2>1, <2>2, <2>3 DEF AtMostOne, NoMore
  <2>5. Outlives'
    BY <1>0, <1>3, <2>2 DEF Outlives
  <2> QED
    BY <1>3, <2>2, <2>3, <2>4, <2>5 DEF AttemptInv
<1>6. CASE f = "stopInLoop" /\ state = "kConnecting"
  <2>1. /\ functors' = Append(fs, "resetChannel") /\ state' = "kDisconnected"
        /\ retries' = (IF connecting_ THEN retries + 1 ELSE retries) /\ crash' = crash
    BY <1>2, <1>6 DEF stopInLoop, removeAndResetChannel, retry
  <2>2. retries = 0 /\ connects # 0 /\ connection = "none" /\ ~Among(functors, "startInLoop")
    BY <1>0, <1>6 DEF AtMostOne, Untouched
  <2>3. retries' \in {0, 1}
    BY <2>1, <2>2
  <2>4. /\ Unique(functors', "startInLoop") /\ ~Among(functors', "startInLoop")
    BY <1>4, <2>1, <2>2, PushFacts DEF NoMore
  <2>5. AtMostOne'
    BY <1>3, <2>1, <2>2, <2>3, <2>4 DEF AtMostOne
  <2>6. Outlives'
    BY <1>0, <1>1, <1>3, <1>6, <2>1, <2>4 DEF Outlives
  <2> QED
    BY <1>0, <1>3, <2>1, <2>2, <2>5, <2>6 DEF AttemptInv
<1>7. CASE f = "stopInLoop" /\ state # "kConnecting"
  <2>1. functors' = fs /\ UNCHANGED <<state, channel, retries, crash>>
    BY <1>2, <1>7 DEF stopInLoop, connectorVars
  <2>2. AtMostOne'
    BY <1>0, <1>3, <1>4, <2>1 DEF AtMostOne, NoMore
  <2>3. Outlives'
    BY <1>0, <1>1, <1>3, <1>4, <1>7, <2>1 DEF Outlives, NoMore
  <2>4. Untouched => Untouched'
    BY <1>3, <1>4, <2>1 DEF Untouched, NoMore
  <2> QED
    BY <1>0, <1>3, <2>1, <2>2, <2>3, <2>4 DEF AttemptInv
<1>8. CASE f = "resetChannel"
  <2>1. functors' = fs /\ channel' = "none" /\ UNCHANGED <<state, retries, crash>>
    BY <1>2, <1>8 DEF resetChannel
  <2>2. AtMostOne'
    BY <1>0, <1>3, <1>4, <2>1 DEF AtMostOne, NoMore
  <2>3. Outlives'
    BY <1>0, <1>1, <1>3, <1>4, <1>8, <2>1 DEF Outlives, NoMore
  <2>4. Untouched => Untouched'
    BY <1>3, <1>4, <2>1 DEF Untouched, NoMore
  <2> QED
    BY <1>0, <1>3, <2>1, <2>2, <2>3, <2>4 DEF AttemptInv
<1> QED
  BY <1>2, <1>5, <1>6, <1>7, <1>8

\* what an attempt that ends leaves: no timer yet, no start that waits
LEMMA AttemptRuns ==
  ASSUME SocketInv, connects = 0 => Untouched, AtMostOne, channel = "added"
  PROVE  /\ state = "kConnecting" /\ retries = 0 /\ connects # 0 /\ connection = "none"
         /\ ~Among(functors, "startInLoop")
BY SoundFacts DEF AtMostOne, Untouched

LEMMA AttemptStep ==
  ~DestroyAnyTime /\ SocketInv /\ SocketInv' /\ AttemptInv /\ [Next]_vars => AttemptInv'
<1> SUFFICES ASSUME ~DestroyAnyTime, SocketInv, SocketInv', AttemptInv, [Next]_vars,
                    connects' <= 1, ~retry_'
             PROVE  AttemptInv'
  BY DEF AttemptInv
<1> USE SoundFacts
<1>1. connects <= 1 /\ ~retry_ /\ (connects # connects' => connects = 0)
  <2>1. connects' = connects \/ connects' = connects + 1
    BY DEF Next, Users, RunFunctor, RetryTimer, HandleFailure, HandleConnected, KeeperTimer,
           RemoveConnection, Connect, ConnectForeign, Disconnect, Stop, Destroy, enableRetry,
           vars, Crash
  <2>2. retry_' = retry_ \/ retry_'
    BY DEF Next, Users, RunFunctor, RetryTimer, HandleFailure, HandleConnected, KeeperTimer,
           RemoveConnection, Connect, ConnectForeign, Disconnect, Stop, Destroy, enableRetry,
           clientVars, vars, Crash
  <2> QED
    BY <2>1, <2>2
<1>2. /\ crash \in {"none"} \cup Aborts /\ AtMostOne /\ Outlives
      /\ connects = 0 => Untouched
  BY <1>1 DEF AttemptInv
<1>3. SUFFICES /\ crash' \in {"none"} \cup Aborts /\ AtMostOne' /\ Outlives'
               /\ connects' = 0 => Untouched'
  BY DEF AttemptInv
<1>4. CASE RunFunctor
  BY <1>1, <1>4, RunAttempt DEF AttemptInv
<1>5. CASE RetryTimer
  <2>1. /\ retries > 0 /\ ~Among(functors, "resetChannel")
        /\ startInLoop(retries - 1, connecting_, TRUE)
        /\ UNCHANGED <<connecting_, client, connector, connection, keeper, functors, connects>>
        /\ crash = "none"
    BY <1>5, WaitingAmong DEF RetryTimer, clientVars, Running
  <2>2. /\ retries = 1 /\ state = "kDisconnected" /\ channel = "none" /\ connection = "none"
        /\ connects # 0 /\ ~Among(functors, "startInLoop")
    BY <1>2, <2>1 DEF AtMostOne, Untouched
  <2>0. retries - 1 = 0
    BY <2>2
  <2>3. startInLoop(0, connecting_, TRUE)
    BY <2>0, <2>1, Zenon
  <2>4. /\ crash' \in {"none"} \cup Aborts /\ retries' \in {0, 1}
        /\ state' \in {"kDisconnected", "kConnecting"}
        /\ retries' = 1 => state' = "kDisconnected"
        /\ ~connecting_ => state' = state /\ channel' = channel
    BY <2>1, <2>2, <2>3, StartSafe
  <2>5. AtMostOne'
    BY <1>2, <2>1, <2>2, <2>4 DEF AtMostOne
  <2>6. Outlives'
    BY <1>2, <2>1, <2>2, <2>4 DEF Outlives
  <2> QED
    BY <2>1, <2>2, <2>4, <2>5, <2>6
<1>6. CASE HandleFailure
  <2>1. /\ channel = "added" /\ functors' = Append(functors, "resetChannel")
        /\ state' = "kDisconnected" /\ crash' = crash
        /\ retries' = IF connecting_ THEN retries + 1 ELSE retries
        /\ UNCHANGED <<connecting_, client, connector, connection, keeper, connects>>
    BY <1>6 DEF HandleFailure, removeAndResetChannel, retry, clientVars
  <2>2. /\ state = "kConnecting" /\ retries = 0 /\ connects # 0 /\ connection = "none"
        /\ ~Among(functors, "startInLoop")
    BY <1>2, <2>1, AttemptRuns
  <2>3. Unique(functors', "startInLoop") /\ ~Among(functors', "startInLoop")
    BY <1>2, <2>1, <2>2, PushFacts DEF AtMostOne
  <2>4. retries' \in {0, 1}
    BY <2>1, <2>2
  <2>5. AtMostOne'
    BY <2>1, <2>2, <2>3, <2>4 DEF AtMostOne
  <2>6. Outlives'
    BY <1>2, <2>1, <2>2, <2>3 DEF Outlives
  <2> QED
    BY <1>2, <2>1, <2>2, <2>5, <2>6
<1>7. CASE HandleConnected
  <2>1. /\ channel = "added" /\ functors' = Append(functors, "resetChannel")
        /\ state' = "kConnected" /\ crash' = crash /\ retries' = retries
        /\ connection' = IF connecting_ THEN "up" ELSE connection
        /\ UNCHANGED <<connecting_, client, connector, keeper, connects>>
    BY <1>7 DEF HandleConnected, removeAndResetChannel, newConnection
  <2>2. /\ state = "kConnecting" /\ retries = 0 /\ connects # 0 /\ connection = "none"
        /\ ~Among(functors, "startInLoop")
    BY <1>2, <2>1, AttemptRuns
  <2>3. Unique(functors', "startInLoop") /\ ~Among(functors', "startInLoop")
    BY <1>2, <2>1, <2>2, PushFacts DEF AtMostOne
  <2>5. AtMostOne'
    BY <2>1, <2>2, <2>3 DEF AtMostOne
  <2>6. Outlives'
    BY <1>2, <2>1, <2>2, <2>3 DEF Outlives
  <2> QED
    BY <1>2, <2>1, <2>2, <2>5, <2>6
<1>8. CASE KeeperTimer
  <2>1. /\ keeper /\ ~Among(functors, "resetChannel") /\ ~Among(functors, "stopInLoop")
        /\ ~keeper' /\ crash' \in {released(connector, FALSE)} \cup AfterTimer(TRUE, retries, FALSE)
        /\ UNCHANGED <<state, channel, retries, connecting_, client, connector, connection,
                       functors, connects>>
    BY <1>8, WaitingAmong DEF KeeperTimer, connectorVars
  <2>2. ~client /\ ~Among(functors, "startInLoop") /\ channel = "none"
    BY <1>2, <2>1 DEF Outlives
  <2>3. functors = <<>>
    BY <2>1, <2>2, NothingWaits DEF FunctorNames
  <2>4. crash' \in {"none"} \cup Aborts
    BY <2>1, <2>2 DEF released, AfterTimer, Aborts
  <2>5. AtMostOne'
    BY <1>2, <2>1 DEF AtMostOne
  <2>6. Outlives'
    BY <1>2, <2>1, <2>2, <2>3 DEF Outlives
  <2>7. Untouched => Untouched'
    BY <2>1 DEF Untouched
  <2> QED
    BY <1>2, <2>1, <2>4, <2>5, <2>6, <2>7
<1>9. CASE RemoveConnection
  <2>1. /\ client /\ connection = "up" /\ connection' = "none"
        /\ connector' = (connector /\ ~(retry_ /\ connect_))
        /\ crash' = released(connector', keeper)
        /\ UNCHANGED <<state, channel, retries, connecting_, client, keeper, functors, connects>>
    BY <1>9 DEF RemoveConnection, connectorVars
  <2>2. connector /\ connector'
    BY <1>1, <1>2, <2>1 DEF Outlives
  <2>3. crash' = "none"
    BY <2>1, <2>2 DEF released
  <2>4. AtMostOne'
    BY <1>2, <2>1 DEF AtMostOne
  <2>5. Outlives'
    BY <1>2, <2>1, <2>2 DEF Outlives
  <2>6. Untouched => Untouched'
    BY <2>1 DEF Untouched
  <2> QED
    BY <1>2, <2>1, <2>3, <2>4, <2>5, <2>6
<1>10. CASE Connect
  <2>1. connector /\ client
    BY <1>2, <1>10 DEF Connect, MayCall, Outlives
  <2>2. /\ connects' = connects + 1 /\ startInLoop(retries, TRUE, FALSE)
        /\ UNCHANGED <<client, connector, connection, keeper, functors>> /\ crash = "none"
    BY <1>10, <2>1 DEF Connect, start, MayCall, Running
  <2>3. /\ state = "kDisconnected" /\ channel = "none" /\ retries = 0 /\ connection = "none"
        /\ ~Among(functors, "startInLoop")
    BY <1>1, <1>2, <2>2 DEF Untouched
  <2>4. /\ crash' \in {"none"} \cup Aborts /\ retries' \in {0, 1}
        /\ state' \in {"kDisconnected", "kConnecting"}
        /\ retries' = 1 => state' = "kDisconnected"
    BY <1>2, <2>2, <2>3, StartSafe
  <2>5. AtMostOne'
    BY <1>2, <2>2, <2>3, <2>4 DEF AtMostOne
  <2>6. Outlives'
    BY <1>2, <2>1, <2>2 DEF Outlives
  <2> QED
    BY <2>2, <2>4, <2>5, <2>6
<1>11. CASE ConnectForeign
  <2>1. /\ connects' = connects + 1 /\ functors' = Append(functors, "startInLoop") /\ client
        /\ UNCHANGED <<state, channel, retries, client, connector, connection, keeper, crash>>
    BY <1>11 DEF ConnectForeign, startForeign, MayCall, connectorVars
  <2>2. /\ state = "kDisconnected" /\ channel = "none" /\ retries = 0 /\ connection = "none"
        /\ ~Among(functors, "startInLoop")
    BY <1>1, <1>2, <2>1 DEF Untouched
  <2>3. Unique(functors', "startInLoop")
    BY <1>2, <2>1, <2>2, PushStart DEF AtMostOne
  <2>4. AtMostOne'
    BY <1>2, <2>1, <2>2, <2>3 DEF AtMostOne
  <2>5. Outlives'
    BY <1>2, <2>1 DEF Outlives
  <2> QED
    BY <1>2, <2>1, <2>4, <2>5
<1>12. CASE Disconnect \/ enableRetry \/ UNCHANGED vars
  <2>1. UNCHANGED <<state, channel, retries, connecting_, client, connector, connection, keeper,
                    functors, connects, crash>>
    BY <1>12 DEF Disconnect, enableRetry, vars, connectorVars, clientVars
  <2>2. AtMostOne' /\ Outlives' /\ (Untouched => Untouched')
    BY <1>2, <2>1 DEF AtMostOne, Outlives, Untouched
  <2> QED
    BY <1>2, <2>1, <2>2
<1>13. CASE Stop
  <2>1. connector /\ client
    BY <1>2, <1>13 DEF Stop, MayCall, Outlives
  <2>2. /\ functors' = Append(functors, "stopInLoop")
        /\ UNCHANGED <<state, channel, retries, client, connector, connection, keeper, connects,
                       crash>>
    BY <1>13, <2>1 DEF Stop, stop, connectorVars
  <2>3. /\ Unique(functors', "startInLoop")
        /\ Among(functors', "startInLoop") <=> Among(functors, "startInLoop")
        /\ Among(functors, "stopInLoop") => Among(functors', "stopInLoop")
    BY <1>2, <2>2, PushFacts DEF AtMostOne
  <2>4. AtMostOne'
    BY <1>2, <2>2, <2>3 DEF AtMostOne
  <2>5. Outlives'
    BY <1>2, <2>1, <2>2, <2>3 DEF Outlives
  <2>6. Untouched => Untouched'
    BY <2>2, <2>3 DEF Untouched
  <2> QED
    BY <1>2, <2>2, <2>4, <2>5, <2>6
<1>14. CASE Destroy
  <2>1. /\ client /\ connector /\ ~keeper /\ functors = <<>>
        /\ UNCHANGED <<state, channel, retries, connects>>
    BY <1>2, <1>14 DEF Destroy, MayCall, Outlives, connectorVars
  <2>2. \A g : ~Among(functors, g)
    BY <2>1, EmptyQueue
  <2>3. CASE connection = "up"
    <3>1. /\ ~client' /\ ~connector' /\ connection' = "none" /\ crash' = released(FALSE, keeper)
          /\ UNCHANGED <<keeper, connecting_, functors>>
      BY <1>14, <2>3 DEF Destroy
    <3>2. state = "kConnected" /\ channel = "none" /\ connects # 0
      BY <1>2, <2>2, <2>3 DEF AtMostOne, Untouched
    <3>3. crash' = "none"
      BY <3>1, <3>2 DEF released
    <3>4. AtMostOne'
      BY <1>2, <2>1, <3>1 DEF AtMostOne
    <3>5. Outlives'
      BY <1>2, <2>1, <2>2, <3>1, <3>2 DEF Outlives
    <3> QED
      BY <2>1, <3>2, <3>3, <3>4, <3>5
  <2>4. CASE connection = "none"
    <3>1. /\ ~client' /\ ~connector' /\ keeper' /\ ~connecting_'
          /\ functors' = Append(functors, "stopInLoop") /\ UNCHANGED <<connection, crash>>
      BY <1>14, <2>1, <2>4 DEF Destroy, stop
    <3>2. /\ Unique(functors', "startInLoop") /\ ~Among(functors', "startInLoop")
          /\ Among(functors', "stopInLoop")
      BY <1>2, <2>2, <3>1, PushFacts DEF AtMostOne
    <3>3. AtMostOne'
      BY <1>2, <2>1, <3>1, <3>2 DEF AtMostOne
    <3>4. Outlives'
      BY <2>4, <3>1, <3>2 DEF Outlives
    <3>5. Untouched => Untouched'
      BY <2>1, <3>1, <3>2 DEF Untouched
    <3> QED
      BY <1>2, <2>1, <3>1, <3>3, <3>4, <3>5
  <2> QED
    BY <2>3, <2>4
<1> QED
  BY <1>4, <1>5, <1>6, <1>7, <1>8, <1>9, <1>10, <1>11, <1>12, <1>13, <1>14 DEF Next, Users

LEMMA AttemptInit == Init => AttemptInv
<1> SUFFICES ASSUME Init PROVE AttemptInv
  OBVIOUS
<1>1. /\ state = "kDisconnected" /\ channel = "none" /\ retries = 0 /\ connection = "none"
      /\ functors = <<>> /\ crash = "none"
  BY DEF Init, ConstructConnector
<1>2. client /\ connector /\ ~keeper
  BY DEF Init
<1>3. \A g : ~Among(functors, g) /\ Unique(functors, g)
  BY <1>1, EmptyQueue
<1> QED
  BY <1>1, <1>2, <1>3 DEF AttemptInv, Untouched, AtMostOne, Outlives

LEMMA CountStarts ==
  ASSUME SocketInv, AtMostOne
  PROVE  retries + Cardinality({i \in DOMAIN functors : functors[i] = "startInLoop"})
           + (IF state = "kDisconnected" THEN 0 ELSE 1) <= 1
<1> DEFINE S == {i \in DOMAIN functors : functors[i] = "startInLoop"}
<1>1. CASE Among(functors, "startInLoop")
  <2>1. PICK i \in DOMAIN functors : functors[i] = "startInLoop"
    BY <1>1 DEF Among
  <2>2. S = {i}
    BY <2>1 DEF AtMostOne, Unique
  <2>3. Cardinality(S) = 1
    BY <2>2, FS_Singleton
  <2> HIDE DEF S
  <2> QED
    BY <1>1, <2>3 DEF AtMostOne, S
<1>2. CASE ~Among(functors, "startInLoop")
  <2>1. S = {}
    BY <1>2 DEF Among
  <2>2. Cardinality(S) = 0
    BY <2>1, FS_EmptySet
  <2> HIDE DEF S
  <2>3. retries \in {0, 1}
    BY SoundFacts DEF AtMostOne
  <2> QED
    BY <2>2, <2>3 DEF AtMostOne, S
<1> QED
  BY <1>1, <1>2

\* OneAttempt: with one connect and without enableRetry no assert of Connector or
\* TcpClient fails and nothing is used after its delete, so that the process ends by
\* LOG_FATAL at most, and there is one start that waits, one retry timer or one attempt;
\* for a client that is destroyed while none of its functors waits.
THEOREM OneAttemptCorrect ==
  ASSUME ~DestroyAnyTime
  PROVE  FairSpec => []OneAttempt
<1>1. Spec => []AttemptInv
  <2>1. Init => AttemptInv
    BY AttemptInit
  <2>2. SocketInv /\ SocketInv' /\ AttemptInv /\ [Next]_vars => AttemptInv'
    BY AttemptStep
  <2> QED
    BY <2>1, <2>2, SocketCorrect, PTL DEF Spec
<1>2. SocketInv /\ AttemptInv => OneAttempt
  BY CountStarts DEF AttemptInv, OneAttempt
<1> QED
  BY <1>1, <1>2, SocketCorrect, PTL DEF FairSpec
==============================================================================
