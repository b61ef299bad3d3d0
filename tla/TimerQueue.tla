----------------------------- MODULE TimerQueue ------------------------------
(***************************************************************************)
(* TimerQueue, Timer and TimerId (starry/net/src/timer_queue.cpp,          *)
(* timer.cpp): the timers of one EventLoop, driven by one timerfd.         *)
(*                                                                         *)
(* Timers are heap objects and their addresses are reused, so a heap maps  *)
(* addresses to timers, freed ones included.  Time is a counter of ticks   *)
(* that may advance between any two steps.  addTimer and cancel from the   *)
(* loop's own thread act at once; from another thread they are functors    *)
(* that the loop runs in order (EventLoop.tla), between two handleReads.   *)
(* abort() after a failed timerfd_settime ends the behaviour.              *)
(***************************************************************************)
EXTENDS Integers, Sequences, FiniteSets

CONSTANTS
  Addr,          \* heap addresses a Timer can get
  Intervals,     \* intervals that runEvery is called with, in ticks; 0 is runAt
  MaxDelay,      \* bound on when - now in addTimer
  MsPerUs,       \* interval_ is kept in ms and added as us: 1000
  MaxNow,        \* bound on the clock
  MaxSeq,        \* bound on the number of timers created
  MaxPending     \* bound on the functors waiting in the loop

ASSUME TimerAssumption ==
  /\ MsPerUs \in Nat \ {0}
  /\ MaxNow \in Nat /\ MaxSeq \in Nat /\ MaxDelay \in Nat /\ MaxPending \in Nat
  /\ Intervals \subseteq Nat

Disarmed == -1   \* timerfd consumed, or never set
Zeroed == -2     \* timerfd_settime was given 0, which disarms it

VARIABLES
  now,           \* Clock::now()
  heap,          \* Addr -> Timer; its field live says whether it is allocated
  nextSeq,       \* s_numCreated_ + 1
  timers,        \* timers_: set of <<expiration, address>>
  activeTimers,  \* activeTimers_: set of <<address, sequence>>
  cancelingTimers, \* cancelingTimers_
  pc,            \* where the loop's thread is, see PCs
  expired,       \* the addresses in the local vector of handleRead
  toRun,         \* those whose callbacks have not been called yet
  readAt,        \* the local variable now of handleRead
  timerfd,       \* expiry of the timerfd, Disarmed or Zeroed
  pending,       \* functors queued by other threads: [op, id]
  adding,        \* id of another thread's addTimer that has yet to return, or None
  ids,           \* TimerIds handed out
  cancelled      \* history: sequences cancelled while the timer was in use

setVars == <<timers, activeTimers>>
readVars == <<expired, toRun, readAt>>
userVars == <<nextSeq, pending, adding, ids>>
vars == <<now, heap, setVars, cancelingTimers, readVars, pc, timerfd, userVars, cancelled>>

PCs == {"idle",      \* in epoll_wait, a callback of another channel or a functor
        "polled",    \* epoll_wait has returned the timerfd
        "calling",   \* in handleRead: callingExpiredTimers_
        "aborted",   \* after LOG_FATAL
        "gone"}      \* after ~TimerQueue

over == pc \in {"aborted", "gone"}
callingExpiredTimers == pc = "calling"
None == <<>>

NoTimer == [live |-> FALSE, seq |-> 0, when |-> 0, interval |-> 0]

\* Timer::Timer
Timer(seq, when, interval) ==
  [live |-> TRUE, seq |-> seq, when |-> when, interval |-> interval]

repeat(timer) == timer.interval > 0

\* Timer::restart of a repeating timer: interval_ is the interval in milliseconds
\* and is added as microseconds
restart(timer, readTime) ==
  [timer EXCEPT !.when = readTime + (timer.interval \div MsPerUs)]

Free(h, a) == [h EXCEPT ![a].live = FALSE]

\* TimerQueue::TimerQueue
Init ==
  /\ now = 0
  /\ heap = [a \in Addr |-> NoTimer]
  /\ timers = {} /\ activeTimers = {} /\ cancelingTimers = {}
  /\ expired = {} /\ toRun = {} /\ readAt = 0
  /\ pc = "idle"
  /\ timerfd = Disarmed
  /\ nextSeq = 1 /\ pending = <<>> /\ adding = None /\ ids = {}
  /\ cancelled = {}

------------------------------------------------------------------------------
(* The helpers of the loop's thread *)

\* the expiration of timers_.begin()
Earliest(ts) == CHOOSE w \in {e[1] : e \in ts} : \A e \in ts : w <= e[1]

\* resetTimerfd: a negative time is EINVAL, LOG_FATAL and abort; 0 disarms
resetTimerfd(expiration, next) ==
  /\ pc' = IF expiration < now THEN "aborted" ELSE next
  /\ timerfd' = IF expiration > now THEN expiration ELSE Zeroed

\* Mutant: the timerfd is set only when there was no timer.
earliestChangedIfEmpty(ts, when) == ts = {}

\* what insert returns
earliestChanged(ts, when) == \A e \in ts : when < e[1]

\* insert, into both sets, of the timers at the addresses as of the heap h
insert(h, as) ==
  /\ timers' = timers \cup {<<h[a].when, a>> : a \in as}
  /\ activeTimers' = activeTimers \cup {<<a, h[a].seq>> : a \in as}

\* addTimerInLoop of the timer at address a of the heap h
addTimerInLoop(h, a) ==
  /\ insert(h, {a})
  /\ \/ /\ earliestChanged(timers, h[a].when)
        /\ resetTimerfd(h[a].when, pc)
     \/ /\ ~earliestChanged(timers, h[a].when)
        /\ UNCHANGED <<pc, timerfd>>

InUse(id) == id \in activeTimers \/ (id[1] \in expired /\ heap[id[1]].seq = id[2])

\* Mutant: the timer is looked up by its address alone.
cancelActiveByAddress(id) ==
  /\ \E t \in activeTimers : t[1] = id[1]
  /\ timers' = timers \ {<<heap[id[1]].when, id[1]>>}
  /\ activeTimers' = {t \in activeTimers : t[1] # id[1]}
  /\ heap' = Free(heap, id[1])
  /\ UNCHANGED cancelingTimers

\* cancelInLoop of an active timer
cancelActive(id) ==
  /\ id \in activeTimers
  /\ timers' = timers \ {<<heap[id[1]].when, id[1]>>}
  /\ activeTimers' = activeTimers \ {id}
  /\ heap' = Free(heap, id[1])
  /\ UNCHANGED cancelingTimers

\* cancelInLoop of any other timer: remembered while handleRead calls callbacks
cancelOther(id) ==
  /\ id \notin activeTimers
  /\ cancelingTimers' =
       IF callingExpiredTimers THEN cancelingTimers \cup {id} ELSE cancelingTimers
  /\ UNCHANGED <<timers, activeTimers, heap>>

cancelInLoop(id) ==
  /\ cancelActive(id) \/ cancelOther(id)
  /\ cancelled' = IF InUse(id) THEN cancelled \cup {id[2]} ELSE cancelled
  /\ UNCHANGED <<pc, timerfd, readVars>>

------------------------------------------------------------------------------
(* handleRead *)

\* the timerfd is readable and epoll_wait returns its channel
Poll ==
  /\ pc = "idle"
  /\ timerfd \in 0 .. now
  /\ pc' = "polled"
  /\ UNCHANGED <<now, heap, setVars, cancelingTimers, readVars, timerfd, userVars,
                 cancelled>>

\* Mutant: the expired timers stay in activeTimers_.
handleReadKeepsActive ==
  /\ pc = "polled"
  /\ readAt' = now
  /\ timerfd' = IF timerfd \in 0 .. now THEN Disarmed ELSE timerfd
  /\ expired' = {e[2] : e \in {f \in timers : f[1] <= now}}
  /\ timers' = {e \in timers : e[1] > now}
  /\ toRun' = expired'
  /\ cancelingTimers' = {}
  /\ pc' = "calling"
  /\ UNCHANGED <<now, heap, activeTimers, userVars, cancelled>>

\* handleRead up to the first callback: readTimerfd and getExpired.  The timerfd
\* may have been set anew since epoll_wait returned; then read gives EAGAIN.
handleRead ==
  /\ pc = "polled"
  /\ readAt' = now
  /\ timerfd' = IF timerfd \in 0 .. now THEN Disarmed ELSE timerfd
  /\ expired' = {e[2] : e \in {f \in timers : f[1] <= now}}
  /\ timers' = {e \in timers : e[1] > now}
  /\ activeTimers' = {t \in activeTimers : t[1] \notin expired'}
  /\ toRun' = expired'
  /\ cancelingTimers' = {}
  /\ pc' = "calling"
  /\ UNCHANGED <<now, heap, userVars, cancelled>>

\* it.second->run(), in the order of expiration
RunTimer(a) ==
  /\ pc = "calling"
  /\ a \in toRun
  /\ \A b \in toRun : heap[a].when <= heap[b].when
  /\ toRun' = toRun \ {a}
  /\ UNCHANGED <<now, heap, setVars, cancelingTimers, expired, readAt, pc, timerfd,
                 userVars, cancelled>>

\* The default-constructed Timestamp of reset: 1970, before every Clock::now().
Epoch == -1

\* Mutant: reset restarts every repeating timer, cancelled or not.
RestartedAll == {a \in expired : repeat(heap[a])}

Restarted == {a \in expired : repeat(heap[a]) /\ <<a, heap[a].seq>> \notin cancelingTimers}

\* the end of handleRead: callingExpiredTimers_ = false and reset
reset ==
  /\ pc = "calling"
  /\ toRun = {}
  /\ heap' = [a \in Addr |->
               IF a \in Restarted THEN restart(heap[a], readAt)
               ELSE IF a \in expired THEN [heap[a] EXCEPT !.live = FALSE]
               ELSE heap[a]]
  /\ insert(heap', Restarted)
  /\ expired' = {}
  /\ resetTimerfd(IF timers' = {} THEN Epoch ELSE Earliest(timers'), "idle")
  /\ UNCHANGED <<now, cancelingTimers, toRun, readAt, userVars, cancelled>>

------------------------------------------------------------------------------
(* Users *)

\* A callback runs on the loop's thread: of another channel, a functor, or a timer
InUserCode == pc \in {"idle", "polled"} \/ (pc = "calling" /\ toRun # expired)

\* new Timer in addTimer
Create(a, when, interval) ==
  /\ nextSeq <= MaxSeq
  /\ ~heap[a].live
  /\ nextSeq' = nextSeq + 1
  /\ heap' = [heap EXCEPT ![a] = Timer(nextSeq, when, interval)]

\* addTimer on the loop's thread
AddTimer(a, when, interval) ==
  /\ InUserCode
  /\ Create(a, when, interval)
  /\ addTimerInLoop(heap', a)
  /\ ids' = ids \cup {<<a, nextSeq>>}
  /\ UNCHANGED <<now, cancelingTimers, readVars, pending, adding, cancelled>>

\* cancel on the loop's thread
Cancel(id) ==
  /\ InUserCode
  /\ id \in ids
  /\ cancelInLoop(id)
  /\ UNCHANGED <<now, userVars>>

\* addTimer on another thread, up to the return of runInLoop
AddTimerForeign(a, when, interval) ==
  /\ ~over
  /\ adding = None
  /\ Len(pending) < MaxPending
  /\ Create(a, when, interval)
  /\ pending' = Append(pending, [op |-> "add", id |-> <<a, nextSeq>>])
  /\ adding' = <<a, nextSeq>>
  /\ UNCHANGED <<now, setVars, cancelingTimers, readVars, pc, timerfd, ids, cancelled>>

\* return TimerId(timer, timer->sequence()): the sequence is read from the heap after
\* the timer was handed to the loop, which may have fired and deleted it by now.  The
\* read of a deleted Timer gives what is at its address: its old sequence or that of
\* the next timer there.  No property speaks of this read: it is a use after delete
\* that the code does not prevent, and the id may be the one of another timer.
AddTimerReturn ==
  /\ ~over
  /\ adding # None
  /\ ids' = ids \cup {<<adding[1], heap[adding[1]].seq>>}
  /\ adding' = None
  /\ UNCHANGED <<now, heap, setVars, cancelingTimers, readVars, pc, timerfd, nextSeq,
                 pending, cancelled>>

\* cancel on another thread
CancelForeign(id) ==
  /\ ~over
  /\ adding = None
  /\ id \in ids
  /\ Len(pending) < MaxPending
  /\ pending' = Append(pending, [op |-> "cancel", id |-> id])
  /\ UNCHANGED <<now, heap, setVars, cancelingTimers, readVars, pc, timerfd, nextSeq,
                 adding, ids, cancelled>>

\* doPendingFunctors, one functor
RunPending ==
  /\ pc = "idle"
  /\ pending # <<>>
  /\ pending' = Tail(pending)
  /\ \/ /\ Head(pending).op = "add"
        /\ addTimerInLoop(heap, Head(pending).id[1])
        /\ UNCHANGED <<heap, cancelingTimers, readVars, cancelled>>
     \/ /\ Head(pending).op = "cancel"
        /\ cancelInLoop(Head(pending).id)
  /\ UNCHANGED <<now, nextSeq, adding, ids>>

Tick ==
  /\ ~over
  /\ now < MaxNow
  /\ now' = now + 1
  /\ UNCHANGED <<heap, setVars, cancelingTimers, readVars, pc, timerfd, userVars,
                 cancelled>>

\* ~TimerQueue, with the EventLoop, once loop() was left and nobody is inside a call:
\* the timers in the queue are deleted, and so are the functors that did not run, but
\* not the timers that they would have added
Destruct ==
  /\ pc = "idle"
  /\ adding = None
  /\ heap' = [a \in Addr |->
               IF \E t \in timers : t[2] = a THEN [heap[a] EXCEPT !.live = FALSE] ELSE heap[a]]
  /\ timers' = {} /\ activeTimers' = {}
  /\ pending' = <<>>
  /\ timerfd' = Disarmed
  /\ pc' = "gone"
  /\ UNCHANGED <<now, cancelingTimers, readVars, nextSeq, adding, ids, cancelled>>

HandleTimers == Poll \/ handleRead \/ reset \/ \E a \in Addr : RunTimer(a)

\* runAt and runAfter give any time from now on, runEvery gives now + interval
Users ==
  \/ AddTimerReturn
  \/ \E id \in ids : Cancel(id) \/ CancelForeign(id)
  \/ \E a \in Addr, d \in 0 .. MaxDelay :
       AddTimer(a, now + d, 0) \/ AddTimerForeign(a, now + d, 0)
  \/ \E a \in Addr, i \in Intervals :
       AddTimer(a, now + i, i) \/ AddTimerForeign(a, now + i, i)

Next == HandleTimers \/ RunPending \/ Users \/ Destruct \/ Tick

Spec == Init /\ [][Next]_vars

\* EventLoop::loop polls in every iteration and then runs the functors queued so far,
\* so neither keeps the other waiting; callbacks return.
FairSpec == Spec /\ WF_vars(HandleTimers) /\ WF_vars(RunPending)

------------------------------------------------------------------------------
(* Properties *)

TimerIds == Addr \X (0 .. MaxSeq)

\* Types, and the asserts of the source: timers_ and activeTimers_ hold the same
\* timers, under their current expiration and sequence.
TypeOK ==
  /\ now \in 0 .. MaxNow
  /\ pc \in PCs
  /\ activeTimers \subseteq TimerIds /\ cancelingTimers \subseteq TimerIds
  /\ toRun \subseteq expired
  /\ pending \in Seq([op : {"add", "cancel"}, id : TimerIds])
  /\ timers = {<<heap[t[1]].when, t[1]>> : t \in activeTimers}
  /\ \A t \in activeTimers : heap[t[1]].seq = t[2]

AddPending == {pending[i].id : i \in {j \in DOMAIN pending : pending[j].op = "add"}}

\* Every timer that is allocated is in one place, the queue, the batch of handleRead or
\* a functor of addTimer, and what is in one of these places is allocated: the loop's
\* thread, which takes its timers from there, runs, restarts and deletes none that is
\* deleted, and none leaks before ~TimerQueue.  It does not speak of the thread that
\* called addTimer and still reads timer->sequence() (AddTimerReturn).  With the types.
NoDanglingTimer ==
  /\ TypeOK
  /\ LET batch == {<<a, heap[a].seq>> : a \in expired} IN
     /\ activeTimers \cap batch = {} /\ (activeTimers \cup batch) \cap AddPending = {}
     /\ \A t \in activeTimers \cup batch \cup AddPending : heap[t[1]].live
     /\ pc # "gone" =>
          \A a \in Addr : heap[a].live =>
            <<a, heap[a].seq>> \in activeTimers \cup batch \cup AddPending

\* A timer that was cancelled while it was in the queue or in the running batch is
\* not in the queue after that batch: it does not fire again, even if its own
\* callback, or another callback of the batch, cancelled it.
CancelledStaysCancelled ==
  ~callingExpiredTimers => \A t \in activeTimers : t[2] \notin cancelled

\* A timer leaves the queue because it expired or because its own id was cancelled,
\* never through the id of an older timer that had its address (cancelInLoop compares
\* the sequence too).
OnlyOwnIdCancels ==
  [][\A t \in activeTimers :
       \/ t \in activeTimers' \/ t[1] \in expired'
       \/ t[2] \in cancelled' \/ pc' = "gone"]_vars

\* cancel acts on the timer that its TimerId names, for good, and on no other, although
\* it may come while the timer is being called and addresses are reused.
CancelIsExact == []CancelledStaysCancelled /\ OnlyOwnIdCancels

\* While the loop waits, the timerfd is set for the earliest timer or before it,
\* unless timerfd_settime was given exactly 0.
TimerfdCoversEarliest ==
  pc = "idle" /\ timers # {} =>
    timerfd = Zeroed \/ timerfd \in 0 .. Earliest(timers)

\* A timer that is due does fire, or is cancelled, under the same proviso.
DueTimerFires ==
  \A s \in 1 .. MaxSeq :
    (\E t \in activeTimers : t[2] = s /\ heap[t[1]].when <= now)
      ~> \/ \A t \in activeTimers : t[2] = s => heap[t[1]].when > now
         \/ timerfd = Zeroed \/ pc = "aborted"
==============================================================================
