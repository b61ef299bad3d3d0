------------------------------ MODULE EventLoop ------------------------------
(***************************************************************************)
(* One EventLoop (starry/net/src/eventloop.cpp): the thread that runs      *)
(* loop(), the other threads that hand functors to it or stop it, and the  *)
(* eventfd that wakes it from epoll_wait.                                  *)
(*                                                                         *)
(* The loop's thread is a program counter, pc; looping_ and eventHandling_ *)
(* are functions of it.  A callback or a functor is user code: while one   *)
(* runs the loop's thread may call queueInLoop, runInLoop and quit any     *)
(* number of times.  iteration_ and pollReturnTime_ are only reported to   *)
(* the user and are left out.  The eventfd's 64-bit counter is abstracted  *)
(* to "readable or not": write(1) makes it readable, read resets it.       *)
(***************************************************************************)
EXTENDS Naturals, Sequences, FiniteSets

CONSTANTS
  Threads,       \* threads other than the loop's own
  Tasks,         \* functors, each handed to the loop at most once
  OutsideTasks   \* functors the loop's own thread may queue while it is not
                 \* inside loop(), e.g. Connector::stop before loop()

ASSUME ConstantsAssumption == OutsideTasks \subseteq Tasks

VARIABLES
  pc,                      \* where the loop's thread is
  quit,                    \* quit_
  callingPendingFunctors,  \* callingPendingFunctors_
  activeChannels,          \* channels returned by poll and not yet handled
  wakeupFd,                \* the eventfd is readable
  ioReady,                 \* some other channel has an event
  pendingFunctors,         \* pendingFunctors_, guarded by mutex_
  functors,                \* the local vector of doPendingFunctors
  caller,                  \* what each other thread is in the middle of
  ran                      \* history: functors started, in order

vars == <<pc, quit, callingPendingFunctors, activeChannels, wakeupFd, ioReady,
          pendingFunctors, functors, caller, ran>>

PCs == {"outside",   \* not in loop()
        "while",     \* at the test of while (!quit_)
        "poll",      \* in epoll_wait
        "handle",    \* in the for loop over activeChannels_
        "callback",  \* in the callback of a channel
        "swap",      \* in doPendingFunctors, before the swap
        "run",       \* in the for loop over functors
        "functor"}   \* in a functor

Channels == {"wakeup", "io"}

looping == pc # "outside"
eventHandling == pc \in {"handle", "callback"}
InUserCode == pc \in {"callback", "functor"}

Members(s) == {s[i] : i \in DOMAIN s}
Fresh(t) == t \notin Members(pendingFunctors) \cup Members(functors) \cup Members(ran)

\* Types, and the flag and the local vector of doPendingFunctors agree with the
\* place the loop's thread is at.
TypeOK ==
  /\ pc \in PCs
  /\ quit \in BOOLEAN
  /\ callingPendingFunctors \in BOOLEAN
  /\ callingPendingFunctors <=> pc \in {"swap", "run", "functor"}
  /\ activeChannels \in SUBSET Channels
  /\ wakeupFd \in BOOLEAN
  /\ ioReady \in BOOLEAN
  /\ pendingFunctors \in Seq(Tasks)
  /\ functors \in Seq(Tasks)
  /\ functors # <<>> => pc \in {"run", "functor"}
  /\ caller \in [Threads -> {"idle", "wakeup"}]
  /\ ran \in Seq(Tasks)

(* EventLoop::EventLoop *)
Init ==
  /\ pc = "outside"
  /\ quit = FALSE
  /\ callingPendingFunctors = FALSE
  /\ activeChannels = {}
  /\ wakeupFd = FALSE
  /\ ioReady = FALSE
  /\ pendingFunctors = <<>>
  /\ functors = <<>>
  /\ caller = [t \in Threads |-> "idle"]
  /\ ran = <<>>

------------------------------------------------------------------------------
(* The loop's thread *)

loopVars == <<callingPendingFunctors, activeChannels, functors, ran>>

\* loop(): looping_ = true, quit_ = false
Loop ==
  /\ pc = "outside"
  /\ pc' = "while"
  /\ quit' = FALSE
  /\ UNCHANGED <<loopVars, wakeupFd, ioReady, pendingFunctors, caller>>

\* while (!quit_), and the exit of loop()
While ==
  /\ pc = "while"
  /\ pc' = IF quit THEN "outside" ELSE "poll"
  /\ activeChannels' = IF quit THEN activeChannels ELSE {}
  /\ UNCHANGED <<quit, callingPendingFunctors, functors, ran, wakeupFd, ioReady,
                 pendingFunctors, caller>>

ReadyChannels ==
  (IF wakeupFd THEN {"wakeup"} ELSE {}) \cup (IF ioReady THEN {"io"} ELSE {})

\* EpollPoller::poll with at least one event
Poll ==
  /\ pc = "poll"
  /\ ReadyChannels # {}
  /\ activeChannels' = ReadyChannels
  /\ pc' = "handle"
  /\ UNCHANGED <<quit, callingPendingFunctors, functors, ran, wakeupFd, ioReady,
                 pendingFunctors, caller>>

\* EpollPoller::poll returning nothing: kPollTimeMs passed, or EINTR
PollNothing ==
  /\ pc = "poll"
  /\ pc' = "handle"
  /\ UNCHANGED <<quit, loopVars, wakeupFd, ioReady, pendingFunctors, caller>>

\* handleEvent of wakeupChannel_: EventLoop::handleRead
HandleWakeup ==
  /\ pc = "handle"
  /\ "wakeup" \in activeChannels
  /\ wakeupFd' = FALSE
  /\ activeChannels' = activeChannels \ {"wakeup"}
  /\ UNCHANGED <<pc, quit, callingPendingFunctors, functors, ran, ioReady,
                 pendingFunctors, caller>>

\* handleEvent of any other channel: its callback consumes the event
HandleIo ==
  /\ pc = "handle"
  /\ "io" \in activeChannels
  /\ pc' = "callback"
  /\ ioReady' = FALSE
  /\ activeChannels' = activeChannels \ {"io"}
  /\ UNCHANGED <<quit, callingPendingFunctors, functors, ran, wakeupFd,
                 pendingFunctors, caller>>

\* Mutant: a channel is served again and again while its descriptor is ready.
CallbackReturnAgain ==
  /\ pc = "callback"
  /\ pc' = IF ioReady THEN "callback" ELSE "handle"
  /\ ioReady' = FALSE
  /\ UNCHANGED <<quit, loopVars, wakeupFd, pendingFunctors, caller>>

\* the callback returns to handleEvent, and that to loop()
CallbackReturn ==
  /\ pc = "callback"
  /\ pc' = "handle"
  /\ UNCHANGED <<quit, loopVars, wakeupFd, ioReady, pendingFunctors, caller>>

\* all channels handled; doPendingFunctors: callingPendingFunctors_ = true
HandleDone ==
  /\ pc = "handle"
  /\ activeChannels = {}
  /\ pc' = "swap"
  /\ callingPendingFunctors' = TRUE
  /\ UNCHANGED <<quit, activeChannels, functors, ran, wakeupFd, ioReady,
                 pendingFunctors, caller>>

\* doPendingFunctors: functors.swap(pendingFunctors_) under mutex_
Swap ==
  /\ pc = "swap"
  /\ pc' = "run"
  /\ functors' = pendingFunctors
  /\ pendingFunctors' = functors
  /\ UNCHANGED <<quit, callingPendingFunctors, activeChannels, ran, wakeupFd,
                 ioReady, caller>>

\* Mutant: the vector is emptied from its back.
RunFunctorLifo ==
  /\ pc = "run"
  /\ functors # <<>>
  /\ pc' = "functor"
  /\ ran' = Append(ran, functors[Len(functors)])
  /\ functors' = SubSeq(functors, 1, Len(functors) - 1)
  /\ UNCHANGED <<quit, callingPendingFunctors, activeChannels, wakeupFd, ioReady,
                 pendingFunctors, caller>>

\* Functor fun = functors[i]; fun(): the oldest first
RunFunctor ==
  /\ pc = "run"
  /\ functors # <<>>
  /\ pc' = "functor"
  /\ ran' = Append(ran, Head(functors))
  /\ functors' = Tail(functors)
  /\ UNCHANGED <<quit, callingPendingFunctors, activeChannels, wakeupFd, ioReady,
                 pendingFunctors, caller>>

FunctorReturn ==
  /\ pc = "functor"
  /\ pc' = "run"
  /\ UNCHANGED <<quit, loopVars, wakeupFd, ioReady, pendingFunctors, caller>>

\* end of doPendingFunctors: callingPendingFunctors_ = false
FunctorsDone ==
  /\ pc = "run"
  /\ functors = <<>>
  /\ pc' = "while"
  /\ callingPendingFunctors' = FALSE
  /\ UNCHANGED <<quit, activeChannels, functors, ran, wakeupFd, ioReady,
                 pendingFunctors, caller>>

\* Mutant: isInLoopThread() alone decides, callingPendingFunctors_ is not asked.
QueueInLoopSelfNoWakeup(t) ==
  /\ InUserCode \/ (pc = "outside" /\ t \in OutsideTasks)
  /\ Fresh(t)
  /\ pendingFunctors' = Append(pendingFunctors, t)
  /\ UNCHANGED <<pc, quit, loopVars, wakeupFd, ioReady, caller>>

\* queueInLoop called by the loop's own thread: no wakeup unless functors run
QueueInLoopSelf(t) ==
  /\ InUserCode \/ (pc = "outside" /\ t \in OutsideTasks)
  /\ Fresh(t)
  /\ pendingFunctors' = Append(pendingFunctors, t)
  /\ wakeupFd' = (wakeupFd \/ callingPendingFunctors)
  /\ UNCHANGED <<pc, quit, loopVars, ioReady, caller>>

\* runInLoop called by the loop's own thread: the functor runs at once, its
\* body is part of the user code that called it
RunInLoopSelf(t) ==
  /\ InUserCode \/ pc = "outside"
  /\ Fresh(t)
  /\ ran' = Append(ran, t)
  /\ UNCHANGED <<pc, quit, callingPendingFunctors, activeChannels, functors,
                 wakeupFd, ioReady, pendingFunctors, caller>>

\* quit() called by the loop's own thread: no wakeup
QuitSelf ==
  /\ InUserCode \/ pc = "outside"
  /\ quit' = TRUE
  /\ UNCHANGED <<pc, loopVars, wakeupFd, ioReady, pendingFunctors, caller>>

------------------------------------------------------------------------------
(* The other threads *)

\* queueInLoop (and runInLoop) up to the unlock of mutex_
QueueInLoop(th, t) ==
  /\ caller[th] = "idle"
  /\ Fresh(t)
  /\ pendingFunctors' = Append(pendingFunctors, t)
  /\ caller' = [caller EXCEPT ![th] = "wakeup"]
  /\ UNCHANGED <<pc, quit, loopVars, wakeupFd, ioReady>>

\* Mutant: quit() only sets the flag.
QuitNoWakeup(th) ==
  /\ caller[th] = "idle"
  /\ quit' = TRUE
  /\ UNCHANGED <<pc, loopVars, wakeupFd, ioReady, pendingFunctors, caller>>

\* quit() up to the call of wakeup
Quit(th) ==
  /\ caller[th] = "idle"
  /\ quit' = TRUE
  /\ caller' = [caller EXCEPT ![th] = "wakeup"]
  /\ UNCHANGED <<pc, loopVars, wakeupFd, ioReady, pendingFunctors>>

\* wakeup(): write 1 to the eventfd
Wakeup(th) ==
  /\ caller[th] = "wakeup"
  /\ wakeupFd' = TRUE
  /\ caller' = [caller EXCEPT ![th] = "idle"]
  /\ UNCHANGED <<pc, quit, loopVars, ioReady, pendingFunctors>>

\* the kernel: a file descriptor of some other channel becomes ready
IoEvent ==
  /\ ~ioReady
  /\ ioReady' = TRUE
  /\ UNCHANGED <<pc, quit, loopVars, wakeupFd, pendingFunctors, caller>>

------------------------------------------------------------------------------
\* what the loop's thread does of its own accord, once in loop()
LoopThread ==
  \/ While \/ Poll \/ HandleWakeup \/ HandleIo \/ CallbackReturn \/ HandleDone
  \/ Swap \/ RunFunctor \/ FunctorReturn \/ FunctorsDone

UserCode == QuitSelf \/ \E t \in Tasks : QueueInLoopSelf(t) \/ RunInLoopSelf(t)

OtherThread(th) == Quit(th) \/ Wakeup(th) \/ \E t \in Tasks : QueueInLoop(th, t)

Next ==
  \/ Loop \/ LoopThread \/ PollNothing \/ UserCode \/ IoEvent
  \/ \E th \in Threads : OtherThread(th)

Spec == Init /\ [][Next]_vars

------------------------------------------------------------------------------
(* Properties *)

WakeupComing == wakeupFd \/ \E th \in Threads : caller[th] = "wakeup"

\* the waiting functors, but for those queued by the loop's own thread before loop()
Owed == Members(pendingFunctors) \ OutsideTasks

\* While the loop's thread is in epoll_wait, a functor waiting in
\* pendingFunctors_ or a quit_ that was set has a wakeup in the eventfd, or one
\* that another thread is about to write: nobody waits for the poll timeout, except
\* for what the loop's own thread queues outside loop(), where queueInLoop finds
\* callingPendingFunctors_ false and writes no wakeup.
NoLostWakeup ==
  pc = "poll" /\ (Owed # {} \/ quit) => WakeupComing

TQ == INSTANCE TaskQueue WITH queue <- functors \o pendingFunctors, ran <- ran

\* queueInLoop, doPendingFunctors and runInLoop implement the FIFO queue of
\* TaskQueue: no functor is lost, run twice or overtaken by a later one, whatever
\* the interleaving with the swap.
ImplementsTaskQueue == TQ!Spec

\* A functor that was queued is run, without help of the poll timeout, unless the
\* loop is left before; one that is queued outside loop() may need the timeout.
QueuedFunctorRuns ==
  \A t \in Tasks \ OutsideTasks :
    looping /\ t \in Members(pendingFunctors) ~> t \in Members(ran) \/ ~looping

\* quit() called on a loop that is looping makes loop() return, whichever thread
\* calls it and wherever the loop's thread is.
QuitLeavesLoop == quit /\ looping ~> ~looping
==============================================================================
