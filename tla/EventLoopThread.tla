--------------------------- MODULE EventLoopThread ---------------------------
(***************************************************************************)
(* EventLoopThread (starry/net/src/eventloop_thread.cpp): an owner starts  *)
(* a thread, waits until the thread has published its EventLoop, uses the  *)
(* loop with the other threads, and destroys the object, which stops the   *)
(* loop and joins the thread.                                              *)
(*                                                                         *)
(* The thread's EventLoop is the one of EventLoop.tla.  User code hands    *)
(* functors to it, may quit() it (UserQuits) and does not use it once      *)
(* loop() was left, but for the wakeup at the end of a call that it is in. *)
(* All other threads are done with the loop when the owner destroys it.    *)
(* exiting_ is set only by the destructor, which nobody can call while     *)
(* startLoop waits, and is left out.                                       *)
(***************************************************************************)
EXTENDS EventLoop

CONSTANTS
  owner,      \* the thread that owns the EventLoopThread
  UserQuits   \* whether callbacks and other threads call quit()

ASSUME OwnerAssumption == owner \in Threads /\ UserQuits \in BOOLEAN

VARIABLES
  ownerPc,     \* where the owner is, see OwnerPCs
  thread,      \* where thread_ is in threadFunc, see ThreadPCs
  loopPtr      \* loop_ # nullptr

threadVars == <<ownerPc, thread, loopPtr>>
allVars == <<vars, threadVars>>

OwnerPCs == {"new",       \* constructed, startLoop not yet called
             "check",     \* in startLoop, about to test the predicate
             "blocked",   \* in cond_.wait, mutex_ released
             "using",     \* startLoop has returned
             "quit",      \* in the destructor, before loop_->quit()
             "wakeup",    \* in quit(), before wakeup()
             "join",      \* in thread_.join()
             "joined",    \* the destructor has returned
             "crashed"}   \* the process was ended: a joinable thread_ was destructed,
                          \* or a null or deleted EventLoop was used

ThreadPCs == {"none", "init", "publish", "notify", "enter", "looping", "exited"}

deleted == thread = "exited"

ThreadInit ==
  /\ Init
  /\ ownerPc = "new"
  /\ thread = "none"
  /\ loopPtr = FALSE

------------------------------------------------------------------------------
(* The owner *)

\* startLoop: the thread is started
StartLoop ==
  /\ ownerPc = "new"
  /\ ownerPc' = "check"
  /\ thread' = "init"
  /\ UNCHANGED <<vars, loopPtr>>

\* Mutant: cond_.wait(lock) without a predicate, return what loop_ is.
CheckPredicateOnce ==
  /\ ownerPc = "check"
  /\ ownerPc' = IF thread = "init" THEN "blocked" ELSE "using"
  /\ UNCHANGED <<vars, thread, loopPtr>>

\* cond_.wait(lock, [this] { return loop_; }): one evaluation of the predicate
CheckPredicate ==
  /\ ownerPc = "check"
  /\ ownerPc' = IF loopPtr THEN "using" ELSE "blocked"
  /\ UNCHANGED <<vars, thread, loopPtr>>

SpuriousWakeup ==
  /\ ownerPc = "blocked"
  /\ ownerPc' = "check"
  /\ UNCHANGED <<vars, thread, loopPtr>>

\* ~EventLoopThread: if (loop_); when the loop was left before, nobody joins thread_
\* and its destructor calls std::terminate
Destroy ==
  /\ ownerPc \in {"new", "using"}
  /\ \A th \in Threads : caller[th] = "idle"
  /\ ownerPc' = CASE loopPtr -> "quit"
                 [] ~loopPtr /\ thread = "none" -> "joined"
                 [] OTHER -> "crashed"
  /\ UNCHANGED <<vars, thread, loopPtr>>

\* Mutant: the destructor sets quit_ and goes straight to join().
OwnerQuitNoWakeup ==
  /\ ownerPc = "quit"
  /\ QuitNoWakeup(owner)
  /\ ownerPc' = "join"
  /\ UNCHANGED <<thread, loopPtr>>

\* loop_->quit() up to wakeup(); loop_ is read again, without mutex_
OwnerQuit ==
  /\ ownerPc = "quit"
  /\ Quit(owner)
  /\ ownerPc' = IF loopPtr THEN "wakeup" ELSE "crashed"
  /\ UNCHANGED <<thread, loopPtr>>

\* where the owner is after wakeup(); if the thread has deleted the loop, the freed
\* object may still read as it was
AfterWakeup(place) == {place} \cup (IF deleted THEN {"crashed"} ELSE {})

\* wakeup() inside quit()
OwnerWakeup ==
  /\ ownerPc = "wakeup"
  /\ Wakeup(owner)
  /\ ownerPc' \in AfterWakeup("join")
  /\ UNCHANGED <<thread, loopPtr>>

Join ==
  /\ ownerPc = "join"
  /\ thread = "exited"
  /\ ownerPc' = "joined"
  /\ UNCHANGED <<vars, thread, loopPtr>>

\* the owner or another thread uses the loop that startLoop returned
UseLoop(th) ==
  /\ ownerPc = "using" /\ loopPtr
  /\ \/ UserQuits /\ Quit(th)
     \/ \E t \in Tasks : QueueInLoop(th, t)
  /\ UNCHANGED threadVars

\* the end of its queueInLoop or quit()
UserWakeup(th) ==
  /\ ownerPc = "using"
  /\ Wakeup(th)
  /\ ownerPc' \in AfterWakeup("using")
  /\ UNCHANGED <<thread, loopPtr>>

------------------------------------------------------------------------------
(* threadFunc *)

\* new EventLoop() and callback_(loop), which may use the loop
InitCallback ==
  /\ thread = "init"
  /\ \E t \in Tasks : QueueInLoopSelf(t) \/ RunInLoopSelf(t)
  /\ UNCHANGED threadVars

InitDone ==
  /\ thread = "init"
  /\ thread' = "publish"
  /\ UNCHANGED <<vars, ownerPc, loopPtr>>

\* loop_ = loop under mutex_
Publish ==
  /\ thread = "publish"
  /\ thread' = "notify"
  /\ loopPtr' = TRUE
  /\ UNCHANGED <<vars, ownerPc>>

\* Mutant: the notification is forgotten.
NotifyForgotten ==
  /\ thread = "notify"
  /\ thread' = "enter"
  /\ UNCHANGED <<vars, ownerPc, loopPtr>>

\* cond_.notify_one()
Notify ==
  /\ thread = "notify"
  /\ thread' = "enter"
  /\ ownerPc' = IF ownerPc = "blocked" THEN "check" ELSE ownerPc
  /\ UNCHANGED <<vars, loopPtr>>

\* loop->loop(), its first two assignments
EnterLoop ==
  /\ thread = "enter"
  /\ Loop
  /\ thread' = "looping"
  /\ UNCHANGED <<ownerPc, loopPtr>>

\* inside loop()
RunLoop ==
  /\ thread = "looping"
  /\ LoopThread
  /\ UNCHANGED threadVars

\* callbacks and functors, the poll timeout, and the kernel
LoopEnvironment ==
  /\ thread = "looping"
  /\ \/ PollNothing
     \/ IoEvent
     \/ UserQuits /\ pc # "outside" /\ QuitSelf
     \/ pc # "outside" /\ \E t \in Tasks : QueueInLoopSelf(t) \/ RunInLoopSelf(t)
  /\ UNCHANGED threadVars

\* after loop(): loop_ = nullptr; delete loop, under mutex_
Exit ==
  /\ thread = "looping"
  /\ pc = "outside"
  /\ thread' = "exited"
  /\ loopPtr' = FALSE
  /\ UNCHANGED <<vars, ownerPc>>

------------------------------------------------------------------------------
OwnerStep == CheckPredicate \/ OwnerQuit \/ OwnerWakeup \/ Join

ThreadStep == InitDone \/ Publish \/ Notify \/ EnterLoop \/ RunLoop \/ Exit

ThreadNext ==
  \/ StartLoop \/ Destroy \/ SpuriousWakeup \/ OwnerStep
  \/ InitCallback \/ ThreadStep \/ LoopEnvironment
  \/ \E th \in Threads : UseLoop(th) \/ UserWakeup(th)

\* Both threads are scheduled, the user's callbacks return, and a call of queueInLoop
\* or quit() gets to its wakeup.  The owner need not call startLoop or destroy the
\* object, and no spurious wakeup need happen.
ThreadSpec ==
  /\ ThreadInit
  /\ [][ThreadNext]_allVars
  /\ WF_allVars(OwnerStep)
  /\ WF_allVars(ThreadStep)
  /\ \A th \in Threads : WF_allVars(UserWakeup(th))

------------------------------------------------------------------------------
(* Properties *)

\* The places of the two threads fit together: loop_ is set exactly while the
\* thread is between the publication and the exit, and the loop is run only there.
ThreadTypeOK ==
  /\ TypeOK
  /\ ownerPc \in OwnerPCs
  /\ thread \in ThreadPCs
  /\ loopPtr <=> thread \in {"notify", "enter", "looping"}
  /\ looping => thread = "looping"

\* The loop that startLoop returned exists for as long as the owner uses it, unless
\* someone quit it.  With the types.
ReturnedLoopIsLive ==
  /\ ThreadTypeOK
  /\ ownerPc \in {"using", "quit"} /\ ~quit => loopPtr /\ ~deleted

\* startLoop returns: the notification of the new thread is not lost.  A functor of
\* the thread that quits the loop at once can take loop_ away again before the
\* owner has seen it.
StartLoopReturns == ownerPc \in {"check", "blocked"} ~> ownerPc = "using" \/ quit

\* Destroying the object while the thread is inside loop() ends the thread, or the
\* thread has deleted the loop before the wakeup in quit() used it.
DestroyWhileLoopingJoins == ownerPc = "quit" /\ looping ~> ownerPc \in {"joined", "crashed"}

\* quit() makes the thread leave its loop, so the destructor returns, whenever it
\* is called.
DestructorReturns == ownerPc = "quit" ~> ownerPc \in {"joined", "crashed"}
==============================================================================
