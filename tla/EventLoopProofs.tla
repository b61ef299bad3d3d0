--------------------------- MODULE EventLoopProofs ---------------------------
(***************************************************************************)
(* Proofs about EventLoop for any number of threads and functors: types,   *)
(* the absence of lost wakeups, and the refinement of TaskQueue; and about *)
(* EventLoopThread, whose behaviours are behaviours of EventLoop, so that  *)
(* all of that holds of its loop as well: the loop lives while it is used. *)
(***************************************************************************)
EXTENDS EventLoopThread, SequenceTheorems, TLAPS

\* Every step of the loop's thread, of the other threads and of the kernel keeps
\* the types of EventLoop, callingPendingFunctors_ in agreement with the place in
\* loop(), and the local vector of doPendingFunctors empty outside its for loop.
THEOREM TypeCorrect == Spec => []TypeOK
<1>1. Init => TypeOK
  <2> SUFFICES ASSUME Init PROVE TypeOK
    OBVIOUS
  <2>1. <<>> \in Seq(Tasks)
    OBVIOUS
  <2> QED
    BY <2>1 DEF Init, TypeOK, PCs
<1>2. TypeOK /\ [Next]_vars => TypeOK'
  <2> SUFFICES ASSUME TypeOK, [Next]_vars PROVE TypeOK'
    OBVIOUS
  <2> USE DEF TypeOK, PCs, Channels, loopVars
  <2>1. CASE Loop
    BY <2>1 DEF Loop
  <2>2. CASE While
    BY <2>2 DEF While
  <2>3. CASE Poll
    BY <2>3 DEF Poll, ReadyChannels
  <2>4. CASE HandleWakeup
    BY <2>4 DEF HandleWakeup
  <2>5. CASE HandleIo
    BY <2>5 DEF HandleIo
  <2>6. CASE CallbackReturn
    BY <2>6 DEF CallbackReturn
  <2>7. CASE HandleDone
    BY <2>7 DEF HandleDone
  <2>8. CASE Swap
    BY <2>8 DEF Swap
  <2>9. CASE RunFunctor
    BY <2>9 DEF RunFunctor
  <2>10. CASE FunctorReturn
    BY <2>10 DEF FunctorReturn
  <2>11. CASE FunctorsDone
    BY <2>11 DEF FunctorsDone
  <2>12. CASE PollNothing
    BY <2>12 DEF PollNothing
  <2>13. CASE QuitSelf
    BY <2>13 DEF QuitSelf
  <2>14. ASSUME NEW t \in Tasks, QueueInLoopSelf(t) PROVE TypeOK'
    BY <2>14 DEF QueueInLoopSelf
  <2>15. ASSUME NEW t \in Tasks, RunInLoopSelf(t) PROVE TypeOK'
    BY <2>15 DEF RunInLoopSelf
  <2>16. CASE IoEvent
    BY <2>16 DEF IoEvent
  <2>17. ASSUME NEW th \in Threads, Quit(th) PROVE TypeOK'
    BY <2>17 DEF Quit
  <2>18. ASSUME NEW th \in Threads, Wakeup(th) PROVE TypeOK'
    BY <2>18 DEF Wakeup
  <2>19. ASSUME NEW th \in Threads, NEW t \in Tasks, QueueInLoop(th, t) PROVE TypeOK'
    BY <2>19 DEF QueueInLoop
  <2>20. CASE UNCHANGED vars
    BY <2>20 DEF vars
  <2> QED
    BY <2>1, <2>2, <2>3, <2>4, <2>5, <2>6, <2>7, <2>8, <2>9, <2>10, <2>11, <2>12,
       <2>13, <2>14, <2>15, <2>16, <2>17, <2>18, <2>19, <2>20
       DEF Next, LoopThread, UserCode, OtherThread
<1> QED
  BY <1>1, <1>2, PTL DEF Spec

------------------------------------------------------------------------------
LEMMA MembersAppend ==
  ASSUME NEW S, NEW s \in Seq(S), NEW e \in S
  PROVE  Members(Append(s, e)) = Members(s) \cup {e}
<1>1. /\ DOMAIN Append(s, e) = 1 .. Len(s) + 1 /\ DOMAIN s = 1 .. Len(s) /\ Len(s) \in Nat
      /\ Append(s, e)[Len(s) + 1] = e
      /\ \A i \in 1 .. Len(s) : Append(s, e)[i] = s[i]
  BY AppendProperties, LenProperties
<1>2. ASSUME NEW x \in Members(Append(s, e)) PROVE x \in Members(s) \cup {e}
  <2>1. PICK i \in 1 .. Len(s) + 1 : x = Append(s, e)[i]
    BY <1>1, <1>2 DEF Members
  <2> QED
    BY <1>1, <2>1 DEF Members
<1>3. ASSUME NEW x \in Members(s) PROVE x \in Members(Append(s, e))
  <2>1. PICK i \in 1 .. Len(s) : x = s[i]
    BY <1>1, <1>3 DEF Members
  <2> QED
    BY <1>1, <2>1 DEF Members
<1>4. e \in Members(Append(s, e))
  <2>1. Len(s) + 1 \in 1 .. Len(s) + 1
    BY <1>1
  <2> QED
    BY <1>1, <2>1 DEF Members
<1> QED
  BY <1>2, <1>3, <1>4

\* The inductive strengthening of NoLostWakeup.  Between the return of epoll_wait
\* and the swap the loop's thread is bound to take the functors, so no wakeup is
\* needed; everywhere else each functor that is owed a wakeup has one coming.
PendingCovered ==
  Owed # {} => WakeupComing \/ pc \in {"handle", "callback", "swap"}
QuitCovered == pc = "poll" /\ quit => WakeupComing
IInv == TypeOK /\ PendingCovered /\ QuitCovered

\* A functor queued inside loop() or by another thread, and a quit(), never wait for
\* the poll timeout: queueInLoop and quit wake the loop up.
THEOREM NoLostWakeupCorrect == Spec => []NoLostWakeup
<1>1. Init => PendingCovered /\ QuitCovered
  BY DEF Init, PendingCovered, QuitCovered, Owed, Members
<1>2. IInv /\ [Next]_vars => (PendingCovered /\ QuitCovered)'
  <2> SUFFICES ASSUME TypeOK, PendingCovered, QuitCovered, [Next]_vars
               PROVE  (PendingCovered /\ QuitCovered)'
    BY DEF IInv
  <2>a. pendingFunctors' = pendingFunctors => Owed' = Owed
    BY DEF Owed, Members
  <2>b. ASSUME NEW t \in Tasks, pendingFunctors' = Append(pendingFunctors, t), t \in OutsideTasks
        PROVE  Owed' = Owed
    BY <2>b, MembersAppend DEF Owed, TypeOK
  <2>c. pendingFunctors' = <<>> => Owed' = {}
    BY DEF Owed, Members
  <2> USE DEF TypeOK, PendingCovered, QuitCovered, WakeupComing, loopVars
  <2>1. CASE Loop
    BY <2>1, <2>a DEF Loop
  <2>2. CASE While
    BY <2>2, <2>a DEF While
  <2>3. CASE Poll
    BY <2>3, <2>a DEF Poll
  <2>4. CASE HandleWakeup
    BY <2>4, <2>a DEF HandleWakeup
  <2>5. CASE HandleIo
    BY <2>5, <2>a DEF HandleIo
  <2>6. CASE CallbackReturn
    BY <2>6, <2>a DEF CallbackReturn
  <2>7. CASE HandleDone
    BY <2>7, <2>a DEF HandleDone
  <2>8. CASE Swap
    BY <2>8, <2>c DEF Swap
  <2>9. CASE RunFunctor
    BY <2>9, <2>a DEF RunFunctor
  <2>10. CASE FunctorReturn
    BY <2>10, <2>a DEF FunctorReturn
  <2>11. CASE FunctorsDone
    BY <2>11, <2>a DEF FunctorsDone
  <2>12. CASE PollNothing
    BY <2>12, <2>a DEF PollNothing
  <2>13. CASE QuitSelf
    BY <2>13, <2>a DEF QuitSelf, InUserCode
  <2>14. ASSUME NEW t \in Tasks, QueueInLoopSelf(t)
         PROVE  (PendingCovered /\ QuitCovered)'
    BY <2>14, <2>b DEF QueueInLoopSelf, InUserCode
  <2>15. ASSUME NEW t \in Tasks, RunInLoopSelf(t)
         PROVE  (PendingCovered /\ QuitCovered)'
    BY <2>15, <2>a DEF RunInLoopSelf
  <2>16. CASE IoEvent
    BY <2>16, <2>a DEF IoEvent
  <2>17. ASSUME NEW th \in Threads, Quit(th)
         PROVE  (PendingCovered /\ QuitCovered)'
    BY <2>17, <2>a DEF Quit
  <2>18. ASSUME NEW th \in Threads, Wakeup(th)
         PROVE  (PendingCovered /\ QuitCovered)'
    BY <2>18, <2>a DEF Wakeup
  <2>19. ASSUME NEW th \in Threads, NEW t \in Tasks, QueueInLoop(th, t)
         PROVE  (PendingCovered /\ QuitCovered)'
    BY <2>19 DEF QueueInLoop
  <2>20. CASE UNCHANGED vars
    BY <2>20, <2>a DEF vars
  <2> QED
    BY <2>1, <2>2, <2>3, <2>4, <2>5, <2>6, <2>7, <2>8, <2>9, <2>10, <2>11, <2>12,
       <2>13, <2>14, <2>15, <2>16, <2>17, <2>18, <2>19, <2>20
       DEF Next, LoopThread, UserCode, OtherThread
<1>3. IInv => NoLostWakeup
  BY DEF IInv, PendingCovered, QuitCovered, NoLostWakeup
<1> QED
  BY <1>1, <1>2, <1>3, TypeCorrect, PTL DEF Spec, IInv

------------------------------------------------------------------------------
(* Sequences: the queue of TaskQueue is the concatenation of the two vectors *)

LEMMA MembersConcat ==
  ASSUME NEW S, NEW a \in Seq(S), NEW b \in Seq(S)
  PROVE  Members(a \o b) = Members(a) \cup Members(b)
<1>1. DOMAIN (a \o b) = 1 .. Len(a) + Len(b) /\ DOMAIN a = 1 .. Len(a)
      /\ DOMAIN b = 1 .. Len(b) /\ Len(a) \in Nat /\ Len(b) \in Nat
  BY ConcatProperties, LenProperties
<1>2. ASSUME NEW x \in Members(a \o b) PROVE x \in Members(a) \cup Members(b)
  <2>1. PICK i \in 1 .. Len(a) + Len(b) : x = (a \o b)[i]
    BY <1>1, <1>2 DEF Members
  <2> QED
    BY <2>1, <1>1, ConcatProperties DEF Members
<1>3. ASSUME NEW x \in Members(a) PROVE x \in Members(a \o b)
  <2>1. PICK i \in 1 .. Len(a) : x = a[i]
    BY <1>1, <1>3 DEF Members
  <2> QED
    BY <2>1, <1>1, ConcatProperties DEF Members
<1>4. ASSUME NEW x \in Members(b) PROVE x \in Members(a \o b)
  <2>1. PICK i \in 1 .. Len(b) : x = b[i]
    BY <1>1, <1>4 DEF Members
  <2>2. Len(a) + i \in 1 .. Len(a) + Len(b) /\ (a \o b)[Len(a) + i] = b[i]
    BY <2>1, <1>1, ConcatProperties
  <2> QED
    BY <2>1, <2>2, <1>1 DEF Members
<1> QED
  BY <1>2, <1>3, <1>4

LEMMA AppendConcat ==
  ASSUME NEW S, NEW a \in Seq(S), NEW b \in Seq(S), NEW e \in S
  PROVE  a \o Append(b, e) = Append(a \o b, e)
<1>1. Append(b, e) = b \o <<e>> /\ Append(a \o b, e) = (a \o b) \o <<e>>
      /\ <<e>> \in Seq(S)
  BY AppendIsConcat, ConcatProperties
<1> QED
  BY <1>1, ConcatAssociative

LEMMA HeadTailConcat ==
  ASSUME NEW S, NEW a \in Seq(S), NEW b \in Seq(S), a # <<>>
  PROVE  /\ a \o b # <<>>
         /\ Head(a \o b) = Head(a)
         /\ Tail(a \o b) = Tail(a) \o b
<1>1. Len(a) \in Nat /\ Len(b) \in Nat /\ Len(a) > 0
  BY LenProperties, EmptySeq
<1>2. /\ a \o b \in Seq(S)
      /\ Len(a \o b) = Len(a) + Len(b)
      /\ \A i \in 1 .. Len(a) + Len(b) :
           (a \o b)[i] = IF i <= Len(a) THEN a[i] ELSE b[i - Len(a)]
  BY ConcatProperties
<1>3. a \o b # <<>>
  BY <1>1, <1>2, EmptySeq
<1>4. Head(a \o b) = Head(a)
  BY <1>1, <1>2, <1>3
<1>5. /\ Tail(a) \in Seq(S) /\ Len(Tail(a)) = Len(a) - 1
      /\ \A i \in 1 .. Len(a) - 1 : Tail(a)[i] = a[i + 1]
  BY HeadTailProperties
<1>6. /\ Tail(a) \o b \in Seq(S)
      /\ Len(Tail(a) \o b) = Len(a) - 1 + Len(b)
      /\ \A i \in 1 .. Len(a) - 1 + Len(b) :
           (Tail(a) \o b)[i] = IF i <= Len(a) - 1 THEN Tail(a)[i] ELSE b[i - (Len(a) - 1)]
  BY <1>1, <1>5, ConcatProperties
<1>7. /\ Tail(a \o b) \in Seq(S)
      /\ Len(Tail(a \o b)) = Len(a) + Len(b) - 1
      /\ \A i \in 1 .. Len(a) + Len(b) - 1 : Tail(a \o b)[i] = (a \o b)[i + 1]
  BY <1>1, <1>2, <1>3, HeadTailProperties
<1>8. ASSUME NEW i \in 1 .. Len(a) + Len(b) - 1
      PROVE  Tail(a \o b)[i] = (Tail(a) \o b)[i]
  <2>1. i + 1 \in 1 .. Len(a) + Len(b)
    BY <1>1
  <2>2. CASE i <= Len(a) - 1
    BY <1>1, <1>2, <1>5, <1>6, <1>7, <2>1, <2>2
  <2>3. CASE ~(i <= Len(a) - 1)
    BY <1>1, <1>2, <1>6, <1>7, <2>1, <2>3
  <2> QED
    BY <2>2, <2>3
<1>9. Tail(a \o b) = Tail(a) \o b
  BY <1>1, <1>6, <1>7, <1>8, SeqEqual
<1> QED
  BY <1>3, <1>4, <1>9

\* EventLoop implements TaskQueue: under the mapping that reads the queue as the
\* functors swapped out and not yet run followed by pendingFunctors_, every step is
\* a step of the FIFO queue or leaves it alone.
THEOREM RefinesTaskQueue == Spec => ImplementsTaskQueue
<1> DEFINE q == functors \o pendingFunctors
<1>1. Init => TQ!Init
  BY ConcatEmptySeq DEF Init, TQ!Init
<1>2. TypeOK /\ [Next]_vars => [TQ!Next]_(TQ!vars)
  <2> SUFFICES ASSUME TypeOK, [Next]_vars PROVE [TQ!Next]_(TQ!vars)
    OBVIOUS
  <2>0. functors \in Seq(Tasks) /\ pendingFunctors \in Seq(Tasks) /\ ran \in Seq(Tasks)
    BY DEF TypeOK
  <2>f. ASSUME NEW t \in Tasks, Fresh(t) PROVE TQ!Fresh(t)
    BY <2>f, <2>0, MembersConcat DEF Fresh, TQ!Fresh, Members, TQ!Members
  <2>1. CASE Swap
    <3>1. functors = <<>>
      BY <2>1 DEF Swap, TypeOK
    <3>2. q' = q /\ ran' = ran
      BY <2>0, <2>1, <3>1, ConcatEmptySeq DEF Swap
    <3> QED
      BY <3>2 DEF TQ!vars
  <2>2. CASE RunFunctor
    <3>1. q # <<>> /\ Head(q) = Head(functors) /\ Tail(q) = Tail(functors) \o pendingFunctors
      BY <2>0, <2>2, HeadTailConcat DEF RunFunctor
    <3> QED
      BY <2>2, <3>1 DEF RunFunctor, TQ!RunNext, TQ!Next
  <2>3. ASSUME NEW t \in Tasks, Fresh(t), UNCHANGED <<functors, ran>>,
               pendingFunctors' = Append(pendingFunctors, t)
        PROVE  TQ!Submit(t)
    <3>1. q' = Append(q, t)
      BY <2>0, <2>3, AppendConcat
    <3> QED
      BY <2>f, <2>3, <3>1 DEF TQ!Submit
  <2>4. ASSUME NEW t \in Tasks, QueueInLoopSelf(t) PROVE TQ!Next
    BY <2>3, <2>4 DEF QueueInLoopSelf, loopVars, TQ!Next
  <2>5. ASSUME NEW th \in Threads, NEW t \in Tasks, QueueInLoop(th, t) PROVE TQ!Next
    BY <2>3, <2>5 DEF QueueInLoop, loopVars, TQ!Next
  <2>6. ASSUME NEW t \in Tasks, RunInLoopSelf(t) PROVE TQ!Next
    BY <2>f, <2>6 DEF RunInLoopSelf, TQ!RunDirect, TQ!Next
  <2>7. CASE UNCHANGED <<functors, pendingFunctors, ran>>
    BY <2>7 DEF TQ!vars
  <2>8. ASSUME \/ Loop \/ While \/ Poll \/ HandleWakeup \/ HandleIo \/ CallbackReturn
               \/ HandleDone \/ FunctorReturn \/ FunctorsDone \/ PollNothing
               \/ QuitSelf \/ IoEvent \/ UNCHANGED vars
               \/ \E th \in Threads : Quit(th) \/ Wakeup(th)
        PROVE  UNCHANGED <<functors, pendingFunctors, ran>>
    BY <2>8 DEF Loop, While, Poll, HandleWakeup, HandleIo, CallbackReturn, HandleDone,
                FunctorReturn, FunctorsDone, PollNothing, QuitSelf, IoEvent, Quit,
                Wakeup, loopVars, vars
  <2> QED
    BY <2>1, <2>2, <2>4, <2>5, <2>6, <2>7, <2>8
       DEF Next, LoopThread, UserCode, OtherThread
<1> QED
  BY <1>1, <1>2, TypeCorrect, PTL DEF Spec, ImplementsTaskQueue, TQ!Spec

------------------------------------------------------------------------------
(* EventLoopThread *)

\* A step of the owner, of threadFunc or of the users is a step of the EventLoop
\* that the thread made, or does not touch that loop.
LEMMA ThreadStepIsLoopStep == [ThreadNext]_allVars => [Next]_vars
<1> SUFFICES ASSUME [ThreadNext]_allVars PROVE [Next]_vars
  OBVIOUS
<1> USE DEF Next, LoopThread, UserCode, OtherThread
<1>1. CASE StartLoop \/ Destroy \/ SpuriousWakeup \/ CheckPredicate \/ Join
           \/ InitDone \/ Publish \/ Notify \/ Exit
  BY <1>1 DEF StartLoop, Destroy, SpuriousWakeup, CheckPredicate, Join, InitDone,
              Publish, Notify, Exit
<1>2. CASE OwnerQuit \/ OwnerWakeup
  BY <1>2, OwnerAssumption DEF OwnerQuit, OwnerWakeup
<1>3. CASE \E th \in Threads : UseLoop(th) \/ UserWakeup(th)
  BY <1>3 DEF UseLoop, UserWakeup
<1>4. CASE InitCallback \/ EnterLoop \/ RunLoop \/ LoopEnvironment
  BY <1>4 DEF InitCallback, EnterLoop, RunLoop, LoopEnvironment
<1>5. CASE UNCHANGED allVars
  BY <1>5 DEF allVars
<1> QED
  BY <1>1, <1>2, <1>3, <1>4, <1>5 DEF ThreadNext, OwnerStep, ThreadStep

\* The EventLoop inside an EventLoopThread behaves as EventLoop says, whatever the
\* owner and threadFunc do around it.
THEOREM ThreadRunsEventLoop == ThreadSpec => Spec
<1>1. ThreadInit => Init
  BY DEF ThreadInit
<1> QED
  BY <1>1, ThreadStepIsLoopStep, PTL DEF ThreadSpec, Spec

\* Through EventLoopThread too, no functor and no quit() waits for the poll timeout:
\* the users' queueInLoop and the destructor's quit() wake the loop up.
THEOREM ThreadNoLostWakeup == ThreadSpec => []NoLostWakeup
  BY ThreadRunsEventLoop, NoLostWakeupCorrect, PTL

\* Through EventLoopThread too, the functors handed to the loop form the FIFO queue
\* of TaskQueue, those of the initialisation callback included.
THEOREM ThreadRefinesTaskQueue == ThreadSpec => ImplementsTaskQueue
  BY ThreadRunsEventLoop, RefinesTaskQueue, PTL

\* The inductive strengthening of ReturnedLoopIsLive.  startLoop returns only after
\* the publication, threadFunc deletes the loop only after loop() was left, loop() is
\* left only when quit_ is set, and quit_ is reset only on the way into loop().
UsedAfterPublish ==
  /\ ownerPc = "new" => thread = "none"
  /\ ownerPc \in {"using", "quit"} => thread \in {"notify", "enter", "looping", "exited"}
LeftByQuit == thread = "exited" \/ (thread = "looping" /\ pc = "outside") => quit
ThreadInv == ThreadTypeOK /\ UsedAfterPublish /\ LeftByQuit

LEMMA ThreadInvStep == ThreadInv /\ TypeOK' /\ [ThreadNext]_allVars => ThreadInv'
<1> SUFFICES ASSUME ThreadInv, TypeOK', [ThreadNext]_allVars PROVE ThreadInv'
  OBVIOUS
<1> USE DEF ThreadInv, ThreadTypeOK, UsedAfterPublish, LeftByQuit, looping, OwnerPCs,
            ThreadPCs
<1>1. CASE StartLoop
  BY <1>1 DEF StartLoop, vars
<1>2. CASE Destroy
  BY <1>2 DEF Destroy, vars
<1>3. CASE SpuriousWakeup
  BY <1>3 DEF SpuriousWakeup, vars
<1>4. CASE CheckPredicate
  BY <1>4 DEF CheckPredicate, vars
<1>5. CASE OwnerQuit
  BY <1>5 DEF OwnerQuit, Quit
<1>6. CASE OwnerWakeup
  BY <1>6 DEF OwnerWakeup, Wakeup, AfterWakeup
<1>7. CASE Join
  BY <1>7 DEF Join, vars
<1>8. ASSUME NEW th \in Threads, UseLoop(th) PROVE ThreadInv'
  BY <1>8 DEF UseLoop, Quit, QueueInLoop, threadVars
<1>9. ASSUME NEW th \in Threads, UserWakeup(th) PROVE ThreadInv'
  BY <1>9 DEF UserWakeup, Wakeup, AfterWakeup
<1>10. CASE InitCallback
  BY <1>10 DEF InitCallback, QueueInLoopSelf, RunInLoopSelf, threadVars
<1>11. CASE InitDone
  BY <1>11 DEF InitDone, vars
<1>12. CASE Publish
  BY <1>12 DEF Publish, vars
<1>13. CASE Notify
  BY <1>13 DEF Notify, vars
<1>14. CASE EnterLoop
  BY <1>14 DEF EnterLoop, Loop
<1>15. CASE RunLoop
  BY <1>15 DEF RunLoop, LoopThread, threadVars, While, Poll, HandleWakeup, HandleIo,
               CallbackReturn, HandleDone, Swap, RunFunctor, FunctorReturn, FunctorsDone
<1>16. CASE LoopEnvironment
  BY <1>16 DEF LoopEnvironment, PollNothing, IoEvent, QuitSelf, QueueInLoopSelf,
               RunInLoopSelf, threadVars
<1>17. CASE Exit
  BY <1>17 DEF Exit, vars
<1>18. CASE UNCHANGED allVars
  BY <1>18 DEF allVars, vars, threadVars
<1> QED
  BY <1>1, <1>2, <1>3, <1>4, <1>5, <1>6, <1>7, <1>8, <1>9, <1>10, <1>11, <1>12, <1>13,
     <1>14, <1>15, <1>16, <1>17, <1>18 DEF ThreadNext, OwnerStep, ThreadStep

\* The loop that startLoop hands to its owner exists until someone quits it, for any
\* number of users, functors and interleavings with threadFunc.
THEOREM ReturnedLoopIsLiveCorrect == ThreadSpec => []ReturnedLoopIsLive
<1>1. ThreadInit /\ TypeOK => ThreadInv
  BY DEF ThreadInit, Init, ThreadInv, ThreadTypeOK, UsedAfterPublish, LeftByQuit,
         looping, OwnerPCs, ThreadPCs
<1>2. ThreadInv => ReturnedLoopIsLive
  BY DEF ThreadInv, ThreadTypeOK, UsedAfterPublish, LeftByQuit, ReturnedLoopIsLive, deleted
<1>3. ThreadSpec => []TypeOK
  BY ThreadRunsEventLoop, TypeCorrect, PTL
<1> QED
  BY <1>1, <1>2, <1>3, ThreadInvStep, PTL DEF ThreadSpec
==============================================================================
