--------------------------- MODULE ThreadPoolProofs --------------------------
(***************************************************************************)
(* Proofs about ThreadPool for any finite sets of workers and enqueuers,   *)
(* which may overlap, and any tasks and bounds: types, the absence of lost *)
(* notifications, the bound of the queue and the refinement of TaskQueue.  *)
(***************************************************************************)
EXTENDS ThreadPool, SequenceTheorems, FiniteSetTheorems, TLAPS

(* Sequences and their members *)

LEMMA MembersAppend ==
  ASSUME NEW S, NEW s \in Seq(S), NEW e \in S
  PROVE  Members(Append(s, e)) = Members(s) \cup {e}
<1>1. /\ DOMAIN Append(s, e) = 1 .. Len(s) + 1 /\ DOMAIN s = 1 .. Len(s) /\ Len(s) \in Nat
      /\ Append(s, e)[Len(s) + 1] = e
      /\ \A i \in 1 .. Len(s) : Append(s, e)[i] = s[i]
  BY AppendProperties, LenProperties
<1>2. \A x \in Members(Append(s, e)) : x \in Members(s) \cup {e}
  BY <1>1 DEF Members
<1>3. \A x \in Members(s) : x \in Members(Append(s, e))
  BY <1>1 DEF Members
<1>4. e \in Members(Append(s, e))
  <2>1. Len(s) + 1 \in 1 .. Len(s) + 1
    BY <1>1
  <2> QED
    BY <1>1, <2>1 DEF Members
<1> QED
  BY <1>2, <1>3, <1>4

\* what is at the head, and what stays, when the head is taken
LEMMA MembersHeadTail ==
  ASSUME NEW S, NEW s \in Seq(S), s # <<>>
  PROVE  Head(s) \in Members(s) /\ Members(s) = Members(Tail(s)) \cup {Head(s)}
<1>1. /\ DOMAIN s = 1 .. Len(s) /\ Len(s) \in Nat \ {0}
      /\ Tail(s) \in Seq(S) /\ Len(Tail(s)) = Len(s) - 1
      /\ DOMAIN Tail(s) = 1 .. Len(s) - 1
      /\ \A i \in 1 .. Len(s) - 1 : Tail(s)[i] = s[i + 1]
      /\ Head(s) = s[1]
  BY HeadTailProperties, LenProperties, EmptySeq
<1>2. Head(s) \in Members(s)
  BY <1>1 DEF Members
<1>3. \A x \in Members(Tail(s)) : x \in Members(s)
  BY <1>1 DEF Members
<1>4. ASSUME NEW x \in Members(s) PROVE x \in Members(Tail(s)) \cup {Head(s)}
  <2>1. PICK i \in 1 .. Len(s) : x = s[i]
    BY <1>1, <1>4 DEF Members
  <2>2. CASE i = 1
    BY <1>1, <2>1, <2>2
  <2>3. CASE i # 1
    <3>1. i - 1 \in 1 .. Len(s) - 1 /\ Tail(s)[i - 1] = x
      BY <1>1, <2>1, <2>3
    <3> QED
      BY <1>1, <3>1 DEF Members
  <2> QED
    BY <2>2, <2>3
<1> QED
  BY <1>2, <1>3, <1>4

------------------------------------------------------------------------------
(* Types *)

\* The task a worker runs was taken from the queue.
JobStarted == \A w \in Workers : job[w] \in Tasks => job[w] \in Members(started)

\* Each task that an enqueuer still holds is new to the queue, and held by no other.
ArgumentsFresh ==
  \A e \in Enqueuers : argument[e] \in Tasks =>
    /\ argument[e] \notin Members(tasks) \cup Members(started)
    /\ \A f \in Enqueuers : argument[f] = argument[e] => f = e

TypeInv == TypeOK /\ JobStarted /\ ArgumentsFresh

LEMMA TypeStep == TypeInv /\ [Next]_vars => TypeInv'
<1> SUFFICES ASSUME TypeOK, JobStarted, ArgumentsFresh, [Next]_vars
             PROVE  (TypeOK /\ JobStarted /\ ArgumentsFresh)'
  BY DEF TypeInv
<1> USE PoolAssumption
<1>t. /\ tasks \in Seq(Tasks) /\ started \in Seq(Tasks)
      /\ Members(started) \subseteq Tasks
  <2>1. \A i \in DOMAIN started : started[i] \in Tasks
    BY ElementOfSeq, LenProperties DEF TypeOK
  <2> QED
    BY <2>1 DEF TypeOK, Members
<1>p. ASSUME NEW e \in Enqueuers, NEW t \in Tasks, push(e, t),
             enqueuer[e] \in {"idle", "check"},
             argument[e] # t => Fresh(t), UNCHANGED <<workerVars, ownerVars>>,
             argument[e] = t \/ argument[e] = None
      PROVE  (TypeOK /\ JobStarted /\ ArgumentsFresh)'
  <2>1. tasks' \in Seq(Tasks) /\ Members(tasks') = Members(tasks) \cup {t}
    BY <1>t, <1>p, MembersAppend, AppendProperties DEF push
  <2>2. TypeOK'
    BY <1>p, <2>1 DEF push, TypeOK, workerVars, ownerVars, EnqueuerPCs
  <2>3. JobStarted'
    BY <1>p DEF JobStarted, workerVars
  <2>4. ArgumentsFresh'
    BY <1>p, <2>1 DEF push, ArgumentsFresh, Fresh, Used, workerVars, TypeOK
  <2> QED
    BY <2>2, <2>3, <2>4
<1>1. ASSUME NEW w \in Workers, Take(w) PROVE (TypeOK /\ JobStarted /\ ArgumentsFresh)'
  <2>1. /\ Head(tasks) \in Tasks /\ Tail(tasks) \in Seq(Tasks)
        /\ Members(tasks) = Members(tasks') \cup {Head(tasks)}
        /\ started' \in Seq(Tasks) /\ Members(started') = Members(started) \cup {Head(tasks)}
    BY <1>1, <1>t, HeadTailProperties, MembersHeadTail, MembersAppend, AppendProperties DEF Take
  <2>2. TypeOK'
    BY <1>1, <2>1 DEF Take, TypeOK, WorkerPCs, enqueuerVars, ownerVars
  <2>3. JobStarted'
    BY <1>1, <2>1 DEF Take, JobStarted, TypeOK
  <2>4. ArgumentsFresh'
    BY <1>1, <2>1 DEF Take, ArgumentsFresh, enqueuerVars
  <2> QED
    BY <2>2, <2>3, <2>4
<1>2. ASSUME NEW w \in Workers, Block(w) PROVE (TypeOK /\ JobStarted /\ ArgumentsFresh)'
  BY <1>2 DEF Block, TypeOK, JobStarted, ArgumentsFresh, WorkerPCs, enqueuerVars, ownerVars
<1>3. ASSUME NEW w \in Workers, Leave(w) PROVE (TypeOK /\ JobStarted /\ ArgumentsFresh)'
  BY <1>3 DEF Leave, TypeOK, JobStarted, ArgumentsFresh, WorkerPCs, enqueuerVars, ownerVars
<1>4. ASSUME NEW w \in Workers, NotifyNotFull(w)
      PROVE  (TypeOK /\ JobStarted /\ ArgumentsFresh)'
  BY <1>4 DEF NotifyNotFull, TypeOK, JobStarted, ArgumentsFresh, WorkerPCs, EnqueuerPCs,
              ownerVars
<1>5. ASSUME NEW w \in Workers, Run(w) PROVE (TypeOK /\ JobStarted /\ ArgumentsFresh)'
  <2>1. job[w] \in Members(started)
    BY <1>5 DEF Run, TypeOK, JobStarted
  <2> QED
    BY <1>5, <2>1 DEF Run, TypeOK, JobStarted, ArgumentsFresh, WorkerPCs, enqueuerVars, ownerVars
<1>6. ASSUME NEW e \in Enqueuers, NEW t \in Tasks, Enqueue(e, t)
      PROVE  (TypeOK /\ JobStarted /\ ArgumentsFresh)'
  <2>1. Fresh(t) /\ argument[e] = None
    BY <1>6 DEF Enqueue, TypeOK
  <2>2. CASE push(e, t)
    BY <1>6, <1>p, <2>1, <2>2 DEF Enqueue
  <2>3. CASE UNCHANGED tasks
    <3>1. TypeOK'
      BY <1>6, <2>3, ZenonT(30) DEF Enqueue, push, TypeOK, EnqueuerPCs, workerVars, ownerVars
    <3>2. JobStarted'
      BY <1>6 DEF Enqueue, JobStarted, workerVars
    <3>3. ArgumentsFresh'
      BY <1>6, <2>1, <2>3 DEF Enqueue, push, ArgumentsFresh, Fresh, Used, workerVars, TypeOK
    <3> QED
      BY <3>1, <3>2, <3>3
  <2> QED
    BY <1>6, <2>2, <2>3 DEF Enqueue
<1>7. ASSUME NEW e \in Enqueuers, WaitNotFull(e)
      PROVE  (TypeOK /\ JobStarted /\ ArgumentsFresh)'
  <2>1. CASE push(e, argument[e])
    <3>1. argument[e] \in Tasks
      BY <1>7 DEF WaitNotFull, TypeOK
    <3> QED
      BY <1>7, <1>p, <2>1, <3>1 DEF WaitNotFull
  <2>2. CASE UNCHANGED <<tasks, argument>> /\ enqueuer' = [enqueuer EXCEPT ![e] = "blocked"]
    BY <1>7, <2>2 DEF WaitNotFull, TypeOK, JobStarted, ArgumentsFresh, EnqueuerPCs, workerVars,
                      ownerVars
  <2> QED
    BY <1>7, <2>1, <2>2 DEF WaitNotFull
<1>8. ASSUME NEW e \in Enqueuers, NotifyCondition(e)
      PROVE  (TypeOK /\ JobStarted /\ ArgumentsFresh)'
  BY <1>8 DEF NotifyCondition, TypeOK, JobStarted, ArgumentsFresh, WorkerPCs, EnqueuerPCs,
              ownerVars
<1>9. CASE Stop
  BY <1>9 DEF Stop, TypeOK, JobStarted, ArgumentsFresh, OwnerPCs, workerVars, enqueuerVars
<1>10. CASE StopNotifies
  BY <1>10 DEF StopNotifies, TypeOK, JobStarted, ArgumentsFresh, OwnerPCs, WorkerPCs, enqueuerVars
<1>11. CASE StopReturn
  BY <1>11 DEF StopReturn, TypeOK, JobStarted, ArgumentsFresh, OwnerPCs, WorkerPCs, enqueuerVars
<1>12. CASE Start
  BY <1>12 DEF Start, TypeOK, JobStarted, ArgumentsFresh, OwnerPCs, WorkerPCs, enqueuerVars
<1>13. ASSUME NEW n \in Sizes, setMaxQueueSize(n)
       PROVE  (TypeOK /\ JobStarted /\ ArgumentsFresh)'
  BY <1>13 DEF setMaxQueueSize, TypeOK, JobStarted, ArgumentsFresh, workerVars, enqueuerVars
<1>14. CASE SpuriousWakeup
  BY <1>14 DEF SpuriousWakeup, TypeOK, JobStarted, ArgumentsFresh, WorkerPCs, EnqueuerPCs,
               workerVars, enqueuerVars, ownerVars
<1>15. CASE UNCHANGED vars
  BY <1>15 DEF vars, TypeOK, JobStarted, ArgumentsFresh
<1> QED
  BY <1>1, <1>2, <1>3, <1>4, <1>5, <1>6, <1>7, <1>8, <1>9, <1>10, <1>11, <1>12, <1>13,
     <1>14, <1>15 DEF Next, Worker, Enqueuer

LEMMA TypeInit == Init => TypeInv
<1> SUFFICES ASSUME Init PROVE TypeInv
  OBVIOUS
<1>1. <<>> \in Seq(Tasks) /\ Members(<<>>) = {}
  BY DEF Members
<1>2. None \notin Tasks
  BY PoolAssumption
<1> QED
  BY <1>1, <1>2, PoolAssumption
     DEF Init, TypeInv, TypeOK, JobStarted, ArgumentsFresh, OwnerPCs, WorkerPCs, EnqueuerPCs

LEMMA TypeInvCorrect == Spec => []TypeInv
BY TypeInit, TypeStep, PTL DEF Spec

------------------------------------------------------------------------------
(* Notifications *)

Sleeping == {w \in Workers : worker[w] = "blocked"}
Checking == {w \in Workers : worker[w] = "check"}
Notifying == {e \in Enqueuers : enqueuer[e] = "notify"}

\* The part of NoLostNotification that is not about types; it is inductive with them.
Covered == Sleeping # {} => Len(tasks) <= Cardinality(Checking) + Cardinality(Notifying)

LEMMA CardinalityFacts ==
  /\ IsFiniteSet(Checking) /\ Cardinality(Checking) \in Nat
  /\ IsFiniteSet(Notifying) /\ Cardinality(Notifying) \in Nat
  /\ IsFiniteSet(Checking)' /\ Cardinality(Checking)' \in Nat
  /\ IsFiniteSet(Notifying)' /\ Cardinality(Notifying)' \in Nat
<1>1. IsFiniteSet(Workers) /\ IsFiniteSet(Enqueuers)
  BY PoolAssumption
<1>2. /\ Checking \in SUBSET Workers /\ Notifying \in SUBSET Enqueuers
      /\ Checking' \in SUBSET Workers /\ Notifying' \in SUBSET Enqueuers
  BY DEF Checking, Notifying
<1> QED
  BY <1>1, <1>2, FS_Subset, FS_CardinalityType

\* A step of one worker or one enqueuer moves at most one element in or out.
LEMMA OneMore ==
  ASSUME NEW S, NEW T, NEW x, IsFiniteSet(S), T = S \cup {x}
  PROVE  Cardinality(T) <= Cardinality(S) + 1 /\ Cardinality(T) >= Cardinality(S)
         /\ (x \notin S => Cardinality(T) = Cardinality(S) + 1)
<1>1. Cardinality(S) \in Nat
  BY FS_CardinalityType
<1>2. Cardinality(T) = IF x \in S THEN Cardinality(S) ELSE Cardinality(S) + 1
  BY FS_AddElement
<1> QED
  BY <1>1, <1>2

LEMMA OneLess ==
  ASSUME NEW S, NEW T, NEW x, IsFiniteSet(S), T = S \ {x}
  PROVE  Cardinality(T) >= Cardinality(S) - 1 /\ Cardinality(T) <= Cardinality(S)
<1>1. Cardinality(S) \in Nat
  BY FS_CardinalityType
<1>2. Cardinality(T) = IF x \in S THEN Cardinality(S) - 1 ELSE Cardinality(S)
  BY FS_RemoveElement
<1> QED
  BY <1>1, <1>2

LEMMA CoveredStep == TypeInv /\ Covered /\ [Next]_vars => Covered'
<1> SUFFICES ASSUME TypeInv, Covered, [Next]_vars PROVE Covered'
  OBVIOUS
<1>t. /\ tasks \in Seq(Tasks) /\ Len(tasks) \in Nat
      /\ worker \in [Workers -> WorkerPCs] /\ enqueuer \in [Enqueuers -> EnqueuerPCs]
  BY LenProperties DEF TypeInv, TypeOK
<1>c. /\ IsFiniteSet(Checking) /\ Cardinality(Checking) \in Nat
      /\ IsFiniteSet(Notifying) /\ Cardinality(Notifying) \in Nat
      /\ Cardinality(Checking') \in Nat /\ Cardinality(Notifying') \in Nat
  BY CardinalityFacts
<1>s. worker' = worker => Sleeping' = Sleeping /\ Checking' = Checking
  BY DEF Sleeping, Checking
<1>n. enqueuer' = enqueuer => Notifying' = Notifying
  BY DEF Notifying
\* a step that leaves the queue alone, adds no sleeper and takes away no help
<1>k. ASSUME tasks' = tasks, Sleeping' \subseteq Sleeping,
             Cardinality(Checking') + Cardinality(Notifying')
               >= Cardinality(Checking) + Cardinality(Notifying)
      PROVE  Covered'
  <2>1. Covered' = (Sleeping' # {} => Len(tasks') <= Cardinality(Checking') + Cardinality(Notifying'))
    BY DEF Covered
  <2> QED
    BY <1>t, <1>c, <1>k, <2>1 DEF Covered
\* a worker that wakes up and will look
<1>w. ASSUME NEW w \in Workers, worker[w] = "blocked" \/ worker[w] = "run",
             worker' = [worker EXCEPT ![w] = "check"]
      PROVE  /\ Sleeping' \subseteq Sleeping
             /\ Cardinality(Checking') = Cardinality(Checking) + 1
  <2>1. Checking' = Checking \cup {w} /\ w \notin Checking /\ Sleeping' \subseteq Sleeping
    BY <1>t, <1>w DEF Checking, Sleeping
  <2> QED
    BY <1>c, <2>1, OneMore
\* a push adds the task and the notification for it
<1>p. ASSUME NEW e \in Enqueuers, NEW t \in Tasks, push(e, t), enqueuer[e] # "notify",
             UNCHANGED worker
      PROVE  Covered'
  <2>1. Len(tasks') = Len(tasks) + 1
    BY <1>t, <1>p, AppendProperties DEF push
  <2>2. Notifying' = Notifying \cup {e} /\ e \notin Notifying
    BY <1>t, <1>p DEF push, Notifying
  <2>3. Cardinality(Notifying') = Cardinality(Notifying) + 1
    BY <1>c, <2>2, OneMore
  <2> QED
    BY <1>t, <1>c, <1>p, <1>s, <2>1, <2>3 DEF Covered
<1>1. ASSUME NEW w \in Workers, Take(w) PROVE Covered'
  <2>1. Len(tasks') = Len(tasks) - 1
    BY <1>1, <1>t, HeadTailProperties DEF Take
  <2>2. Checking' = Checking \ {w} /\ Sleeping' = Sleeping /\ Notifying' = Notifying
    BY <1>1, <1>t DEF Take, Checking, Sleeping, Notifying, enqueuerVars
  <2>3. Cardinality(Checking') >= Cardinality(Checking) - 1
    BY <1>c, <2>2, OneLess
  <2> QED
    BY <1>t, <1>c, <2>1, <2>2, <2>3 DEF Covered
<1>2. ASSUME NEW w \in Workers, Block(w) PROVE Covered'
  <2>1. Len(tasks') = 0
    BY <1>2 DEF Block
  <2> QED
    BY <1>c, <2>1 DEF Covered
<1>3. ASSUME NEW w \in Workers, Leave(w) PROVE Covered'
  <2>1. Len(tasks') = 0
    BY <1>3 DEF Leave
  <2> QED
    BY <1>c, <2>1 DEF Covered
<1>4. ASSUME NEW w \in Workers, NotifyNotFull(w) PROVE Covered'
  <2>1. Checking' = Checking /\ Sleeping' = Sleeping /\ Notifying' = Notifying /\ tasks' = tasks
    BY <1>4, <1>t DEF NotifyNotFull, Checking, Sleeping, Notifying
  <2> QED
    BY <1>c, <1>k, <2>1
<1>5. ASSUME NEW w \in Workers, Run(w) PROVE Covered'
  <2>1. worker[w] = "run" /\ worker' = [worker EXCEPT ![w] = "check"]
        /\ enqueuer' = enqueuer /\ tasks' = tasks
    BY <1>5 DEF Run, enqueuerVars
  <2>2. Sleeping' \subseteq Sleeping /\ Cardinality(Checking') = Cardinality(Checking) + 1
    BY <1>w, <2>1
  <2> QED
    BY <1>c, <1>k, <1>n, <2>1, <2>2
<1>6. ASSUME NEW e \in Enqueuers, NEW t \in Tasks, Enqueue(e, t) PROVE Covered'
  <2>1. enqueuer[e] = "idle" /\ UNCHANGED worker
    BY <1>6 DEF Enqueue, workerVars
  <2>2. CASE push(e, t)
    BY <1>p, <2>1, <2>2
  <2>3. CASE UNCHANGED tasks /\ enqueuer' = [enqueuer EXCEPT ![e] = "blocked"]
    <3>1. Notifying' = Notifying
      BY <1>t, <2>1, <2>3 DEF Notifying
    <3> QED
      BY <1>c, <1>k, <1>s, <2>1, <2>3, <3>1
  <2> QED
    BY <1>6, <2>2, <2>3 DEF Enqueue
<1>7. ASSUME NEW e \in Enqueuers, WaitNotFull(e) PROVE Covered'
  <2>1. enqueuer[e] = "check" /\ UNCHANGED worker /\ argument[e] \in Tasks
    BY <1>7 DEF WaitNotFull, workerVars, TypeInv, TypeOK
  <2>2. CASE push(e, argument[e])
    BY <1>p, <2>1, <2>2
  <2>3. CASE UNCHANGED tasks /\ enqueuer' = [enqueuer EXCEPT ![e] = "blocked"]
    <3>1. Notifying' = Notifying
      BY <1>t, <2>1, <2>3 DEF Notifying
    <3> QED
      BY <1>c, <1>k, <1>s, <2>1, <2>3, <3>1
  <2> QED
    BY <1>7, <2>2, <2>3 DEF WaitNotFull
<1>8. ASSUME NEW e \in Enqueuers, NotifyCondition(e) PROVE Covered'
  <2>1. Notifying' = Notifying \ {e} /\ tasks' = tasks
    BY <1>8, <1>t DEF NotifyCondition, Notifying
  <2>2. Cardinality(Notifying') >= Cardinality(Notifying) - 1
    BY <1>c, <2>1, OneLess
  <2>3. CASE \E w \in Workers : worker[w] = "blocked" /\ worker' = [worker EXCEPT ![w] = "check"]
    <3>1. Sleeping' \subseteq Sleeping /\ Cardinality(Checking') = Cardinality(Checking) + 1
      BY <1>w, <2>3
    <3> QED
      BY <1>c, <1>k, <2>1, <2>2, <3>1
  <2>4. CASE (\A w \in Workers : worker[w] # "blocked") /\ UNCHANGED worker
    BY <1>s, <2>4 DEF Covered, Sleeping
  <2> QED
    BY <1>8, <2>3, <2>4 DEF NotifyCondition
<1>9. CASE Stop
  BY <1>9, <1>c, <1>k, <1>s, <1>n DEF Stop, workerVars, enqueuerVars
<1>10. CASE StopNotifies
  <2>1. Sleeping' = {}
    BY <1>10, <1>t DEF StopNotifies, Sleeping
  <2> QED
    BY <2>1 DEF Covered
<1>11. CASE StopReturn
  <2>1. Sleeping' = {}
    BY <1>11 DEF StopReturn, Sleeping
  <2> QED
    BY <2>1 DEF Covered
<1>12. CASE Start
  <2>1. Sleeping' = {}
    BY <1>12 DEF Start, Sleeping
  <2> QED
    BY <2>1 DEF Covered
<1>13. ASSUME NEW n \in Sizes, setMaxQueueSize(n) PROVE Covered'
  BY <1>13, <1>c, <1>k, <1>s, <1>n DEF setMaxQueueSize, workerVars, enqueuerVars
<1>14. CASE SpuriousWakeup
  <2>1. ASSUME NEW w \in Workers, worker[w] = "blocked",
               worker' = [worker EXCEPT ![w] = "check"], UNCHANGED <<tasks, enqueuer>>
        PROVE  Covered'
    <3>1. Sleeping' \subseteq Sleeping /\ Cardinality(Checking') = Cardinality(Checking) + 1
      BY <1>w, <2>1
    <3> QED
      BY <1>c, <1>k, <1>n, <2>1, <3>1
  <2>2. ASSUME NEW e \in Enqueuers, enqueuer[e] = "blocked",
               enqueuer' = [enqueuer EXCEPT ![e] = "check"], UNCHANGED <<tasks, worker>>
        PROVE  Covered'
    <3>1. Notifying' = Notifying
      BY <1>t, <2>2 DEF Notifying
    <3> QED
      BY <1>c, <1>k, <1>s, <2>2, <3>1
  <2> QED
    BY <1>14, <2>1, <2>2 DEF SpuriousWakeup, enqueuerVars, workerVars
<1>15. CASE UNCHANGED vars
  BY <1>15, <1>c, <1>k, <1>s, <1>n DEF vars
<1> QED
  BY <1>1, <1>2, <1>3, <1>4, <1>5, <1>6, <1>7, <1>8, <1>9, <1>10, <1>11, <1>12, <1>13,
     <1>14, <1>15 DEF Next, Worker, Enqueuer

\* No notification of condition_ is lost: while a worker sleeps every task in the queue
\* has a worker about to look or a notification to come, although enqueue notifies
\* after it has released the mutex and tasks may themselves wait inside enqueue.
THEOREM NoLostNotificationCorrect == Spec => []NoLostNotification
<1>1. Init => Covered
  BY DEF Init, Covered, Sleeping
<1>2. TypeInv /\ Covered => NoLostNotification
  BY DEF TypeInv, Covered, NoLostNotification, Sleeping, Checking, Notifying
<1> QED
  BY <1>1, <1>2, CoveredStep, TypeInvCorrect, PTL DEF Spec

------------------------------------------------------------------------------
\* enqueue never takes the queue beyond maxQueueSize_: a woken enqueuer tests the size
\* again under the mutex.
THEOREM QueueBoundedCorrect == Spec => QueueBounded
<1> DEFINE Bounded == Len(tasks') > Len(tasks) /\ maxQueueSize > 0 => Len(tasks') <= maxQueueSize
<1>1. TypeInv /\ [Next]_vars => [Bounded]_vars
  <2> SUFFICES ASSUME TypeInv, Next PROVE Bounded
    OBVIOUS
  <2>t. tasks \in Seq(Tasks) /\ Len(tasks) \in Nat /\ maxQueueSize \in Nat
    BY LenProperties DEF TypeInv, TypeOK
  <2>p. ASSUME NEW e \in Enqueuers, NEW t \in Tasks, push(e, t),
               maxQueueSize > 0 => Len(tasks) < maxQueueSize
        PROVE  Bounded
    <3>1. Len(tasks') = Len(tasks) + 1
      BY <2>t, <2>p, AppendProperties DEF push
    <3> QED
      BY <2>t, <2>p, <3>1
  <2>1. ASSUME NEW e \in Enqueuers, NEW t \in Tasks, Enqueue(e, t) PROVE Bounded
    BY <2>1, <2>p, <2>t DEF Enqueue, Full
  <2>2. ASSUME NEW e \in Enqueuers, WaitNotFull(e) PROVE Bounded
    <3>1. argument[e] \in Tasks
      BY <2>2 DEF WaitNotFull, TypeInv, TypeOK
    <3> QED
      BY <2>2, <2>p, <2>t, <3>1 DEF WaitNotFull
  <2>3. ASSUME NEW w \in Workers, Take(w) PROVE Bounded
    BY <2>3, <2>t, HeadTailProperties DEF Take
  <2>4. ASSUME \/ \E w \in Workers : Block(w) \/ Leave(w) \/ NotifyNotFull(w) \/ Run(w)
               \/ \E e \in Enqueuers : NotifyCondition(e)
               \/ Stop \/ StopNotifies \/ StopReturn \/ Start \/ SpuriousWakeup
               \/ \E n \in Sizes : setMaxQueueSize(n)
        PROVE  tasks' = tasks
    BY <2>4 DEF Block, Leave, NotifyNotFull, Run, NotifyCondition, Stop, StopNotifies,
                StopReturn, Start, SpuriousWakeup, setMaxQueueSize
  <2> QED
    BY <2>t, <2>1, <2>2, <2>3, <2>4 DEF Next, Worker, Enqueuer
<1> QED
  BY <1>1, TypeInvCorrect, PTL DEF Spec, QueueBounded

\* The pool implements the FIFO queue of TaskQueue over stops and restarts: enqueue
\* submits, also after a wait, and a worker takes the oldest task.
THEOREM RefinesTaskQueue == Spec => ImplementsTaskQueue
<1>1. Init => TQ!Init
  BY DEF Init, TQ!Init
<1>2. TypeInv /\ [Next]_vars => [TQ!Next]_(TQ!vars)
  <2> SUFFICES ASSUME TypeInv, [Next]_vars PROVE [TQ!Next]_(TQ!vars)
    OBVIOUS
  <2>p. ASSUME NEW e \in Enqueuers, NEW t \in Tasks, push(e, t), UNCHANGED started,
               t \notin Members(tasks) \cup Members(started)
        PROVE  TQ!Next
    BY <2>p DEF push, TQ!Next, TQ!Submit, TQ!Fresh, TQ!Members, Members
  <2>s. UNCHANGED <<tasks, started>> => [TQ!Next]_(TQ!vars)
    BY DEF TQ!vars
  <2>1. ASSUME NEW e \in Enqueuers, NEW t \in Tasks, Enqueue(e, t)
        PROVE  [TQ!Next]_(TQ!vars)
    BY <2>1, <2>p, <2>s DEF Enqueue, Fresh, Used, workerVars
  <2>2. ASSUME NEW e \in Enqueuers, WaitNotFull(e) PROVE [TQ!Next]_(TQ!vars)
    <3>1. argument[e] \in Tasks /\ argument[e] \notin Members(tasks) \cup Members(started)
      BY <2>2 DEF WaitNotFull, TypeInv, TypeOK, ArgumentsFresh
    <3> QED
      BY <2>2, <2>p, <2>s, <3>1 DEF WaitNotFull, workerVars
  <2>3. ASSUME NEW w \in Workers, Take(w) PROVE TQ!Next
    BY <2>3 DEF Take, TQ!Next, TQ!RunNext
  <2>4. ASSUME \/ \E w \in Workers : Block(w) \/ Leave(w) \/ NotifyNotFull(w) \/ Run(w)
               \/ \E e \in Enqueuers : NotifyCondition(e)
               \/ Stop \/ StopNotifies \/ StopReturn \/ Start \/ SpuriousWakeup
               \/ \E n \in Sizes : setMaxQueueSize(n)
               \/ UNCHANGED vars
        PROVE  UNCHANGED <<tasks, started>>
    BY <2>4 DEF Block, Leave, NotifyNotFull, Run, NotifyCondition, Stop, StopNotifies,
                StopReturn, Start, SpuriousWakeup, setMaxQueueSize, workerVars, vars
  <2> QED
    BY <2>s, <2>1, <2>2, <2>3, <2>4 DEF Next, Worker, Enqueuer
<1> QED
  BY <1>1, <1>2, TypeInvCorrect, PTL DEF Spec, ImplementsTaskQueue, TQ!Spec
==============================================================================
