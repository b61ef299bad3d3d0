------------------------------ MODULE ThreadPool -----------------------------
(***************************************************************************)
(* ThreadPool (starry/base/thread_pool/include/thread_pool.h): workers     *)
(* that take tasks from a queue with an optional bound, threads that       *)
(* enqueue, and an owner that stops, restarts and resizes the pool.        *)
(*                                                                         *)
(* What a thread does under queue_mutex_ is one step, and so is each       *)
(* notification; a thread that was notified, or woke up spuriously, tests  *)
(* the predicate of its wait in a step of its own, after others may have   *)
(* taken the mutex.  start and stop are called by one owner.               *)
(***************************************************************************)
EXTENDS Naturals, Sequences, FiniteSets

CONSTANTS
  Workers,     \* the threads of the pool: threadCount_ many
  Enqueuers,   \* the threads that call enqueue; a worker calls it from a task it runs
  Tasks,       \* what they enqueue, each once: numbers
  InitSizes,   \* maxQueueSize of the constructor; 0 is no bound
  Sizes,       \* arguments of setMaxQueueSize
  None         \* no task

ASSUME PoolAssumption ==
  /\ Workers # {} /\ IsFiniteSet(Workers) /\ IsFiniteSet(Enqueuers)
  /\ Tasks \subseteq Nat /\ None \notin Tasks
  /\ InitSizes \subseteq Nat /\ Sizes \subseteq Nat

VARIABLES
  tasks,         \* tasks_
  maxQueueSize,  \* maxQueueSize_
  stop,          \* stop_
  running,       \* running_
  worker,        \* where each worker is, see WorkerPCs
  job,           \* the task a worker has taken
  enqueuer,      \* where each enqueuer is, see EnqueuerPCs
  argument,      \* the task an enqueuer is about to hand over
  owner,         \* where the owner is, see OwnerPCs
  started,       \* history: tasks taken from the queue, in order
  done           \* history: tasks whose call has returned

vars == <<tasks, maxQueueSize, stop, running, worker, job, enqueuer, argument, owner,
          started, done>>

WorkerPCs == {"none",     \* not in workers_
              "check",    \* about to lock and test the predicate of condition_.wait
              "blocked",  \* in condition_.wait
              "notify",   \* has taken a task, before notFull_.notify_one
              "run",      \* in task()
              "exited"}   \* its function has returned

EnqueuerPCs == {"idle",
                "check",    \* in notFull_.wait, about to test the predicate
                "blocked",  \* in notFull_.wait
                "notify"}   \* has pushed its task, before condition_.notify_one

OwnerPCs == {"idle",
             "notify",   \* in stop, before condition_.notify_all
             "join"}     \* in stop, joining the workers

Members(s) == {s[i] : i \in DOMAIN s}

\* every call of enqueue wraps a new task; they are numbered in the order of the calls
Used == Members(tasks) \cup Members(started) \cup {argument[e] : e \in Enqueuers}

Fresh(t) == t \notin Used /\ \A s \in Tasks \ Used : t <= s

\* the constructor, with start
Init ==
  /\ tasks = <<>>
  /\ maxQueueSize \in InitSizes
  /\ stop = FALSE
  /\ running = TRUE
  /\ worker = [w \in Workers |-> "check"]
  /\ job = [w \in Workers |-> None]
  /\ enqueuer = [e \in Enqueuers |-> "idle"]
  /\ argument = [e \in Enqueuers |-> None]
  /\ owner = "idle"
  /\ started = <<>>
  /\ done = {}

workerVars == <<worker, job, started, done>>
enqueuerVars == <<enqueuer, argument>>
ownerVars == <<maxQueueSize, stop, running, owner>>

------------------------------------------------------------------------------
(* The workers *)

\* task = std::move(tasks_.front()); tasks_.pop()
Take(w) ==
  /\ worker[w] = "check"
  /\ tasks # <<>>
  /\ tasks' = Tail(tasks)
  /\ started' = Append(started, Head(tasks))
  /\ job' = [job EXCEPT ![w] = Head(tasks)]
  /\ worker' = [worker EXCEPT ![w] = "notify"]
  /\ UNCHANGED <<done, enqueuerVars, ownerVars>>

\* condition_.wait: neither stopped nor anything to do
Block(w) ==
  /\ worker[w] = "check"
  /\ tasks = <<>> /\ ~stop
  /\ worker' = [worker EXCEPT ![w] = "blocked"]
  /\ UNCHANGED <<tasks, job, started, done, enqueuerVars, ownerVars>>

\* Mutant: a worker leaves as soon as stop_ is set.
LeaveAtStop(w) ==
  /\ worker[w] = "check"
  /\ stop
  /\ worker' = [worker EXCEPT ![w] = "exited"]
  /\ UNCHANGED <<tasks, job, started, done, enqueuerVars, ownerVars>>

\* if (stop_ && tasks_.empty()) return
Leave(w) ==
  /\ worker[w] = "check"
  /\ tasks = <<>> /\ stop
  /\ worker' = [worker EXCEPT ![w] = "exited"]
  /\ UNCHANGED <<tasks, job, started, done, enqueuerVars, ownerVars>>

\* notFull_.notify_one()
NotifyNotFull(w) ==
  /\ worker[w] = "notify"
  /\ worker' = [worker EXCEPT ![w] = "run"]
  /\ \/ \E e \in Enqueuers :
          /\ enqueuer[e] = "blocked"
          /\ enqueuer' = [enqueuer EXCEPT ![e] = "check"]
     \/ /\ \A e \in Enqueuers : enqueuer[e] # "blocked"
        /\ UNCHANGED enqueuer
  /\ UNCHANGED <<tasks, job, started, done, argument, ownerVars>>

\* task() returns, its calls of enqueue with it; an exception ends in the future
Run(w) ==
  /\ worker[w] = "run"
  /\ w \in Enqueuers => enqueuer[w] = "idle"
  /\ worker' = [worker EXCEPT ![w] = "check"]
  /\ job' = [job EXCEPT ![w] = None]
  /\ done' = done \cup {job[w]}
  /\ UNCHANGED <<tasks, started, enqueuerVars, ownerVars>>

------------------------------------------------------------------------------
(* enqueue *)

Full == maxQueueSize > 0 /\ Len(tasks) >= maxQueueSize

\* Mutant: the new task is put in front, as with a stack.
pushFront(e, t) ==
  /\ tasks' = <<t>> \o tasks
  /\ enqueuer' = [enqueuer EXCEPT ![e] = "notify"]
  /\ argument' = [argument EXCEPT ![e] = None]

\* tasks_.emplace, the end of the critical section
push(e, t) ==
  /\ tasks' = Append(tasks, t)
  /\ enqueuer' = [enqueuer EXCEPT ![e] = "notify"]
  /\ argument' = [argument EXCEPT ![e] = None]

\* enqueue up to the unlock or the first wait; on a stopped pool it throws and
\* changes nothing
Enqueue(e, t) ==
  /\ enqueuer[e] = "idle"
  /\ e \in Workers => worker[e] = "run"
  /\ Fresh(t)
  /\ running
  /\ \/ ~Full /\ push(e, t)
     \/ /\ Full
        /\ enqueuer' = [enqueuer EXCEPT ![e] = "blocked"]
        /\ argument' = [argument EXCEPT ![e] = t]
        /\ UNCHANGED tasks
  /\ UNCHANGED <<workerVars, ownerVars>>

\* Mutant: notFull_.wait has no predicate.
WaitNotFullOnce(e) ==
  /\ enqueuer[e] = "check"
  /\ push(e, argument[e])
  /\ UNCHANGED <<workerVars, ownerVars>>

\* notFull_.wait tests tasks_.size() < maxQueueSize_ again; running_ is not tested
WaitNotFull(e) ==
  /\ enqueuer[e] = "check"
  /\ \/ Len(tasks) < maxQueueSize /\ push(e, argument[e])
     \/ /\ Len(tasks) >= maxQueueSize
        /\ enqueuer' = [enqueuer EXCEPT ![e] = "blocked"]
        /\ UNCHANGED <<tasks, argument>>
  /\ UNCHANGED <<workerVars, ownerVars>>

\* Mutant: the notification is sent only when the queue was empty before.
NotifyConditionIfFirst(e) ==
  /\ enqueuer[e] = "notify"
  /\ enqueuer' = [enqueuer EXCEPT ![e] = "idle"]
  /\ \/ \E w \in Workers :
          /\ Len(tasks) = 1 /\ worker[w] = "blocked"
          /\ worker' = [worker EXCEPT ![w] = "check"]
     \/ /\ Len(tasks) # 1 \/ \A w \in Workers : worker[w] # "blocked"
        /\ UNCHANGED worker
  /\ UNCHANGED <<tasks, job, started, done, argument, ownerVars>>

\* condition_.notify_one()
NotifyCondition(e) ==
  /\ enqueuer[e] = "notify"
  /\ enqueuer' = [enqueuer EXCEPT ![e] = "idle"]
  /\ \/ \E w \in Workers :
          /\ worker[w] = "blocked"
          /\ worker' = [worker EXCEPT ![w] = "check"]
     \/ /\ \A w \in Workers : worker[w] # "blocked"
        /\ UNCHANGED worker
  /\ UNCHANGED <<tasks, job, started, done, argument, ownerVars>>

------------------------------------------------------------------------------
(* The owner *)

\* stop up to the unlock
Stop ==
  /\ owner = "idle"
  /\ running
  /\ stop' = TRUE
  /\ running' = FALSE
  /\ owner' = "notify"
  /\ UNCHANGED <<tasks, maxQueueSize, workerVars, enqueuerVars>>

\* Mutant: notify_one instead of notify_all.
StopNotifiesOne ==
  /\ owner = "notify"
  /\ owner' = "join"
  /\ \/ \E w \in Workers :
          /\ worker[w] = "blocked"
          /\ worker' = [worker EXCEPT ![w] = "check"]
     \/ /\ \A w \in Workers : worker[w] # "blocked"
        /\ UNCHANGED worker
  /\ UNCHANGED <<tasks, job, started, done, enqueuerVars, maxQueueSize, stop, running>>

\* condition_.notify_all()
StopNotifies ==
  /\ owner = "notify"
  /\ owner' = "join"
  /\ worker' = [w \in Workers |-> IF worker[w] = "blocked" THEN "check" ELSE worker[w]]
  /\ UNCHANGED <<tasks, job, started, done, enqueuerVars, maxQueueSize, stop, running>>

\* all workers are joined; workers_.clear()
StopReturn ==
  /\ owner = "join"
  /\ \A w \in Workers : worker[w] = "exited"
  /\ worker' = [w \in Workers |-> "none"]
  /\ owner' = "idle"
  /\ UNCHANGED <<tasks, job, started, done, enqueuerVars, maxQueueSize, stop, running>>

\* start of a stopped pool
Start ==
  /\ owner = "idle"
  /\ ~running
  /\ running' = TRUE
  /\ stop' = FALSE
  /\ worker' = [w \in Workers |-> "check"]
  /\ UNCHANGED <<tasks, maxQueueSize, owner, job, started, done, enqueuerVars>>

setMaxQueueSize(n) ==
  /\ owner = "idle"
  /\ maxQueueSize' = n
  /\ UNCHANGED <<tasks, stop, running, owner, workerVars, enqueuerVars>>

------------------------------------------------------------------------------
\* std::condition_variable may return from wait without a notification
SpuriousWakeup ==
  \/ \E w \in Workers :
       /\ worker[w] = "blocked"
       /\ worker' = [worker EXCEPT ![w] = "check"]
       /\ UNCHANGED <<tasks, job, started, done, enqueuerVars, ownerVars>>
  \/ \E e \in Enqueuers :
       /\ enqueuer[e] = "blocked"
       /\ enqueuer' = [enqueuer EXCEPT ![e] = "check"]
       /\ UNCHANGED <<tasks, argument, workerVars, ownerVars>>

Worker(w) == Take(w) \/ Block(w) \/ Leave(w) \/ NotifyNotFull(w) \/ Run(w)

Enqueuer(e) == WaitNotFull(e) \/ NotifyCondition(e)

Next ==
  \/ \E w \in Workers : Worker(w)
  \/ \E e \in Enqueuers : Enqueuer(e) \/ \E t \in Tasks : Enqueue(e, t)
  \/ Stop \/ StopNotifies \/ StopReturn \/ Start
  \/ \E n \in Sizes : setMaxQueueSize(n)
  \/ SpuriousWakeup

Spec == Init /\ [][Next]_vars

\* Every thread inside the pool's code is scheduled, and tasks return.  Nobody has to
\* call enqueue, stop or start, and no spurious wakeup has to happen.
FairSpec ==
  /\ Spec
  /\ \A w \in Workers : WF_vars(Worker(w))
  /\ \A e \in Enqueuers : WF_vars(Enqueuer(e))
  /\ WF_vars(StopNotifies) /\ WF_vars(StopReturn)

------------------------------------------------------------------------------
(* Properties *)

\* Types; workers leave only while the pool is stopping, and a worker or an enqueuer
\* holds a task exactly between taking it and being done with it.
TypeOK ==
  /\ tasks \in Seq(Tasks)
  /\ started \in Seq(Tasks)
  /\ done \subseteq Members(started)
  /\ maxQueueSize \in Nat
  /\ stop \in BOOLEAN
  /\ running \in BOOLEAN
  /\ stop <=> ~running
  /\ owner \in OwnerPCs
  /\ owner # "idle" => stop
  /\ worker \in [Workers -> WorkerPCs]
  /\ enqueuer \in [Enqueuers -> EnqueuerPCs]
  /\ job \in [Workers -> Tasks \cup {None}]
  /\ argument \in [Enqueuers -> Tasks \cup {None}]
  /\ \A w \in Workers : job[w] \in Tasks <=> worker[w] \in {"notify", "run"}
  /\ \A e \in Enqueuers : argument[e] \in Tasks <=> enqueuer[e] \in {"check", "blocked"}
  /\ \A w \in Workers : worker[w] = "exited" => owner # "idle"
  /\ \A w \in Workers : worker[w] = "none" <=> (owner = "idle" /\ stop)

\* While a worker sleeps there is, for every task in the queue, a worker about to test
\* it or a notification still to come, whatever the order of pushes, notifications and
\* waits: a worker busy with a long task, or waiting inside it, holds up no other. With
\* the types.
NoLostNotification ==
  /\ TypeOK
  /\ (\E w \in Workers : worker[w] = "blocked")
     => Len(tasks) <= Cardinality({w \in Workers : worker[w] = "check"})
                       + Cardinality({e \in Enqueuers : enqueuer[e] = "notify"})

\* No enqueue takes the queue beyond the bound, even if another thread takes the
\* free place between the notification and the wakeup.
QueueBounded ==
  [][Len(tasks') > Len(tasks) /\ maxQueueSize > 0 => Len(tasks') <= maxQueueSize]_vars

TQ == INSTANCE TaskQueue WITH queue <- tasks, ran <- started

\* The pool implements the FIFO queue of TaskQueue: no task is lost, taken twice or
\* overtaken, over stops and restarts.
ImplementsTaskQueue == TQ!Spec

\* Every worker that has not left runs a task that waits for a place in the queue only
\* they empty. Nothing ends this: setMaxQueueSize and stop do not notify notFull_.
AllWorkersWait ==
  LET waiting == {w \in Workers \cap Enqueuers :
                    \/ enqueuer[w] = "blocked"
                    \/ enqueuer[w] = "check" /\ Len(tasks) >= maxQueueSize} IN
  /\ waiting # {}
  /\ \A w \in Workers \ waiting : worker[w] = "exited"

\* The queue has a bound whenever the enqueuer waits for a place. It does not if
\* setMaxQueueSize(0) is called meanwhile: 0 is no bound for a new enqueue, but the wait
\* tests tasks_.size() < 0, and sleeps on even if a bound is set again.
BoundedWhileWaiting(e) == enqueuer[e] \in {"check", "blocked"} => maxQueueSize > 0

\* A task in the queue of a running pool is run to its end, also when the pool is
\* stopped meanwhile: stop lets the workers empty the queue. Unless AllWorkersWait, or
\* the bound is taken away while the task itself waits in enqueue.
AcceptedTaskRuns ==
  \A t \in Tasks :
    t \in Members(tasks) /\ running ~>
      \/ t \in done \/ AllWorkersWait
      \/ \E w \in Workers \cap Enqueuers : job[w] = t /\ ~BoundedWhileWaiting(w)

\* The calls that wait return: stop, for all workers see stop_ and end, and enqueue on
\* a full queue, as long as the pool is not stopped and nobody takes the bound away
\* while it waits. Unless AllWorkersWait.
CallsReturn ==
  /\ owner # "idle" ~> owner = "idle" \/ AllWorkersWait
  /\ \A e \in Enqueuers :
       []BoundedWhileWaiting(e) =>
         (enqueuer[e] = "blocked" ~> enqueuer[e] = "idle" \/ ~running \/ AllWorkersWait)
==============================================================================
