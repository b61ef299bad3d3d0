------------------------------ MODULE TaskQueue ------------------------------
(***************************************************************************)
(* What an EventLoop promises to the callers of runInLoop and queueInLoop, *)
(* without wakeups, polling or swapping of vectors: a task is either       *)
(* queued and then run once, in the order of the queue, or run directly by *)
(* the loop's own thread.  EventLoop.tla implements this specification.    *)
(***************************************************************************)
EXTENDS Sequences

CONSTANT Tasks       \* the functors that can be handed to the loop

VARIABLES queue,     \* tasks accepted and not yet started, oldest first
          ran        \* tasks started, in the order they were started

vars == <<queue, ran>>

Members(s) == {s[i] : i \in DOMAIN s}

\* A functor object is handed over at most once: every hand-over is a new one.
Fresh(t) == t \notin Members(queue) \cup Members(ran)

Init == queue = <<>> /\ ran = <<>>

\* queueInLoop, and runInLoop from another thread
Submit(t) ==
  /\ Fresh(t)
  /\ queue' = Append(queue, t)
  /\ UNCHANGED ran

\* the loop's thread takes up the oldest task
RunNext ==
  /\ queue # <<>>
  /\ ran' = Append(ran, Head(queue))
  /\ queue' = Tail(queue)

\* runInLoop from the loop's own thread
RunDirect(t) ==
  /\ Fresh(t)
  /\ ran' = Append(ran, t)
  /\ UNCHANGED queue

Next == RunNext \/ \E t \in Tasks : Submit(t) \/ RunDirect(t)

Spec == Init /\ [][Next]_vars
==============================================================================
