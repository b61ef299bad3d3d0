----------------------------- MODULE AsyncLogging ----------------------------
(***************************************************************************)
(* AsyncLogging (starry/base/log/src/async_logger.cpp): threads append     *)
(* lines to a chain of buffers, and a thread of its own swaps the chain    *)
(* out, writes it to the LogFile and keeps two buffers for reuse.          *)
(*                                                                         *)
(* Lines are numbered in the order in which append got mutex_, and have    *)
(* length 1.  A buffer pointer is Null or the contents of the buffer, so   *)
(* that moved-from pointers and buffers that were not cleared show.  The   *)
(* wait_for of the thread has no predicate: it returns when notified, after *)
(* flushInterval_ or spuriously, that is, at any time.  The LogFile of the *)
(* thread is the one of LogFile.tla; log.files stays when it is gone.      *)
(***************************************************************************)
EXTENDS LogFile

CONSTANTS
  Size,        \* kLargeBuffer, in lines
  MaxToWrite,  \* 25: more buffers than this are dropped
  MaxLines,    \* bound on the lines appended
  Null         \* nullptr

ASSUME LoggingAssumption ==
  /\ Size \in Nat /\ Size >= 2
  /\ MaxToWrite \in Nat /\ MaxToWrite >= 2
  /\ MaxLines \in Nat
  /\ Null \notin Seq(Nat)

VARIABLES
  currentBuffer, nextBuffer, buffers,   \* guarded by mutex_
  running,                              \* running_
  newBuffer1, newBuffer2,               \* locals of threadFunc
  buffersToWrite,
  written,      \* how many of buffersToWrite have been written
  thread,       \* where the thread is, see ThreadPCs
  owner,        \* "idle", or "join" in stop
  appended,     \* history: number of lines appended
  dropped,      \* history: the lines of buffers that were erased, or written while the
                \* LogFile had no open file
  log,          \* output, the LogFile, and the files on disk
  now,          \* the system clock
  ordered       \* history: no start() found the clock behind a file on disk

callerVars == <<currentBuffer, nextBuffer, buffers>>
fileVars == <<log, now, ordered>>
localVars == <<newBuffer1, newBuffer2, buffersToWrite, written>>
loggingVars == <<callerVars, running, localVars, thread, owner, appended, dropped, fileVars>>

ThreadPCs == {"none",     \* not started, or joined
              "while",    \* at the test of while (running_)
              "lock",     \* before mutex_
              "wait",     \* in wait_for
              "drop",     \* has swapped, before the test for too many buffers
              "write",    \* in the for loop
              "recycle",  \* after it
              "exited"}

Members(s) == {s[i] : i \in DOMAIN s}
Lines(bs) == UNION {Members(bs[i]) : i \in DOMAIN bs}

\* AsyncLogging::AsyncLogging; the LogFile comes with start
LoggingInit ==
  /\ currentBuffer = <<>> /\ nextBuffer = <<>> /\ buffers = <<>>
  /\ running = FALSE
  /\ newBuffer1 = Null /\ newBuffer2 = Null /\ buffersToWrite = <<>> /\ written = 0
  /\ thread = "none" /\ owner = "idle"
  /\ appended = 0 /\ dropped = {}
  /\ now = 0 /\ log = Open(NoFiles, now, TRUE) /\ ordered = TRUE

------------------------------------------------------------------------------
(* The callers *)

avail(buffer) == Size - Len(buffer)

\* append, no space: currentBuffer_ goes to buffers_, nextBuffer_ or a new buffer
\* takes its place
appendNewBuffer(line) ==
  /\ buffers' = Append(buffers, currentBuffer)
  /\ currentBuffer' = Append(IF nextBuffer # Null THEN nextBuffer ELSE <<>>, line)
  /\ nextBuffer' = Null

\* append(logline, len), all of it under mutex_
appendLine ==
  /\ appended < MaxLines
  /\ appended' = appended + 1
  /\ \/ /\ avail(currentBuffer) > 1
        /\ currentBuffer' = Append(currentBuffer, appended + 1)
        /\ UNCHANGED <<nextBuffer, buffers>>
     \/ avail(currentBuffer) <= 1 /\ appendNewBuffer(appended + 1)
  /\ UNCHANGED <<running, localVars, thread, owner, dropped, fileVars>>

\* start, with the LogFile and the locals of the new thread
start ==
  /\ owner = "idle" /\ thread = "none"
  /\ running' = TRUE
  /\ thread' = "while"
  /\ newBuffer1' = <<>> /\ newBuffer2' = <<>> /\ buffersToWrite' = <<>> /\ written' = 0
  /\ \E later \in BOOLEAN : log' = Open(log.files, now, later)
  /\ ordered' = (ordered /\ \A t \in Times : t > now => log.files[t] = <<>>)
  /\ UNCHANGED <<callerVars, owner, appended, dropped, now>>

\* stop up to join
stop ==
  /\ owner = "idle" /\ thread # "none"
  /\ running' = FALSE
  /\ owner' = "join"
  /\ UNCHANGED <<callerVars, localVars, thread, appended, dropped, fileVars>>

\* thread_.join()
join ==
  /\ owner = "join" /\ thread = "exited"
  /\ owner' = "idle"
  /\ thread' = "none"
  /\ UNCHANGED <<callerVars, running, localVars, appended, dropped, fileVars>>

------------------------------------------------------------------------------
(* threadFunc *)

\* while (running_), and the return: output.flush() and ~LogFile
While ==
  /\ thread = "while"
  /\ thread' = IF running THEN "lock" ELSE "exited"
  /\ log' = IF running THEN log ELSE flush(log)
  /\ UNCHANGED <<callerVars, running, localVars, owner, appended, dropped, now, ordered>>

\* Mutant: nextBuffer_ is replaced whether it was used or not.
refillNextAlways ==
  /\ nextBuffer' = newBuffer2
  /\ newBuffer2' = Null

\* if (!nextBuffer_) nextBuffer_ = std::move(newBuffer2)
refillNext ==
  /\ nextBuffer' = IF nextBuffer = Null THEN newBuffer2 ELSE nextBuffer
  /\ newBuffer2' = IF nextBuffer = Null THEN Null ELSE newBuffer2

\* the rest of the critical section: currentBuffer_ is pushed whether it is full or
\* not, and buffers_ is swapped with the empty buffersToWrite
Swap ==
  /\ thread = "wait" \/ (thread = "lock" /\ buffers # <<>>)
  /\ buffersToWrite' = Append(buffers, currentBuffer)
  /\ buffers' = buffersToWrite
  /\ currentBuffer' = newBuffer1
  /\ newBuffer1' = Null
  /\ refillNext
  /\ thread' = "drop"
  /\ UNCHANGED <<written, running, owner, appended, dropped, fileVars>>

\* if (buffers_.empty()) cond_.wait_for
Wait ==
  /\ thread = "lock" /\ buffers = <<>>
  /\ thread' = "wait"
  /\ UNCHANGED <<callerVars, running, localVars, owner, appended, dropped, fileVars>>

\* if (buffersToWrite.size() > 25) all but the first two are erased
Drop ==
  /\ thread = "drop"
  /\ thread' = "write"
  /\ \/ /\ Len(buffersToWrite) > MaxToWrite
        /\ dropped' = dropped \cup Lines(SubSeq(buffersToWrite, 3, Len(buffersToWrite)))
        /\ buffersToWrite' = SubSeq(buffersToWrite, 1, 2)
     \/ /\ Len(buffersToWrite) <= MaxToWrite
        /\ UNCHANGED <<dropped, buffersToWrite>>
  /\ UNCHANGED <<callerVars, running, newBuffer1, newBuffer2, written, owner, appended,
                 fileVars>>

\* output.append(buffer->data())
Write ==
  /\ thread = "write" /\ written < Len(buffersToWrite)
  /\ \E through, later \in BOOLEAN :
       log' = append_unlocked(log, buffersToWrite[written + 1], now, through, later)
  /\ dropped' =
       IF log.isOpen THEN dropped ELSE dropped \cup Members(buffersToWrite[written + 1])
  /\ written' = written + 1
  /\ UNCHANGED <<callerVars, running, newBuffer1, newBuffer2, buffersToWrite, thread, owner,
                 appended, now, ordered>>

WriteDone ==
  /\ thread = "write" /\ written = Len(buffersToWrite)
  /\ thread' = "recycle"
  /\ UNCHANGED <<callerVars, running, localVars, owner, appended, dropped, fileVars>>

\* if (buffersToWrite.size() > 2) buffersToWrite.resize(2)
kept == IF Len(buffersToWrite) > 2 THEN 2 ELSE Len(buffersToWrite)

\* a buffer taken from the back of buffersToWrite and cleared
reused(i) == <<>>

\* Mutant: the output.flush() of the iteration is forgotten.
RecycleNoFlush ==
  /\ thread = "recycle"
  /\ newBuffer1' = IF newBuffer1 = Null THEN reused(kept) ELSE newBuffer1
  /\ newBuffer2' =
       IF newBuffer2 # Null THEN newBuffer2
       ELSE reused(IF newBuffer1 = Null THEN kept - 1 ELSE kept)
  /\ buffersToWrite' = <<>>
  /\ written' = 0
  /\ thread' = "while"
  /\ UNCHANGED <<callerVars, running, owner, appended, dropped, fileVars>>

\* the end of the iteration: newBuffer1, and newBuffer2 if it was used, are taken
\* from the back of buffersToWrite, the others are freed; output.flush()
Recycle ==
  /\ thread = "recycle"
  /\ newBuffer1' = IF newBuffer1 = Null THEN reused(kept) ELSE newBuffer1
  /\ newBuffer2' =
       IF newBuffer2 # Null THEN newBuffer2
       ELSE reused(IF newBuffer1 = Null THEN kept - 1 ELSE kept)
  /\ buffersToWrite' = <<>>
  /\ written' = 0
  /\ thread' = "while"
  /\ log' = flush(log)
  /\ UNCHANGED <<callerVars, running, owner, appended, dropped, now, ordered>>

threadFunc ==
  While \/ Swap \/ Wait \/ Drop \/ Write \/ WriteDone \/ Recycle

\* time passes, or the clock is set back
Clock ==
  /\ now' \in (0 .. now + 1) \cap Times
  /\ UNCHANGED <<callerVars, running, localVars, thread, owner, appended, dropped, log, ordered>>

LoggingNext == appendLine \/ start \/ stop \/ join \/ threadFunc \/ Clock

LoggingSpec == LoggingInit /\ [][LoggingNext]_loggingVars

\* The thread is scheduled, wait_for returns after flushInterval_ at the latest, and
\* join returns once the thread has ended.
LoggingFairSpec == LoggingSpec /\ WF_loggingVars(threadFunc) /\ WF_loggingVars(join)

------------------------------------------------------------------------------
(* Properties *)

Buffers == Seq(1 .. appended)

\* Types; the buffers that callers use are never Null, and neither are the spare ones
\* while the thread waits.
LoggingTypeOK ==
  /\ currentBuffer \in Buffers
  /\ nextBuffer \in {Null, <<>>}
  /\ buffers \in Seq(Buffers) /\ buffersToWrite \in Seq(Buffers)
  /\ running \in BOOLEAN
  /\ newBuffer1 \in {Null, <<>>} /\ newBuffer2 \in {Null, <<>>}
  /\ thread \in ThreadPCs
  /\ owner \in {"idle", "join"}
  /\ thread \in {"while", "lock", "wait"} => newBuffer1 # Null /\ newBuffer2 # Null
  /\ appended \in 0 .. MaxLines
  /\ log \in LogFiles(1 .. appended) /\ now \in Times
  /\ written \in 0 .. Len(buffersToWrite)

\* When the thread takes its spare buffers from the back of buffersToWrite there are
\* enough: back() and pop_back() are never called on an empty vector.
\* With the types.
EnoughToRecycle ==
  /\ LoggingTypeOK
  /\ thread = "recycle" =>
       /\ newBuffer1 = Null
       /\ kept >= IF newBuffer2 = Null THEN 2 ELSE 1

\* Where lines are, the oldest first: the files in the order of their names, the stream's
\* buffer, what the thread has yet to write, buffers_ and currentBuffer_.
Stages ==
  << log.files, <<log.pending>>,
     [k \in written + 1 .. Len(buffersToWrite) |-> buffersToWrite[k]],
     buffers, <<currentBuffer>> >>

\* the stage, the file or buffer in it, and the index in that
Positions ==
  UNION {UNION {{<<s, k, i>> : i \in DOMAIN Stages[s][k]} : k \in DOMAIN Stages[s]} :
         s \in 1 .. 5}

LineAt(p) == Stages[p[1]][p[2]][p[3]]

Before(p, q) ==
  \/ p[1] < q[1]
  \/ p[1] = q[1] /\ p[2] < q[2]
  \/ p[1] = q[1] /\ p[2] = q[2] /\ p[3] < q[3]

\* The lines in the files, in the stream's buffer, in the part of buffersToWrite that is
\* still to be written, in buffers_ and in currentBuffer_ are the lines appended, each
\* once, without those of buffers that were erased or written without an open file:
\* if the clock is not later in the constructor's rollFile than just before it, no file
\* is open until one is due by its age, and all lines until then are lost.  Reading the
\* files in the order of their names gives the lines in the order appended, even if
\* the clock is set back while the thread runs, for rollFile then stays with the open
\* file.
NoLineLost ==
  /\ {LineAt(p) : p \in Positions} = (1 .. appended) \ dropped
  /\ \A p, q \in Positions : p # q => LineAt(p) # LineAt(q)
  /\ ordered => \A p, q \in Positions : Before(p, q) => LineAt(p) < LineAt(q)

OnDisk == UNION {Members(log.files[t]) : t \in Times}

\* A line that was appended is flushed to disk or dropped, also if its buffer never
\* gets full, unless the thread is stopped.
LineIsWritten ==
  \A i \in 1 .. MaxLines :
    i <= appended /\ running ~> i \in OnDisk \cup dropped \/ ~running
==============================================================================
