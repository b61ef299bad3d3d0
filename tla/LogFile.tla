------------------------------- MODULE LogFile -------------------------------
(***************************************************************************)
(* LogFile (starry/base/log/src/log_file.cpp) as operators on a record: a  *)
(* file that is appended to, flushed, and exchanged for a new one when it  *)
(* is large or old.  Time is in seconds, and of two readings in one second *)
(* the second may be later or not; the clock may be set back between two   *)
(* calls.  A file name is the second it is made from: basename_ and the    *)
(* process id do not change.  Sizes are in lines.  AsyncLogging makes its  *)
(* LogFile without a mutex.                                                *)
(***************************************************************************)
EXTENDS Integers, Sequences

CONSTANTS
  RollSize,        \* rollSize_
  CheckEveryN,     \* checkEveryN_
  FlushInterval,   \* flushInterval_
  RollPerSeconds,  \* kRollPerSeconds_
  MaxTime          \* bound on the clock

ASSUME LogFileAssumption ==
  /\ RollSize \in Nat /\ CheckEveryN \in Nat
  /\ FlushInterval \in Nat /\ RollPerSeconds \in Nat /\ MaxTime \in Nat

Times == 0 .. MaxTime

\* files: what is on disk; isOpen, name, pending: file_, the name it was opened with
\* last and what is still in its buffer
LogFiles(Line) ==
  [files: [Times -> Seq(Line)], isOpen: BOOLEAN, name: Times, pending: Seq(Line),
   count: Nat, lastRoll: Times, lastFlush: Times]

\* no file has been written
NoFiles == [t \in Times |-> <<>>]

\* file_ << std::flush: the system appends the buffer to the file
flush(log) ==
  IF log.pending = <<>> THEN log
  ELSE [log EXCEPT !.files[log.name] = @ \o log.pending, !.pending = <<>>]

\* Mutant: rollFile does not compare now with lastRoll_.
rollFileAlways(log, now, later) ==
  [flush(log) EXCEPT !.isOpen = TRUE, !.name = now, !.lastRoll = now, !.lastFlush = now]

\* rollFile: refused unless the clock is later than at the last roll; later tells
\* whether it is within the same second.  close() flushes; app continues a file that
\* has the name already.
rollFile(log, now, later) ==
  IF now < log.lastRoll \/ (now = log.lastRoll /\ ~later) THEN log
  ELSE [flush(log) EXCEPT !.isOpen = TRUE, !.name = now, !.lastRoll = now, !.lastFlush = now]

\* LogFile::LogFile.  Its rollFile reads the clock again, and opens no file if the
\* clock is not later than in the initialisation of lastRoll_.
Open(files, now, later) ==
  rollFile([files |-> files, isOpen |-> FALSE, name |-> now, pending |-> <<>>,
            count |-> 0, lastRoll |-> now, lastFlush |-> now], now, later)

\* the check after every checkEveryN_ calls: the file is old, or was not flushed lately
checkAge(log, now, later) ==
  CASE now - log.lastRoll > RollPerSeconds -> rollFile(log, now, later)
    [] /\ now - log.lastRoll <= RollPerSeconds
       /\ now - log.lastFlush > FlushInterval -> flush([log EXCEPT !.lastFlush = now])
    [] OTHER -> log

\* file_.tellp(): app starts at the end of the file; -1 without a file
tellp(log) ==
  IF log.isOpen THEN Len(log.files[log.name]) + Len(log.pending) ELSE -1

\* append_unlocked: the stream writes at once (through) or keeps what it is given;
\* without an open file << fails and the lines are gone
append_unlocked(log, lines, now, through, later) ==
  LET given == IF log.isOpen THEN [log EXCEPT !.pending = @ \o lines] ELSE log
      put == IF through THEN flush(given) ELSE given
  IN CASE tellp(put) > RollSize -> rollFile(put, now, later)
       [] tellp(put) <= RollSize /\ put.count + 1 >= CheckEveryN ->
            checkAge([put EXCEPT !.count = 0], now, later)
       [] OTHER -> [put EXCEPT !.count = @ + 1]
==============================================================================
