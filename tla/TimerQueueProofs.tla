-------------------------- MODULE TimerQueueProofs ---------------------------
(***************************************************************************)
(* Proofs about TimerQueue for any number of timers, addresses, intervals  *)
(* and functors: who owns a Timer, that a cancelled timer stays cancelled, *)
(* that an id cancels its own timer only, and that the timerfd is set      *)
(* early enough.                                                           *)
(***************************************************************************)
EXTENDS TimerQueue, SequenceTheorems, WellFoundedInduction, TLAPS

Functors == [op : {"add", "cancel"}, id : TimerIds]
TimerRecords == [live : BOOLEAN, seq : 0 .. MaxSeq, when : Nat, interval : Nat]

\* The types of the variables that TypeOK leaves open.
Shapes ==
  /\ heap \in [Addr -> TimerRecords]
  /\ nextSeq \in 1 .. MaxSeq + 1
  /\ expired \in SUBSET Addr
  /\ readAt \in Nat
  /\ adding = None \/ adding \in TimerIds
  /\ ids \subseteq TimerIds

\* The batch of handleRead exists only while its callbacks are called.
BatchOnlyWhileCalling == expired # {} => pc = "calling"

\* No timer is in two functors of addTimer.
AddsDistinct ==
  \A i, j \in DOMAIN pending :
    /\ pending[i].op = "add" /\ pending[j].op = "add"
    /\ pending[i].id = pending[j].id
    => i = j

\* NoDanglingTimer, place by place: each place holds live timers under their current
\* sequence, no two places hold the same one, and no live timer is outside them.
Owned ==
  /\ \A t \in activeTimers :
       heap[t[1]].live /\ heap[t[1]].seq = t[2] /\ t[1] \notin expired /\ t \notin AddPending
  /\ \A a \in expired : heap[a].live /\ <<a, heap[a].seq>> \notin AddPending
  /\ \A t \in AddPending : heap[t[1]].live /\ heap[t[1]].seq = t[2]
NoLeak ==
  pc # "gone" =>
    \A a \in Addr : heap[a].live =>
      a \in expired \/ <<a, heap[a].seq>> \in activeTimers \cup AddPending

OwnerInv == TypeOK /\ Shapes /\ BatchOnlyWhileCalling /\ AddsDistinct /\ Owned /\ NoLeak

\* A sequence belongs to one address, and is older than the next one to be given.
SequencesUnique ==
  /\ \A a \in Addr : heap[a].seq < nextSeq /\ (heap[a].live => heap[a].seq > 0)
  /\ \A a, b \in Addr : heap[a].seq = heap[b].seq /\ heap[a].seq > 0 => a = b

\* A cancelled timer is in no place from which it could fire again: while handleRead
\* calls callbacks, reset will find it in cancelingTimers_.
CancelledNowhere ==
  /\ cancelled \subseteq 1 .. nextSeq - 1
  /\ \A t \in activeTimers \cup AddPending : t[2] \notin cancelled
  /\ \A a \in expired : heap[a].seq \in cancelled => <<a, heap[a].seq>> \in cancelingTimers

\* TimerfdCoversEarliest without the minimum, and up to the start of handleRead.
TimerfdCoversAll ==
  /\ timerfd \in Nat \cup {Disarmed, Zeroed}
  /\ pc \in {"idle", "polled"} /\ timers # {} =>
       timerfd = Zeroed \/ (timerfd \in Nat /\ \A e \in timers : timerfd <= e[1])

------------------------------------------------------------------------------
(* The functors of other threads *)

LEMMA AddPendingType ==
  ASSUME pending \in Seq(Functors)
  PROVE  \A t \in AddPending : t \in TimerIds /\ t[1] \in Addr /\ t = <<t[1], t[2]>>
<1> SUFFICES ASSUME NEW t \in AddPending
             PROVE  t \in TimerIds /\ t[1] \in Addr /\ t = <<t[1], t[2]>>
  OBVIOUS
<1>1. PICK i \in DOMAIN pending : t = pending[i].id
  BY DEF AddPending
<1>2. pending[i] \in Functors
  BY <1>1, ElementOfSeq, LenProperties
<1>3. t \in TimerIds
  BY <1>1, <1>2 DEF Functors
<1> QED
  BY <1>3 DEF TimerIds

LEMMA PendingAppend ==
  ASSUME pending \in Seq(Functors), NEW f \in Functors, pending' = Append(pending, f)
  PROVE  /\ pending' \in Seq(Functors)
         /\ f.op = "add" => AddPending' = AddPending \cup {f.id}
         /\ f.op # "add" => AddPending' = AddPending
         /\ AddsDistinct /\ (f.op = "add" => f.id \notin AddPending) => AddsDistinct'
<1>1. /\ pending' \in Seq(Functors) /\ Len(pending) \in Nat
      /\ DOMAIN pending = 1 .. Len(pending) /\ DOMAIN pending' = 1 .. Len(pending) + 1
      /\ pending'[Len(pending) + 1] = f
      /\ \A i \in 1 .. Len(pending) : pending'[i] = pending[i]
  BY AppendProperties, LenProperties
<1>2. ASSUME NEW x \in AddPending' PROVE x \in AddPending \/ (f.op = "add" /\ x = f.id)
  <2>1. PICK i \in 1 .. Len(pending) + 1 : pending'[i].op = "add" /\ x = pending'[i].id
    BY <1>1, <1>2 DEF AddPending
  <2> QED
    BY <1>1, <2>1 DEF AddPending
<1>3. ASSUME NEW x \in AddPending PROVE x \in AddPending'
  <2>1. PICK i \in 1 .. Len(pending) : pending[i].op = "add" /\ x = pending[i].id
    BY <1>1, <1>3 DEF AddPending
  <2>2. i \in DOMAIN pending' /\ pending'[i] = pending[i]
    BY <1>1, <2>1
  <2> QED
    BY <2>1, <2>2 DEF AddPending
<1>4. f.op = "add" => f.id \in AddPending'
  <2>1. Len(pending) + 1 \in DOMAIN pending'
    BY <1>1
  <2> QED
    BY <1>1, <2>1 DEF AddPending
<1>5. AddsDistinct /\ (f.op = "add" => f.id \notin AddPending) => AddsDistinct'
  <2> SUFFICES ASSUME AddsDistinct, f.op = "add" => f.id \notin AddPending,
                      NEW i \in DOMAIN pending', NEW j \in DOMAIN pending',
                      pending'[i].op = "add", pending'[j].op = "add",
                      pending'[i].id = pending'[j].id
               PROVE  i = j
    BY DEF AddsDistinct
  <2>1. CASE i \in DOMAIN pending /\ j \in DOMAIN pending
    BY <1>1, <2>1 DEF AddsDistinct
  <2>2. \A k \in DOMAIN pending : pending[k].op = "add" => pending[k].id \in AddPending
    BY DEF AddPending
  <2>3. i \in DOMAIN pending \/ i = Len(pending) + 1
    BY <1>1
  <2>4. j \in DOMAIN pending \/ j = Len(pending) + 1
    BY <1>1
  <2> QED
    BY <1>1, <2>1, <2>2, <2>3, <2>4
<1> QED
  BY <1>1, <1>2, <1>3, <1>4, <1>5

LEMMA PendingTail ==
  ASSUME pending \in Seq(Functors), pending # <<>>, pending' = Tail(pending), AddsDistinct
  PROVE  /\ pending' \in Seq(Functors) /\ Head(pending) \in Functors
         /\ Head(pending).op = "add" =>
              Head(pending).id \in AddPending /\ AddPending' = AddPending \ {Head(pending).id}
         /\ Head(pending).op # "add" => AddPending' = AddPending
         /\ AddsDistinct'
<1>1. /\ pending' \in Seq(Functors) /\ Len(pending) \in Nat /\ Len(pending) > 0
      /\ Head(pending) = pending[1] /\ Head(pending) \in Functors
      /\ DOMAIN pending = 1 .. Len(pending) /\ DOMAIN pending' = 1 .. Len(pending) - 1
      /\ \A i \in 1 .. Len(pending) - 1 : pending'[i] = pending[i + 1]
  BY HeadTailProperties, LenProperties, EmptySeq
<1>2. ASSUME NEW x \in AddPending'
      PROVE  x \in AddPending /\ (Head(pending).op = "add" => x # Head(pending).id)
  <2>1. PICK i \in 1 .. Len(pending) - 1 : pending'[i].op = "add" /\ x = pending'[i].id
    BY <1>1, <1>2 DEF AddPending
  <2>2. i + 1 \in DOMAIN pending /\ 1 \in DOMAIN pending /\ i + 1 # 1
        /\ pending'[i] = pending[i + 1]
    BY <1>1, <2>1
  <2> QED
    BY <1>1, <2>1, <2>2 DEF AddPending, AddsDistinct
<1>3. ASSUME NEW x \in AddPending
      PROVE  x \in AddPending' \/ (Head(pending).op = "add" /\ x = Head(pending).id)
  <2>1. PICK i \in 1 .. Len(pending) : pending[i].op = "add" /\ x = pending[i].id
    BY <1>1, <1>3 DEF AddPending
  <2>2. CASE i = 1
    BY <1>1, <2>1, <2>2
  <2>3. CASE i # 1
    <3>1. i - 1 \in DOMAIN pending' /\ pending'[i - 1] = pending[i]
      BY <1>1, <2>1, <2>3
    <3> QED
      BY <2>1, <3>1 DEF AddPending
  <2> QED
    BY <2>2, <2>3
<1>4. Head(pending).op = "add" => Head(pending).id \in AddPending
  <2>1. 1 \in DOMAIN pending
    BY <1>1
  <2> QED
    BY <1>1, <2>1 DEF AddPending
<1>5. AddsDistinct'
  <2> SUFFICES ASSUME NEW i \in DOMAIN pending', NEW j \in DOMAIN pending',
                      pending'[i].op = "add", pending'[j].op = "add",
                      pending'[i].id = pending'[j].id
               PROVE  i = j
    BY DEF AddsDistinct
  <2>1. /\ i + 1 \in DOMAIN pending /\ pending'[i] = pending[i + 1]
        /\ j + 1 \in DOMAIN pending /\ pending'[j] = pending[j + 1]
    BY <1>1
  <2>2. i + 1 = j + 1
    BY <2>1 DEF AddsDistinct
  <2> QED
    BY <1>1, <2>2
<1> QED
  BY <1>1, <1>2, <1>3, <1>4, <1>5

------------------------------------------------------------------------------
(* Who owns a timer *)

LEMMA OwnerInit == Init => OwnerInv
<1> SUFFICES ASSUME Init PROVE OwnerInv
  OBVIOUS
<1>1. AddPending = {} /\ AddsDistinct /\ pending \in Seq(Functors)
  BY DEF Init, AddPending, AddsDistinct
<1>2. TypeOK
  BY <1>1, TimerAssumption DEF Init, TypeOK, PCs, Functors
<1>3. Shapes
  BY TimerAssumption DEF Init, Shapes, TimerRecords, NoTimer
<1>4. BatchOnlyWhileCalling /\ Owned /\ NoLeak
  BY <1>1 DEF Init, BatchOnlyWhileCalling, Owned, NoLeak, NoTimer
<1> QED
  BY <1>1, <1>2, <1>3, <1>4 DEF OwnerInv

\* timers_ as activeTimers_ gives it, element by element
LEMMA TimersPointwise ==
  ASSUME TypeOK, Shapes
  PROVE  /\ \A t \in activeTimers : <<heap[t[1]].when, t[1]>> \in timers
         /\ \A e \in timers : \E t \in activeTimers : e = <<heap[t[1]].when, t[1]>>
         /\ \A t \in activeTimers : t[1] \in Addr /\ t[2] \in 0 .. MaxSeq /\ t = <<t[1], t[2]>>
         /\ \A t \in activeTimers : t = <<t[1], heap[t[1]].seq>>
<1>1. \A t \in activeTimers : t[1] \in Addr /\ t[2] \in 0 .. MaxSeq /\ t = <<t[1], t[2]>>
  BY DEF TypeOK, TimerIds
<1> QED
  BY <1>1 DEF TypeOK

\* addTimerInLoop of a live timer that is in no other place
LEMMA AddKeeps ==
  ASSUME NEW a \in Addr, OwnerInv, Shapes',
         addTimerInLoop(heap', a), heap'[a].live,
         \A b \in Addr \ {a} : heap'[b] = heap[b],
         <<a, heap'[a].seq>> \notin AddPending', a \notin expired,
         \A t \in AddPending' : t[1] # a /\ t \in AddPending,
         \A t \in AddPending : t[1] # a => t \in AddPending',
         \A t \in activeTimers : t[1] # a,
         pending' \in Seq(Functors), AddsDistinct', now' = now, UNCHANGED <<expired, toRun>>,
         cancelingTimers' = cancelingTimers, pc # "gone",
         expired # {} => heap'[a].when >= now
  PROVE  OwnerInv'
<1> USE DEF OwnerInv
<1>1. activeTimers' = activeTimers \cup {<<a, heap'[a].seq>>}
  BY DEF addTimerInLoop, insert
<1>2. timers' = timers \cup {<<heap'[a].when, a>>}
  BY DEF addTimerInLoop, insert
<1>3. heap'[a].seq \in 0 .. MaxSeq /\ heap'[a].when \in Nat
  BY DEF Shapes, TimerRecords
<1>4. <<a, heap'[a].seq>> \in TimerIds
  BY <1>3 DEF TimerIds
<1>5. \A t \in activeTimers : t[1] \in Addr /\ heap'[t[1]] = heap[t[1]]
  BY TimersPointwise
<1>6. \A t \in AddPending : t[1] \in Addr
  BY AddPendingType DEF TypeOK, Functors
<1>7. timers' = {<<heap'[t[1]].when, t[1]>> : t \in activeTimers'}
  <2>1. ASSUME NEW e \in timers' PROVE \E t \in activeTimers' : e = <<heap'[t[1]].when, t[1]>>
    BY <2>1, <1>1, <1>2, <1>5, TimersPointwise
  <2>2. ASSUME NEW t \in activeTimers' PROVE <<heap'[t[1]].when, t[1]>> \in timers'
    BY <2>2, <1>1, <1>2, <1>5, TimersPointwise
  <2> QED
    BY <2>1, <2>2
<1>8. pc' \in PCs /\ (pc' = pc \/ (pc' = "aborted" /\ expired = {}))
  <2>1. pc \in PCs /\ now \in Int
    BY TimerAssumption DEF TypeOK
  <2> QED
    BY <1>3, <2>1 DEF addTimerInLoop, resetTimerfd, PCs
<1>9. TypeOK'
  <2>1. activeTimers' \subseteq TimerIds
    BY <1>1, <1>4 DEF TypeOK
  <2>2. \A t \in activeTimers' : heap'[t[1]].seq = t[2]
    BY <1>1, <1>5 DEF TypeOK
  <2> QED
    BY <1>7, <1>8, <2>1, <2>2 DEF TypeOK, Functors
<1>10. BatchOnlyWhileCalling'
  BY <1>8 DEF BatchOnlyWhileCalling
<1>11. Owned'
  BY <1>1, <1>5, <1>6 DEF Owned, Shapes
<1>12. NoLeak'
  BY <1>1, <1>5, <1>6 DEF NoLeak, Shapes
<1> QED
  BY <1>9, <1>10, <1>11, <1>12

\* cancelInLoop, from a callback or as a functor
LEMMA CancelKeeps ==
  ASSUME NEW id \in TimerIds, OwnerInv, cancelInLoop(id),
         pending' \in Seq(Functors), AddPending' = AddPending, AddsDistinct',
         UNCHANGED <<now, nextSeq, adding, ids>>
  PROVE  OwnerInv'
<1> USE DEF OwnerInv
<1>0. UNCHANGED <<pc, expired, toRun, readAt, timerfd>>
  BY DEF cancelInLoop, readVars
<1>1. CASE cancelActive(id)
  <2>1. /\ id \in activeTimers /\ id[1] \in Addr /\ id = <<id[1], id[2]>>
        /\ heap[id[1]].seq = id[2]
    BY <1>1, TimersPointwise DEF cancelActive, TypeOK
  <2>2. /\ heap' = [heap EXCEPT ![id[1]].live = FALSE]
        /\ activeTimers' = activeTimers \ {id}
        /\ timers' = timers \ {<<heap[id[1]].when, id[1]>>}
        /\ cancelingTimers' = cancelingTimers
    BY <1>1 DEF cancelActive, Free
  <2>3. Shapes'
    BY <1>0, <2>1, <2>2 DEF Shapes, TimerRecords
  <2>4. /\ \A b \in Addr \ {id[1]} : heap'[b] = heap[b]
        /\ \A b \in Addr : heap'[b].seq = heap[b].seq /\ heap'[b].when = heap[b].when
        /\ ~heap'[id[1]].live
    BY <2>1, <2>2 DEF Shapes, TimerRecords
  <2>5. \A t \in activeTimers' : t[1] # id[1]
    BY <2>1, <2>2, TimersPointwise
  <2>6. timers' = {<<heap'[t[1]].when, t[1]>> : t \in activeTimers'}
    <3>1. ASSUME NEW e \in timers' PROVE \E t \in activeTimers' : e = <<heap'[t[1]].when, t[1]>>
      BY <3>1, <2>2, <2>4, TimersPointwise
    <3>2. ASSUME NEW t \in activeTimers' PROVE <<heap'[t[1]].when, t[1]>> \in timers'
      BY <3>2, <2>2, <2>4, <2>5, TimersPointwise
    <3> QED
      BY <3>1, <3>2
  <2>7. TypeOK'
    BY <1>0, <2>2, <2>4, <2>6, TimersPointwise DEF TypeOK, Functors
  <2>8. \A t \in AddPending : t[1] \in Addr /\ t = <<t[1], t[2]>>
    BY AddPendingType DEF TypeOK, Functors
  <2>9. id[1] \notin expired /\ \A t \in AddPending : t[1] # id[1]
    BY <2>1, <2>8 DEF Owned
  <2>10. Owned'
    BY <1>0, <2>2, <2>4, <2>5, <2>8, <2>9, TimersPointwise DEF Owned, Shapes
  <2>11. NoLeak'
    BY <1>0, <2>2, <2>4 DEF NoLeak
  <2> QED
    BY <1>0, <2>3, <2>7, <2>10, <2>11 DEF BatchOnlyWhileCalling
<1>2. CASE cancelOther(id)
  <2>1. /\ UNCHANGED <<timers, activeTimers, heap>>
        /\ cancelingTimers' \subseteq cancelingTimers \cup {id}
    BY <1>2 DEF cancelOther
  <2> QED
    BY <1>0, <2>1 DEF TypeOK, Shapes, BatchOnlyWhileCalling, Owned, NoLeak, Functors
<1> QED
  BY <1>1, <1>2 DEF cancelInLoop

\* new Timer: the address is in no place, and keeps its neighbours
LEMMA CreateFacts ==
  ASSUME NEW a \in Addr, NEW when \in Nat, NEW interval \in Nat, OwnerInv,
         Create(a, when, interval)
  PROVE  /\ nextSeq' \in 1 .. MaxSeq + 1 /\ nextSeq' = nextSeq + 1
         /\ <<a, nextSeq>> \in TimerIds
         /\ heap' \in [Addr -> TimerRecords]
         /\ heap'[a].live /\ heap'[a].seq = nextSeq /\ heap'[a].when = when
         /\ \A b \in Addr \ {a} : heap'[b] = heap[b]
         /\ a \notin expired
         /\ \A t \in activeTimers \cup AddPending : t[1] # a
<1> USE DEF OwnerInv
<1>1. nextSeq \in 1 .. MaxSeq + 1 /\ nextSeq <= MaxSeq /\ MaxSeq \in Nat
  BY TimerAssumption DEF Create, Shapes
<1>2. Timer(nextSeq, when, interval) \in TimerRecords
  BY <1>1 DEF Timer, TimerRecords
<1>3. heap' = [heap EXCEPT ![a] = Timer(nextSeq, when, interval)] /\ ~heap[a].live
  BY DEF Create
<1>4. heap' \in [Addr -> TimerRecords] /\ heap'[a] = Timer(nextSeq, when, interval)
      /\ \A b \in Addr \ {a} : heap'[b] = heap[b]
  BY <1>2, <1>3 DEF Shapes
<1>5. heap'[a].live /\ heap'[a].seq = nextSeq /\ heap'[a].when = when
  BY <1>4 DEF Timer
<1>6. nextSeq' = nextSeq + 1 /\ nextSeq' \in 1 .. MaxSeq + 1 /\ <<a, nextSeq>> \in TimerIds
  BY <1>1 DEF Create, TimerIds
<1>7. a \notin expired /\ \A t \in activeTimers \cup AddPending : t[1] # a
  BY <1>3 DEF Owned
<1> QED
  BY <1>4, <1>5, <1>6, <1>7

LEMMA OwnerAddTimer ==
  ASSUME NEW a \in Addr, NEW when \in Nat, NEW interval \in Nat, when >= now, OwnerInv,
         AddTimer(a, when, interval)
  PROVE  OwnerInv'
<1>0. UNCHANGED <<now, cancelingTimers, expired, toRun, readAt, pending, adding>>
  BY DEF AddTimer, readVars
<1>1. AddPending' = AddPending /\ AddsDistinct' /\ pending' \in Seq(Functors)
  BY <1>0 DEF AddPending, AddsDistinct, OwnerInv, TypeOK, Functors
<1>2. Create(a, when, interval) /\ addTimerInLoop(heap', a)
  BY DEF AddTimer
<1>c. /\ nextSeq' \in 1 .. MaxSeq + 1 /\ <<a, nextSeq>> \in TimerIds
      /\ heap' \in [Addr -> TimerRecords]
      /\ heap'[a].live /\ heap'[a].seq = nextSeq /\ heap'[a].when = when
      /\ \A b \in Addr \ {a} : heap'[b] = heap[b]
      /\ a \notin expired /\ \A t \in activeTimers \cup AddPending : t[1] # a
  BY <1>2, CreateFacts
<1>3. Shapes'
  <2>1. ids' \subseteq TimerIds
    BY <1>c DEF AddTimer, OwnerInv, Shapes
  <2> QED
    BY <1>0, <1>c, <2>1 DEF OwnerInv, Shapes
<1>5. pc # "gone"
  BY DEF AddTimer, InUserCode
<1> QED
  <2>1. <<a, heap'[a].seq>> \notin AddPending'
    BY <1>1, <1>c
  <2>2. expired # {} => heap'[a].when >= now
    BY <1>c
  <2>3. /\ \A t \in AddPending' : t[1] # a /\ t \in AddPending
        /\ \A t \in AddPending : t[1] # a => t \in AddPending'
        /\ \A t \in activeTimers : t[1] # a
    BY <1>1, <1>c
  <2>4. /\ addTimerInLoop(heap', a) /\ heap'[a].live /\ \A b \in Addr \ {a} : heap'[b] = heap[b]
        /\ a \notin expired
    BY <1>2, <1>c
  <2> QED
    BY <1>0, <1>1, <1>3, <1>5, <2>1, <2>2, <2>3, <2>4, AddKeeps

LEMMA OwnerAddTimerForeign ==
  ASSUME NEW a \in Addr, NEW when \in Nat, NEW interval \in Nat, OwnerInv,
         AddTimerForeign(a, when, interval)
  PROVE  OwnerInv'
<1> USE DEF OwnerInv
<1> DEFINE f == [op |-> "add", id |-> <<a, nextSeq>>]
<1>0. UNCHANGED <<now, timers, activeTimers, cancelingTimers, expired, toRun, readAt, pc, ids>>
      /\ pending' = Append(pending, f) /\ adding' = <<a, nextSeq>> /\ pc # "gone"
  BY DEF AddTimerForeign, readVars, setVars, over
<1>1. Create(a, when, interval)
  BY DEF AddTimerForeign
<1>c. /\ nextSeq' \in 1 .. MaxSeq + 1 /\ <<a, nextSeq>> \in TimerIds
      /\ heap' \in [Addr -> TimerRecords]
      /\ heap'[a].live /\ heap'[a].seq = nextSeq /\ heap'[a].when = when
      /\ \A b \in Addr \ {a} : heap'[b] = heap[b]
      /\ a \notin expired /\ \A t \in activeTimers \cup AddPending : t[1] # a
  BY <1>1, CreateFacts
<1>2. f \in Functors /\ f.op = "add" /\ f.id = <<a, nextSeq>> /\ f.id \notin AddPending
  BY <1>1, CreateFacts DEF Functors
<1>3. /\ pending' \in Seq(Functors) /\ AddsDistinct'
      /\ AddPending' = AddPending \cup {<<a, nextSeq>>}
  <2> HIDE DEF f
  <2> QED
    BY <1>0, <1>2, PendingAppend DEF TypeOK, Functors
<1>4. Shapes'
  BY <1>0, <1>1, CreateFacts DEF Shapes
<1>6. \A t \in activeTimers : t[1] \in Addr /\ heap'[t[1]] = heap[t[1]]
  BY <1>c, TimersPointwise
<1>7. TypeOK'
  <2>1. timers' = {<<heap'[t[1]].when, t[1]>> : t \in activeTimers'}
    BY <1>0, <1>6 DEF TypeOK
  <2> QED
    BY <1>0, <1>3, <1>6, <2>1 DEF TypeOK, Functors
<1>8. \A t \in AddPending : t[1] \in Addr /\ heap'[t[1]] = heap[t[1]]
  BY <1>c, AddPendingType DEF TypeOK, Functors
<1>9. Owned'
  BY <1>0, <1>3, <1>6, <1>8, <1>c DEF Owned, Shapes
<1>10. NoLeak'
  BY <1>0, <1>3, <1>c DEF NoLeak
<1> QED
  BY <1>0, <1>3, <1>4, <1>7, <1>9, <1>10 DEF BatchOnlyWhileCalling

LEMMA OwnerHandleRead ==
  ASSUME OwnerInv, handleRead
  PROVE  OwnerInv'
<1> USE DEF OwnerInv
<1>0. /\ pc = "polled" /\ pc' = "calling" /\ toRun' = expired' /\ cancelingTimers' = {}
      /\ readAt' = now
      /\ activeTimers' = {t \in activeTimers : t[1] \notin expired'}
      /\ timers' = {e \in timers : e[1] > now}
      /\ UNCHANGED <<now, heap, nextSeq, pending, adding, ids>>
  BY DEF handleRead, userVars
<1>1. expired' = {e[2] : e \in {f \in timers : f[1] <= now}}
  BY DEF handleRead
<1>2. now \in Nat /\ \A a \in Addr : heap[a].when \in Nat
  BY TimerAssumption DEF TypeOK, Shapes, TimerRecords
<1>3. \A a \in expired' : a \in Addr /\ <<a, heap[a].seq>> \in activeTimers /\ heap[a].when <= now
  BY <1>1, TimersPointwise
<1>4. \A t \in activeTimers : heap[t[1]].when <= now => t[1] \in expired'
  <2> SUFFICES ASSUME NEW t \in activeTimers, heap[t[1]].when <= now PROVE t[1] \in expired'
    OBVIOUS
  <2>1. <<heap[t[1]].when, t[1]>> \in timers
    BY TimersPointwise
  <2>2. <<heap[t[1]].when, t[1]>> \in {f \in timers : f[1] <= now}
    BY <2>1
  <2> QED
    BY <1>1, <2>2
<1>5. timers' = {<<heap[t[1]].when, t[1]>> : t \in activeTimers'}
  <2>1. ASSUME NEW e \in timers' PROVE \E t \in activeTimers' : e = <<heap[t[1]].when, t[1]>>
    BY <2>1, <1>0, <1>2, <1>3, TimersPointwise
  <2>2. ASSUME NEW t \in activeTimers' PROVE <<heap[t[1]].when, t[1]>> \in timers'
    <3>1. t \in activeTimers /\ ~(heap[t[1]].when <= now) /\ t[1] \in Addr
      BY <2>2, <1>0, <1>4, TimersPointwise
    <3> QED
      BY <3>1, <1>0, <1>2, TimersPointwise
  <2> QED
    BY <2>1, <2>2
<1>6. AddPending' = AddPending /\ AddsDistinct'
  BY <1>0 DEF AddPending, AddsDistinct
<1>7. TypeOK'
  BY <1>0, <1>5 DEF TypeOK, PCs
<1>8. Shapes'
  BY <1>0, <1>2, <1>3 DEF Shapes
<1>9. expired = {}
  BY <1>0 DEF BatchOnlyWhileCalling
<1>10. Owned' /\ NoLeak'
  BY <1>0, <1>3, <1>6, <1>9, TimersPointwise DEF Owned, NoLeak
<1> QED
  BY <1>0, <1>6, <1>7, <1>8, <1>10 DEF BatchOnlyWhileCalling

\* What reset leaves in the heap and in the queue.
LEMMA ResetFacts ==
  ASSUME OwnerInv, reset
  PROVE  /\ activeTimers' = activeTimers \cup {<<a, heap'[a].seq>> : a \in Restarted}
         /\ timers' = timers \cup {<<heap'[a].when, a>> : a \in Restarted}
         /\ Restarted \subseteq expired /\ expired \subseteq Addr
         /\ heap' \in [Addr -> TimerRecords]
         /\ \A a \in Addr : heap'[a].seq = heap[a].seq
         /\ \A a \in Restarted : heap'[a].live
         /\ \A a \in expired \ Restarted : ~heap'[a].live
         /\ \A a \in Addr \ expired : heap'[a] = heap[a]
<1> USE DEF OwnerInv
<1>1. heap' = [a \in Addr |->
                IF a \in Restarted THEN restart(heap[a], readAt)
                ELSE IF a \in expired THEN [heap[a] EXCEPT !.live = FALSE]
                ELSE heap[a]]
  BY DEF reset
<1>2. /\ activeTimers' = activeTimers \cup {<<a, heap'[a].seq>> : a \in Restarted}
      /\ timers' = timers \cup {<<heap'[a].when, a>> : a \in Restarted}
  BY DEF reset, insert
<1>3. Restarted \subseteq expired /\ expired \subseteq Addr
  BY DEF Restarted, Shapes
<1>4. heap' \in [Addr -> TimerRecords]
  <2> SUFFICES ASSUME NEW a \in Addr PROVE heap'[a] \in TimerRecords
    BY <1>1
  <2>1. /\ heap[a] \in TimerRecords /\ heap[a].interval \in Nat /\ readAt \in Nat
        /\ MsPerUs \in Nat \ {0}
    BY TimerAssumption DEF Shapes, TimerRecords
  <2>2. readAt + (heap[a].interval \div MsPerUs) \in Nat
    BY <2>1
  <2>3. restart(heap[a], readAt) \in TimerRecords
    BY <2>1, <2>2 DEF restart, TimerRecords
  <2>4. [heap[a] EXCEPT !.live = FALSE] \in TimerRecords
    BY <2>1 DEF TimerRecords
  <2> QED
    BY <1>1, <2>1, <2>3, <2>4
<1>5. \A a \in Addr : heap'[a].seq = heap[a].seq
  <2> SUFFICES ASSUME NEW a \in Addr PROVE heap'[a].seq = heap[a].seq
    OBVIOUS
  <2>1. heap[a] \in TimerRecords
    BY DEF Shapes
  <2> QED
    BY <1>1, <2>1 DEF restart, TimerRecords
<1>6. /\ \A a \in Restarted : heap'[a].live
      /\ \A a \in expired \ Restarted : ~heap'[a].live
      /\ \A a \in Addr \ expired : heap'[a] = heap[a]
  <2>1. \A a \in Addr \ expired : heap'[a] = heap[a]
    BY <1>1, <1>3
  <2>2. ASSUME NEW a \in expired \ Restarted PROVE ~heap'[a].live
    <3>1. a \in Addr /\ heap[a] \in TimerRecords
      BY <1>3 DEF Shapes
    <3> QED
      BY <1>1, <2>2, <3>1 DEF TimerRecords
  <2>3. ASSUME NEW a \in Restarted PROVE heap'[a].live
    <3>1. a \in Addr /\ heap[a] \in TimerRecords /\ heap[a].live
      BY <1>3 DEF Shapes, Owned
    <3> QED
      BY <1>1, <2>3, <3>1 DEF restart, TimerRecords
  <2> QED
    BY <2>1, <2>2, <2>3
<1> QED
  BY <1>2, <1>3, <1>4, <1>5, <1>6

LEMMA OwnerReset ==
  ASSUME OwnerInv, reset
  PROVE  OwnerInv'
<1> USE DEF OwnerInv
<1>0. /\ pc = "calling" /\ toRun = {} /\ expired' = {} /\ toRun' = {} /\ pc' \in {"aborted", "idle"}
      /\ UNCHANGED <<now, cancelingTimers, readAt, nextSeq, pending, adding, ids>>
  BY DEF reset, userVars, resetTimerfd
<1>2. /\ activeTimers' = activeTimers \cup {<<a, heap'[a].seq>> : a \in Restarted}
      /\ timers' = timers \cup {<<heap'[a].when, a>> : a \in Restarted}
  BY ResetFacts
<1>3. Restarted \subseteq expired /\ expired \subseteq Addr
  BY ResetFacts
<1>4. heap' \in [Addr -> TimerRecords]
  BY ResetFacts
<1>5. \A a \in Addr : heap'[a].seq = heap[a].seq
  BY ResetFacts
<1>6. /\ \A a \in Restarted : heap'[a].live
      /\ \A a \in expired \ Restarted : ~heap'[a].live
      /\ \A a \in Addr \ expired : heap'[a] = heap[a]
  BY ResetFacts
<1>7. AddPending' = AddPending /\ AddsDistinct'
  BY <1>0 DEF AddPending, AddsDistinct
<1>8. /\ \A t \in activeTimers : t[1] \in Addr \ expired /\ heap'[t[1]] = heap[t[1]]
      /\ \A t \in AddPending : t[1] \in Addr \ expired /\ heap'[t[1]] = heap[t[1]]
  <2>1. \A t \in activeTimers : t[1] \in Addr \ expired
    BY TimersPointwise DEF Owned
  <2>2. \A t \in AddPending : t[1] \in Addr \ expired
    BY AddPendingType DEF TypeOK, Functors, Owned
  <2> QED
    BY <1>6, <2>1, <2>2
<1>9. timers' = {<<heap'[t[1]].when, t[1]>> : t \in activeTimers'}
  <2>1. ASSUME NEW e \in timers' PROVE \E t \in activeTimers' : e = <<heap'[t[1]].when, t[1]>>
    <3>1. CASE e \in timers
      BY <3>1, <1>2, <1>8, TimersPointwise
    <3>2. CASE e \in {<<heap'[a].when, a>> : a \in Restarted}
      <4>1. PICK a \in Restarted : e = <<heap'[a].when, a>>
        BY <3>2
      <4>2. <<a, heap'[a].seq>> \in activeTimers'
        BY <1>2
      <4> QED
        BY <4>1, <4>2
    <3> QED
      BY <2>1, <1>2, <3>1, <3>2
  <2>2. ASSUME NEW t \in activeTimers' PROVE <<heap'[t[1]].when, t[1]>> \in timers'
    <3>1. CASE t \in activeTimers
      BY <3>1, <1>2, <1>8, TimersPointwise
    <3>2. CASE t \in {<<a, heap'[a].seq>> : a \in Restarted}
      BY <3>2, <1>2
    <3> QED
      BY <2>2, <1>2, <3>1, <3>2
  <2> QED
    BY <2>1, <2>2
<1>10. \A t \in activeTimers' : t \in TimerIds /\ heap'[t[1]].seq = t[2] /\ heap'[t[1]].live
                                /\ t \notin AddPending
  <2> SUFFICES ASSUME NEW t \in activeTimers'
               PROVE  t \in TimerIds /\ heap'[t[1]].seq = t[2] /\ heap'[t[1]].live
                      /\ t \notin AddPending
    OBVIOUS
  <2>1. CASE t \in activeTimers
    BY <2>1, <1>8 DEF TypeOK, Owned
  <2>2. CASE t \notin activeTimers
    <3>1. PICK a \in Restarted : t = <<a, heap'[a].seq>>
      BY <2>2, <1>2
    <3>2. a \in Addr /\ a \in expired /\ heap'[a].seq \in 0 .. MaxSeq
      BY <1>3, <1>4 DEF TimerRecords
    <3> QED
      BY <1>6, <1>8, <3>1, <3>2 DEF TimerIds
  <2> QED
    BY <2>1, <2>2
<1>11. TypeOK'
  BY <1>0, <1>9, <1>10 DEF TypeOK, PCs
<1>12. Shapes'
  BY <1>0, <1>4 DEF Shapes
<1>13. Owned'
  BY <1>0, <1>7, <1>8, <1>10 DEF Owned
<1>14. NoLeak'
  <2> SUFFICES ASSUME NEW a \in Addr, heap'[a].live
               PROVE  <<a, heap'[a].seq>> \in activeTimers' \cup AddPending
    BY <1>7 DEF NoLeak
  <2>1. CASE a \in expired
    BY <1>2, <1>6, <2>1
  <2>2. CASE a \notin expired
    BY <1>0, <1>2, <1>6, <2>2 DEF NoLeak
  <2> QED
    BY <2>1, <2>2
<1> QED
  BY <1>0, <1>7, <1>11, <1>12, <1>13, <1>14 DEF BatchOnlyWhileCalling

LEMMA OwnerRunPending ==
  ASSUME OwnerInv, RunPending
  PROVE  OwnerInv'
<1>0. /\ pc = "idle" /\ pending # <<>> /\ pending' = Tail(pending)
      /\ UNCHANGED <<now, nextSeq, adding, ids>>
  BY DEF RunPending
<1>1. /\ pending \in Seq(Functors) /\ AddsDistinct /\ expired = {}
  BY <1>0 DEF OwnerInv, TypeOK, Functors, BatchOnlyWhileCalling
<1>2. /\ pending' \in Seq(Functors) /\ Head(pending) \in Functors
      /\ Head(pending).op = "add" =>
           Head(pending).id \in AddPending /\ AddPending' = AddPending \ {Head(pending).id}
      /\ Head(pending).op # "add" => AddPending' = AddPending
      /\ AddsDistinct'
  BY <1>0, <1>1, PendingTail
<1> DEFINE id == Head(pending).id
<1>3. CASE Head(pending).op = "add"
  <2>1. addTimerInLoop(heap, id[1]) /\ UNCHANGED <<heap, cancelingTimers, readVars, cancelled>>
    BY <1>3 DEF RunPending
  <2>2. id \in AddPending /\ id[1] \in Addr /\ id = <<id[1], id[2]>>
    BY <1>1, <1>2, <1>3, AddPendingType
  <2>3. heap[id[1]].live /\ heap[id[1]].seq = id[2]
    BY <2>2 DEF OwnerInv, Owned
  <2>4. \A t \in AddPending : t[1] = id[1] => t = id
    BY <1>1, <2>2, <2>3, AddPendingType DEF OwnerInv, Owned
  <2>5. \A t \in activeTimers : t[1] # id[1]
    BY <2>2, <2>3, TimersPointwise DEF OwnerInv, Owned
  <2>6. Shapes'
    BY <1>0, <2>1 DEF OwnerInv, Shapes, readVars
  <2>7. addTimerInLoop(heap', id[1])
    BY <2>1
  <2>8. UNCHANGED <<expired, toRun, cancelingTimers>> /\ now' = now
    BY <1>0, <2>1 DEF readVars
  <2>9. /\ \A t \in AddPending' : t[1] # id[1] /\ t \in AddPending
        /\ \A t \in AddPending : t[1] # id[1] => t \in AddPending'
        /\ <<id[1], heap'[id[1]].seq>> \notin AddPending'
    BY <1>2, <1>3, <2>1, <2>2, <2>3, <2>4
  <2> HIDE DEF id
  <2> QED
    BY <1>0, <1>1, <1>2, <2>1, <2>2, <2>3, <2>5, <2>6, <2>7, <2>8, <2>9, AddKeeps
<1>4. CASE Head(pending).op # "add"
  <2>1. cancelInLoop(id)
    BY <1>4 DEF RunPending
  <2>2. id \in TimerIds
    BY <1>2 DEF Functors
  <2> HIDE DEF id
  <2> QED
    BY <1>0, <1>2, <1>4, <2>1, <2>2, CancelKeeps
<1> QED
  BY <1>3, <1>4

LEMMA OwnerDestruct ==
  ASSUME OwnerInv, Destruct
  PROVE  OwnerInv'
<1> USE DEF OwnerInv
<1>0. /\ pc = "idle" /\ pc' = "gone" /\ timers' = {} /\ activeTimers' = {} /\ pending' = <<>>
      /\ UNCHANGED <<now, cancelingTimers, expired, toRun, readAt, nextSeq, adding, ids>>
  BY DEF Destruct, readVars
<1>1. AddPending' = {} /\ AddsDistinct' /\ pending' \in Seq(Functors)
  BY <1>0 DEF AddPending, AddsDistinct
<1>2. heap' \in [Addr -> TimerRecords]
  <2> SUFFICES ASSUME NEW a \in Addr PROVE heap'[a] \in TimerRecords
    BY DEF Destruct
  <2>1. heap[a] \in TimerRecords
    BY DEF Shapes
  <2>2. [heap[a] EXCEPT !.live = FALSE] \in TimerRecords
    BY <2>1 DEF TimerRecords
  <2> QED
    BY <2>1, <2>2 DEF Destruct
<1>3. expired = {}
  BY <1>0 DEF BatchOnlyWhileCalling
<1>4. TypeOK'
  BY <1>0, <1>1 DEF TypeOK, PCs, Functors
<1> QED
  BY <1>0, <1>1, <1>2, <1>3, <1>4 DEF Shapes, BatchOnlyWhileCalling, Owned, NoLeak

\* Whether a step of Users adds a timer, and when: the time given is not in the past.
LEMMA UsersCases ==
  ASSUME OwnerInv, Users
  PROVE  \/ AddTimerReturn
         \/ \E id \in ids : Cancel(id) \/ CancelForeign(id)
         \/ \E a \in Addr, when \in Nat, interval \in Nat :
              when >= now /\ (AddTimer(a, when, interval) \/ AddTimerForeign(a, when, interval))
<1>1. now \in Nat /\ MaxDelay \in Nat /\ Intervals \subseteq Nat
  BY TimerAssumption DEF OwnerInv, TypeOK
<1>2. \A d \in Nat : now + d \in Nat /\ now + d >= now
  BY <1>1
<1>3. ASSUME NEW a \in Addr, NEW d \in 0 .. MaxDelay,
             AddTimer(a, now + d, 0) \/ AddTimerForeign(a, now + d, 0)
      PROVE  \E b \in Addr, when \in Nat, interval \in Nat :
               when >= now /\ (AddTimer(b, when, interval) \/ AddTimerForeign(b, when, interval))
  <2>1. d \in Nat /\ 0 \in Nat
    BY <1>1
  <2>2. now + d \in Nat /\ now + d >= now
    BY <1>2, <2>1
  <2> QED
    BY <1>3, <2>1, <2>2
<1>4. ASSUME NEW a \in Addr, NEW d \in Intervals,
             AddTimer(a, now + d, d) \/ AddTimerForeign(a, now + d, d)
      PROVE  \E b \in Addr, when \in Nat, interval \in Nat :
               when >= now /\ (AddTimer(b, when, interval) \/ AddTimerForeign(b, when, interval))
  <2>1. d \in Nat
    BY <1>1
  <2>2. now + d \in Nat /\ now + d >= now
    BY <1>2, <2>1
  <2> QED
    BY <1>4, <2>1, <2>2
<1> QED
  BY <1>3, <1>4 DEF Users

LEMMA OwnerStep == OwnerInv /\ [Next]_vars => OwnerInv'
<1> SUFFICES ASSUME OwnerInv, [Next]_vars PROVE OwnerInv'
  OBVIOUS
<1>u. UNCHANGED pending => AddPending' = AddPending /\ (AddsDistinct => AddsDistinct')
  BY DEF AddPending, AddsDistinct
<1>1. CASE Poll
  BY <1>1, <1>u DEF Poll, OwnerInv, TypeOK, Shapes, BatchOnlyWhileCalling, Owned, NoLeak, PCs,
                    setVars, readVars, userVars
<1>2. CASE handleRead
  BY <1>2, OwnerHandleRead
<1>3. CASE reset
  BY <1>3, OwnerReset
<1>4. ASSUME NEW a \in Addr, RunTimer(a) PROVE OwnerInv'
  BY <1>4, <1>u DEF RunTimer, OwnerInv, TypeOK, Shapes, BatchOnlyWhileCalling, Owned, NoLeak,
                    setVars, userVars
<1>5. CASE RunPending
  BY <1>5, OwnerRunPending
<1>6. CASE AddTimerReturn
  <2>1. adding[1] \in Addr /\ heap[adding[1]].seq \in 0 .. MaxSeq
    BY <1>6 DEF AddTimerReturn, OwnerInv, Shapes, TimerIds, TimerRecords
  <2>2. Shapes'
    BY <1>6, <2>1 DEF AddTimerReturn, OwnerInv, Shapes, TimerIds, readVars
  <2> QED
    BY <1>6, <1>u, <2>2 DEF AddTimerReturn, OwnerInv, TypeOK, BatchOnlyWhileCalling, Owned,
                            NoLeak, setVars, readVars
<1>7. ASSUME NEW id \in ids, Cancel(id) PROVE OwnerInv'
  <2>1. id \in TimerIds /\ pending \in Seq(Functors) /\ AddsDistinct
    BY DEF OwnerInv, Shapes, TypeOK, Functors
  <2>2. cancelInLoop(id) /\ UNCHANGED <<now, nextSeq, pending, adding, ids>>
    BY <1>7 DEF Cancel, userVars
  <2> QED
    BY <1>u, <2>1, <2>2, CancelKeeps
<1>8. ASSUME NEW id \in ids, CancelForeign(id) PROVE OwnerInv'
  <2> DEFINE f == [op |-> "cancel", id |-> id]
  <2>1. f \in Functors /\ f.op # "add" /\ pending' = Append(pending, f)
    BY <1>8 DEF CancelForeign, OwnerInv, Shapes, Functors
  <2> HIDE DEF f
  <2>2. pending' \in Seq(Functors) /\ AddPending' = AddPending /\ AddsDistinct'
    BY <2>1, PendingAppend DEF OwnerInv, TypeOK, Functors
  <2> QED
    BY <1>8, <2>2 DEF CancelForeign, OwnerInv, TypeOK, Shapes, BatchOnlyWhileCalling, Owned,
                      NoLeak, Functors, setVars, readVars
<1>9. ASSUME NEW a \in Addr, NEW when \in Nat, NEW interval \in Nat, when >= now,
             AddTimer(a, when, interval) \/ AddTimerForeign(a, when, interval)
      PROVE  OwnerInv'
  BY <1>9, OwnerAddTimer, OwnerAddTimerForeign
<1>10. CASE Tick
  <2>1. now' \in 0 .. MaxNow
    BY <1>10, TimerAssumption DEF Tick, OwnerInv, TypeOK
  <2> QED
    BY <1>10, <1>u, <2>1 DEF Tick, OwnerInv, TypeOK, Shapes, BatchOnlyWhileCalling, Owned,
                             NoLeak, setVars, readVars, userVars
<1>11. CASE Destruct
  BY <1>11, OwnerDestruct
<1>12. CASE UNCHANGED vars
  BY <1>12, <1>u DEF vars, OwnerInv, TypeOK, Shapes, BatchOnlyWhileCalling, Owned, NoLeak,
                     setVars, readVars, userVars
<1>13. CASE Users
  BY <1>13, <1>6, <1>7, <1>8, <1>9, UsersCases
<1> QED
  BY <1>1, <1>2, <1>3, <1>4, <1>5, <1>10, <1>11, <1>12, <1>13 DEF Next, HandleTimers

\* In every reachable state each allocated timer is in exactly one of timers_ with
\* activeTimers_, the vector of handleRead and the functors of addTimer, and these hold
\* no deleted timer: the loop's thread deletes a Timer once and does not use it after
\* that.  Nothing is said of the read of timer->sequence() in an addTimer of another
\* thread, which may come after the delete.
THEOREM NoDanglingTimerCorrect == Spec => []NoDanglingTimer
<1>1. OwnerInv => NoDanglingTimer
  <2> SUFFICES ASSUME OwnerInv PROVE NoDanglingTimer
    OBVIOUS
  <2> USE DEF OwnerInv
  <2> DEFINE batch == {<<a, heap[a].seq>> : a \in expired}
  <2>1. activeTimers \cap batch = {}
    BY DEF Owned
  <2>2. (activeTimers \cup batch) \cap AddPending = {}
    BY DEF Owned
  <2>3. \A t \in activeTimers \cup batch \cup AddPending : heap[t[1]].live
    BY DEF Owned
  <2>4. pc # "gone" =>
          \A a \in Addr : heap[a].live =>
            <<a, heap[a].seq>> \in activeTimers \cup batch \cup AddPending
    BY DEF NoLeak
  <2> QED
    BY <2>1, <2>2, <2>3, <2>4 DEF NoDanglingTimer
<1> QED
  BY <1>1, OwnerInit, OwnerStep, PTL DEF Spec

------------------------------------------------------------------------------
(* A cancelled timer stays cancelled *)

CancelInv == SequencesUnique /\ CancelledNowhere

\* cancelInLoop, from a callback or as a functor
LEMMA CancelRemembers ==
  ASSUME NEW id \in TimerIds, OwnerInv, CancelInv, cancelInLoop(id),
         AddPending' = AddPending, nextSeq' = nextSeq
  PROVE  CancelInv'
<1> USE DEF OwnerInv, CancelInv
<1>0. UNCHANGED <<pc, expired>> /\ cancelled' = IF InUse(id) THEN cancelled \cup {id[2]} ELSE cancelled
  BY DEF cancelInLoop, readVars
<1>1. nextSeq \in Nat /\ \A a \in Addr : heap[a].seq \in Nat
  BY TimerAssumption DEF Shapes, TimerRecords
<1>2. \A a \in Addr : heap'[a].seq = heap[a].seq /\ (heap'[a].live => heap[a].live)
  <2>1. CASE cancelActive(id)
    BY <2>1 DEF cancelActive, Free, Shapes, TimerRecords, TimerIds
  <2>2. CASE cancelOther(id)
    BY <2>2 DEF cancelOther
  <2> QED
    BY <2>1, <2>2 DEF cancelInLoop
<1>3. SequencesUnique'
  BY <1>2 DEF SequencesUnique
<1>4. InUse(id) => /\ id[1] \in Addr /\ heap[id[1]].seq = id[2] /\ heap[id[1]].live
                   /\ id = <<id[1], id[2]>>
  BY TimersPointwise DEF InUse, Owned, Shapes, TypeOK, TimerIds
<1>5. cancelled' \subseteq 1 .. nextSeq - 1
  <2>1. InUse(id) => id[2] \in 1 .. nextSeq - 1
    BY <1>1, <1>4 DEF SequencesUnique
  <2> QED
    BY <1>0, <2>1 DEF CancelledNowhere
<1>6. /\ \A t \in activeTimers : t[1] \in Addr /\ t = <<t[1], t[2]>> /\ heap[t[1]].seq = t[2]
      /\ \A t \in AddPending : t[1] \in Addr /\ t = <<t[1], t[2]>> /\ heap[t[1]].seq = t[2]
  BY TimersPointwise, AddPendingType DEF Owned, TypeOK, Functors
<1>7. InUse(id) => id[2] > 0 /\ \A a \in Addr : heap[a].seq = id[2] => a = id[1]
  BY <1>1, <1>4 DEF SequencesUnique
<1>8. CASE cancelActive(id)
  <2>1. /\ id \in activeTimers /\ InUse(id) /\ activeTimers' = activeTimers \ {id}
        /\ cancelingTimers' = cancelingTimers
    BY <1>8 DEF cancelActive, InUse
  <2>2. \A t \in activeTimers' : t[2] \notin cancelled'
    BY <1>0, <1>4, <1>6, <1>7, <2>1 DEF CancelledNowhere
  <2>3. \A t \in AddPending : t[2] \notin cancelled'
    BY <1>0, <1>4, <1>6, <1>7, <2>1 DEF CancelledNowhere, Owned
  <2>4. \A a \in expired : heap'[a].seq \in cancelled' => <<a, heap'[a].seq>> \in cancelingTimers'
    BY <1>0, <1>2, <1>4, <1>7, <2>1 DEF CancelledNowhere, Owned, Shapes
  <2> QED
    BY <1>0, <1>3, <1>5, <2>2, <2>3, <2>4 DEF CancelledNowhere
<1>9. CASE cancelOther(id)
  <2>1. /\ id \notin activeTimers /\ UNCHANGED <<activeTimers, heap>>
        /\ cancelingTimers \subseteq cancelingTimers'
        /\ pc = "calling" => id \in cancelingTimers'
    BY <1>9 DEF cancelOther, callingExpiredTimers
  <2>2. InUse(id) => id[1] \in expired /\ pc = "calling"
    BY <2>1 DEF InUse, BatchOnlyWhileCalling
  <2>3. \A t \in activeTimers' : t[2] \notin cancelled'
    BY <1>0, <1>6, <1>7, <2>1, <2>2 DEF CancelledNowhere, Owned
  <2>4. \A t \in AddPending : t[2] \notin cancelled'
    BY <1>0, <1>4, <1>6, <1>7, <2>1, <2>2 DEF CancelledNowhere, Owned
  <2>5. \A a \in expired : heap'[a].seq \in cancelled' => <<a, heap'[a].seq>> \in cancelingTimers'
    BY <1>0, <1>4, <1>7, <2>1, <2>2 DEF CancelledNowhere, Shapes
  <2> QED
    BY <1>0, <1>3, <1>5, <2>3, <2>4, <2>5 DEF CancelledNowhere
<1> QED
  BY <1>8, <1>9 DEF cancelInLoop

\* new Timer takes a sequence that nobody ever cancelled
LEMMA CreateKeepsCancelled ==
  ASSUME NEW a \in Addr, NEW when \in Nat, NEW interval \in Nat, OwnerInv, CancelInv,
         Create(a, when, interval), UNCHANGED <<cancelingTimers, cancelled, expired>>,
         \A t \in (activeTimers \cup AddPending)' :
           t \in activeTimers \cup AddPending \/ t = <<a, nextSeq>>
  PROVE  CancelInv'
<1> USE DEF OwnerInv, CancelInv
<1>1. /\ nextSeq' = nextSeq + 1
      /\ heap'[a].seq = nextSeq /\ heap'[a].live
      /\ \A b \in Addr \ {a} : heap'[b] = heap[b]
      /\ a \notin expired
  BY CreateFacts
<1>2. nextSeq \in Nat /\ nextSeq > 0 /\ \A b \in Addr : heap[b].seq \in Nat
  BY TimerAssumption DEF Shapes, TimerRecords
<1>3. \A b \in Addr : heap[b].seq < nextSeq
  BY DEF SequencesUnique
<1>4. SequencesUnique'
  <2>1. \A b \in Addr : heap'[b].seq < nextSeq' /\ (heap'[b].live => heap'[b].seq > 0)
    BY <1>1, <1>2, <1>3 DEF SequencesUnique
  <2>2. \A b, c \in Addr : heap'[b].seq = heap'[c].seq /\ heap'[b].seq > 0 => b = c
    BY <1>1, <1>2, <1>3 DEF SequencesUnique
  <2> QED
    BY <2>1, <2>2 DEF SequencesUnique
<1>5. cancelled' \subseteq 1 .. nextSeq' - 1 /\ nextSeq \notin cancelled
  BY <1>1, <1>2 DEF CancelledNowhere
<1>6. \A t \in (activeTimers \cup AddPending)' : t[2] \notin cancelled'
  BY <1>5 DEF CancelledNowhere
<1>7. \A b \in expired' : heap'[b].seq \in cancelled' => <<b, heap'[b].seq>> \in cancelingTimers'
  BY <1>1 DEF CancelledNowhere, Shapes
<1> QED
  BY <1>4, <1>5, <1>6, <1>7 DEF CancelledNowhere

LEMMA CancelStep == OwnerInv /\ CancelInv /\ [Next]_vars => CancelInv'
<1> SUFFICES ASSUME OwnerInv, CancelInv, [Next]_vars PROVE CancelInv'
  OBVIOUS
<1>u. UNCHANGED pending => AddPending' = AddPending
  BY DEF AddPending
<1>p. pending \in Seq(Functors) /\ AddsDistinct
  BY DEF OwnerInv, TypeOK, Functors
<1>0. ASSUME UNCHANGED <<heap, nextSeq, activeTimers, expired, cancelingTimers, cancelled>>,
             AddPending' = AddPending
      PROVE  CancelInv'
  BY <1>0 DEF CancelInv, SequencesUnique, CancelledNowhere
<1>1. CASE Poll \/ Tick \/ AddTimerReturn \/ (\E a \in Addr : RunTimer(a)) \/ UNCHANGED vars
  BY <1>0, <1>u, <1>1 DEF Poll, Tick, AddTimerReturn, RunTimer, vars, setVars, readVars, userVars
<1>2. CASE handleRead
  <2>1. /\ UNCHANGED <<heap, nextSeq, pending, cancelled>>
        /\ activeTimers' \subseteq activeTimers
        /\ expired' = {e[2] : e \in {f \in timers : f[1] <= now}}
    BY <1>2 DEF handleRead, userVars
  <2>2. \A a \in expired' : <<a, heap[a].seq>> \in activeTimers
    BY <2>1, TimersPointwise DEF OwnerInv
  <2>3. \A a \in expired' : heap[a].seq \notin cancelled
    <3> SUFFICES ASSUME NEW a \in expired' PROVE heap[a].seq \notin cancelled
      OBVIOUS
    <3> DEFINE t == <<a, heap[a].seq>>
    <3>1. t \in activeTimers /\ t[2] = heap[a].seq
      BY <2>2
    <3> HIDE DEF t
    <3> QED
      BY <3>1 DEF CancelInv, CancelledNowhere
  <2> QED
    BY <1>u, <2>1, <2>3 DEF CancelInv, SequencesUnique, CancelledNowhere
<1>3. CASE reset
  <2>1. UNCHANGED <<nextSeq, pending, cancelled, cancelingTimers>> /\ expired' = {}
    BY <1>3 DEF reset, userVars
  <2>2. /\ activeTimers' = activeTimers \cup {<<a, heap'[a].seq>> : a \in Restarted}
        /\ Restarted \subseteq expired /\ expired \subseteq Addr
        /\ \A a \in Addr : heap'[a].seq = heap[a].seq
        /\ \A a \in Addr \ expired : heap'[a] = heap[a]
    BY <1>3, ResetFacts
  <2>3. SequencesUnique'
    <3>1. \A a \in Addr : heap'[a].live => heap[a].live
      BY <2>2 DEF OwnerInv, Owned
    <3> QED
      BY <2>1, <2>2, <3>1 DEF CancelInv, SequencesUnique
  <2>4. \A a \in Restarted : heap'[a].seq \notin cancelled
    BY <2>2 DEF Restarted, CancelInv, CancelledNowhere
  <2>5. \A t \in activeTimers' : t[2] \notin cancelled
    BY <2>2, <2>4 DEF CancelInv, CancelledNowhere
  <2> QED
    BY <1>u, <2>1, <2>3, <2>5 DEF CancelInv, CancelledNowhere
<1>4. CASE RunPending
  <2>0. pending # <<>> /\ pending' = Tail(pending) /\ nextSeq' = nextSeq
    BY <1>4 DEF RunPending
  <2>1. /\ Head(pending) \in Functors
        /\ Head(pending).op = "add" =>
             Head(pending).id \in AddPending /\ AddPending' = AddPending \ {Head(pending).id}
        /\ Head(pending).op # "add" => AddPending' = AddPending
    BY <1>p, <2>0, PendingTail
  <2> DEFINE id == Head(pending).id
  <2>2. CASE Head(pending).op = "add"
    <3>1. addTimerInLoop(heap, id[1]) /\ UNCHANGED <<heap, cancelingTimers, readVars, cancelled>>
      BY <1>4, <2>2 DEF RunPending
    <3>2. activeTimers' = activeTimers \cup {<<id[1], heap[id[1]].seq>>}
      BY <3>1 DEF addTimerInLoop, insert
    <3>3. id \in AddPending /\ id = <<id[1], heap[id[1]].seq>>
      BY <1>p, <2>1, <2>2, AddPendingType DEF OwnerInv, Owned
    <3>4. activeTimers' \cup AddPending' \subseteq activeTimers \cup AddPending
      BY <2>1, <2>2, <3>2, <3>3
    <3> HIDE DEF id
    <3> QED
      BY <2>0, <3>1, <3>4 DEF readVars, CancelInv, SequencesUnique, CancelledNowhere
  <2>3. CASE Head(pending).op # "add"
    <3>1. cancelInLoop(id) /\ id \in TimerIds
      BY <1>4, <2>1, <2>3 DEF RunPending, Functors
    <3> HIDE DEF id
    <3> QED
      BY <2>0, <2>1, <2>3, <3>1, CancelRemembers
  <2> QED
    BY <2>2, <2>3
<1>5. ASSUME NEW id \in ids, Cancel(id) PROVE CancelInv'
  <2>1. id \in TimerIds /\ cancelInLoop(id) /\ UNCHANGED <<nextSeq, pending>>
    BY <1>5 DEF Cancel, userVars, OwnerInv, Shapes
  <2> QED
    BY <1>u, <2>1, CancelRemembers
<1>6. ASSUME NEW id \in ids, CancelForeign(id) PROVE CancelInv'
  <2> DEFINE f == [op |-> "cancel", id |-> id]
  <2>1. f \in Functors /\ f.op # "add" /\ pending' = Append(pending, f)
    BY <1>6 DEF CancelForeign, OwnerInv, Shapes, Functors
  <2> HIDE DEF f
  <2>2. AddPending' = AddPending
    BY <1>p, <2>1, PendingAppend
  <2> QED
    BY <1>0, <1>6, <2>2 DEF CancelForeign, setVars, readVars
<1>7. ASSUME NEW a \in Addr, NEW when \in Nat, NEW interval \in Nat, AddTimer(a, when, interval)
      PROVE  CancelInv'
  <2>1. /\ Create(a, when, interval) /\ UNCHANGED <<cancelingTimers, cancelled, expired, pending>>
        /\ activeTimers' = activeTimers \cup {<<a, heap'[a].seq>>}
    BY <1>7 DEF AddTimer, readVars, addTimerInLoop, insert
  <2>2. heap'[a].seq = nextSeq
    BY <2>1, CreateFacts
  <2> QED
    BY <1>u, <2>1, <2>2, CreateKeepsCancelled
<1>8. ASSUME NEW a \in Addr, NEW when \in Nat, NEW interval \in Nat,
             AddTimerForeign(a, when, interval)
      PROVE  CancelInv'
  <2> DEFINE f == [op |-> "add", id |-> <<a, nextSeq>>]
  <2>1. /\ Create(a, when, interval)
        /\ UNCHANGED <<cancelingTimers, cancelled, expired, activeTimers>>
        /\ pending' = Append(pending, f)
    BY <1>8 DEF AddTimerForeign, readVars, setVars
  <2>2. f \in Functors /\ f.op = "add" /\ f.id = <<a, nextSeq>>
    BY <2>1, CreateFacts DEF Functors
  <2> HIDE DEF f
  <2>3. AddPending' = AddPending \cup {<<a, nextSeq>>}
    BY <1>p, <2>1, <2>2, PendingAppend
  <2> QED
    BY <2>1, <2>3, CreateKeepsCancelled
<1>9. CASE Destruct
  <2>1. /\ activeTimers' = {} /\ pending' = <<>>
        /\ UNCHANGED <<nextSeq, cancelled, cancelingTimers, expired>>
    BY <1>9 DEF Destruct, readVars
  <2>2. AddPending' = {}
    BY <2>1 DEF AddPending
  <2>3. \A a \in Addr : heap'[a].seq = heap[a].seq /\ (heap'[a].live => heap[a].live)
    <3> SUFFICES ASSUME NEW a \in Addr
                 PROVE  heap'[a].seq = heap[a].seq /\ (heap'[a].live => heap[a].live)
      OBVIOUS
    <3>1. heap[a] \in TimerRecords
      BY DEF OwnerInv, Shapes
    <3> QED
      BY <1>9, <3>1 DEF Destruct, TimerRecords
  <2>4. SequencesUnique'
    BY <2>1, <2>3 DEF CancelInv, SequencesUnique
  <2> QED
    BY <2>1, <2>2, <2>3, <2>4 DEF CancelInv, CancelledNowhere, OwnerInv, Shapes
<1>10. CASE Users
  BY <1>1, <1>5, <1>6, <1>7, <1>8, <1>10, UsersCases
<1> QED
  BY <1>1, <1>2, <1>3, <1>4, <1>9, <1>10 DEF Next, HandleTimers

\* cancel() works whenever it is called: a timer cancelled while it waits or while its
\* batch runs, by its own callback too, is never put back by reset, and the cancel
\* never hits a younger timer at the same address.
THEOREM CancelledStaysCancelledCorrect == Spec => []CancelledStaysCancelled
<1>1. Init => CancelInv
  <2> SUFFICES ASSUME Init PROVE CancelInv
    OBVIOUS
  <2>1. AddPending = {}
    BY DEF Init, AddPending
  <2> QED
    BY <2>1 DEF Init, CancelInv, SequencesUnique, CancelledNowhere, NoTimer
<1>2. CancelInv => CancelledStaysCancelled
  BY DEF CancelInv, CancelledNowhere, CancelledStaysCancelled
<1> QED
  BY <1>1, <1>2, OwnerInit, OwnerStep, CancelStep, PTL DEF Spec

------------------------------------------------------------------------------
(* The timerfd *)

\* The natural numbers are well-ordered, so timers_.begin() has the least expiration.
LEMMA EarliestIsLeast ==
  ASSUME NEW ts, ts # {}, \A e \in ts : e[1] \in Nat
  PROVE  /\ Earliest(ts) \in Nat /\ \E e \in ts : e[1] = Earliest(ts)
         /\ \A e \in ts : Earliest(ts) <= e[1]
<1> DEFINE T == {e[1] : e \in ts}
           R == OpToRel(<, Nat)
<1>1. T \subseteq Nat /\ T # {}
  OBVIOUS
<1>2. IsWellFoundedOn(R, Nat)
  BY NatLessThanWellFounded
<1>3. \A m, n \in Nat : m < n => <<m, n>> \in R
  BY DEF OpToRel
<1> HIDE DEF R, T
<1>4. PICK m \in T : \A n \in T : ~(<<n, m>> \in R)
  BY <1>1, <1>2, WFMin
<1>5. ASSUME NEW n \in T PROVE m <= n
  <2>1. m \in Nat /\ n \in Nat /\ ~(<<n, m>> \in R)
    BY <1>1, <1>4
  <2>2. ~(n < m)
    BY <1>3, <2>1
  <2> QED
    BY <2>1, <2>2
<1>6. \E w \in T : \A e \in ts : w <= e[1]
  BY <1>5 DEF T
<1>7. Earliest(ts) \in T /\ \A e \in ts : Earliest(ts) <= e[1]
  BY <1>6 DEF Earliest, T
<1> QED
  BY <1>1, <1>7 DEF T

LEMMA ExpirationsNatural ==
  ASSUME TypeOK, Shapes
  PROVE  now \in Nat /\ \A e \in timers : e[1] \in Nat
<1>1. \A a \in Addr : heap[a].when \in Nat
  BY DEF Shapes, TimerRecords
<1>2. \A e \in timers : e[1] \in Nat
  BY <1>1, TimersPointwise
<1> QED
  BY <1>2, TimerAssumption DEF TypeOK

\* addTimerInLoop sets the timerfd exactly when the new timer is the earliest.
LEMMA AddCovers ==
  ASSUME NEW a \in Addr, OwnerInv, OwnerInv', TimerfdCoversAll, addTimerInLoop(heap', a), now' = now
  PROVE  TimerfdCoversAll'
<1>1. /\ heap'[a].when \in Nat /\ now \in Nat
      /\ \A e \in timers : e[1] \in Nat
  BY ExpirationsNatural DEF OwnerInv, Shapes, TimerRecords
<1>2. timers' = timers \cup {<<heap'[a].when, a>>}
  BY DEF addTimerInLoop, insert
<1>3. CASE earliestChanged(timers, heap'[a].when)
  <2>1. /\ timerfd' = IF heap'[a].when > now THEN heap'[a].when ELSE Zeroed
    BY <1>3 DEF addTimerInLoop, resetTimerfd
  <2>2. \A e \in timers' : heap'[a].when <= e[1]
    BY <1>1, <1>2, <1>3 DEF earliestChanged
  <2> QED
    BY <1>1, <2>1, <2>2 DEF TimerfdCoversAll
<1>4. CASE ~earliestChanged(timers, heap'[a].when)
  <2>1. UNCHANGED <<pc, timerfd>>
    BY <1>4 DEF addTimerInLoop
  <2>2. PICK e \in timers : e[1] <= heap'[a].when
    BY <1>1, <1>4 DEF earliestChanged
  <2> QED
    BY <1>1, <1>2, <2>1, <2>2 DEF TimerfdCoversAll, Disarmed, Zeroed
<1> QED
  BY <1>3, <1>4

LEMMA CoversStep ==
  OwnerInv /\ OwnerInv' /\ TimerfdCoversAll /\ [Next]_vars => TimerfdCoversAll'
<1> SUFFICES ASSUME OwnerInv, OwnerInv', TimerfdCoversAll, [Next]_vars PROVE TimerfdCoversAll'
  OBVIOUS
<1>0. ASSUME timers' \subseteq timers, UNCHANGED timerfd,
             pc' \in {"idle", "polled"} => pc \in {"idle", "polled"}
      PROVE  TimerfdCoversAll'
  BY <1>0 DEF TimerfdCoversAll
<1>1. CASE Poll \/ Tick \/ AddTimerReturn \/ (\E a \in Addr : RunTimer(a)) \/ UNCHANGED vars
  BY <1>0, <1>1 DEF Poll, Tick, AddTimerReturn, RunTimer, vars, setVars
<1>2. CASE handleRead
  BY <1>2 DEF handleRead, TimerfdCoversAll
<1>3. CASE reset
  <2> DEFINE w == IF timers' = {} THEN Epoch ELSE Earliest(timers')
  <2>1. resetTimerfd(w, "idle") /\ now' = now
    BY <1>3 DEF reset
  <2>2. /\ pc' = (IF w < now THEN "aborted" ELSE "idle")
        /\ timerfd' = (IF w > now THEN w ELSE Zeroed)
    BY <2>1 DEF resetTimerfd
  <2>3. now \in Nat
    BY TimerAssumption DEF OwnerInv, TypeOK
  <2>4. CASE timers' = {}
    BY <2>2, <2>3, <2>4 DEF TimerfdCoversAll, Epoch
  <2>5. CASE timers' # {}
    <3>1. \A e \in timers' : e[1] \in Nat
      <4>1. /\ timers' = {<<heap'[t[1]].when, t[1]>> : t \in activeTimers'}
            /\ \A t \in activeTimers' : t[1] \in Addr
        BY DEF OwnerInv, TypeOK, TimerIds
      <4>2. \A a \in Addr : heap'[a].when \in Nat
        BY DEF OwnerInv, Shapes, TimerRecords
      <4> QED
        BY <4>1, <4>2
    <3>2. w \in Nat /\ \A e \in timers' : w <= e[1]
      BY <2>5, <3>1, EarliestIsLeast
    <3> HIDE DEF w
    <3> QED
      BY <2>2, <2>3, <3>2 DEF TimerfdCoversAll
  <2> QED
    BY <2>4, <2>5
<1>4. CASE RunPending
  <2>0. now' = now /\ pending \in Seq(Functors) /\ pending # <<>> /\ AddsDistinct
        /\ pending' = Tail(pending)
    BY <1>4 DEF RunPending, OwnerInv, TypeOK, Functors
  <2>1. CASE Head(pending).op = "add"
    <3>1. addTimerInLoop(heap', Head(pending).id[1])
      BY <1>4, <2>1 DEF RunPending
    <3>2. Head(pending).id[1] \in Addr
      BY <2>0, <2>1, PendingTail, AddPendingType
    <3> QED
      BY <2>0, <3>1, <3>2, AddCovers
  <2>2. CASE Head(pending).op # "add"
    <3>1. cancelInLoop(Head(pending).id)
      BY <1>4, <2>2 DEF RunPending
    <3> QED
      BY <1>0, <3>1 DEF cancelInLoop, cancelActive, cancelOther
  <2> QED
    BY <2>1, <2>2
<1>5. ASSUME NEW id \in ids, Cancel(id) \/ CancelForeign(id) PROVE TimerfdCoversAll'
  BY <1>0, <1>5 DEF Cancel, CancelForeign, cancelInLoop, cancelActive, cancelOther, setVars
<1>6. ASSUME NEW a \in Addr, NEW when \in Nat, NEW interval \in Nat, AddTimer(a, when, interval)
      PROVE  TimerfdCoversAll'
  BY <1>6, AddCovers DEF AddTimer
<1>7. ASSUME NEW a \in Addr, NEW when \in Nat, NEW interval \in Nat,
             AddTimerForeign(a, when, interval)
      PROVE  TimerfdCoversAll'
  BY <1>0, <1>7 DEF AddTimerForeign, setVars
<1>8. CASE Destruct
  BY <1>8 DEF Destruct, TimerfdCoversAll
<1>9. CASE Users
  BY <1>1, <1>5, <1>6, <1>7, <1>9, UsersCases
<1> QED
  BY <1>1, <1>2, <1>3, <1>4, <1>8, <1>9 DEF Next, HandleTimers

\* While the loop waits, the timerfd goes off no later than the earliest timer, after
\* every order of addTimer, cancel and reset, except where timerfd_settime got 0.
THEOREM TimerfdCoversEarliestCorrect == Spec => []TimerfdCoversEarliest
<1>1. Init => TimerfdCoversAll
  BY DEF Init, TimerfdCoversAll
<1>2. OwnerInv /\ TimerfdCoversAll => TimerfdCoversEarliest
  <2> SUFFICES ASSUME OwnerInv, TimerfdCoversAll, pc = "idle", timers # {}, timerfd # Zeroed
               PROVE  timerfd \in 0 .. Earliest(timers)
    BY DEF TimerfdCoversEarliest
  <2>1. timerfd \in Nat /\ \A e \in timers : timerfd <= e[1]
    BY DEF TimerfdCoversAll
  <2>2. Earliest(timers) \in Nat /\ \E e \in timers : e[1] = Earliest(timers)
    BY EarliestIsLeast, ExpirationsNatural DEF OwnerInv
  <2> QED
    BY <2>1, <2>2
<1> QED
  BY <1>1, <1>2, OwnerInit, OwnerStep, CoversStep, PTL DEF Spec

\* What cancelInLoop takes out of the queue is what its id names.
LEMMA CancelTakesOwn ==
  ASSUME NEW id, cancelInLoop(id), NEW t \in activeTimers
  PROVE  t \in activeTimers' \/ t[2] \in cancelled'
<1>1. CASE id \in activeTimers
  BY <1>1 DEF cancelInLoop, cancelActive, cancelOther, InUse
<1>2. CASE id \notin activeTimers
  BY <1>2 DEF cancelInLoop, cancelActive, cancelOther
<1> QED
  BY <1>1, <1>2

\* A timer leaves the queue in getExpired, through a cancel of its own id, or in
\* ~TimerQueue: an id whose timer is gone cancels nothing, though its address is that
\* of another timer.
THEOREM OnlyOwnIdCancelsCorrect == Spec => OnlyOwnIdCancels
<1> DEFINE Leaves(t) == \/ t \in activeTimers' \/ t[1] \in expired'
                        \/ t[2] \in cancelled' \/ pc' = "gone"
<1>1. OwnerInv /\ [Next]_vars => \A t \in activeTimers : Leaves(t)
  <2> SUFFICES ASSUME OwnerInv, [Next]_vars, NEW t \in activeTimers PROVE Leaves(t)
    OBVIOUS
  <2>1. CASE activeTimers \subseteq activeTimers'
    BY <2>1
  <2>2. CASE handleRead
    BY <2>2 DEF handleRead
  <2>3. ASSUME NEW id, cancelInLoop(id) PROVE Leaves(t)
    BY <2>3, CancelTakesOwn
  <2>4. CASE RunPending
    BY <2>1, <2>3, <2>4 DEF RunPending, addTimerInLoop, insert
  <2>5. CASE Users
    <3>1. ASSUME NEW id \in ids, Cancel(id) PROVE Leaves(t)
      BY <2>3, <3>1 DEF Cancel
    <3>2. ASSUME NEW a, NEW when, NEW interval,
                 AddTimer(a, when, interval) \/ AddTimerForeign(a, when, interval)
          PROVE  activeTimers \subseteq activeTimers'
      BY <3>2 DEF AddTimer, AddTimerForeign, addTimerInLoop, insert, setVars
    <3>3. AddTimerReturn \/ (\E id \in ids : CancelForeign(id)) => activeTimers' = activeTimers
      BY DEF AddTimerReturn, CancelForeign, setVars
    <3> QED
      BY <2>1, <2>5, <3>1, <3>2, <3>3, UsersCases
  <2>6. CASE Destruct
    BY <2>6 DEF Destruct
  <2>7. Poll \/ reset \/ (\E a \in Addr : RunTimer(a)) \/ Tick \/ UNCHANGED vars
          => activeTimers \subseteq activeTimers'
    BY DEF Poll, reset, insert, RunTimer, Tick, vars, setVars
  <2> QED
    BY <2>1, <2>2, <2>4, <2>5, <2>6, <2>7 DEF Next, HandleTimers
<1>2. OwnerInv /\ [Next]_vars =>
        [\A t \in activeTimers :
           \/ t \in activeTimers' \/ t[1] \in expired'
           \/ t[2] \in cancelled' \/ pc' = "gone"]_vars
  BY <1>1
<1> QED
  BY <1>2, OwnerInit, OwnerStep, PTL DEF Spec, OnlyOwnIdCancels

\* Both together: a cancel takes its own timer out of the queue for good, whether the
\* timer waits or is being called, and takes no other timer out.
THEOREM CancelIsExactCorrect == Spec => CancelIsExact
<1> QED
  BY CancelledStaysCancelledCorrect, OnlyOwnIdCancelsCorrect, PTL DEF CancelIsExact
==============================================================================
