--------------------------- MODULE LocTimerProofs ---------------------------
(***************************************************************************)
(* Proofs about the timers of LocTimer.cpp, for any clients, delays and    *)
(* numbers of starts: the kernel is set for the timer at the top of the    *)
(* heap, a start is stopped or called back once, and no delegate dangles   *)
(* or is left behind.                                                      *)
(*                                                                         *)
(* And about the heap of LocHeap.cpp that the timers are in, for any nodes *)
(* and ranks: its tree passes its own check after every call, it holds a   *)
(* ranked set, and its size is the number of nodes in it.                  *)
(***************************************************************************)
EXTENDS LocTimer, LocHeap, FiniteSetTheorems, WellFoundedInduction, TLAPS

(***************************************************************************)
(* The inductive invariant.  The heap has a top; the MsgTask thread knows  *)
(* the client it works for, and never has to disarm.                       *)
(***************************************************************************)
HeapHasTop == IF heap = {} THEN top = NULL ELSE top \in heap

AtWork == /\ task \in {"stop", "callback"} => client \in Clients
          /\ task = "arm" => top # NULL
          /\ task # "disarm"

(* A client's delegate is its own, is allocated and is not on its way to   *)
(* being deleted.                                                          *)
Running ==
    \A c \in Clients : mTimer[c] # NULL =>
        /\ mTimer[c] \in live /\ mTimer[c].owner = c
        /\ \A i \in 1..Len(msgs) : msgs[i][1] = "remove" => msgs[i][2] # mTimer[c]

(* Delegates are not made twice, and the last message about one is the     *)
(* only one that asks to delete it.                                        *)
NumberedByStarts == \A d \in live : d.n <= starts

RemovedLast ==
    \A i, j \in 1..Len(msgs) :
        msgs[j][1] = "remove" /\ msgs[i][1] # "expire" /\ msgs[i][2] = msgs[j][2] => i <= j

(* While the poll thread is not about to wake the MsgTask, the kernel is   *)
(* set, or one system call of the MsgTask is missing.                      *)
Expiring == poll # "wait" \/ inQueue(<<"expire">>)
Watched ==
    ~Expiring => /\ task = "idle" /\ heap # {} => polled /\ armed = top.due
                 /\ task = "arm" => polled

TimerInv ==
    /\ TypeOK /\ HeapHasTop /\ AtWork /\ Running /\ NumberedByStarts /\ RemovedLast
    /\ Watched /\ OncePerStart /\ NoDanglingDelegate /\ NoLeakedDelegate

-----------------------------------------------------------------------------
LEMMA InitInv == Init => TimerInv
<1> SUFFICES ASSUME Init PROVE TimerInv
  OBVIOUS
<1> USE TimerAssumption, NullAssumption DEF Init
<1>0. polled \in BOOLEAN
  BY Zenon
<1>1. TypeOK
  BY <1>0 DEF TypeOK, Never
<1>2. HeapHasTop /\ AtWork /\ NumberedByStarts
  BY DEF HeapHasTop, AtWork, NumberedByStarts
<1>3. Running /\ RemovedLast
  BY DEF Running, RemovedLast
<1>4. Watched
  BY DEF Watched
<1>5. OncePerStart /\ NoDanglingDelegate /\ NoLeakedDelegate
  BY DEF OncePerStart, NoDanglingDelegate, NoLeakedDelegate
<1> QED
  BY <1>1, <1>2, <1>3, <1>4, <1>5 DEF TimerInv

-----------------------------------------------------------------------------
(* The queue of the MsgTask.                                               *)
LEMMA QueueAppend ==
  ASSUME NEW q \in Seq(Messages), NEW m \in Messages
  PROVE  /\ Append(q, m) \in Seq(Messages) /\ Len(q) \in Nat /\ Len(Append(q, m)) = Len(q) + 1
         /\ \A i \in 1..Len(q) : Append(q, m)[i] = q[i]
         /\ Append(q, m)[Len(q) + 1] = m
<1> HIDE DEF Messages
<1> QED
  OBVIOUS

LEMMA QueueTail ==
  ASSUME NEW q \in Seq(Messages), q # <<>>
  PROVE  /\ Tail(q) \in Seq(Messages) /\ Len(q) \in Nat \ {0} /\ Len(Tail(q)) = Len(q) - 1
         /\ Head(q) = q[1] /\ q[1] \in Messages
         /\ \A i \in 1..(Len(q) - 1) : Tail(q)[i] = q[i + 1]
<1> HIDE DEF Messages
<1> QED
  OBVIOUS

(* updateSoonestTime, as the handlers use it.                              *)
LEMMA UpdateFromNone ==
  ASSUME NEW t
  PROVE  updateSoonestTime(NULL, t) = IF t = NULL THEN "idle" ELSE "arm"
BY Zenon DEF updateSoonestTime

LEMMA UpdateAfterPush ==
  ASSUME NEW p, NEW t, p # NULL, t # NULL
  PROVE  updateSoonestTime(p, t) = IF t # p /\ ranks(t, p) THEN "arm" ELSE "idle"
BY Zenon DEF updateSoonestTime

(***************************************************************************)
(* destroyLocked, in a client's stop and in the expiry of its timer: the   *)
(* message that asks to delete the delegate is the last one about it.      *)
(***************************************************************************)
LEMMA Destroys ==
  ASSUME TimerInv, NEW c \in Clients, mTimer[c] # NULL, destroyLocked(c), UNCHANGED <<live, heap>>
  PROVE  /\ mTimer' \in [Clients -> Delegates \cup {NULL}] /\ nulled' \subseteq Delegates
         /\ msgs' \in Seq(Messages) /\ (inQueue(<<"expire">>)' <=> inQueue(<<"expire">>))
         /\ Running' /\ RemovedLast' /\ NoLeakedDelegate'
         /\ \A i \in 1..Len(msgs') : msgs'[i][1] # "expire" => msgs'[i][2] \in live
<1> DEFINE d == mTimer[c]
<1>1. /\ d \in Delegates /\ d \in live /\ d.owner = c /\ d # NULL
      /\ \A i \in 1..Len(msgs) : msgs[i][1] = "remove" => msgs[i][2] # d
  BY DEF TimerInv, TypeOK, Running
<1>2. msgs \in Seq(Messages) /\ msgs' = Append(msgs, <<"remove", d>>)
  BY DEF TimerInv, TypeOK, destroyLocked
<1>3. mTimer \in [Clients -> Delegates \cup {NULL}] /\ mTimer' = [mTimer EXCEPT ![c] = NULL]
  BY DEF TimerInv, TypeOK, destroyLocked
<1>4. nulled' \subseteq Delegates
  BY <1>1 DEF TimerInv, TypeOK, destroyLocked
<1> HIDE DEF d
<1>5. <<"remove", d>> \in Messages
  BY <1>1 DEF Messages
<1>6. /\ msgs' \in Seq(Messages) /\ Len(msgs) \in Nat /\ Len(msgs') = Len(msgs) + 1
      /\ \A i \in 1..Len(msgs) : msgs'[i] = msgs[i]
      /\ msgs'[Len(msgs) + 1] = <<"remove", d>>
  BY <1>2, <1>5, QueueAppend
<1>7. /\ mTimer' \in [Clients -> Delegates \cup {NULL}]
      /\ \A e \in Clients : mTimer'[e] = IF e = c THEN NULL ELSE mTimer[e]
  BY <1>3
<1>8. \A i \in 1..Len(msgs') : i \in 1..Len(msgs) \/ i = Len(msgs) + 1
  BY <1>6
<1>9. \A i \in 1..Len(msgs) : i \in 1..Len(msgs')
  BY <1>6
<1>10. inQueue(<<"expire">>)' <=> inQueue(<<"expire">>)
  <2>1. <<"remove", d>> # <<"expire">>
    OBVIOUS
  <2>2. inQueue(<<"expire">>) => inQueue(<<"expire">>)'
    BY <1>6, <1>9 DEF inQueue
  <2>3. inQueue(<<"expire">>)' => inQueue(<<"expire">>)
    BY <1>6, <1>8, <2>1 DEF inQueue
  <2> QED
    BY <2>2, <2>3
<1>11. Running'
  <2> SUFFICES ASSUME NEW e \in Clients, mTimer'[e] # NULL
               PROVE  /\ mTimer'[e] \in live' /\ mTimer'[e].owner = e
                      /\ \A i \in 1..Len(msgs') : msgs'[i][1] = "remove" => msgs'[i][2] # mTimer'[e]
    BY DEF Running
  <2>1. e # c /\ mTimer'[e] = mTimer[e]
    BY <1>7
  <2>2. /\ mTimer[e] \in live /\ mTimer[e].owner = e
        /\ \A i \in 1..Len(msgs) : msgs[i][1] = "remove" => msgs[i][2] # mTimer[e]
    BY <2>1 DEF TimerInv, Running
  <2>3. mTimer[e] # d
    BY <1>1, <2>1, <2>2
  <2> QED
    BY <1>6, <1>8, <2>1, <2>2, <2>3
<1>12. RemovedLast'
  BY <1>1, <1>6, <1>8 DEF TimerInv, RemovedLast
<1>13. NoLeakedDelegate'
  <2> SUFFICES ASSUME NEW e \in live PROVE mTimer'[e.owner] = e \/ inQueue(<<"remove", e>>)'
    BY DEF NoLeakedDelegate
  <2>1. mTimer[e.owner] = e \/ inQueue(<<"remove", e>>)
    BY DEF TimerInv, NoLeakedDelegate
  <2>2. CASE e = d
    BY <1>6, <2>2 DEF inQueue
  <2>3. CASE e # d /\ mTimer[e.owner] = e
    <3>1. e.owner \in Clients /\ e.owner # c
      BY <2>3 DEF d, TimerInv, TypeOK, Delegates
    <3> QED
      BY <1>7, <2>3, <3>1
  <2>4. CASE inQueue(<<"remove", e>>)
    BY <1>6, <1>9, <2>4 DEF inQueue
  <2> QED
    BY <2>1, <2>2, <2>3, <2>4
<1>14. \A i \in 1..Len(msgs') : msgs'[i][1] # "expire" => msgs'[i][2] \in live
  BY <1>1, <1>6, <1>8 DEF TimerInv, NoDanglingDelegate
<1> QED
  BY <1>4, <1>6, <1>7, <1>10, <1>11, <1>12, <1>13, <1>14

(***************************************************************************)
(* The first message is taken; nothing else about the queue changes.       *)
(***************************************************************************)
LEMMA Receives ==
  ASSUME TimerInv, NEW kind, receives(kind)
  PROVE  /\ task = "idle" /\ msgs' \in Seq(Messages) /\ Len(msgs) \in Nat \ {0} /\ Len(msgs') = Len(msgs) - 1
         /\ Head(msgs) = msgs[1] /\ msgs[1] \in Messages /\ msgs[1][1] = kind
         /\ \A i \in 1..Len(msgs') : i + 1 \in 1..Len(msgs) /\ msgs'[i] = msgs[i + 1]
         /\ \A i \in 1..Len(msgs) : i = 1 \/ (i - 1 \in 1..Len(msgs') /\ msgs'[i - 1] = msgs[i])
         /\ RemovedLast'
         /\ kind # "expire" => (inQueue(<<"expire">>) => inQueue(<<"expire">>)')
<1>1. msgs \in Seq(Messages) /\ msgs # <<>> /\ msgs' = Tail(msgs) /\ task = "idle" /\ Head(msgs)[1] = kind
  BY DEF TimerInv, TypeOK, receives
<1>2. /\ msgs' \in Seq(Messages) /\ Len(msgs) \in Nat \ {0} /\ Len(msgs') = Len(msgs) - 1
      /\ Head(msgs) = msgs[1] /\ msgs[1] \in Messages
      /\ \A i \in 1..(Len(msgs) - 1) : msgs'[i] = msgs[i + 1]
  BY <1>1, QueueTail
<1>3. \A i \in 1..Len(msgs') : i + 1 \in 1..Len(msgs) /\ msgs'[i] = msgs[i + 1]
  BY <1>2
<1>4. \A i \in 1..Len(msgs) : i = 1 \/ (i - 1 \in 1..Len(msgs') /\ msgs'[i - 1] = msgs[i])
  BY <1>2
<1>5. RemovedLast'
  <2> SUFFICES ASSUME NEW i \in 1..Len(msgs'), NEW j \in 1..Len(msgs'), msgs'[j][1] = "remove",
                      msgs'[i][1] # "expire", msgs'[i][2] = msgs'[j][2]
               PROVE  i <= j
    BY DEF RemovedLast
  <2>1. i + 1 <= j + 1
    BY <1>3 DEF TimerInv, RemovedLast
  <2> QED
    BY <1>2, <2>1
<1>6. kind # "expire" => (inQueue(<<"expire">>) => inQueue(<<"expire">>)')
  <2> SUFFICES ASSUME kind # "expire", NEW i \in 1..Len(msgs), msgs[i] = <<"expire">>
               PROVE  inQueue(<<"expire">>)'
    BY DEF inQueue
  <2>1. i # 1
    BY <1>1, <1>2
  <2> QED
    BY <1>4, <2>1 DEF inQueue
<1> QED
  BY <1>1, <1>2, <1>3, <1>4, <1>5, <1>6

(* A message that does not ask to delete a delegate.                       *)
LEMMA ReceivesOther ==
  ASSUME TimerInv, NEW kind, receives(kind), kind # "remove", UNCHANGED <<mTimer, live>>
  PROVE  /\ Running' /\ NoLeakedDelegate'
         /\ \A i \in 1..Len(msgs') : msgs'[i][1] # "expire" => msgs'[i][2] \in live
<1>1. /\ Head(msgs) = msgs[1] /\ msgs[1][1] = kind
      /\ \A i \in 1..Len(msgs') : i + 1 \in 1..Len(msgs) /\ msgs'[i] = msgs[i + 1]
      /\ \A i \in 1..Len(msgs) : i = 1 \/ (i - 1 \in 1..Len(msgs') /\ msgs'[i - 1] = msgs[i])
  BY Receives
<1>2. Running'
  BY <1>1 DEF TimerInv, Running
<1>3. NoLeakedDelegate'
  <2> SUFFICES ASSUME NEW d \in live, inQueue(<<"remove", d>>) PROVE inQueue(<<"remove", d>>)'
    BY DEF TimerInv, NoLeakedDelegate
  <2>1. PICK i \in 1..Len(msgs) : msgs[i] = <<"remove", d>>
    BY DEF inQueue
  <2>2. i # 1
    BY <1>1, <2>1
  <2> QED
    BY <1>1, <2>1, <2>2 DEF inQueue
<1>4. \A i \in 1..Len(msgs') : msgs'[i][1] # "expire" => msgs'[i][2] \in live
  BY <1>1 DEF TimerInv, NoDanglingDelegate
<1> QED
  BY <1>2, <1>3, <1>4

(* The top of the heap is taken, and another comes up.                     *)
LEMMA Pops ==
  ASSUME TimerInv, heap # {}, Heap!popped
  PROVE  /\ top \in heap /\ top \in Delegates /\ top # NULL
         /\ heap' \subseteq heap /\ heap' \subseteq Delegates /\ top' \in Delegates \cup {NULL}
         /\ HeapHasTop'
<1>1. top \in heap /\ heap \subseteq Delegates
  BY DEF TimerInv, TypeOK, HeapHasTop
<1>2. heap' \subseteq heap /\ IF heap' = {} THEN top' = NULL ELSE top' \in heap'
  BY DEF Heap!popped, Heap!Best
<1> QED
  BY <1>1, <1>2, NullAssumption DEF HeapHasTop

-----------------------------------------------------------------------------
LEMMA StartStep == ASSUME NEW c \in Clients, NEW timeOut \in Timeouts, TimerInv, start(c, timeOut) PROVE TimerInv'
<1> USE TimerAssumption, NullAssumption
<1> DEFINE d == [n |-> starts + 1, due |-> now + timeOut, owner |-> c]
<1>a. /\ mTimer[c] = NULL /\ starts < MaxStarts /\ now + timeOut <= MaxTime
      /\ mTimer' = [mTimer EXCEPT ![c] = d] /\ live' = live \cup {d} /\ msgs' = Append(msgs, <<"push", d>>)
      /\ starts' = starts + 1 /\ born' = born \cup {c} /\ tally' = [tally EXCEPT ![c] = @ + 1]
  BY DEF start
<1>u. UNCHANGED <<now, dead, nulled, heap, top, task, cur, client, timerOfNow, armed, polled, poll>>
  BY DEF start, container, fd
<1>b. starts \in 0..MaxStarts /\ now \in 0..MaxTime /\ timeOut \in Nat /\ MaxStarts \in Nat /\ MaxTime \in Nat
  BY DEF TimerInv, TypeOK
<1>c. d \in Delegates /\ d # NULL /\ d.owner = c /\ d.n = starts + 1
  BY <1>a, <1>b DEF Delegates
<1> HIDE DEF d
<1>d. d \notin live
  BY <1>b, <1>c DEF TimerInv, NumberedByStarts
<1>e. /\ mTimer' \in [Clients -> Delegates \cup {NULL}]
      /\ \A e \in Clients : mTimer'[e] = IF e = c THEN d ELSE mTimer[e]
  BY <1>a, <1>c DEF TimerInv, TypeOK
<1>f. /\ msgs' \in Seq(Messages) /\ Len(msgs) \in Nat /\ Len(msgs') = Len(msgs) + 1
      /\ \A i \in 1..Len(msgs) : msgs'[i] = msgs[i]
      /\ msgs'[Len(msgs) + 1] = <<"push", d>>
  <2>1. <<"push", d>> \in Messages
    BY <1>c DEF Messages
  <2>2. msgs \in Seq(Messages)
    BY DEF TimerInv, TypeOK
  <2> QED
    BY <1>a, <2>1, <2>2, QueueAppend
<1>g. /\ \A i \in 1..Len(msgs') : i \in 1..Len(msgs) \/ i = Len(msgs) + 1
      /\ \A i \in 1..Len(msgs) : i \in 1..Len(msgs')
  BY <1>f
<1>h. \A i \in 1..Len(msgs) : msgs[i][1] # "expire" => msgs[i][2] \in live
  BY DEF TimerInv, NoDanglingDelegate
<1>1. TypeOK'
  <2>1. starts' \in 0..MaxStarts
    BY <1>a, <1>b
  <2>2. live' \subseteq Delegates /\ born' \subseteq Clients
    BY <1>a, <1>c DEF TimerInv, TypeOK
  <2>3. tally' \in [Clients -> Nat]
    BY <1>a DEF TimerInv, TypeOK
  <2> QED
    BY <1>e, <1>f, <1>u, <2>1, <2>2, <2>3 DEF TimerInv, TypeOK
<1>2. HeapHasTop'
  BY <1>u DEF TimerInv, HeapHasTop
<1>3. AtWork'
  BY <1>u DEF TimerInv, AtWork
<1>4. Running'
  <2> SUFFICES ASSUME NEW e \in Clients, mTimer'[e] # NULL
               PROVE  /\ mTimer'[e] \in live' /\ mTimer'[e].owner = e
                      /\ \A i \in 1..Len(msgs') : msgs'[i][1] = "remove" => msgs'[i][2] # mTimer'[e]
    BY DEF Running
  <2>1. \A i \in 1..Len(msgs') : msgs'[i][1] = "remove" => i \in 1..Len(msgs) /\ msgs'[i] = msgs[i]
    BY <1>f, <1>g
  <2>2. CASE e = c
    BY <1>a, <1>c, <1>d, <1>e, <1>h, <2>1, <2>2
  <2>3. CASE e # c
    BY <1>a, <1>e, <2>1, <2>3 DEF TimerInv, Running
  <2> QED
    BY <2>2, <2>3
<1>5. NumberedByStarts'
  <2>1. \A e \in live : e.n \in Nat /\ e.n <= starts
    BY DEF TimerInv, TypeOK, Delegates, NumberedByStarts
  <2> QED
    BY <1>a, <1>b, <1>c, <2>1 DEF NumberedByStarts
<1>6. RemovedLast'
  <2> SUFFICES ASSUME NEW i \in 1..Len(msgs'), NEW j \in 1..Len(msgs'), msgs'[j][1] = "remove",
                      msgs'[i][1] # "expire", msgs'[i][2] = msgs'[j][2]
               PROVE  i <= j
    BY DEF RemovedLast
  <2>1. j \in 1..Len(msgs) /\ msgs'[j] = msgs[j] /\ msgs[j][2] # d
    BY <1>d, <1>f, <1>g, <1>h
  <2>2. i \in 1..Len(msgs) /\ msgs'[i] = msgs[i]
    BY <1>f, <1>g, <2>1
  <2> QED
    BY <2>1, <2>2 DEF TimerInv, RemovedLast
<1>7. Watched'
  <2>1. inQueue(<<"expire">>) => inQueue(<<"expire">>)'
    BY <1>f, <1>g DEF inQueue
  <2> QED
    BY <1>u, <2>1 DEF TimerInv, Watched, Expiring
<1>8. OncePerStart'
  <2>1. \A e \in Clients : tally[e] \in Nat /\ tally'[e] = IF e = c THEN tally[e] + 1 ELSE tally[e]
    BY <1>a DEF TimerInv, TypeOK
  <2> QED
    BY <1>a, <1>c, <1>e, <1>u, <2>1 DEF TimerInv, OncePerStart
<1>9. NoDanglingDelegate'
  <2>1. \A i \in 1..Len(msgs') : msgs'[i][1] # "expire" => msgs'[i][2] \in live'
    BY <1>a, <1>f, <1>g, <1>h
  <2> QED
    BY <1>a, <1>u, <2>1 DEF TimerInv, NoDanglingDelegate
<1>10. NoLeakedDelegate'
  <2> SUFFICES ASSUME NEW e \in live' PROVE mTimer'[e.owner] = e \/ inQueue(<<"remove", e>>)'
    BY DEF NoLeakedDelegate
  <2>1. CASE e = d
    BY <1>c, <1>e, <2>1
  <2>2. CASE e \in live /\ mTimer[e.owner] = e
    <3>1. e.owner \in Clients /\ e # NULL
      BY <2>2 DEF TimerInv, TypeOK, Delegates
    <3> QED
      BY <1>a, <1>e, <2>2, <3>1
  <2>3. CASE inQueue(<<"remove", e>>)
    BY <1>f, <1>g, <2>3 DEF inQueue
  <2> QED
    BY <1>a, <2>1, <2>2, <2>3 DEF TimerInv, NoLeakedDelegate
<1> QED
  BY <1>1, <1>2, <1>3, <1>4, <1>5, <1>6, <1>7, <1>8, <1>9, <1>10 DEF TimerInv

LEMMA StopStep == ASSUME NEW c \in Clients, TimerInv, stop(c) PROVE TimerInv'
<1> USE TimerAssumption, NullAssumption
<1>u. UNCHANGED <<now, born, dead, starts, live, heap, top, task, cur, client, timerOfNow, armed, polled, poll>>
  BY DEF stop, container, fd
<1>a. mTimer[c] # NULL /\ destroyLocked(c) /\ tally' = [tally EXCEPT ![c] = @ - 1]
  BY DEF stop
<1>d. /\ mTimer' \in [Clients -> Delegates \cup {NULL}] /\ nulled' \subseteq Delegates
      /\ msgs' \in Seq(Messages) /\ (inQueue(<<"expire">>)' <=> inQueue(<<"expire">>))
      /\ Running' /\ RemovedLast' /\ NoLeakedDelegate'
      /\ \A i \in 1..Len(msgs') : msgs'[i][1] # "expire" => msgs'[i][2] \in live
  BY <1>a, <1>u, Destroys
<1>e. \A e \in Clients : tally[e] \in Nat /\ (mTimer[e] # NULL => tally[e] > 0)
  BY DEF TimerInv, TypeOK, OncePerStart
<1>f. /\ tally' \in [Clients -> Nat]
      /\ \A e \in Clients : tally'[e] = IF e = c THEN tally[e] - 1 ELSE tally[e]
  BY <1>a, <1>e DEF TimerInv, TypeOK
<1>g. \A e \in Clients : mTimer'[e] = IF e = c THEN NULL ELSE mTimer[e]
  BY <1>a DEF TimerInv, TypeOK, destroyLocked
<1>1. TypeOK'
  BY <1>d, <1>f, <1>u DEF TimerInv, TypeOK
<1>2. HeapHasTop'
  BY <1>u DEF TimerInv, HeapHasTop
<1>3. AtWork'
  BY <1>u DEF TimerInv, AtWork
<1>4. Running'
  BY <1>d
<1>5. NumberedByStarts'
  BY <1>u DEF TimerInv, NumberedByStarts
<1>6. RemovedLast'
  BY <1>d
<1>7. Watched'
  BY <1>d, <1>u DEF TimerInv, Watched, Expiring
<1>8. OncePerStart'
  BY <1>a, <1>e, <1>f, <1>g, <1>u DEF TimerInv, OncePerStart
<1>9. NoDanglingDelegate'
  BY <1>d, <1>u DEF TimerInv, NoDanglingDelegate
<1>10. NoLeakedDelegate'
  BY <1>d
<1> QED
  BY <1>1, <1>2, <1>3, <1>4, <1>5, <1>6, <1>7, <1>8, <1>9, <1>10 DEF TimerInv

LEMMA TimerStopStep == ASSUME NEW c \in Clients, TimerInv, loc_timer_stop(c) PROVE TimerInv'
<1> USE TimerAssumption, NullAssumption
<1>u. UNCHANGED <<now, born, starts, live, heap, top, task, cur, client, timerOfNow, armed, polled, poll>>
  BY DEF loc_timer_stop, container, fd
<1>a. /\ mTimer[c] # NULL => destroyLocked(c) /\ tally' = [tally EXCEPT ![c] = @ - 1]
      /\ mTimer[c] = NULL => UNCHANGED <<mTimer, nulled, msgs, tally>>
      /\ dead' = dead \cup {c}
  BY DEF loc_timer_stop
<1>d. /\ mTimer' \in [Clients -> Delegates \cup {NULL}] /\ nulled' \subseteq Delegates
      /\ msgs' \in Seq(Messages) /\ (inQueue(<<"expire">>)' <=> inQueue(<<"expire">>))
      /\ Running' /\ RemovedLast' /\ NoLeakedDelegate'
      /\ \A i \in 1..Len(msgs') : msgs'[i][1] # "expire" => msgs'[i][2] \in live
  <2>1. CASE mTimer[c] # NULL
    BY <1>a, <1>u, <2>1, Destroys
  <2>2. CASE mTimer[c] = NULL
    <3>1. Running' /\ RemovedLast'
      BY <1>u, <1>a, <2>2 DEF TimerInv, Running, RemovedLast
    <3>2. NoLeakedDelegate' /\ (inQueue(<<"expire">>)' <=> inQueue(<<"expire">>))
      BY <1>u, <1>a, <2>2 DEF TimerInv, NoLeakedDelegate, inQueue
    <3> QED
      BY <1>u, <1>a, <2>2, <3>1, <3>2 DEF TimerInv, TypeOK, NoDanglingDelegate
  <2> QED
    BY <2>1, <2>2
<1>e. \A e \in Clients : tally[e] \in Nat /\ (mTimer[e] # NULL => tally[e] > 0)
  BY DEF TimerInv, TypeOK, OncePerStart
<1>f. /\ tally' \in [Clients -> Nat]
      /\ \A e \in Clients : tally'[e] = IF e = c /\ mTimer[c] # NULL THEN tally[e] - 1 ELSE tally[e]
  BY <1>a, <1>e DEF TimerInv, TypeOK
<1>g. \A e \in Clients : mTimer'[e] = IF e = c THEN NULL ELSE mTimer[e]
  BY <1>a DEF TimerInv, TypeOK, destroyLocked
<1>1. TypeOK'
  BY <1>a, <1>d, <1>f, <1>u DEF TimerInv, TypeOK
<1>2. HeapHasTop'
  BY <1>u DEF TimerInv, HeapHasTop
<1>3. AtWork'
  BY <1>u DEF TimerInv, AtWork
<1>4. Running'
  BY <1>d
<1>5. NumberedByStarts'
  BY <1>u DEF TimerInv, NumberedByStarts
<1>6. RemovedLast'
  BY <1>d
<1>7. Watched'
  BY <1>d, <1>u DEF TimerInv, Watched, Expiring
<1>8. OncePerStart'
  BY <1>a, <1>e, <1>f, <1>g, <1>u DEF TimerInv, OncePerStart
<1>9. NoDanglingDelegate'
  BY <1>d, <1>u DEF TimerInv, NoDanglingDelegate
<1>10. NoLeakedDelegate'
  BY <1>d
<1> QED
  BY <1>1, <1>2, <1>3, <1>4, <1>5, <1>6, <1>7, <1>8, <1>9, <1>10 DEF TimerInv

LEMMA SettimeStep == ASSUME TimerInv, settime PROVE TimerInv'
<1> USE TimerAssumption, NullAssumption DEF settime, clients, container, fd
<1>1. TypeOK'
  <2>1. top.due \in 0..MaxTime
    BY DEF TimerInv, TypeOK, AtWork, Delegates
  <2>2. armed' \in 0..Never
    BY <2>1 DEF Never
  <2> QED
    BY <2>2 DEF TimerInv, TypeOK
<1>2. HeapHasTop'
  BY DEF TimerInv, HeapHasTop, TypeOK
<1>3. AtWork'
  BY DEF TimerInv, AtWork, TypeOK
<1>4. Running'
  BY DEF TimerInv, Running, TypeOK
<1>5. NumberedByStarts'
  BY DEF TimerInv, NumberedByStarts, TypeOK
<1>6. RemovedLast'
  BY DEF TimerInv, RemovedLast, TypeOK
<1>7. Watched'
  BY DEF TimerInv, AtWork, Watched, Expiring, inQueue
<1>8. OncePerStart'
  BY DEF TimerInv, OncePerStart, TypeOK
<1>9. NoDanglingDelegate'
  BY DEF TimerInv, NoDanglingDelegate, TypeOK
<1>10. NoLeakedDelegate'
  BY DEF TimerInv, NoLeakedDelegate, inQueue, TypeOK
<1> QED
  BY <1>1, <1>2, <1>3, <1>4, <1>5, <1>6, <1>7, <1>8, <1>9, <1>10 DEF TimerInv

LEMMA PushStep == ASSUME TimerInv, MsgTimerPush PROVE TimerInv'
<1> USE TimerAssumption, NullAssumption
<1>u. UNCHANGED <<now, mTimer, born, dead, starts, live, nulled, tally, cur, client, timerOfNow, poll, armed>>
  BY DEF MsgTimerPush, pollFor, clients
<1>a. receives("push")
  BY DEF MsgTimerPush
<1>r. /\ task = "idle" /\ msgs' \in Seq(Messages) /\ Len(msgs) \in Nat \ {0} /\ Len(msgs') = Len(msgs) - 1
      /\ Head(msgs) = msgs[1] /\ msgs[1] \in Messages /\ msgs[1][1] = "push"
      /\ \A i \in 1..Len(msgs') : i + 1 \in 1..Len(msgs) /\ msgs'[i] = msgs[i + 1]
      /\ \A i \in 1..Len(msgs) : i = 1 \/ (i - 1 \in 1..Len(msgs') /\ msgs'[i - 1] = msgs[i])
      /\ RemovedLast'
      /\ inQueue(<<"expire">>) => inQueue(<<"expire">>)'
  BY <1>a, Receives
<1>o. /\ Running' /\ NoLeakedDelegate'
      /\ \A i \in 1..Len(msgs') : msgs'[i][1] # "expire" => msgs'[i][2] \in live
  BY <1>a, <1>u, ReceivesOther
<1> DEFINE d == Head(msgs)[2]
<1>b. d \in live /\ d \in Delegates /\ d # NULL
  <2>1. 1 \in 1..Len(msgs)
    BY <1>r
  <2> QED
    BY <1>r, <2>1 DEF TimerInv, TypeOK, NoDanglingDelegate
<1>c. Heap!pushed(d) /\ pollFor(updateSoonestTime(top, top'))
  BY DEF MsgTimerPush
<1> HIDE DEF d
<1>d. heap' = heap \cup {d} /\ top' = IF top = NULL \/ ranks(d, top) THEN d ELSE top
  BY <1>c DEF Heap!pushed
<1>e. top' \in Delegates /\ top' # NULL /\ top' \in heap'
  BY <1>b, <1>d DEF TimerInv, TypeOK, HeapHasTop
<1>f. updateSoonestTime(top, top') = IF top = NULL \/ top' # top THEN "arm" ELSE "idle"
  <2>1. CASE top = NULL
    BY <1>e, <2>1, UpdateFromNone
  <2>2. CASE top # NULL
    BY <1>d, <1>e, <2>2, UpdateAfterPush
  <2> QED
    BY <2>1, <2>2
<1>g. \/ task' = "idle" /\ top # NULL /\ top' = top /\ polled' = polled
      \/ task' = "arm" /\ polled' = TRUE
  <2>1. CASE top = NULL \/ top' # top
    <3>1. task' = "arm" /\ polled' = ("arm" = "arm")
      BY <1>c, <1>f, <2>1 DEF pollFor
    <3> QED
      BY <3>1
  <2>2. CASE ~(top = NULL \/ top' # top)
    BY <1>c, <1>f, <2>2 DEF pollFor
  <2> QED
    BY <2>1, <2>2
<1>h. polled' \in BOOLEAN
  BY <1>g, Zenon DEF TimerInv, TypeOK
<1>1. TypeOK'
  <2>1. heap' \subseteq Delegates
    BY <1>b, <1>d DEF TimerInv, TypeOK
  <2> QED
    BY <1>e, <1>g, <1>h, <1>r, <1>u, <2>1 DEF TimerInv, TypeOK
<1>2. HeapHasTop'
  BY <1>e DEF HeapHasTop
<1>3. AtWork'
  BY <1>e, <1>g, <1>u DEF TimerInv, AtWork
<1>4. Running'
  BY <1>o
<1>5. NumberedByStarts'
  BY <1>u DEF TimerInv, NumberedByStarts
<1>6. RemovedLast'
  BY <1>r
<1>7. Watched'
  <2> SUFFICES ASSUME ~Expiring', task' = "idle" PROVE polled' /\ armed' = top'.due
    BY <1>g DEF Watched
  <2>1. ~Expiring
    BY <1>r, <1>u DEF Expiring
  <2>2. heap # {} /\ top' = top /\ polled' = polled
    BY <1>g DEF TimerInv, HeapHasTop
  <2> QED
    BY <1>r, <1>u, <2>1, <2>2 DEF TimerInv, Watched
<1>8. OncePerStart'
  BY <1>g, <1>r, <1>u DEF TimerInv, OncePerStart
<1>9. NoDanglingDelegate'
  <2>1. heap' \subseteq live'
    BY <1>b, <1>d, <1>u DEF TimerInv, NoDanglingDelegate
  <2> QED
    BY <1>g, <1>o, <1>u, <2>1 DEF NoDanglingDelegate
<1>10. NoLeakedDelegate'
  BY <1>o
<1> QED
  BY <1>1, <1>2, <1>3, <1>4, <1>5, <1>6, <1>7, <1>8, <1>9, <1>10 DEF TimerInv

LEMMA RemoveStep == ASSUME TimerInv, MsgTimerRemove PROVE TimerInv'
<1> USE TimerAssumption, NullAssumption
<1>u. UNCHANGED <<now, mTimer, born, dead, starts, tally, cur, client, timerOfNow, poll, armed>>
  BY DEF MsgTimerRemove, pollFor
<1>a. receives("remove")
  BY DEF MsgTimerRemove
<1>r. /\ task = "idle" /\ msgs' \in Seq(Messages) /\ Len(msgs) \in Nat \ {0} /\ Len(msgs') = Len(msgs) - 1
      /\ Head(msgs) = msgs[1] /\ msgs[1] \in Messages /\ msgs[1][1] = "remove"
      /\ \A i \in 1..Len(msgs') : i + 1 \in 1..Len(msgs) /\ msgs'[i] = msgs[i + 1]
      /\ \A i \in 1..Len(msgs) : i = 1 \/ (i - 1 \in 1..Len(msgs') /\ msgs'[i - 1] = msgs[i])
      /\ RemovedLast'
      /\ inQueue(<<"expire">>) => inQueue(<<"expire">>)'
  BY <1>a, Receives
<1> DEFINE d == Head(msgs)[2]
<1>x. 1 \in 1..Len(msgs)
  BY <1>r
<1>b. d = msgs[1][2] /\ d \in live /\ d \in Delegates /\ d # NULL
  BY <1>r, <1>x DEF TimerInv, TypeOK, NoDanglingDelegate
<1>c. /\ Heap!removed(d) /\ live' = live \ {d} /\ nulled' = nulled \ {d}
      /\ pollFor(IF top = (IF d \in heap THEN d ELSE NULL) THEN updateSoonestTime(NULL, top') ELSE "idle")
  BY DEF MsgTimerRemove
<1> HIDE DEF d
<1>d. /\ heap' = heap \ {d}
      /\ d # top => top' = top
      /\ d = top => IF heap' = {} THEN top' = NULL ELSE top' \in heap'
  BY <1>c DEF Heap!removed, Heap!Best
<1>e. HeapHasTop' /\ heap' \subseteq Delegates /\ top' \in Delegates \cup {NULL}
  BY <1>b, <1>d DEF TimerInv, TypeOK, HeapHasTop
<1>f. \/ task' = "idle" /\ top' = top /\ polled' = polled
      \/ task' = "idle" /\ top' = NULL /\ polled' = polled
      \/ task' = "arm" /\ top' # NULL /\ polled' = TRUE
  <2>1. CASE top = (IF d \in heap THEN d ELSE NULL) /\ top' # NULL
    <3>1. task' = "arm" /\ polled' = ("arm" = "arm")
      BY <1>c, <2>1, UpdateFromNone DEF pollFor
    <3> QED
      BY <2>1, <3>1
  <2>2. CASE top = (IF d \in heap THEN d ELSE NULL) /\ top' = NULL
    BY <1>c, <2>2, UpdateFromNone DEF pollFor
  <2>3. CASE top # (IF d \in heap THEN d ELSE NULL)
    <3>1. d # top
      BY <1>b, <2>3 DEF TimerInv, HeapHasTop
    <3> QED
      BY <1>c, <1>d, <2>3, <3>1 DEF pollFor
  <2> QED
    BY <2>1, <2>2, <2>3
<1>g. polled' \in BOOLEAN
  BY <1>f, Zenon DEF TimerInv, TypeOK
<1>h. \A i \in 1..Len(msgs') : msgs'[i][1] # "expire" => msgs'[i][2] # d /\ msgs'[i][2] \in live
  <2> SUFFICES ASSUME NEW i \in 1..Len(msgs'), msgs'[i][1] # "expire" PROVE msgs'[i][2] # d /\ msgs'[i][2] \in live
    OBVIOUS
  <2>1. i + 1 \in 1..Len(msgs) /\ msgs'[i] = msgs[i + 1] /\ ~(i + 1 <= 1)
    BY <1>r
  <2>2. msgs[i + 1][2] \in live
    BY <2>1 DEF TimerInv, NoDanglingDelegate
  <2>3. msgs[i + 1][2] # msgs[1][2]
    BY <1>r, <1>x, <2>1 DEF TimerInv, RemovedLast
  <2> QED
    BY <1>b, <2>1, <2>2, <2>3
<1>1. TypeOK'
  <2>1. live' \subseteq Delegates /\ nulled' \subseteq Delegates
    BY <1>c DEF TimerInv, TypeOK
  <2> QED
    BY <1>e, <1>f, <1>g, <1>r, <1>u, <2>1 DEF TimerInv, TypeOK
<1>2. HeapHasTop'
  BY <1>e
<1>3. AtWork'
  BY <1>f, <1>u DEF TimerInv, AtWork
<1>4. Running'
  <2> SUFFICES ASSUME NEW e \in Clients, mTimer[e] # NULL
               PROVE  /\ mTimer[e] \in live' /\ mTimer[e].owner = e
                      /\ \A i \in 1..Len(msgs') : msgs'[i][1] = "remove" => msgs'[i][2] # mTimer[e]
    BY <1>u DEF Running
  <2>1. /\ mTimer[e] \in live /\ mTimer[e].owner = e
        /\ \A i \in 1..Len(msgs) : msgs[i][1] = "remove" => msgs[i][2] # mTimer[e]
    BY DEF TimerInv, Running
  <2>2. mTimer[e] # d
    BY <1>r, <1>x, <1>b, <2>1
  <2> QED
    BY <1>c, <1>r, <2>1, <2>2
<1>5. NumberedByStarts'
  BY <1>c, <1>u DEF TimerInv, NumberedByStarts
<1>6. RemovedLast'
  BY <1>r
<1>7. Watched'
  <2> SUFFICES ASSUME ~Expiring', task' = "idle", heap' # {} PROVE polled' /\ armed' = top'.due
    BY <1>f DEF Watched
  <2>1. ~Expiring
    BY <1>r, <1>u DEF Expiring
  <2>2. heap # {} /\ top' = top /\ polled' = polled
    BY <1>d, <1>e, <1>f DEF HeapHasTop
  <2> QED
    BY <1>r, <1>u, <2>1, <2>2 DEF TimerInv, Watched
<1>8. OncePerStart'
  BY <1>f, <1>r, <1>u DEF TimerInv, OncePerStart
<1>9. NoDanglingDelegate'
  BY <1>c, <1>d, <1>f, <1>h DEF TimerInv, NoDanglingDelegate
<1>10. NoLeakedDelegate'
  <2> SUFFICES ASSUME NEW e \in live, e # d, inQueue(<<"remove", e>>) PROVE inQueue(<<"remove", e>>)'
    BY <1>c, <1>u DEF TimerInv, NoLeakedDelegate
  <2>1. PICK i \in 1..Len(msgs) : msgs[i] = <<"remove", e>>
    BY DEF inQueue
  <2>2. i # 1
    BY <1>b, <2>1
  <2> QED
    BY <1>r, <2>1, <2>2 DEF inQueue
<1> QED
  BY <1>1, <1>2, <1>3, <1>4, <1>5, <1>6, <1>7, <1>8, <1>9, <1>10 DEF TimerInv

LEMMA ExpireStep == ASSUME TimerInv, MsgTimerExpire PROVE TimerInv'
<1> USE TimerAssumption, NullAssumption
<1>u. UNCHANGED <<now, mTimer, born, dead, starts, live, nulled, tally, client, armed, polled, poll>>
  BY DEF MsgTimerExpire, clients, fd
<1>a. receives("expire")
  BY DEF MsgTimerExpire
<1>r. /\ task = "idle" /\ msgs' \in Seq(Messages) /\ Len(msgs) \in Nat \ {0} /\ Len(msgs') = Len(msgs) - 1
      /\ Head(msgs) = msgs[1] /\ msgs[1] \in Messages /\ msgs[1][1] = "expire"
      /\ \A i \in 1..Len(msgs') : i + 1 \in 1..Len(msgs) /\ msgs'[i] = msgs[i + 1]
      /\ \A i \in 1..Len(msgs) : i = 1 \/ (i - 1 \in 1..Len(msgs') /\ msgs'[i - 1] = msgs[i])
      /\ RemovedLast'
  BY <1>a, Receives
<1>o. /\ Running' /\ NoLeakedDelegate'
      /\ \A i \in 1..Len(msgs') : msgs'[i][1] # "expire" => msgs'[i][2] \in live
  BY <1>a, <1>u, ReceivesOther
<1>b. \/ heap = {} /\ task' = "idle" /\ UNCHANGED <<heap, top, cur, timerOfNow>>
      \/ heap # {} /\ Heap!popped /\ timerOfNow' = [due |-> now] /\ cur' = top /\ task' = "expire"
  BY DEF MsgTimerExpire, container
<1>c. /\ HeapHasTop' /\ heap' \subseteq heap /\ heap' \subseteq Delegates /\ top' \in Delegates \cup {NULL}
      /\ heap # {} => top \in heap /\ top \in Delegates
  <2>1. CASE heap = {}
    BY <1>b, <2>1 DEF TimerInv, TypeOK, HeapHasTop
  <2>2. CASE heap # {}
    BY <1>b, <2>2, Pops
  <2> QED
    BY <2>1, <2>2
<1>1. TypeOK'
  <2>1. [due |-> now] \in [due : 0..MaxTime]
    BY DEF TimerInv, TypeOK
  <2> QED
    BY <1>b, <1>c, <1>r, <1>u, <2>1 DEF TimerInv, TypeOK
<1>2. HeapHasTop'
  BY <1>c
<1>3. AtWork'
  BY <1>b, <1>u DEF TimerInv, AtWork
<1>4. Running'
  BY <1>o
<1>5. NumberedByStarts'
  BY <1>u DEF TimerInv, NumberedByStarts
<1>6. RemovedLast'
  BY <1>r
<1>7. Watched'
  BY <1>b DEF Watched
<1>8. OncePerStart'
  BY <1>b, <1>r, <1>u DEF TimerInv, OncePerStart
<1>9. NoDanglingDelegate'
  BY <1>b, <1>c, <1>o, <1>u DEF TimerInv, NoDanglingDelegate
<1>10. NoLeakedDelegate'
  BY <1>o
<1> QED
  BY <1>1, <1>2, <1>3, <1>4, <1>5, <1>6, <1>7, <1>8, <1>9, <1>10 DEF TimerInv

LEMMA ReadClientStep == ASSUME TimerInv, readClient PROVE TimerInv'
<1> USE TimerAssumption, NullAssumption DEF readClient, clients, container, fd
<1>1. TypeOK'
  <2>1. cur.owner \in Clients
    BY DEF TimerInv, TypeOK, NoDanglingDelegate, Delegates
  <2> QED
    BY <2>1 DEF TimerInv, TypeOK
<1>2. HeapHasTop'
  BY DEF TimerInv, HeapHasTop, TypeOK
<1>3. AtWork'
  <2>1. cur.owner \in Clients
    BY DEF TimerInv, TypeOK, NoDanglingDelegate, Delegates
  <2> QED
    BY <2>1 DEF TimerInv, AtWork
<1>4. Running'
  BY DEF TimerInv, Running, TypeOK
<1>5. NumberedByStarts'
  BY DEF TimerInv, NumberedByStarts, TypeOK
<1>6. RemovedLast'
  BY DEF TimerInv, RemovedLast, TypeOK
<1>7. Watched'
  BY DEF TimerInv, Watched, Expiring, inQueue, TypeOK
<1>8. OncePerStart'
  BY DEF TimerInv, OncePerStart, TypeOK
<1>9. NoDanglingDelegate'
  BY DEF TimerInv, NoDanglingDelegate, TypeOK
<1>10. NoLeakedDelegate'
  BY DEF TimerInv, NoLeakedDelegate, inQueue, TypeOK
<1> QED
  BY <1>1, <1>2, <1>3, <1>4, <1>5, <1>6, <1>7, <1>8, <1>9, <1>10 DEF TimerInv

LEMMA StopClientStep == ASSUME TimerInv, stopClient PROVE TimerInv'
<1> USE TimerAssumption, NullAssumption
<1>u. UNCHANGED <<now, born, dead, starts, live, tally, heap, top, client, timerOfNow, armed, polled, poll>>
  BY DEF stopClient, container, fd
<1>a. /\ task = "stop" /\ client \in Clients
      /\ mTimer[client] # NULL => destroyLocked(client) /\ cur' = mTimer[client] /\ task' = "callback"
      /\ mTimer[client] = NULL => UNCHANGED <<mTimer, nulled, msgs, cur>> /\ task' = "next"
  BY DEF TimerInv, AtWork, stopClient
<1>d. /\ mTimer' \in [Clients -> Delegates \cup {NULL}] /\ nulled' \subseteq Delegates
      /\ msgs' \in Seq(Messages) /\ (inQueue(<<"expire">>)' <=> inQueue(<<"expire">>))
      /\ Running' /\ RemovedLast' /\ NoLeakedDelegate'
      /\ \A i \in 1..Len(msgs') : msgs'[i][1] # "expire" => msgs'[i][2] \in live
  <2>1. CASE mTimer[client] # NULL
    BY <1>a, <1>u, <2>1, Destroys
  <2>2. CASE mTimer[client] = NULL
    <3>1. Running' /\ RemovedLast'
      BY <1>u, <1>a, <2>2 DEF TimerInv, Running, RemovedLast
    <3>2. NoLeakedDelegate' /\ (inQueue(<<"expire">>)' <=> inQueue(<<"expire">>))
      BY <1>u, <1>a, <2>2 DEF TimerInv, NoLeakedDelegate, inQueue
    <3> QED
      BY <1>u, <1>a, <2>2, <3>1, <3>2 DEF TimerInv, TypeOK, NoDanglingDelegate
  <2> QED
    BY <2>1, <2>2
<1>g. \A e \in Clients : mTimer'[e] = IF e = client THEN NULL ELSE mTimer[e]
  BY <1>a DEF TimerInv, TypeOK, destroyLocked
<1>1. TypeOK'
  BY <1>a, <1>d, <1>u DEF TimerInv, TypeOK
<1>2. HeapHasTop'
  BY <1>u DEF TimerInv, HeapHasTop
<1>3. AtWork'
  BY <1>a, <1>u DEF TimerInv, AtWork
<1>4. Running'
  BY <1>d
<1>5. NumberedByStarts'
  BY <1>u DEF TimerInv, NumberedByStarts
<1>6. RemovedLast'
  BY <1>d
<1>7. Watched'
  BY <1>a DEF Watched
<1>8. OncePerStart'
  BY <1>a, <1>g, <1>u DEF TimerInv, OncePerStart
<1>9. NoDanglingDelegate'
  BY <1>a, <1>d, <1>u DEF TimerInv, NoDanglingDelegate
<1>10. NoLeakedDelegate'
  BY <1>d
<1> QED
  BY <1>1, <1>2, <1>3, <1>4, <1>5, <1>6, <1>7, <1>8, <1>9, <1>10 DEF TimerInv

LEMMA CallbackStep == ASSUME TimerInv, timeOutCallback PROVE TimerInv'
<1> USE TimerAssumption, NullAssumption DEF timeOutCallback, clients, container, fd
<1>1. TypeOK'
  <2>1. client \in Clients /\ \A e \in Clients : tally[e] \in Nat
    BY DEF TimerInv, TypeOK, AtWork
  <2>2. tally[client] > 0
    BY <2>1 DEF TimerInv, OncePerStart
  <2>3. tally' \in [Clients -> Nat]
    BY <2>1, <2>2 DEF TimerInv, TypeOK
  <2> QED
    BY <2>3 DEF TimerInv, TypeOK
<1>2. HeapHasTop'
  BY DEF TimerInv, HeapHasTop, TypeOK
<1>3. AtWork'
  BY DEF TimerInv, AtWork, TypeOK
<1>4. Running'
  BY DEF TimerInv, Running, TypeOK
<1>5. NumberedByStarts'
  BY DEF TimerInv, NumberedByStarts, TypeOK
<1>6. RemovedLast'
  BY DEF TimerInv, RemovedLast, TypeOK
<1>7. Watched'
  BY DEF TimerInv, Watched, Expiring, inQueue, TypeOK
<1>8. OncePerStart'
  BY DEF TimerInv, OncePerStart, TypeOK
<1>9. NoDanglingDelegate'
  BY DEF TimerInv, NoDanglingDelegate, TypeOK
<1>10. NoLeakedDelegate'
  BY DEF TimerInv, NoLeakedDelegate, inQueue, TypeOK
<1> QED
  BY <1>1, <1>2, <1>3, <1>4, <1>5, <1>6, <1>7, <1>8, <1>9, <1>10 DEF TimerInv

LEMMA PopNextStep == ASSUME TimerInv, popIfOutRanks PROVE TimerInv'
<1> USE TimerAssumption, NullAssumption
<1>u. UNCHANGED <<now, mTimer, born, dead, starts, live, nulled, tally, msgs, poll>>
  BY DEF popIfOutRanks, clients
<1>a. task = "next" /\ client' = NULL
  BY DEF popIfOutRanks
<1>b. \/ heap # {} /\ Heap!popped /\ cur' = top /\ task' = "expire" /\ UNCHANGED <<armed, polled, timerOfNow>>
      \/ pollFor(updateSoonestTime(NULL, top)) /\ cur' = NULL /\ timerOfNow' = NULL /\ UNCHANGED <<heap, top>>
  BY DEF popIfOutRanks, container, fd
<1>c. \/ /\ heap # {} /\ Heap!popped /\ cur' = top /\ task' = "expire"
         /\ UNCHANGED <<armed, polled, timerOfNow>>
      \/ /\ heap # {} /\ task' = "arm" /\ polled' = TRUE /\ cur' = NULL /\ timerOfNow' = NULL
         /\ UNCHANGED <<armed, heap, top>>
      \/ /\ heap = {} /\ task' = "idle" /\ cur' = NULL /\ timerOfNow' = NULL
         /\ UNCHANGED <<armed, polled, heap, top>>
  <2>1. CASE pollFor(updateSoonestTime(NULL, top)) /\ cur' = NULL /\ timerOfNow' = NULL /\ UNCHANGED <<heap, top>>
    <3>1. CASE top = NULL
      BY <2>1, <3>1, UpdateFromNone DEF pollFor, TimerInv, HeapHasTop, TypeOK
    <3>2. CASE top # NULL
      <4>1. task' = "arm" /\ polled' = ("arm" = "arm") /\ armed' = armed
        BY <2>1, <3>2, UpdateFromNone DEF pollFor
      <4> QED
        BY <2>1, <3>2, <4>1 DEF TimerInv, HeapHasTop
    <3> QED
      BY <3>1, <3>2
  <2> QED
    BY <1>b, <2>1
<1>d. /\ HeapHasTop' /\ heap' \subseteq heap /\ heap' \subseteq Delegates /\ top' \in Delegates \cup {NULL}
      /\ heap # {} => top \in heap /\ top \in Delegates /\ top # NULL
  <2>1. CASE UNCHANGED <<heap, top>>
    BY <2>1 DEF TimerInv, TypeOK, HeapHasTop
  <2>2. CASE heap # {} /\ Heap!popped
    BY <2>2, Pops
  <2> QED
    BY <1>c, <2>1, <2>2
<1>e. polled' \in BOOLEAN
  BY <1>c, Zenon DEF TimerInv, TypeOK
<1>1. TypeOK'
  BY <1>a, <1>c, <1>d, <1>e, <1>u DEF TimerInv, TypeOK
<1>2. HeapHasTop'
  BY <1>d
<1>3. AtWork'
  BY <1>c, <1>d DEF AtWork
<1>4. Running'
  BY <1>u DEF TimerInv, Running
<1>5. NumberedByStarts'
  BY <1>u DEF TimerInv, NumberedByStarts
<1>6. RemovedLast'
  BY <1>u DEF TimerInv, RemovedLast
<1>7. Watched'
  BY <1>c DEF Watched
<1>8. OncePerStart'
  BY <1>a, <1>c, <1>u DEF TimerInv, OncePerStart
<1>9. NoDanglingDelegate'
  BY <1>c, <1>d, <1>u DEF TimerInv, NoDanglingDelegate
<1>10. NoLeakedDelegate'
  BY <1>u DEF TimerInv, NoLeakedDelegate, inQueue
<1> QED
  BY <1>1, <1>2, <1>3, <1>4, <1>5, <1>6, <1>7, <1>8, <1>9, <1>10 DEF TimerInv

LEMMA EpollWaitStep == ASSUME TimerInv, epoll_wait PROVE TimerInv'
<1> USE TimerAssumption, NullAssumption DEF epoll_wait, clients, container, fd
<1>1. TypeOK'
  BY DEF TimerInv, TypeOK
<1>2. HeapHasTop'
  BY DEF TimerInv, HeapHasTop, TypeOK
<1>3. AtWork'
  BY DEF TimerInv, AtWork, TypeOK
<1>4. Running'
  BY DEF TimerInv, Running, TypeOK
<1>5. NumberedByStarts'
  BY DEF TimerInv, NumberedByStarts, TypeOK
<1>6. RemovedLast'
  BY DEF TimerInv, RemovedLast, TypeOK
<1>7. Watched'
  BY DEF TimerInv, Watched, Expiring, inQueue, TypeOK
<1>8. OncePerStart'
  BY DEF TimerInv, OncePerStart, TypeOK
<1>9. NoDanglingDelegate'
  BY DEF TimerInv, NoDanglingDelegate, TypeOK
<1>10. NoLeakedDelegate'
  BY DEF TimerInv, NoLeakedDelegate, inQueue, TypeOK
<1> QED
  BY <1>1, <1>2, <1>3, <1>4, <1>5, <1>6, <1>7, <1>8, <1>9, <1>10 DEF TimerInv

LEMMA DisarmStep == ASSUME TimerInv, disarm PROVE TimerInv'
<1> USE TimerAssumption, NullAssumption DEF disarm, clients, container, fd
<1>1. TypeOK'
  <2>1. armed' \in 0..Never
    BY DEF Never
  <2> QED
    BY <2>1 DEF TimerInv, TypeOK
<1>2. HeapHasTop'
  BY DEF TimerInv, HeapHasTop, TypeOK
<1>3. AtWork'
  BY DEF TimerInv, AtWork, TypeOK
<1>4. Running'
  BY DEF TimerInv, Running, TypeOK
<1>5. NumberedByStarts'
  BY DEF TimerInv, NumberedByStarts, TypeOK
<1>6. RemovedLast'
  BY DEF TimerInv, RemovedLast, TypeOK
<1>7. Watched'
  BY DEF TimerInv, Watched, Expiring, inQueue, TypeOK
<1>8. OncePerStart'
  BY DEF TimerInv, OncePerStart, TypeOK
<1>9. NoDanglingDelegate'
  BY DEF TimerInv, NoDanglingDelegate, TypeOK
<1>10. NoLeakedDelegate'
  BY DEF TimerInv, NoLeakedDelegate, inQueue, TypeOK
<1> QED
  BY <1>1, <1>2, <1>3, <1>4, <1>5, <1>6, <1>7, <1>8, <1>9, <1>10 DEF TimerInv

LEMMA RemovePollStep == ASSUME TimerInv, removePoll PROVE TimerInv'
<1> USE TimerAssumption, NullAssumption DEF removePoll, clients, container, fd
<1>1. TypeOK'
  BY DEF TimerInv, TypeOK
<1>2. HeapHasTop'
  BY DEF TimerInv, HeapHasTop, TypeOK
<1>3. AtWork'
  BY DEF TimerInv, AtWork, TypeOK
<1>4. Running'
  BY DEF TimerInv, Running, TypeOK
<1>5. NumberedByStarts'
  BY DEF TimerInv, NumberedByStarts, TypeOK
<1>6. RemovedLast'
  BY DEF TimerInv, RemovedLast, TypeOK
<1>7. Watched'
  BY DEF TimerInv, Watched, Expiring, inQueue, TypeOK
<1>8. OncePerStart'
  BY DEF TimerInv, OncePerStart, TypeOK
<1>9. NoDanglingDelegate'
  BY DEF TimerInv, NoDanglingDelegate, TypeOK
<1>10. NoLeakedDelegate'
  BY DEF TimerInv, NoLeakedDelegate, inQueue, TypeOK
<1> QED
  BY <1>1, <1>2, <1>3, <1>4, <1>5, <1>6, <1>7, <1>8, <1>9, <1>10 DEF TimerInv

LEMMA SendExpireStep == ASSUME TimerInv, sendExpire PROVE TimerInv'
<1> USE TimerAssumption, NullAssumption
<1>u. UNCHANGED <<now, clients, heap, top, task, cur, client, timerOfNow, armed, polled>>
  BY DEF sendExpire, container, fd
<1>a. poll' = "wait" /\ msgs' = Append(msgs, <<"expire">>) /\ msgs \in Seq(Messages)
  BY DEF TimerInv, TypeOK, sendExpire
<1>b. /\ msgs' \in Seq(Messages) /\ Len(msgs) \in Nat /\ Len(msgs') = Len(msgs) + 1
      /\ \A i \in 1..Len(msgs) : msgs'[i] = msgs[i]
      /\ msgs'[Len(msgs) + 1] = <<"expire">>
  <2>1. <<"expire">> \in Messages
    BY DEF Messages
  <2> QED
    BY <1>a, <2>1, QueueAppend
<1>c. /\ \A i \in 1..Len(msgs) : i \in 1..Len(msgs')
      /\ \A i \in 1..Len(msgs') : msgs'[i][1] # "expire" => i \in 1..Len(msgs) /\ msgs'[i] = msgs[i]
  BY <1>b
<1>1. TypeOK'
  BY <1>a, <1>b, <1>u DEF TimerInv, TypeOK, clients
<1>2. HeapHasTop'
  BY <1>u DEF TimerInv, HeapHasTop, clients
<1>3. AtWork'
  BY <1>u DEF TimerInv, AtWork, clients
<1>4. Running'
  BY <1>c, <1>u DEF TimerInv, Running, clients
<1>5. NumberedByStarts'
  BY <1>u DEF TimerInv, NumberedByStarts, clients
<1>6. RemovedLast'
  <2> SUFFICES ASSUME NEW i \in 1..Len(msgs'), NEW j \in 1..Len(msgs'), msgs'[j][1] = "remove",
                      msgs'[i][1] # "expire", msgs'[i][2] = msgs'[j][2]
               PROVE  i <= j
    BY DEF RemovedLast
  <2>1. /\ i \in 1..Len(msgs) /\ msgs'[i] = msgs[i]
        /\ j \in 1..Len(msgs) /\ msgs'[j] = msgs[j]
    BY <1>c
  <2> QED
    BY <2>1 DEF TimerInv, RemovedLast
<1>7. Watched'
  <2>1. Len(msgs) + 1 \in 1..Len(msgs')
    BY <1>b
  <2> QED
    BY <1>b, <2>1 DEF Watched, Expiring, inQueue
<1>8. OncePerStart'
  BY <1>u DEF TimerInv, OncePerStart, clients
<1>9. NoDanglingDelegate'
  BY <1>c, <1>u DEF TimerInv, NoDanglingDelegate, clients
<1>10. NoLeakedDelegate'
  <2> SUFFICES ASSUME NEW e \in live, inQueue(<<"remove", e>>) PROVE inQueue(<<"remove", e>>)'
    BY <1>u DEF TimerInv, NoLeakedDelegate, clients
  <2> QED
    BY <1>b, <1>c DEF inQueue
<1> QED
  BY <1>1, <1>2, <1>3, <1>4, <1>5, <1>6, <1>7, <1>8, <1>9, <1>10 DEF TimerInv

LEMMA TickStep == ASSUME TimerInv, tick PROVE TimerInv'
<1> USE TimerAssumption, NullAssumption DEF tick, clients, container, fd
<1>1. TypeOK'
  BY DEF TimerInv, TypeOK
<1>2. HeapHasTop'
  BY DEF TimerInv, HeapHasTop, TypeOK
<1>3. AtWork'
  BY DEF TimerInv, AtWork, TypeOK
<1>4. Running'
  BY DEF TimerInv, Running, TypeOK
<1>5. NumberedByStarts'
  BY DEF TimerInv, NumberedByStarts, TypeOK
<1>6. RemovedLast'
  BY DEF TimerInv, RemovedLast, TypeOK
<1>7. Watched'
  BY DEF TimerInv, Watched, Expiring, inQueue, TypeOK
<1>8. OncePerStart'
  BY DEF TimerInv, OncePerStart, TypeOK
<1>9. NoDanglingDelegate'
  BY DEF TimerInv, NoDanglingDelegate, TypeOK
<1>10. NoLeakedDelegate'
  BY DEF TimerInv, NoLeakedDelegate, inQueue, TypeOK
<1> QED
  BY <1>1, <1>2, <1>3, <1>4, <1>5, <1>6, <1>7, <1>8, <1>9, <1>10 DEF TimerInv

-----------------------------------------------------------------------------
LEMMA InvStep == TimerInv /\ [Next]_vars => TimerInv'
<1> SUFFICES ASSUME TimerInv, [Next]_vars PROVE TimerInv'
  OBVIOUS
<1>1. CASE \E c \in Clients : (\E timeOut \in Timeouts : start(c, timeOut)) \/ stop(c) \/ loc_timer_stop(c)
  BY <1>1, StartStep, StopStep, TimerStopStep
<1>2. CASE MsgTask
  BY <1>2, PushStep, RemoveStep, ExpireStep, SettimeStep, ReadClientStep, StopClientStep,
     CallbackStep, PopNextStep DEF MsgTask
<1>3. CASE PollTask
  BY <1>3, EpollWaitStep, DisarmStep, RemovePollStep, SendExpireStep DEF PollTask
<1>4. CASE tick
  BY <1>4, TickStep
<1>5. CASE UNCHANGED vars
  <2> USE <1>5 DEF vars, clients, container, fd
  <2>1. TypeOK' /\ HeapHasTop' /\ AtWork'
    BY DEF TimerInv, TypeOK, HeapHasTop, AtWork
  <2>2. Running' /\ NumberedByStarts' /\ RemovedLast'
    BY DEF TimerInv, Running, NumberedByStarts, RemovedLast
  <2>3. Watched' /\ OncePerStart'
    BY DEF TimerInv, Watched, Expiring, inQueue, OncePerStart
  <2>4. NoDanglingDelegate' /\ NoLeakedDelegate'
    BY DEF TimerInv, NoDanglingDelegate, NoLeakedDelegate, inQueue
  <2> QED
    BY <2>1, <2>2, <2>3, <2>4 DEF TimerInv
<1> QED
  BY <1>1, <1>2, <1>3, <1>4, <1>5 DEF Next

(* In every reachable state of any instance.                               *)
THEOREM Invariance == Spec => []TimerInv
<1>1. Init => TimerInv
  BY InitInv
<1>2. TimerInv /\ [Next]_vars => TimerInv'
  BY InvStep
<1> QED
  BY <1>1, <1>2, PTL DEF Spec

(* The clients, the container, the queue and the threads have their types. *)
THEOREM TypeCorrect == Spec => []TypeOK
<1>1. TimerInv => TypeOK
  BY DEF TimerInv
<1> QED
  BY <1>1, Invariance, PTL

(* What the heap assumes of the data in it, LocTimerDelegate::ranks gives: *)
(* whole seconds are compared, so that ties are ties with everyone.        *)
THEOREM DelegatesAreRanked ==
    /\ \A a, b \in Delegates : ranks(a, b) \in BOOLEAN /\ ~(ranks(a, b) /\ ranks(b, a))
    /\ \A a, b, c \in Delegates : ranks(a, c) => ranks(a, b) \/ ranks(b, c)
<1>1. \A d \in Delegates : sec(d.due) \in Int
  BY TimerAssumption DEF Delegates, sec
<1> QED
  BY <1>1 DEF ranks

(* The top of the heap is a soonest timer, to the second.                  *)
TopIsSoonest == \A d \in heap : ~ranks(d, top)

LEMMA PoppedSoonest ==
  ASSUME top' \in Heap!Best(heap')
  PROVE  TopIsSoonest'
BY DEF TopIsSoonest, Heap!Best

LEMMA SoonestStep ==
  ASSUME TimerInv, TopIsSoonest, [Next]_vars
  PROVE  TopIsSoonest'
<1>0. TimerInv' /\ heap \subseteq Delegates /\ HeapHasTop
  BY InvStep DEF TimerInv, TypeOK
<1>1. heap' \subseteq Delegates
  BY <1>0 DEF TimerInv, TypeOK
<1>2. CASE UNCHANGED container
  BY <1>2 DEF TopIsSoonest, container
<1>3. CASE MsgTimerPush
  <2>1. PICK d : d = Head(msgs)[2]
    OBVIOUS
  <2>2. heap' = heap \cup {d} /\ top' = IF top = NULL \/ ranks(d, top) THEN d ELSE top
    BY <1>3, <2>1 DEF MsgTimerPush, Heap!pushed
  <2>3. d \in Delegates /\ ~ranks(d, d)
    BY <1>1, <2>2, DelegatesAreRanked
  <2>4. CASE top = NULL
    <3>1. heap = {}
      BY <1>0, <2>4, NullAssumption DEF HeapHasTop
    <3> QED
      BY <2>2, <2>3, <2>4, <3>1 DEF TopIsSoonest
  <2>5. CASE top # NULL /\ ~ranks(d, top)
    BY <2>2, <2>5 DEF TopIsSoonest
  <2>6. CASE top # NULL /\ ranks(d, top)
    <3>1. top \in heap
      BY <1>0, <2>6 DEF HeapHasTop
    <3>2. ASSUME NEW e \in heap PROVE ~ranks(e, d)
      <4>1. e \in Delegates /\ top \in Delegates /\ ~ranks(e, top)
        BY <1>0, <3>1 DEF TopIsSoonest
      <4> QED
        BY <2>3, <2>6, <4>1, DelegatesAreRanked
    <3> QED
      BY <2>2, <2>3, <2>6, <3>2 DEF TopIsSoonest
  <2> QED
    BY <2>4, <2>5, <2>6
<1>4. CASE MsgTimerRemove
  <2>1. PICK d : d = Head(msgs)[2]
    OBVIOUS
  <2>2. heap' = heap \ {d} /\ (top' \in Heap!Best(heap') \/ top' = top)
    BY <1>4, <2>1 DEF MsgTimerRemove, Heap!removed
  <2> QED
    BY <2>2, PoppedSoonest DEF TopIsSoonest
<1>5. CASE MsgTimerExpire
  BY <1>2, <1>5, PoppedSoonest DEF MsgTimerExpire, Heap!popped
<1>6. CASE popIfOutRanks
  BY <1>2, <1>6, PoppedSoonest DEF popIfOutRanks, Heap!popped
<1>7. CASE settime \/ readClient \/ stopClient \/ timeOutCallback \/ PollTask \/ tick
  <2>1. UNCHANGED container
    BY <1>7 DEF settime, readClient, stopClient, timeOutCallback, PollTask, epoll_wait, disarm,
                removePoll, sendExpire, tick
  <2> QED
    BY <1>2, <2>1
<1>8. CASE \E c \in Clients : (\E timeOut \in Timeouts : start(c, timeOut)) \/ stop(c) \/ loc_timer_stop(c)
  <2>1. UNCHANGED container
    BY <1>8 DEF start, stop, loc_timer_stop
  <2> QED
    BY <1>2, <2>1
<1>9. CASE UNCHANGED vars
  BY <1>2, <1>9 DEF vars
<1> QED
  BY <1>3, <1>4, <1>5, <1>6, <1>7, <1>8, <1>9 DEF Next, MsgTask

(* updateSoonestTime and LocTimerContainer::expire cross without leaving   *)
(* the heap unattended: when both threads rest, the kernel is set for the  *)
(* timer at the top, and the heap has none that is due a second sooner.    *)
THEOREM KernelIsSet == Spec => []SoonestIsArmed
<1>1. Init => TopIsSoonest
  BY DEF Init, TopIsSoonest
<1>2. TimerInv /\ TopIsSoonest /\ [Next]_vars => TopIsSoonest'
  BY SoonestStep
<1>3. TimerInv /\ TopIsSoonest => SoonestIsArmed
  <2> SUFFICES ASSUME TimerInv, TopIsSoonest, task = "idle", poll = "wait",
                      ~inQueue(<<"expire">>), heap # {}
               PROVE  polled /\ armed = top.due /\ \A d \in heap : sec(armed) <= sec(d.due)
    BY DEF SoonestIsArmed
  <2>1. polled /\ armed = top.due
    BY DEF TimerInv, Watched, Expiring
  <2>2. top \in heap /\ heap \subseteq Delegates
    BY DEF TimerInv, HeapHasTop, TypeOK
  <2>3. \A d \in heap : d.due \in Nat /\ sec(d.due) \in Int
    BY <2>2, TimerAssumption DEF Delegates, sec
  <2>4. \A d \in heap : ~(sec(d.due) < sec(top.due))
    BY DEF TopIsSoonest, ranks
  <2> QED
    BY <2>1, <2>2, <2>3, <2>4
<1> QED
  BY <1>1, <1>2, <1>3, Invariance, PTL DEF Spec

(* Of LocTimer's start, stop and expiry: each start is stopped or called   *)
(* back, never both and never twice.                                       *)
THEOREM EndsOnce == Spec => []OncePerStart
<1>1. TimerInv => OncePerStart
  BY DEF TimerInv
<1> QED
  BY <1>1, Invariance, PTL

(* destroyLocked and MsgTimerRemove: nothing refers to a delegate that is  *)
(* deleted, and one that its client has let go of will be deleted.         *)
THEOREM DelegatesFreed == Spec => []DelegatesAccounted
<1>1. TimerInv => DelegatesAccounted
  BY DEF TimerInv, DelegatesAccounted
<1> QED
  BY <1>1, Invariance, PTL

-----------------------------------------------------------------------------
(***************************************************************************)
(* The heap.  Its inductive invariant says how each step of a call leaves  *)
(* the tree, between the calls as well as in the middle of one.            *)
(***************************************************************************)
(* The tree is linked from the root, and the call is at one of its places. *)
HeapType ==
    /\ tree \subseteq Nat \ {0} /\ mData \in [tree -> Nodes] /\ mSize \in [tree -> Int]
    /\ \A p \in tree \ {1} : parent(p) \in tree
    /\ step \in {"idle", "push", "pushed", "pop", "removed", "search", "unfound"}
    /\ step # "idle" => at \in tree
    /\ step = "idle" => node = None
    /\ step \in {"push", "search", "unfound"} => node \in Nodes
    /\ step = "pop" => from \in Nat \ {0} /\ from <= at /\ (from # 1 => parent(from) \in tree)

(* No data is stored twice.                                                *)
StoredOnce ==
    /\ \A p, q \in tree : mData[p] = mData[q] => p = q
    /\ step = "push" => \A p \in tree : mData[p] # node

(* The tree is sorted but for the data that is on its way down.            *)
Sorted ==
    /\ \A p \in tree \ {1} :
          (step = "pop" => at # p /\ at # parent(p)) => ~outRanks(mData[p], mData[parent(p)])
    /\ step = "pop" /\ at # 1 => \A c \in children(at) : ~outRanks(mData[c], mData[parent(at)])
    /\ step = "push" /\ at # 1 => ~outRanks(node, mData[parent(at)])

(* Sizes are right but for the level that is still to count.               *)
uncountedAt(p) == (IF step = "removed" /\ p = at THEN 1 ELSE 0)
                  - (IF step = "pushed" /\ p = at THEN 1 ELSE 0)
                  + (IF step = "pop" /\ p = parent(from) THEN 1 ELSE 0)
                  - (IF step = "pop" /\ p = parent(at) THEN 1 ELSE 0)
Sized == \A p \in tree : mSize[p] = 1 + size(left(p)) + size(right(p)) + uncountedAt(p)

(* The search has left nothing behind it: the node is in no subtree that   *)
(* it has returned from, and at no place above the one where it is.  A     *)
(* subtree is a set of places that has all places below each.              *)
Below(S) == \A q \in S : children(q) \subseteq S
Cleared(p) == \E S \in SUBSET tree : p \in S /\ Below(S) /\ \A q \in S : mData[q] # node
OnPath(A) == \A a \in A \ {1} :
    /\ parent(a) \in A /\ mData[parent(a)] # node
    /\ a = right(parent(a)) /\ left(parent(a)) \in tree => Cleared(left(parent(a)))
Searched ==
    /\ step = "unfound" => Cleared(at)
    /\ step \in {"search", "unfound"} => \E A \in SUBSET tree : at \in A /\ OnPath(A)


HeapInv == HeapType /\ StoredOnce /\ Sorted /\ Sized /\ Searched

LEMMA Places ==
    ASSUME NEW p \in Nat \ {0}
    PROVE  /\ left(p) \in Nat \ {0, 1} /\ right(p) \in Nat \ {0, 1}
           /\ p < left(p) /\ p < right(p) /\ left(p) # right(p)
           /\ parent(left(p)) = p /\ parent(right(p)) = p /\ parent(p) < p /\ parent(p) \in Nat
           /\ p # 1 => parent(p) # 0
           /\ p # 1 => p = left(parent(p)) \/ p = right(parent(p))
BY DEF left, right, parent

LEMMA NoRank ==
    ASSUME NEW a \in Nodes
    PROVE  /\ ~outRanks(a, a)
           /\ \A b \in Nodes : outRanks(a, b) => ~outRanks(b, a)
           /\ \A b, c \in Nodes : ~outRanks(a, b) /\ ~outRanks(b, c) => ~outRanks(a, c)
BY RankAssumption

(* A set of natural numbers that is not empty has a least member.          *)
LEMMA LeastPlace ==
    ASSUME NEW T \in SUBSET Nat, T # {}
    PROVE  \E n \in T : \A k \in T : ~ (k < n)
<1> DEFINE R == OpToRel(<, Nat)
<1>1. IsWellFoundedOn(R, Nat)
  BY NatLessThanWellFounded, Zenon
<1>2. \A y \in Nat, x \in Nat : y < x => <<y, x>> \in R
  BY DEF OpToRel
<1> HIDE DEF R
<1>3. \E x \in T : \A y \in T : ~ (<<y, x>> \in R)
  BY WFMin, <1>1, Zenon
<1> QED
  BY <1>2, <1>3, Zenon

(* The tree hangs together: what holds at the root and, with a place, at   *)
(* the places below it, holds everywhere.                                  *)
LEMMA TreeInduction ==
    ASSUME HeapType, NEW S, 1 \in tree => 1 \in S,
           \A q \in tree : q \in S => children(q) \subseteq S
    PROVE  tree \subseteq S
<1> SUFFICES ASSUME tree \ S # {} PROVE FALSE
  OBVIOUS
<1>1. tree \ S \in SUBSET Nat
  BY DEF HeapType
<1>2. PICK p \in tree \ S : \A k \in tree \ S : ~ (k < p)
  BY <1>1, LeastPlace
<1>3. p \in Nat \ {0} /\ p # 1 /\ parent(p) \in tree
  BY <1>2 DEF HeapType
<1>4. parent(p) < p /\ (p = left(parent(p)) \/ p = right(parent(p)))
  BY <1>3, Places
<1>5. parent(p) \in S
  BY <1>2, <1>3, <1>4
<1>6. p \in children(parent(p))
  BY <1>2, <1>4 DEF children
<1> QED
  BY <1>2, <1>3, <1>5, <1>6

LEMMA RootFirst ==
    ASSUME HeapType, tree # {}
    PROVE  1 \in tree
<1> SUFFICES ASSUME 1 \notin tree PROVE FALSE
  OBVIOUS
<1> DEFINE S == {}
<1>1. \A q \in tree : q \in S => children(q) \subseteq S
  OBVIOUS
<1> HIDE DEF S
<1>2. tree \subseteq S
  BY <1>1, TreeInduction
<1> QED
  BY <1>2 DEF S

(* The parent of a place is the only place that has it as a child.         *)
LEMMA Children ==
    ASSUME HeapType, NEW p \in tree
    PROVE  /\ p \in Nat \ {0}
           /\ \A c \in children(p) : c \in tree \ {1} /\ parent(c) = p /\ p < c /\ c # p
           /\ \A c \in tree \ {1} : parent(c) = p => c \in children(p)
<1>1. p \in Nat \ {0}
  BY DEF HeapType
<1>2. \A c \in children(p) : c \in tree \ {1} /\ parent(c) = p /\ p < c /\ c # p
  BY <1>1, Places DEF children
<1>3. \A c \in tree \ {1} : parent(c) = p => c \in children(p)
  <2> SUFFICES ASSUME NEW c \in tree \ {1}, parent(c) = p PROVE c \in children(p)
    OBVIOUS
  <2>1. c \in Nat \ {0}
    BY DEF HeapType
  <2> QED
    BY <2>1, Places DEF children
<1> QED
  BY <1>1, <1>2, <1>3

(* No data outranks what is stored above it, when no call is popping.      *)
LEMMA RootIsBest ==
    ASSUME HeapInv, step # "pop", NEW q \in tree
    PROVE  1 \in tree /\ ~outRanks(mData[q], mData[1])
<1>0. HeapType /\ Sorted
  BY DEF HeapInv
<1>1. 1 \in tree
  BY <1>0, RootFirst
<1> DEFINE S == {p \in tree : ~outRanks(mData[p], mData[1])}
<1>2. \A p \in tree : mData[p] \in Nodes
  BY <1>0 DEF HeapType
<1>3. 1 \in S
  BY <1>1, <1>2, NoRank
<1>4. ASSUME NEW p \in S, NEW c \in children(p) PROVE c \in S
  <2>1. c \in tree \ {1} /\ parent(c) = p /\ p \in tree
    BY <1>0, Children
  <2>2. ~outRanks(mData[c], mData[p])
    BY <1>0, <2>1 DEF Sorted
  <2> QED
    BY <1>1, <1>2, <2>1, <2>2, NoRank
<1>5. tree \subseteq S
  <2> HIDE DEF S
  <2>1. \A p \in tree : p \in S => children(p) \subseteq S
    BY <1>4
  <2> QED
    BY <1>0, <1>3, <2>1, TreeInduction
<1> QED
  BY <1>1, <1>5

-----------------------------------------------------------------------------
LEMMA HeapInitInv == HeapInit => HeapInv
<1> SUFFICES ASSUME HeapInit PROVE HeapInv
  OBVIOUS
<1>1. tree = {} /\ step = "idle" /\ node = None
  BY DEF HeapInit, tree
<1>2. HeapType
  BY <1>1 DEF HeapInit, HeapType, tree
<1> QED
  BY <1>1, <1>2 DEF HeapInv, StoredOnce, Sorted, Sized, Searched

(* A call that only moves, and neither pops nor counts, leaves the sizes   *)
(* and the order as they are.                                              *)
LEMMA Moves ==
    ASSUME HeapInv, UNCHANGED <<mData, mSize>>, step \notin {"pop", "pushed", "removed"},
           step' \notin {"pop", "pushed", "removed"},
           step' # "push" \/ (at' = 1 /\ \A p \in tree : mData[p] # node')
    PROVE  StoredOnce' /\ Sorted' /\ Sized' /\ tree' = tree
<1>1. tree' = tree
  BY DEF tree
<1>2. StoredOnce'
  BY <1>1 DEF HeapInv, StoredOnce
<1>3. Sorted'
  BY <1>1 DEF HeapInv, Sorted
<1>4. Sized'
  BY <1>1 DEF HeapInv, Sized, size, uncountedAt
<1> QED
  BY <1>1, <1>2, <1>3, <1>4

LEMMA PushStepInv ==
    ASSUME HeapInv, NEW n \in Nodes, push(n)
    PROVE  HeapInv'
<1>0. HeapType /\ step = "idle" /\ node = None /\ \A p \in tree : mData[p] # n
  BY DEF HeapInv, HeapType, push
<1>1. CASE tree = {}
  <2>1. /\ mData' = linked(mData, 1, n) /\ mSize' = linked(mSize, 1, 1)
        /\ UNCHANGED <<step, at, node, from>>
    BY <1>1 DEF push
  <2>2. DOMAIN mData = {} /\ DOMAIN mSize = {}
    BY <1>0, <1>1 DEF tree, HeapType
  <2>3. tree' = {1} /\ mData' \in [{1} -> Nodes] /\ mSize' \in [{1} -> Int] /\ mSize'[1] = 1
    BY <2>1, <2>2 DEF linked, tree
  <2>4. left(1) # 1 /\ right(1) # 1
    BY Places
  <2>5. HeapType'
    BY <1>0, <2>1, <2>3 DEF HeapType
  <2>6. StoredOnce' /\ Sorted' /\ Searched'
    BY <1>0, <2>1, <2>3 DEF StoredOnce, Sorted, Searched
  <2>7. Sized'
    BY <1>0, <2>1, <2>3, <2>4 DEF Sized, size, uncountedAt
  <2> QED
    BY <2>5, <2>6, <2>7 DEF HeapInv
<1>2. CASE tree # {}
  <2>1. step' = "push" /\ at' = 1 /\ node' = n /\ UNCHANGED <<mData, mSize, from>>
    BY <1>2 DEF push
  <2>2. StoredOnce' /\ Sorted' /\ Sized' /\ tree' = tree
    BY <1>0, <2>1, Moves
  <2>3. 1 \in tree
    BY <1>0, <1>2, RootFirst
  <2>4. HeapType'
    BY <1>0, <2>1, <2>2, <2>3 DEF HeapType
  <2>5. Searched'
    BY <2>1 DEF Searched
  <2> QED
    BY <2>2, <2>4, <2>5 DEF HeapInv
<1> QED
  BY <1>1, <1>2

LEMMA RemoveStepInv ==
    ASSUME HeapInv, NEW n \in Nodes, remove(n)
    PROVE  HeapInv'
<1>0. HeapType /\ step = "idle" /\ node = None /\ UNCHANGED <<mData, mSize, from>>
  BY DEF HeapInv, HeapType, remove
<1>1. CASE tree = {}
  <2>1. UNCHANGED <<step, at, node>>
    BY <1>1 DEF remove
  <2>2. StoredOnce' /\ Sorted' /\ Sized' /\ tree' = tree
    BY <1>0, <2>1, Moves
  <2>3. HeapType' /\ Searched'
    BY <1>0, <2>1, <2>2 DEF HeapType, Searched
  <2> QED
    BY <2>2, <2>3 DEF HeapInv
<1>2. CASE tree # {}
  <2>1. step' = "search" /\ at' = 1 /\ node' = n
    BY <1>2 DEF remove
  <2>2. StoredOnce' /\ Sorted' /\ Sized' /\ tree' = tree
    BY <1>0, <2>1, Moves
  <2>3. 1 \in tree
    BY <1>0, <1>2, RootFirst
  <2>4. HeapType'
    BY <1>0, <2>1, <2>2, <2>3 DEF HeapType
  <2>5. {1} \in SUBSET (tree') /\ OnPath({1})'
    BY <2>2, <2>3 DEF OnPath
  <2>6. Searched'
    BY <2>1, <2>5 DEF Searched
  <2> QED
    BY <2>2, <2>4, <2>6 DEF HeapInv
<1> QED
  BY <1>1, <1>2

LEMMA PopStepInv ==
    ASSUME HeapInv, pop
    PROVE  HeapInv'
<1>0. HeapType /\ step = "idle" /\ node = None /\ UNCHANGED <<mData, mSize, node>> /\ tree' = tree
  BY DEF HeapInv, HeapType, pop, tree
<1>1. CASE tree = {}
  <2>1. UNCHANGED <<step, at, node>>
    BY <1>1 DEF pop
  <2>2. StoredOnce' /\ Sorted' /\ Sized'
    BY <1>0, <2>1, Moves
  <2>3. HeapType' /\ Searched'
    BY <1>0, <2>1 DEF HeapType, Searched
  <2> QED
    BY <2>2, <2>3 DEF HeapInv
<1>2. CASE tree # {}
  <2>1. step' = "pop" /\ at' = 1 /\ from' = 1
    BY <1>2 DEF pop
  <2>3. 1 \in tree
    BY <1>0, <1>2, RootFirst
  <2>4. HeapType'
    BY <1>0, <2>1, <2>3 DEF HeapType
  <2>5. StoredOnce' /\ Searched'
    BY <1>0, <2>1 DEF HeapInv, StoredOnce, Searched
  <2>6. Sorted'
    BY <1>0, <2>1 DEF HeapInv, Sorted
  <2>7. Sized'
    BY <1>0, <2>1 DEF HeapInv, Sized, size, uncountedAt
  <2> QED
    BY <2>4, <2>5, <2>6, <2>7 DEF HeapInv
<1> QED
  BY <1>1, <1>2

(* What pushNode does at a level: the higher of the two stays.             *)
LEMMA Swapped ==
    ASSUME HeapInv, step = "push"
    PROVE  /\ stays \in [tree -> Nodes] /\ sinks \in Nodes
           /\ \A p \in tree \ {at} : stays[p] = mData[p]
           /\ ~outRanks(sinks, stays[at])
           /\ \A p, q \in tree : stays[p] = stays[q] => p = q
           /\ \A p \in tree : stays[p] # sinks
           /\ \A p \in tree \ {1} : ~outRanks(stays[p], stays[parent(p)])
           /\ {stays[p] : p \in tree} \cup {sinks} = {mData[p] : p \in tree} \cup {node}
<1>0. HeapType /\ StoredOnce /\ Sorted /\ at \in tree /\ node \in Nodes
  BY DEF HeapInv, HeapType
<1>1. \A p \in tree : mData[p] \in Nodes /\ mData[p] # node
  BY <1>0 DEF HeapType, StoredOnce
<1>2. stays \in [tree -> Nodes] /\ sinks \in Nodes /\ \A p \in tree \ {at} : stays[p] = mData[p]
  BY <1>0, <1>1 DEF HeapType, stays, sinks
<1>3. \/ outRanks(node, mData[at]) /\ stays[at] = node /\ sinks = mData[at]
      \/ ~outRanks(node, mData[at]) /\ stays[at] = mData[at] /\ sinks = node
  BY <1>0 DEF HeapType, stays, sinks
<1>4. ~outRanks(sinks, stays[at]) /\ ~outRanks(mData[at], stays[at])
  BY <1>0, <1>1, <1>3, NoRank
<1>5. \A p, q \in tree : stays[p] = stays[q] => p = q
  BY <1>0, <1>1, <1>2, <1>3 DEF StoredOnce
<1>6. \A p \in tree : stays[p] # sinks
  BY <1>0, <1>1, <1>2, <1>3 DEF StoredOnce
<1>7. ASSUME NEW p \in tree \ {1} PROVE ~outRanks(stays[p], stays[parent(p)])
  <2>1. parent(p) \in tree /\ parent(p) # p
    <3>1. p \in Nat \ {0} /\ parent(p) \in tree
      BY <1>0 DEF HeapType
    <3> QED
      BY <3>1, Places
  <2>2. ~outRanks(mData[p], mData[parent(p)])
    BY <1>0 DEF Sorted
  <2>3. CASE p = at
    <3>1. stays[parent(p)] = mData[parent(p)]
      BY <1>2, <2>1, <2>3
    <3>2. ~outRanks(node, mData[parent(p)])
      BY <1>0, <2>3 DEF Sorted
    <3> QED
      BY <1>3, <2>2, <2>3, <3>1, <3>2
  <2>4. CASE parent(p) = at
    <3>1. stays[p] = mData[p]
      BY <1>2, <2>1, <2>4
    <3> QED
      BY <1>0, <1>1, <1>2, <1>4, <2>2, <2>4, <3>1, NoRank
  <2>5. CASE p # at /\ parent(p) # at
    BY <1>2, <2>1, <2>2, <2>5
  <2> QED
    BY <2>3, <2>4, <2>5
<1>8. {stays[p] : p \in tree} \cup {sinks} = {mData[p] : p \in tree} \cup {node}
  <2>1. ASSUME NEW x PROVE x \in {stays[p] : p \in tree} \cup {sinks} <=> x \in {mData[p] : p \in tree} \cup {node}
    BY <1>0, <1>2, <1>3
  <2> QED
    BY <2>1
<1> QED
  BY <1>2, <1>4, <1>5, <1>6, <1>7, <1>8

(* Where a node goes from a level that it does not stay at.                *)
LEMMA PushSides ==
    ASSUME HeapType, NEW p \in tree
    PROVE  /\ pushSide(p) \in Nat \ {0, 1} /\ parent(pushSide(p)) = p /\ pushSide(p) # p
           /\ pushSide(p) = left(p) \/ pushSide(p) = right(p)
<1>1. p \in Nat \ {0}
  BY DEF HeapType
<1>2. pushSide(p) = left(p) \/ pushSide(p) = right(p)
  BY DEF pushSide
<1> QED
  BY <1>1, <1>2, Places

LEMMA PushNodeStepInv ==
    ASSUME HeapInv, pushNode
    PROVE  HeapInv'
<1> DEFINE side == pushSide(at)
<1>0. HeapType /\ step = "push" /\ at \in tree /\ node \in Nodes /\ Sized
  BY DEF HeapInv, HeapType, pushNode
<1>1. \/ /\ side \in tree
         /\ mData' = stays /\ node' = sinks /\ at' = side
         /\ UNCHANGED <<mSize, step>>
      \/ /\ side \notin tree
         /\ mData' = linked(stays, side, sinks) /\ mSize' = linked(mSize, side, 1)
         /\ step' = "pushed" /\ node' = None /\ UNCHANGED at
  BY DEF pushNode, stays, sinks
<1>2. /\ stays \in [tree -> Nodes] /\ sinks \in Nodes
      /\ \A p \in tree \ {at} : stays[p] = mData[p]
      /\ ~outRanks(sinks, stays[at])
      /\ \A p, q \in tree : stays[p] = stays[q] => p = q
      /\ \A p \in tree : stays[p] # sinks
      /\ \A p \in tree \ {1} : ~outRanks(stays[p], stays[parent(p)])
  BY <1>0, Swapped
<1>3. side \in Nat \ {0, 1} /\ parent(side) = at /\ side # at /\ (side = left(at) \/ side = right(at))
  BY <1>0, PushSides
<1> HIDE DEF side
<1>4. CASE side \in tree
  <2>1. mData' = stays /\ node' = sinks /\ at' = side /\ UNCHANGED <<mSize, step>> /\ tree' = tree
    BY <1>1, <1>2, <1>4 DEF tree
  <2>2. HeapType'
    BY <1>0, <1>2, <1>4, <2>1 DEF HeapType
  <2>3. StoredOnce' /\ Searched'
    BY <1>0, <1>2, <2>1 DEF StoredOnce, Searched
  <2>4. Sorted'
    BY <1>0, <1>2, <1>3, <2>1 DEF Sorted
  <2>5. Sized'
    BY <1>0, <2>1 DEF Sized, size, uncountedAt
  <2> QED
    BY <2>2, <2>3, <2>4, <2>5 DEF HeapInv
<1>5. CASE side \notin tree
  <2>1. /\ mData' = linked(stays, side, sinks) /\ mSize' = linked(mSize, side, 1)
        /\ step' = "pushed" /\ at' = at
    BY <1>1, <1>5
  <2>2. /\ tree' = tree \cup {side} /\ mData' \in [tree' -> Nodes] /\ mSize' \in [tree' -> Int]
        /\ mData'[side] = sinks /\ mSize'[side] = 1
        /\ \A p \in tree : mData'[p] = stays[p] /\ mSize'[p] = mSize[p]
    <3>1. DOMAIN stays = tree /\ DOMAIN mSize = tree /\ mSize \in [tree -> Int]
      BY <1>0, <1>2 DEF HeapType
    <3> QED
      BY <1>2, <1>5, <2>1, <3>1 DEF linked, tree
  <2>3. \A p \in tree : p \in Nat \ {0} /\ (p # 1 => parent(p) \in tree)
    BY <1>0 DEF HeapType
  <2>4. HeapType'
    BY <1>0, <1>3, <2>1, <2>2, <2>3 DEF HeapType
  <2>5. StoredOnce' /\ Searched'
    BY <1>2, <2>1, <2>2 DEF StoredOnce, Searched
  <2>6. Sorted'
    <3> SUFFICES ASSUME NEW p \in tree' \ {1} PROVE ~outRanks(mData'[p], mData'[parent(p)])
      BY <2>1 DEF Sorted
    <3>1. CASE p = side
      BY <1>0, <1>2, <1>3, <2>2, <3>1
    <3>2. CASE p # side
      BY <1>2, <2>2, <2>3, <3>2
    <3> QED
      BY <3>1, <3>2
  <2>7. Sized'
    <3> SUFFICES ASSUME NEW p \in tree'
                 PROVE  mSize'[p] = 1 + size(left(p))' + size(right(p))' + uncountedAt(p)'
      BY DEF Sized
    <3>1. uncountedAt(p)' = IF p = at THEN -1 ELSE 0
      BY <2>1 DEF uncountedAt
    <3>2. /\ p \in Nat \ {0} /\ left(p) # p /\ right(p) # p /\ left(p) # right(p)
          /\ parent(left(p)) = p /\ parent(right(p)) = p /\ left(p) # 1 /\ right(p) # 1
      <4>1. p \in Nat \ {0}
        BY <1>3, <2>2, <2>3
      <4> QED
        BY <4>1, Places
    <3>3. CASE p = side
      <4>1. left(p) \notin tree' /\ right(p) \notin tree'
        BY <1>5, <2>2, <2>3, <3>2, <3>3
      <4> QED
        BY <1>3, <2>2, <3>1, <3>3, <4>1 DEF size
    <3>4. CASE p = at
      <4>1. mSize[p] = 1 + size(left(p)) + size(right(p)) + uncountedAt(p) /\ uncountedAt(p) = 0
        BY <1>0, <3>4 DEF Sized, uncountedAt
      <4>2. \A q \in tree : mSize[q] \in Int
        BY <1>0 DEF HeapType
      <4>3. mSize'[p] = mSize[p]
        BY <1>0, <2>2, <3>4
      <4>4. CASE side = left(p)
        <5>1. size(left(p)) = 0 /\ size(left(p))' = 1
          BY <1>5, <2>2, <4>4 DEF size
        <5>2. size(right(p)) \in Int
          BY <4>2 DEF size
        <5>3. size(right(p))' = size(right(p))
          BY <2>2, <3>2, <4>4 DEF size
        <5> QED
          BY <3>1, <3>4, <4>1, <4>3, <5>1, <5>2, <5>3
      <4>5. CASE side = right(p)
        <5>1. size(right(p)) = 0 /\ size(right(p))' = 1
          BY <1>5, <2>2, <4>5 DEF size
        <5>2. size(left(p)) \in Int
          BY <4>2 DEF size
        <5>3. size(left(p))' = size(left(p))
          BY <2>2, <3>2, <4>5 DEF size
        <5> QED
          BY <3>1, <3>4, <4>1, <4>3, <5>1, <5>2, <5>3
      <4> QED
        BY <1>3, <3>4, <4>4, <4>5
    <3>5. CASE p # side /\ p # at
      <4>1. p \in tree
        BY <2>2, <3>5
      <4>2. mSize[p] = 1 + size(left(p)) + size(right(p)) + uncountedAt(p) /\ uncountedAt(p) = 0
        BY <1>0, <4>1 DEF Sized, uncountedAt
      <4>3. left(p) # side /\ right(p) # side
        BY <1>3, <3>2, <3>5
      <4>4. size(left(p))' = size(left(p)) /\ size(right(p))' = size(right(p)) /\ mSize'[p] = mSize[p]
        BY <2>2, <4>1, <4>3 DEF size
      <4> QED
        BY <3>1, <3>5, <4>2, <4>4
    <3> QED
      BY <3>3, <3>4, <3>5
  <2> QED
    BY <2>4, <2>5, <2>6, <2>7 DEF HeapInv
<1> QED
  BY <1>4, <1>5

(* A level counts the node that its subtree got or lost, and leaves the    *)
(* level above it to count.                                                *)
LEMMA CountStepInv ==
    ASSUME HeapInv, NEW k \in Int, countBy(k),
           (step = "pushed" /\ k = 1) \/ (step = "removed" /\ k = -1)
    PROVE  HeapInv'
<1>0. HeapType /\ at \in tree /\ Sized
  BY DEF HeapInv, HeapType
<1>1. /\ mSize' = [mSize EXCEPT ![at] = @ + k] /\ mData' = mData /\ tree' = tree
      /\ \/ at = 1 /\ step' = "idle" /\ node' = None
         \/ at # 1 /\ at' = parent(at) /\ UNCHANGED <<step, node, from>>
  BY DEF countBy, returned, tree
<1>2. \A p \in tree : p \in Nat \ {0} /\ (p # 1 => parent(p) \in tree) /\ mSize[p] \in Int
  BY <1>0 DEF HeapType
<1>3. /\ mSize' \in [tree -> Int] /\ mSize'[at] = mSize[at] + k
      /\ \A p \in tree \ {at} : mSize'[p] = mSize[p]
  BY <1>0, <1>1 DEF HeapType
<1>4. HeapType'
  BY <1>0, <1>1, <1>2, <1>3 DEF HeapType
<1>5. StoredOnce' /\ Sorted' /\ Searched'
  BY <1>1 DEF HeapInv, StoredOnce, Sorted, Searched
<1>6. Sized'
  <2> SUFFICES ASSUME NEW p \in tree
               PROVE  mSize'[p] = 1 + size(left(p))' + size(right(p))' + uncountedAt(p)'
    BY <1>1 DEF Sized
  <2>1. mSize[p] = 1 + size(left(p)) + size(right(p)) + (IF p = at THEN -k ELSE 0)
    <3>1. uncountedAt(p) = IF p = at THEN -k ELSE 0
      BY DEF uncountedAt
    <3> QED
      BY <1>0, <3>1 DEF Sized
  <2>2. uncountedAt(p)' = IF at # 1 /\ p = parent(at) THEN -k ELSE 0
    BY <1>1 DEF uncountedAt
  <2>3. /\ p \in Nat \ {0} /\ left(p) # p /\ right(p) # p /\ left(p) # right(p)
        /\ parent(left(p)) = p /\ parent(right(p)) = p /\ left(p) # 1 /\ right(p) # 1
    <3>1. p \in Nat \ {0}
      BY <1>2
    <3> QED
      BY <3>1, Places
  <2>4. size(left(p)) \in Int /\ size(right(p)) \in Int
    BY <1>2 DEF size
  <2>5. CASE p = at
    <3>1. size(left(p))' = size(left(p)) /\ size(right(p))' = size(right(p))
      BY <1>1, <1>3, <2>3, <2>5 DEF size
    <3>2. ~(at # 1 /\ p = parent(at))
      BY <1>0, <1>2, <2>5, Places
    <3> QED
      BY <1>2, <1>3, <2>1, <2>2, <2>4, <2>5, <3>1, <3>2
  <2>6. CASE p # at /\ at # 1 /\ p = parent(at)
    <3>1. at = left(p) \/ at = right(p)
      BY <1>0, <1>2, <2>6, Places
    <3>2. size(left(p))' = IF at = left(p) THEN size(left(p)) + k ELSE size(left(p))
      BY <1>0, <1>1, <1>3 DEF size
    <3>3. size(right(p))' = IF at = right(p) THEN size(right(p)) + k ELSE size(right(p))
      BY <1>0, <1>1, <1>3 DEF size
    <3>4. mSize'[p] = mSize[p]
      BY <1>3, <2>6
    <3> QED
      BY <1>2, <2>1, <2>2, <2>3, <2>4, <2>6, <3>1, <3>2, <3>3, <3>4
  <2>7. CASE p # at /\ ~(at # 1 /\ p = parent(at))
    <3>1. left(p) # at /\ right(p) # at
      BY <2>3, <2>7
    <3>2. size(left(p))' = size(left(p)) /\ size(right(p))' = size(right(p)) /\ mSize'[p] = mSize[p]
      BY <1>1, <1>3, <2>7, <3>1 DEF size
    <3> QED
      BY <2>1, <2>2, <2>7, <3>2
  <2> QED
    BY <2>5, <2>6, <2>7
<1> QED
  BY <1>4, <1>5, <1>6 DEF HeapInv

LEMMA PushedStepInv ==
    ASSUME HeapInv, pushed
    PROVE  HeapInv'
BY CountStepInv DEF pushed

LEMMA RemovedStepInv ==
    ASSUME HeapInv, removed
    PROVE  HeapInv'
BY CountStepInv DEF removed

(* The child that pop takes, which the other does not outrank.             *)
LEMMA PopSides ==
    ASSUME HeapType, NEW p \in tree, children(p) # {}
    PROVE  /\ popSide(p) \in children(p) /\ popSide(p) \in tree \ {1} /\ parent(popSide(p)) = p
           /\ p < popSide(p) /\ popSide(p) # p
           /\ \A c \in children(p) : ~outRanks(mData[c], mData[popSide(p)])
<1>1. popSide(p) \in children(p)
  BY DEF popSide, children
<1>2. \A c \in children(p) : c \in tree /\ mData[c] \in Nodes
  BY DEF HeapType, children
<1>3. ASSUME NEW c \in children(p) PROVE ~outRanks(mData[c], mData[popSide(p)])
  <2>1. c = left(p) \/ c = right(p)
    BY DEF children
  <2>2. CASE c = popSide(p)
    BY <1>2, <2>2, NoRank
  <2>3. CASE c # popSide(p)
    <3>1. \/ popSide(p) = left(p) /\ c = right(p) /\ outRanks(mData[left(p)], mData[right(p)])
          \/ popSide(p) = right(p) /\ c = left(p) /\ ~outRanks(mData[left(p)], mData[right(p)])
      BY <1>1, <2>1, <2>3 DEF popSide, children
    <3> QED
      BY <1>1, <1>2, <3>1, NoRank
  <2> QED
    BY <2>2, <2>3
<1> QED
  BY <1>1, <1>3, Children

LEMMA PopDownInv ==
    ASSUME HeapInv, popNode, children(at) # {}
    PROVE  HeapInv'
<1> DEFINE sub == popSide(at)
<1>0. HeapType /\ StoredOnce /\ Sorted /\ Sized /\ step = "pop" /\ at \in tree
  BY DEF HeapInv, HeapType, popNode
<1>1. /\ mData' = [mData EXCEPT ![at] = mData[sub], ![sub] = mData[at]] /\ at' = sub
      /\ mSize' = [mSize EXCEPT ![at] = @ - 1] /\ UNCHANGED <<step, node, from>>
  BY DEF popNode
<1>2. /\ sub \in children(at) /\ sub \in tree \ {1} /\ parent(sub) = at /\ at < sub /\ sub # at
      /\ \A c \in children(at) : ~outRanks(mData[c], mData[sub])
  BY <1>0, PopSides
<1> HIDE DEF sub
<1>3. \A p \in tree : p \in Nat \ {0} /\ (p # 1 => parent(p) \in tree) /\ mSize[p] \in Int
  BY <1>0 DEF HeapType
<1>4. /\ tree' = tree /\ mData' \in [tree -> Nodes] /\ mData'[at] = mData[sub] /\ mData'[sub] = mData[at]
      /\ \A p \in tree : p # at /\ p # sub => mData'[p] = mData[p]
  BY <1>0, <1>1, <1>2 DEF HeapType, tree
<1>5. /\ mSize' \in [tree -> Int] /\ mSize'[at] = mSize[at] - 1
      /\ \A p \in tree \ {at} : mSize'[p] = mSize[p]
  BY <1>0, <1>1 DEF HeapType
<1>6. from \in Nat \ {0} /\ from <= at /\ (from # 1 => parent(from) \in tree) /\ from <= sub
  BY <1>0, <1>2, <1>3 DEF HeapType
<1>7. parent(at) < at /\ parent(at) \in Nat /\ parent(from) < from /\ parent(from) \in Nat
  BY <1>0, <1>3, <1>6, Places
<1>8. HeapType'
  BY <1>0, <1>1, <1>2, <1>4, <1>5, <1>6 DEF HeapType
<1>9. StoredOnce' /\ Searched'
  <2>1. \A p, q \in tree : mData'[p] = mData'[q] => p = q
    BY <1>0, <1>2, <1>4 DEF StoredOnce
  <2> QED
    BY <1>0, <1>1, <1>4, <2>1 DEF StoredOnce, Searched
<1>10. Sorted'
  <2>1. ASSUME NEW p \in tree \ {1}, sub # p, sub # parent(p)
        PROVE  ~outRanks(mData'[p], mData'[parent(p)])
    <3>1. p \in Nat \ {0} /\ parent(p) \in tree
      BY <1>3
    <3>2. CASE p = at
      <4>1. parent(p) # at /\ parent(p) # sub
        BY <1>2, <1>3, <1>7, <3>2
      <4>2. mData'[parent(p)] = mData[parent(p)]
        BY <1>4, <3>1, <4>1
      <4>3. ~outRanks(mData[sub], mData[parent(at)])
        BY <1>0, <1>2, <3>2 DEF Sorted
      <4> QED
        BY <1>4, <3>2, <4>2, <4>3
    <3>3. CASE p # at /\ parent(p) = at
      <4>1. p \in children(at)
        BY <1>0, <3>3, Children
      <4>2. ~outRanks(mData[p], mData[sub])
        BY <1>2, <4>1
      <4> QED
        BY <1>4, <2>1, <3>3, <4>2
    <3>4. CASE p # at /\ parent(p) # at
      <4>1. ~outRanks(mData[p], mData[parent(p)])
        BY <1>0, <3>4 DEF Sorted
      <4> QED
        BY <1>4, <2>1, <3>1, <3>4, <4>1
    <3> QED
      BY <3>2, <3>3, <3>4
  <2>2. ASSUME NEW c \in children(sub) PROVE ~outRanks(mData'[c], mData'[parent(sub)])
    <3>1. c \in tree \ {1} /\ parent(c) = sub /\ sub < c /\ c # sub
      BY <1>0, <1>2, Children
    <3>2. c # at
      BY <1>0, <1>2, <1>3, <3>1
    <3>3. ~outRanks(mData[c], mData[sub])
      BY <1>0, <1>2, <3>1, <3>2 DEF Sorted
    <3> QED
      BY <1>2, <1>4, <3>1, <3>2, <3>3
  <2>3. children(at)' = children(sub)
    BY <1>1, <1>4 DEF children
  <2> QED
    BY <1>0, <1>1, <1>4, <2>1, <2>2, <2>3 DEF Sorted, children
<1>11. Sized'
  <2> SUFFICES ASSUME NEW p \in tree
               PROVE  mSize'[p] = 1 + size(left(p))' + size(right(p))' + uncountedAt(p)'
    BY <1>4 DEF Sized
  <2> DEFINE k == IF p = parent(from) THEN 1 ELSE 0
  <2>1. /\ mSize[p] = 1 + size(left(p)) + size(right(p)) + k - (IF p = parent(at) THEN 1 ELSE 0)
        /\ size(left(p)) \in Int /\ size(right(p)) \in Int
    <3>1. uncountedAt(p) = k - (IF p = parent(at) THEN 1 ELSE 0)
      BY <1>0 DEF uncountedAt
    <3>2. mSize[p] = 1 + size(left(p)) + size(right(p)) + uncountedAt(p)
      BY <1>0 DEF Sized
    <3>3. size(left(p)) \in Int /\ size(right(p)) \in Int
      BY <1>3 DEF size
    <3> QED
      BY <3>1, <3>2, <3>3
  <2>2. uncountedAt(p)' = k - (IF p = at THEN 1 ELSE 0)
    BY <1>0, <1>1, <1>2 DEF uncountedAt
  <2>k. k \in {0, 1} /\ (p = at => k = 0)
    BY <1>3, <1>6, <1>7
  <2> HIDE DEF k
  <2>3. /\ p \in Nat \ {0} /\ left(p) # p /\ right(p) # p /\ left(p) # right(p)
        /\ parent(left(p)) = p /\ parent(right(p)) = p /\ left(p) # 1 /\ right(p) # 1
    <3>1. p \in Nat \ {0}
      BY <1>3
    <3> QED
      BY <3>1, Places
  <2>4. CASE p = at
    <3>1. size(left(p))' = size(left(p)) /\ size(right(p))' = size(right(p))
      BY <1>4, <1>5, <2>3, <2>4 DEF size
    <3>2. p # parent(at)
      BY <1>3, <1>7, <2>4
    <3> QED
      BY <1>3, <1>5, <2>1, <2>2, <2>k, <2>4, <3>1, <3>2
  <2>5. CASE p # at /\ p = parent(at)
    <3>1. at = left(p) \/ at = right(p)
      BY <1>0, <1>3, <2>3, <2>5, Places
    <3>2. size(left(p))' = IF at = left(p) THEN size(left(p)) - 1 ELSE size(left(p))
      BY <1>0, <1>4, <1>5 DEF size
    <3>3. size(right(p))' = IF at = right(p) THEN size(right(p)) - 1 ELSE size(right(p))
      BY <1>0, <1>4, <1>5 DEF size
    <3>4. mSize'[p] = mSize[p]
      BY <1>5, <2>5
    <3> QED
      BY <1>3, <2>1, <2>2, <2>k, <2>3, <2>5, <3>1, <3>2, <3>3, <3>4
  <2>6. CASE p # at /\ p # parent(at)
    <3>1. left(p) # at /\ right(p) # at
      BY <2>3, <2>6
    <3>2. size(left(p))' = size(left(p)) /\ size(right(p))' = size(right(p)) /\ mSize'[p] = mSize[p]
      BY <1>4, <1>5, <2>6, <3>1 DEF size
    <3> QED
      BY <2>1, <2>2, <2>k, <2>6, <3>2
  <2> QED
    BY <2>4, <2>5, <2>6
<1> QED
  BY <1>8, <1>9, <1>10, <1>11 DEF HeapInv

LEMMA PopLeafInv ==
    ASSUME HeapInv, popNode, children(at) = {}
    PROVE  HeapInv'
<1>0. HeapType /\ StoredOnce /\ Sorted /\ Sized /\ step = "pop" /\ at \in tree
  BY DEF HeapInv, HeapType, popNode
<1>1. /\ mData' = detached(mData, at) /\ mSize' = detached(mSize, at)
      /\ \/ from = 1 /\ step' = "idle" /\ node' = None
         \/ from # 1 /\ step' = "removed" /\ at' = parent(from) /\ UNCHANGED <<node, from>>
  BY DEF popNode, returned
<1>2. \A p \in tree : p \in Nat \ {0} /\ (p # 1 => parent(p) \in tree) /\ mSize[p] \in Int
  BY <1>0 DEF HeapType
<1>3. /\ tree' = tree \ {at} /\ mData' \in [tree' -> Nodes] /\ mSize' \in [tree' -> Int]
      /\ \A p \in tree' : mData'[p] = mData[p] /\ mSize'[p] = mSize[p]
  <2>1. DOMAIN mData = tree /\ DOMAIN mSize = tree
    BY <1>0 DEF HeapType
  <2> QED
    BY <1>0, <1>1, <2>1 DEF detached, tree, HeapType
<1>4. from \in Nat \ {0} /\ from <= at /\ (from # 1 => parent(from) \in tree)
  BY <1>0 DEF HeapType
<1>5. /\ parent(at) < at /\ parent(from) < from /\ parent(from) \in Nat /\ parent(at) \in Nat
      /\ parent(from) # at
  <2>1. parent(at) < at /\ parent(from) < from /\ parent(from) \in Nat /\ parent(at) \in Nat
    BY <1>0, <1>2, <1>4, Places
  <2> QED
    BY <1>0, <1>2, <1>4, <2>1
<1>6. \A p \in tree' \ {1} : p # at /\ parent(p) # at /\ parent(p) \in tree'
  <2> SUFFICES ASSUME NEW p \in tree' \ {1} PROVE parent(p) # at
    BY <1>2, <1>3
  <2>1. p \in tree \ {1} /\ p \notin children(at)
    BY <1>3
  <2> QED
    BY <1>0, <2>1, Children
<1>7. HeapType'
  BY <1>0, <1>1, <1>2, <1>3, <1>4, <1>5, <1>6 DEF HeapType
<1>8. StoredOnce' /\ Searched'
  BY <1>0, <1>1, <1>3 DEF StoredOnce, Searched
<1>9. Sorted'
  BY <1>0, <1>1, <1>3, <1>6 DEF Sorted
<1>10. Sized'
  <2> SUFFICES ASSUME NEW p \in tree'
               PROVE  mSize'[p] = 1 + size(left(p))' + size(right(p))' + uncountedAt(p)'
    BY DEF Sized
  <2>1. \A q \in tree : mSize[q] = 1 + size(left(q)) + size(right(q)) + uncountedAt(q)
    BY <1>0 DEF Sized
  <2>2. size(at) = 1
    <3>1. uncountedAt(at) = 0
      BY <1>0, <1>2, <1>5 DEF uncountedAt
    <3>2. size(left(at)) = 0 /\ size(right(at)) = 0
      BY DEF size, children
    <3>3. mSize[at] = 1 + size(left(at)) + size(right(at)) + uncountedAt(at)
      BY <1>0, <2>1
    <3> QED
      BY <1>0, <3>1, <3>2, <3>3 DEF size
  <2>3. /\ p \in tree /\ p # at /\ p \in Nat \ {0} /\ left(p) # right(p)
        /\ parent(left(p)) = p /\ parent(right(p)) = p
    <3>1. p \in Nat \ {0} /\ p \in tree /\ p # at
      BY <1>2, <1>3
    <3> QED
      BY <3>1, Places
  <2> DEFINE k == IF p = parent(from) THEN 1 ELSE 0
  <2>4. /\ mSize[p] = 1 + size(left(p)) + size(right(p)) + k - (IF p = parent(at) THEN 1 ELSE 0)
        /\ size(left(p)) \in Int /\ size(right(p)) \in Int /\ k \in Int
    <3>1. uncountedAt(p) = k - (IF p = parent(at) THEN 1 ELSE 0)
      BY <1>0 DEF uncountedAt
    <3>2. mSize[p] = 1 + size(left(p)) + size(right(p)) + uncountedAt(p)
      BY <2>1, <2>3
    <3>3. size(left(p)) \in Int /\ size(right(p)) \in Int
      BY <1>2 DEF size
    <3> QED
      BY <3>1, <3>2, <3>3
  <2>5. uncountedAt(p)' = k
    <3>1. CASE from = 1
      <4>1. p # parent(from)
        BY <1>5, <2>3, <3>1
      <4> QED
        BY <1>1, <3>1, <4>1 DEF uncountedAt
    <3>2. CASE from # 1
      BY <1>1, <3>2 DEF uncountedAt
    <3> QED
      BY <3>1, <3>2
  <2> HIDE DEF k
  <2>6. CASE p = parent(at)
    <3>0. at # 1
      BY <1>5, <2>3, <2>6
    <3>1. at = left(p) \/ at = right(p)
      BY <1>0, <1>2, <2>6, <3>0, Places
    <3>2. size(left(p))' = IF at = left(p) THEN 0 ELSE size(left(p))
      BY <1>3 DEF size
    <3>3. size(right(p))' = IF at = right(p) THEN 0 ELSE size(right(p))
      BY <1>3 DEF size
    <3>4. mSize'[p] = mSize[p]
      BY <1>3
    <3> QED
      BY <2>2, <2>3, <2>4, <2>5, <2>6, <3>1, <3>2, <3>3, <3>4
  <2>7. CASE p # parent(at)
    <3>1. left(p) # at /\ right(p) # at
      BY <2>3, <2>7
    <3>2. size(left(p))' = size(left(p)) /\ size(right(p))' = size(right(p)) /\ mSize'[p] = mSize[p]
      BY <1>3, <3>1 DEF size
    <3> QED
      BY <2>4, <2>5, <2>7, <3>2
  <2> QED
    BY <2>6, <2>7
<1> QED
  BY <1>7, <1>8, <1>9, <1>10 DEF HeapInv

-----------------------------------------------------------------------------
(* The steps of a search read the tree and write none of it.               *)
LEMMA ClearedKept ==
    ASSUME UNCHANGED <<mData, node>>, NEW p
    PROVE  tree' = tree /\ Cleared(p)' = Cleared(p) /\ children(p)' = children(p)
<1>1. tree' = tree
  BY DEF tree
<1>2. \A q : children(q)' = children(q)
  BY <1>1 DEF children
<1>3. \A S : Below(S)' = Below(S)
  BY <1>2 DEF Below
<1> QED
  BY <1>1, <1>2, <1>3 DEF Cleared

LEMMA PathKept ==
    ASSUME UNCHANGED <<mData, node>>, NEW A
    PROVE  OnPath(A)' = OnPath(A)
BY ClearedKept DEF OnPath

(* A subtree whose top the node outranks does not have it.                 *)
LEMMA Pruned ==
    ASSUME HeapInv, step = "search", outRanks(node, mData[at])
    PROVE  Cleared(at)
<1>0. HeapType /\ Sorted /\ at \in tree /\ node \in Nodes
  BY DEF HeapInv, HeapType
<1>1. \A p \in tree : mData[p] \in Nodes
  BY <1>0 DEF HeapType
<1> DEFINE S == {q \in tree : ~outRanks(mData[q], mData[at])}
<1>2. at \in S
  BY <1>0, <1>1, NoRank
<1>3. ASSUME NEW q \in S, NEW c \in children(q) PROVE c \in S
  <2>1. c \in tree \ {1} /\ parent(c) = q /\ q \in tree
    BY <1>0, Children
  <2>2. ~outRanks(mData[c], mData[q])
    BY <1>0, <2>1 DEF Sorted
  <2> QED
    BY <1>0, <1>1, <2>1, <2>2, NoRank
<1>4. \A q \in S : mData[q] # node
  OBVIOUS
<1>5. S \in SUBSET tree
  OBVIOUS
<1> HIDE DEF S
<1>6. Below(S)
  BY <1>3 DEF Below
<1> QED
  BY <1>2, <1>4, <1>5, <1>6 DEF Cleared

(* A subtree does not have the node when neither its top nor the subtrees  *)
(* under it do.                                                            *)
LEMMA ClearedUp ==
    ASSUME NEW p \in tree, mData[p] # node, \A c \in children(p) : Cleared(c)
    PROVE  Cleared(p)
<1> DEFINE T == {q \in tree : Cleared(q)} \cup {p}
<1>1. ASSUME NEW q \in tree, Cleared(q) PROVE mData[q] # node /\ children(q) \subseteq {c \in tree : Cleared(c)}
  <2>1. PICK S \in SUBSET tree : q \in S /\ Below(S) /\ \A r \in S : mData[r] # node
    BY <1>1 DEF Cleared
  <2>2. ASSUME NEW c \in children(q) PROVE c \in tree /\ Cleared(c)
    BY <2>1 DEF Cleared, Below
  <2> QED
    BY <2>1, <2>2
<1>2. children(p) \subseteq {c \in tree : Cleared(c)}
  BY DEF children
<1>3. Below(T)
  BY <1>1, <1>2 DEF Below
<1>4. T \in SUBSET tree /\ p \in T /\ \A q \in T : mData[q] # node
  BY <1>1
<1> HIDE DEF T
<1> QED
  BY <1>3, <1>4 DEF Cleared

LEMMA RemoveNodeStepInv ==
    ASSUME HeapInv, removeNode
    PROVE  HeapInv'
<1>0. HeapType /\ Sorted /\ step = "search" /\ at \in tree /\ node \in Nodes /\ UNCHANGED <<mData, mSize, node>>
  BY DEF HeapInv, HeapType, removeNode
<1>1. tree' = tree /\ \A p \in tree : p \in Nat \ {0} /\ (p # 1 => parent(p) \in tree)
  BY <1>0 DEF HeapType, tree
<1>2. PICK A \in SUBSET tree : at \in A /\ OnPath(A)
  BY <1>0 DEF HeapInv, Searched
<1>3. CASE step' = "pop" /\ from' = at /\ at' = at
  <2>1. HeapType'
    BY <1>0, <1>1, <1>3 DEF HeapType
  <2>2. StoredOnce' /\ Searched'
    BY <1>0, <1>1, <1>3 DEF HeapInv, StoredOnce, Searched
  <2>3. Sorted'
    <3>1. ASSUME NEW c \in children(at), at # 1 PROVE ~outRanks(mData[c], mData[parent(at)])
      <4>1. c \in tree \ {1} /\ parent(c) = at /\ parent(at) \in tree
        BY <1>0, <1>1, <3>1, Children
      <4>2. ~outRanks(mData[c], mData[at]) /\ ~outRanks(mData[at], mData[parent(at)])
        BY <1>0, <3>1, <4>1 DEF Sorted
      <4>3. mData[c] \in Nodes /\ mData[at] \in Nodes /\ mData[parent(at)] \in Nodes
        BY <1>0, <4>1 DEF HeapType
      <4> QED
        BY <4>2, <4>3, NoRank
    <3> QED
      BY <1>0, <1>1, <1>3, <3>1 DEF Sorted, children
  <2>4. Sized'
    BY <1>0, <1>1, <1>3 DEF HeapInv, Sized, size, uncountedAt
  <2> QED
    BY <2>1, <2>2, <2>3, <2>4 DEF HeapInv
<1>4. CASE /\ mData[at] # node /\ children(at) # {} /\ step' = step
           /\ at' = IF left(at) \in tree THEN left(at) ELSE right(at)
  <2>1. StoredOnce' /\ Sorted' /\ Sized'
    BY <1>0, <1>4, Moves
  <2>2. at' \in children(at) /\ (at' = right(at) => left(at) \notin tree)
    <3>1. left(at) # right(at)
      BY <1>0, <1>1, Places
    <3> QED
      BY <1>4, <3>1 DEF children
  <2>3. at' \in tree \ {1} /\ parent(at') = at
    BY <1>0, <2>2, Children
  <2>4. HeapType'
    BY <1>0, <1>1, <1>4, <2>3 DEF HeapType
  <2>5. PICK c : c = at'
    OBVIOUS
  <2>6. OnPath(A \cup {c})
    BY <1>2, <1>4, <2>2, <2>3, <2>5 DEF OnPath
  <2>7. OnPath(A \cup {c})'
    BY <1>0, <2>6, PathKept
  <2>8. Searched'
    BY <1>0, <1>1, <1>2, <1>4, <2>3, <2>5, <2>7 DEF Searched
  <2> QED
    BY <2>1, <2>4, <2>8 DEF HeapInv
<1>5. CASE /\ mData[at] # node /\ (outRanks(node, mData[at]) \/ children(at) = {})
           /\ step' = "unfound" /\ at' = at
  <2>1. StoredOnce' /\ Sorted' /\ Sized'
    BY <1>0, <1>5, Moves
  <2>2. HeapType'
    BY <1>0, <1>1, <1>5 DEF HeapType
  <2>3. Cleared(at)
    BY <1>0, <1>5, Pruned, ClearedUp
  <2>4. Cleared(at)' /\ OnPath(A)'
    <3>1. ASSUME NEW p, Cleared(p) PROVE Cleared(p)'
      BY <1>0, <3>1, ClearedKept
    <3>2. OnPath(A)'
      BY <1>0, <1>2, PathKept
    <3> QED
      BY <1>5, <2>3, <3>1, <3>2
  <2>5. Searched'
    BY <1>1, <1>2, <1>5, <2>4 DEF Searched
  <2> QED
    BY <2>1, <2>2, <2>5 DEF HeapInv
<1> QED
  BY <1>3, <1>4, <1>5 DEF removeNode

LEMMA UnfoundStepInv ==
    ASSUME HeapInv, unfound
    PROVE  HeapInv'
<1>0. HeapType /\ step = "unfound" /\ at \in tree /\ node \in Nodes /\ UNCHANGED <<mData, mSize>>
  BY DEF HeapInv, HeapType, unfound
<1>1. tree' = tree /\ \A p \in tree : p \in Nat \ {0} /\ (p # 1 => parent(p) \in tree)
  BY <1>0 DEF HeapType, tree
<1>2. Cleared(at) /\ \E A \in SUBSET tree : at \in A /\ OnPath(A)
  BY <1>0 DEF HeapInv, Searched
<1>3. PICK A \in SUBSET tree : at \in A /\ OnPath(A)
  BY <1>2
<1>4. CASE step' = "idle" /\ node' = None
  <2>1. StoredOnce' /\ Sorted' /\ Sized'
    BY <1>0, <1>4, Moves
  <2>2. HeapType' /\ Searched'
    BY <1>0, <1>1, <1>4 DEF HeapType, Searched
  <2> QED
    BY <2>1, <2>2 DEF HeapInv
<1>5. CASE at # 1 /\ subtreeLeft(at) # {} /\ at' \in subtreeLeft(at) /\ step' = "search" /\ node' = node
  <2>1. StoredOnce' /\ Sorted' /\ Sized'
    BY <1>0, <1>5, Moves
  <2> DEFINE q == parent(at)
  <2>2. at' = right(q) /\ at' \in tree /\ at' # at
    BY <1>5 DEF subtreeLeft
  <2>3. q \in tree /\ at = left(q) /\ at' # 1 /\ parent(at') = q
    <3>1. q \in tree /\ q \in Nat \ {0}
      BY <1>0, <1>1, <1>5
    <3>2. at = left(q) \/ at = right(q)
      BY <1>0, <1>1, <1>5, Places
    <3> QED
      BY <2>2, <3>1, <3>2, Places
  <2>4. HeapType'
    BY <1>0, <1>1, <1>5, <2>2 DEF HeapType
  <2>5. q \in A /\ mData[q] # node
    BY <1>3, <1>5 DEF OnPath
  <2> HIDE DEF q
  <2>6. PICK c : c = at'
    OBVIOUS
  <2>7. OnPath(A \cup {c})
    BY <1>2, <1>3, <2>2, <2>3, <2>5, <2>6 DEF OnPath
  <2>8. OnPath(A \cup {c})'
    BY <1>0, <1>5, <2>7, PathKept
  <2>9. Searched'
    BY <1>0, <1>1, <1>3, <1>5, <2>2, <2>6, <2>8 DEF Searched
  <2> QED
    BY <2>1, <2>4, <2>9 DEF HeapInv
<1>6. CASE at # 1 /\ subtreeLeft(at) = {} /\ at' = parent(at) /\ step' = step /\ node' = node
  <2>1. StoredOnce' /\ Sorted' /\ Sized'
    BY <1>0, <1>6, Moves
  <2> DEFINE q == parent(at)
  <2>2. /\ q \in tree /\ q \in Nat \ {0} /\ (at = left(q) \/ at = right(q)) /\ left(q) # right(q)
        /\ q \in A /\ mData[q] # node
    <3>1. q \in tree /\ q \in Nat \ {0} /\ (at = left(q) \/ at = right(q))
      BY <1>0, <1>1, <1>6, Places
    <3>2. left(q) # right(q)
      BY <3>1, Places
    <3> QED
      BY <1>3, <1>6, <3>1, <3>2 DEF OnPath
  <2>3. ASSUME NEW c \in children(q) PROVE Cleared(c)
    <3>1. CASE c = at
      BY <1>2, <3>1
    <3>2. CASE c # at
      <4>1. right(q) \in tree => right(q) = at
        BY <1>6 DEF subtreeLeft
      <4>2. c = left(q) /\ at = right(q) /\ left(q) \in tree
        BY <2>2, <3>2, <4>1 DEF children
      <4> QED
        BY <1>3, <1>6, <4>2 DEF OnPath
    <3> QED
      BY <3>1, <3>2
  <2>4. HeapType'
    BY <1>0, <1>1, <1>6, <2>2 DEF HeapType
  <2>5. Cleared(q)
    BY <2>2, <2>3, ClearedUp
  <2>6. at' = q
    BY <1>6
  <2> HIDE DEF q
  <2>7. Cleared(at)'
    <3>1. ASSUME NEW p, Cleared(p) PROVE Cleared(p)'
      BY <1>0, <1>6, <3>1, ClearedKept
    <3> QED
      BY <2>5, <2>6, <3>1
  <2>8. OnPath(A)'
    BY <1>0, <1>3, <1>6, PathKept
  <2>9. Searched'
    BY <1>1, <1>3, <2>2, <2>6, <2>7, <2>8 DEF Searched
  <2> QED
    BY <2>1, <2>4, <2>9 DEF HeapInv
<1> QED
  BY <1>4, <1>5, <1>6 DEF unfound, returned

LEMMA HeapInvStep ==
    ASSUME HeapInv, [HeapNext]_heapVars
    PROVE  HeapInv'
<1>1. CASE HeapNext
  <2>1. CASE popNode
    BY <2>1, PopDownInv, PopLeafInv
  <2> QED
    BY <1>1, <2>1, PopStepInv, PushStepInv, RemoveStepInv, PushNodeStepInv, PushedStepInv,
       RemoveNodeStepInv, UnfoundStepInv, RemovedStepInv DEF HeapNext
<1>2. CASE UNCHANGED heapVars
  <2>1. /\ UNCHANGED <<mData, mSize, step, at, node, from>> /\ tree' = tree
        /\ \A p : Cleared(p)' = Cleared(p) /\ children(p)' = children(p)
        /\ \A A : OnPath(A)' = OnPath(A)
    <3>1. UNCHANGED <<mData, mSize, step, at, node, from>>
      BY <1>2 DEF heapVars
    <3> QED
      BY <3>1, ClearedKept, PathKept
  <2>2. HeapType' /\ StoredOnce' /\ Sorted'
    BY <2>1 DEF HeapInv, HeapType, StoredOnce, Sorted, children
  <2>3. Sized'
    BY <2>1 DEF HeapInv, Sized, size, uncountedAt
  <2>4. Searched'
    <3>1. step = "unfound" => Cleared(at)'
      <4>1. PICK p : p = at
        OBVIOUS
      <4>2. step = "unfound" => Cleared(p)'
        BY <2>1, <4>1 DEF HeapInv, Searched
      <4> QED
        BY <2>1, <4>1, <4>2
    <3> QED
      BY <2>1, <3>1 DEF HeapInv, Searched
  <2> QED
    BY <2>2, <2>3, <2>4 DEF HeapInv
<1> QED
  BY <1>1, <1>2

(* Of every tree that pushes, pops and removals can make.                  *)
THEOREM HeapInvariance == HeapSpec => []HeapInv
<1>1. HeapInit => HeapInv
  BY HeapInitInv
<1>2. HeapInv /\ [HeapNext]_heapVars => HeapInv'
  BY HeapInvStep
<1> QED
  BY <1>1, <1>2, PTL DEF HeapSpec

(* The code's own check of its tree, LocHeapNode::checkNodes, holds after  *)
(* every call of the heap: sorted from the root down, sizes right.         *)
THEOREM TreeChecks == HeapSpec => []checkTree
<1>1. HeapInv => checkTree
  <2> SUFFICES ASSUME HeapInv, step = "idle", NEW p \in tree PROVE checkNodes(p)
    BY DEF checkTree
  <2>1. HeapType /\ Sorted /\ Sized
    BY DEF HeapInv
  <2>2. mSize[p] = 1 + size(left(p)) + size(right(p))
    <3>1. uncountedAt(p) = 0
      BY DEF uncountedAt
    <3>2. \A q \in tree : mSize[q] \in Int
      BY <2>1 DEF HeapType
    <3>3. size(left(p)) \in Int /\ size(right(p)) \in Int
      BY <3>2 DEF size
    <3> QED
      BY <2>1, <3>1, <3>3 DEF Sized
  <2>3. ASSUME NEW c \in children(p) PROVE ~outRanks(mData[c], mData[p])
    BY <2>1, Children DEF Sorted
  <2> QED
    BY <2>2, <2>3 DEF checkNodes
<1> QED
  BY <1>1, HeapInvariance, PTL

-----------------------------------------------------------------------------
LEMMA OnlyRoot ==
    ASSUME HeapType, 1 \in tree, children(1) = {}
    PROVE  tree = {1}
<1> DEFINE S == {1}
<1>1. 1 \in S /\ \A q \in tree : q \in S => children(q) \subseteq S
  OBVIOUS
<1> HIDE DEF S
<1>2. tree \subseteq S
  BY <1>1, TreeInduction
<1> QED
  BY <1>2 DEF S

(* When the root is popped, the child that takes its place is outranked by *)
(* nothing that is left.                                                   *)
LEMMA NextOnTop ==
    ASSUME HeapInv, step # "pop", 1 \in tree, NEW S, S = {mData[p] : p \in tree \ {1}}
    PROVE  (IF children(1) = {} THEN None ELSE mData[popSide(1)]) \in Ranked!Best(S)
<1>0. HeapType /\ Sorted
  BY DEF HeapInv
<1>1. CASE children(1) = {}
  <2>1. tree = {1}
    BY <1>0, <1>1, OnlyRoot
  <2>2. S = {}
    BY <2>1
  <2> QED
    BY <1>1, <2>2 DEF Ranked!Best
<1>2. CASE children(1) # {}
  <2> DEFINE sub == popSide(1)
             T == {q \in tree : q # 1 => ~outRanks(mData[q], mData[sub])}
  <2>1. /\ sub \in tree \ {1} /\ \A c \in children(1) : ~outRanks(mData[c], mData[sub])
    BY <1>0, <1>2, PopSides
  <2> HIDE DEF sub
  <2>2. \A p \in tree : mData[p] \in Nodes
    BY <1>0 DEF HeapType
  <2>3. ASSUME NEW q \in T, NEW c \in children(q) PROVE c \in T
    <3>1. c \in tree \ {1} /\ parent(c) = q /\ q \in tree
      BY <1>0, Children
    <3>2. ~outRanks(mData[c], mData[q])
      BY <1>0, <3>1 DEF Sorted
    <3>3. ~outRanks(mData[c], mData[sub])
      BY <2>1, <2>2, <3>1, <3>2, NoRank
    <3> QED
      BY <3>1, <3>3
  <2>4. tree \subseteq T
    <3>1. 1 \in T
      OBVIOUS
    <3> HIDE DEF T
    <3>2. \A q \in tree : q \in T => children(q) \subseteq T
      BY <2>3
    <3> QED
      BY <1>0, <3>1, <3>2, TreeInduction
  <2>5. mData[sub] \in S /\ \A m \in S : ~outRanks(m, mData[sub])
    BY <2>1, <2>4
  <2>6. mData[sub] \in Ranked!Best(S)
    BY <2>5 DEF Ranked!Best
  <2> QED
    BY <1>2, <2>6 DEF sub
<1> QED
  BY <1>1, <1>2

RankedVars == <<held, onTop, answered>>

LEMMA PushImplements ==
    ASSUME HeapInv, NEW n \in Nodes, push(n)
    PROVE  Ranked!push(n)
<1>0. /\ HeapType /\ step = "idle" /\ (\A p \in tree : mData[p] # n)
      /\ call' = <<"push", n, None>> /\ n # None
  BY RankAssumption DEF HeapInv, push
<1>1. held = {mData[p] : p \in tree} /\ onTop = peek /\ n \notin held
  BY <1>0 DEF held, onTop
<1>2. CASE tree = {}
  <2>1. mData' = linked(mData, 1, n) /\ step' = "idle" /\ DOMAIN mData = {}
    BY <1>0, <1>2 DEF push, tree
  <2>2. tree' = {1} /\ mData'[1] = n
    BY <2>1 DEF linked, tree
  <2>3. held' = {n} /\ onTop' = n /\ answered' = <<"push", n, None>>
    BY <1>0, <2>1, <2>2 DEF held, onTop, answered, peek
  <2>4. held = {} /\ onTop = None
    BY <1>1, <1>2 DEF peek
  <2> QED
    BY <1>1, <2>3, <2>4 DEF Ranked!push, Ranked!pushed
<1>3. CASE tree # {}
  <2>1. step' = "push" /\ at' = 1 /\ node' = n /\ mData' = mData /\ tree' = tree
    BY <1>3 DEF push, tree
  <2>2. held' = held \cup {n}
    BY <1>1, <2>1 DEF held
  <2>3. onTop' = IF outRanks(n, onTop) THEN n ELSE onTop
    BY <1>1, <1>3, <2>1 DEF onTop, peek
  <2>4. answered' = <<"push", n, None>>
    BY <1>0, <2>1 DEF answered
  <2>5. onTop # None
    <3>1. 1 \in tree
      BY <1>0, <1>3, RootFirst
    <3>2. mData[1] \in Nodes
      BY <1>0, <3>1 DEF HeapType
    <3> QED
      BY <1>1, <1>3, <3>2, RankAssumption DEF peek
  <2> QED
    BY <1>1, <2>2, <2>3, <2>4, <2>5 DEF Ranked!push, Ranked!pushed
<1> QED
  BY <1>2, <1>3

LEMMA PopImplements ==
    ASSUME HeapInv, pop
    PROVE  Ranked!pop
<1>0. /\ HeapType /\ StoredOnce /\ step = "idle" /\ node = None
      /\ mData' = mData /\ node' = node /\ tree' = tree
  BY DEF HeapInv, HeapType, pop, tree
<1>1. held = {mData[p] : p \in tree} /\ onTop = peek
  BY <1>0 DEF held, onTop
<1>2. CASE tree = {}
  <2>1. step' = "idle" /\ call' = <<"pop", None, None>>
    BY <1>0, <1>2 DEF pop
  <2>2. held = {} /\ onTop = None
    BY <1>1, <1>2 DEF peek
  <2>3. held' = {} /\ onTop' = None /\ answered' = <<"pop", None, None>>
    BY <1>0, <1>2, <2>1 DEF held, onTop, answered, peek
  <2> QED
    BY <2>2, <2>3 DEF Ranked!pop, Ranked!popped, Ranked!Best
<1>3. CASE tree # {}
  <2>1. step' = "pop" /\ at' = 1
    BY <1>3 DEF pop
  <2>2. 1 \in tree /\ onTop = mData[1]
    BY <1>0, <1>1, <1>3, RootFirst DEF peek
  <2> DEFINE S == {mData[p] : p \in tree \ {1}}
  <2>3. held' = S
    BY <1>0, <2>1 DEF held
  <2>4. S = held \ {onTop}
    BY <1>0, <1>1, <2>2 DEF StoredOnce
  <2>5. onTop' = IF children(1) = {} THEN None ELSE mData[popSide(1)]
    BY <1>0, <2>1 DEF onTop, children, popSide
  <2>6. answered' = <<"pop", None, onTop>>
    BY <1>0, <2>1, <2>2 DEF answered, answer
  <2>7. onTop' \in Ranked!Best(S)
    BY <1>0, <2>2, <2>5, NextOnTop
  <2> HIDE DEF S
  <2> QED
    BY <2>3, <2>4, <2>6, <2>7 DEF Ranked!pop, Ranked!popped
<1> QED
  BY <1>2, <1>3

(* A step of a call that neither pushes nor pops shows nothing.            *)
LEMMA NothingShows ==
    ASSUME UNCHANGED <<mData, call>>, step \notin {"push", "pop"}, step' \notin {"push", "pop"}
    PROVE  UNCHANGED RankedVars
<1>1. tree' = tree
  BY DEF tree
<1>2. held' = held
  BY <1>1 DEF held
<1>3. onTop' = onTop
  BY <1>1 DEF onTop, peek
<1>4. answered' = answered
  BY DEF answered
<1> QED
  BY <1>2, <1>3, <1>4 DEF RankedVars

LEMMA PushNodeImplements ==
    ASSUME HeapInv, pushNode
    PROVE  UNCHANGED RankedVars
<1> DEFINE side == pushSide(at)
<1>0. HeapType /\ step = "push" /\ at \in tree /\ node \in Nodes /\ call' = call
  BY DEF HeapInv, HeapType, pushNode
<1>1. \/ side \in tree /\ mData' = stays /\ node' = sinks /\ at' = side /\ step' = step
      \/ side \notin tree /\ mData' = linked(stays, side, sinks) /\ step' = "pushed"
  BY DEF pushNode
<1>2. /\ stays \in [tree -> Nodes] /\ \A p \in tree \ {at} : stays[p] = mData[p]
      /\ {stays[p] : p \in tree} \cup {sinks} = {mData[p] : p \in tree} \cup {node}
  BY <1>0, Swapped
<1>3. side # 1 /\ 1 \in tree
  BY <1>0, PushSides, RootFirst
<1> HIDE DEF side
<1>4. mData'[1] = stays[1] /\ 1 \in tree'
  <2>1. DOMAIN stays = tree
    BY <1>2
  <2> QED
    BY <1>1, <1>3, <2>1 DEF linked, tree
<1>5. held = {mData[p] : p \in tree} \cup {node}
  BY <1>0 DEF held
<1>6. held' = {stays[p] : p \in tree} \cup {sinks}
  <2>1. CASE side \in tree
    <3>1. mData' = stays /\ node' = sinks /\ step' = "push" /\ tree' = tree
      BY <1>0, <1>1, <1>2, <2>1 DEF tree
    <3> QED
      BY <3>1 DEF held
  <2>2. CASE side \notin tree
    <3>1. DOMAIN stays = tree
      BY <1>2
    <3>2. /\ tree' = tree \cup {side} /\ mData'[side] = sinks /\ step' = "pushed"
          /\ \A p \in tree : mData'[p] = stays[p]
      BY <1>1, <2>2, <3>1 DEF linked, tree
    <3>3. held' = {mData'[p] : p \in tree'}
      BY <3>2 DEF held
    <3>4. ASSUME NEW x PROVE x \in held' <=> x \in {stays[p] : p \in tree} \cup {sinks}
      BY <3>2, <3>3
    <3> QED
      BY <3>4
  <2> QED
    BY <2>1, <2>2
<1>7. onTop = stays[1]
  <2>1. CASE at = 1
    BY <1>0, <1>3, <2>1 DEF onTop, peek, stays, HeapType
  <2>2. CASE at # 1
    BY <1>0, <1>2, <1>3, <2>2 DEF onTop, peek
  <2> QED
    BY <2>1, <2>2
<1>8. onTop' = stays[1]
  <2>1. ~(step' = "push" /\ at' = 1) /\ step' # "pop"
    BY <1>0, <1>1, <1>3
  <2> QED
    BY <1>4, <2>1 DEF onTop, peek
<1>9. answered' = answered
  BY <1>0, <1>1 DEF answered
<1> QED
  BY <1>2, <1>5, <1>6, <1>7, <1>8, <1>9 DEF RankedVars

LEMMA PopDownImplements ==
    ASSUME HeapInv, popNode, children(at) # {}
    PROVE  UNCHANGED RankedVars
<1> DEFINE sub == popSide(at)
<1>0. HeapType /\ step = "pop" /\ at \in tree
  BY DEF HeapInv, HeapType, popNode
<1>1. /\ mData' = [mData EXCEPT ![at] = mData[sub], ![sub] = mData[at]] /\ at' = sub
      /\ UNCHANGED <<step, node, call>>
  BY DEF popNode
<1>2. sub \in tree \ {1} /\ sub # at
  BY <1>0, PopSides
<1>d. sub = popSide(at)
  OBVIOUS
<1> HIDE DEF sub
<1>3. /\ tree' = tree /\ mData'[at] = mData[sub] /\ mData'[sub] = mData[at]
      /\ \A p \in tree : p # at /\ p # sub => mData'[p] = mData[p]
  BY <1>0, <1>1, <1>2 DEF HeapType, tree
<1>4. held' = held
  <2>1. held = {mData[p] : p \in tree \ {at}}
    BY <1>0 DEF held
  <2>2. held' = {mData'[p] : p \in tree \ {sub}}
    BY <1>0, <1>1, <1>3 DEF held
  <2>3. ASSUME NEW x \in held PROVE x \in held'
    <3>1. PICK p \in tree \ {at} : x = mData[p]
      BY <2>1
    <3>2. CASE p = sub
      BY <1>0, <1>2, <1>3, <2>2, <3>1, <3>2
    <3>3. CASE p # sub
      BY <1>3, <2>2, <3>1, <3>3
    <3> QED
      BY <3>2, <3>3
  <2>4. ASSUME NEW x \in held' PROVE x \in held
    <3>1. PICK p \in tree \ {sub} : x = mData'[p]
      BY <2>2
    <3>2. CASE p = at
      BY <1>2, <1>3, <2>1, <3>1, <3>2
    <3>3. CASE p # at
      BY <1>3, <2>1, <3>1, <3>3
    <3> QED
      BY <3>2, <3>3
  <2> QED
    BY <2>3, <2>4
<1>5. 1 \in tree
  BY <1>0, RootFirst
<1>6. onTop' = mData'[1]
  BY <1>0, <1>1, <1>2, <1>3, <1>5 DEF onTop, peek
<1>7. onTop = mData'[1]
  <2>1. CASE at = 1
    BY <1>0, <1>d, <1>3, <1>5, <2>1 DEF onTop
  <2>2. CASE at # 1
    BY <1>0, <1>2, <1>3, <1>5, <2>2 DEF onTop, peek
  <2> QED
    BY <2>1, <2>2
<1>8. answered' = answered
  BY <1>0, <1>1, <1>3 DEF answered, answer
<1> QED
  BY <1>4, <1>6, <1>7, <1>8 DEF RankedVars

LEMMA PopLeafImplements ==
    ASSUME HeapInv, popNode, children(at) = {}
    PROVE  UNCHANGED RankedVars
<1>0. HeapType /\ step = "pop" /\ at \in tree
  BY DEF HeapInv, HeapType, popNode
<1>1. mData' = detached(mData, at) /\ call' = answer(mData[at]) /\ step' \in {"idle", "removed"}
  BY DEF popNode, returned
<1>2. tree' = tree \ {at} /\ \A p \in tree' : mData'[p] = mData[p]
  BY <1>1 DEF detached, tree
<1>3. held' = held
  BY <1>0, <1>1, <1>2 DEF held
<1>4. onTop' = onTop
  <2>1. 1 \in tree
    BY <1>0, RootFirst
  <2>2. CASE at = 1
    <3>1. tree' = {}
      BY <1>0, <1>2, <2>1, <2>2, OnlyRoot
    <3> QED
      BY <1>0, <1>1, <2>2, <3>1 DEF onTop, peek
  <2>3. CASE at # 1
    BY <1>0, <1>1, <1>2, <2>1, <2>3 DEF onTop, peek
  <2> QED
    BY <2>2, <2>3
<1>5. answered' = answered
  BY <1>0, <1>1 DEF answered
<1> QED
  BY <1>3, <1>4, <1>5 DEF RankedVars

LEMMA RemoveImplements ==
    ASSUME HeapInv, NEW n \in Nodes, remove(n)
    PROVE  Ranked!remove(n) \/ UNCHANGED RankedVars
<1>0. HeapType /\ step = "idle" /\ mData' = mData /\ tree' = tree /\ n # None
  BY RankAssumption DEF HeapInv, remove, tree
<1>1. CASE tree = {}
  <2>1. step' = "idle" /\ call' = <<"remove", n, None>>
    BY <1>0, <1>1 DEF remove
  <2>2. held = {} /\ held' = {} /\ onTop = None /\ onTop' = None /\ answered' = <<"remove", n, None>>
    BY <1>0, <1>1, <2>1 DEF held, onTop, answered, peek
  <2> QED
    BY <1>0, <2>2 DEF Ranked!remove, Ranked!removed
<1>2. CASE tree # {}
  <2>1. step' = "search" /\ call' = call
    BY <1>2 DEF remove
  <2> QED
    BY <1>0, <2>1, NothingShows
<1> QED
  BY <1>1, <1>2

LEMMA RemoveNodeImplements ==
    ASSUME HeapInv, removeNode
    PROVE  (node \in Nodes /\ Ranked!remove(node)) \/ UNCHANGED RankedVars
<1>0. /\ HeapType /\ StoredOnce /\ step = "search" /\ at \in tree /\ node \in Nodes /\ node # None
      /\ UNCHANGED <<mData, node, call>> /\ tree' = tree
  BY RankAssumption DEF HeapInv, HeapType, removeNode, tree
<1>1. CASE mData[at] = node /\ step' = "pop" /\ at' = at
  <2>1. held = {mData[p] : p \in tree} /\ onTop = peek /\ 1 \in tree /\ onTop = mData[1] /\ node \in held
    BY <1>0, <1>1, RootFirst DEF held, onTop, peek
  <2>2. held' = {mData[p] : p \in tree \ {at}}
    BY <1>0, <1>1 DEF held
  <2>3. held' = held \ {node}
    BY <1>0, <1>1, <2>1, <2>2 DEF StoredOnce
  <2>4. answered' = <<"remove", node, node>>
    BY <1>0, <1>1 DEF answered, answer
  <2>5. CASE at = 1
    <3>1. onTop' = IF children(1) = {} THEN None ELSE mData[popSide(1)]
      BY <1>0, <1>1, <2>5 DEF onTop, children, popSide
    <3> DEFINE S == {mData[p] : p \in tree \ {1}}
    <3>2. onTop' \in Ranked!Best(S)
      BY <1>0, <2>1, <3>1, NextOnTop
    <3>3. held' = S
      BY <2>2, <2>5
    <3> HIDE DEF S
    <3>4. node = onTop
      BY <1>1, <2>1, <2>5
    <3> QED
      BY <1>0, <2>1, <2>3, <2>4, <3>2, <3>3, <3>4 DEF Ranked!remove, Ranked!removed
  <2>6. CASE at # 1
    <3>1. node # onTop
      BY <1>0, <1>1, <2>1, <2>6 DEF StoredOnce
    <3>2. onTop' = onTop
      BY <1>0, <1>1, <2>1, <2>6 DEF onTop, peek
    <3> QED
      BY <1>0, <2>1, <2>3, <2>4, <3>1, <3>2 DEF Ranked!remove, Ranked!removed
  <2> QED
    BY <2>5, <2>6
<1>2. CASE step' \in {"search", "unfound"}
  BY <1>0, <1>2, NothingShows
<1> QED
  BY <1>0, <1>1, <1>2 DEF removeNode

LEMMA UnfoundImplements ==
    ASSUME HeapInv, unfound
    PROVE  (node \in Nodes /\ Ranked!remove(node)) \/ UNCHANGED RankedVars
<1>0. HeapType /\ step = "unfound" /\ at \in tree /\ node \in Nodes /\ mData' = mData /\ tree' = tree
  BY DEF HeapInv, HeapType, unfound, tree
<1>1. CASE at = 1 /\ step' = "idle" /\ call' = <<"remove", node, None>>
  <2>1. PICK S \in SUBSET tree : 1 \in S /\ Below(S) /\ \A q \in S : mData[q] # node
    BY <1>0, <1>1 DEF HeapInv, Searched, Cleared
  <2>2. tree \subseteq S
    BY <1>0, <2>1, TreeInduction DEF Below
  <2>3. held = {mData[p] : p \in tree} /\ held' = held /\ node \notin held
    BY <1>0, <1>1, <2>1, <2>2 DEF held
  <2>4. onTop = mData[1] /\ onTop' = onTop
    BY <1>0, <1>1 DEF onTop, peek
  <2>5. answered' = <<"remove", node, None>>
    BY <1>1 DEF answered
  <2>6. onTop \in held
    BY <1>0, <1>1, <2>3, <2>4
  <2> QED
    BY <1>0, <2>3, <2>4, <2>5, <2>6 DEF Ranked!remove, Ranked!removed
<1>2. CASE step' \in {"search", "unfound"} /\ call' = call
  BY <1>0, <1>2, NothingShows
<1> QED
  BY <1>0, <1>1, <1>2 DEF unfound, returned

LEMMA CountImplements ==
    ASSUME HeapInv, pushed \/ removed
    PROVE  UNCHANGED RankedVars
<1>1. UNCHANGED <<mData, call>> /\ step \in {"pushed", "removed"} /\ step' \in {"idle", "pushed", "removed"}
  BY DEF pushed, removed, countBy, returned
<1> QED
  BY <1>1, NothingShows

(* LocHeap.h promises what RankedSet says, and the tree keeps it: each     *)
(* call of push, pop and remove does to the set of nodes what it should,   *)
(* at one of its steps, and the other steps of its recursion show nothing. *)
THEOREM HeapIsRankedSet == HeapSpec => ImplementsRankedSet
<1>1. HeapInit => Ranked!Init
  <2> SUFFICES ASSUME HeapInit PROVE Ranked!Init
    OBVIOUS
  <2>1. tree = {} /\ step = "idle" /\ call = <<None, None, None>>
    BY DEF HeapInit, tree
  <2> QED
    BY <2>1 DEF Ranked!Init, held, onTop, answered, peek
<1>2. HeapInv /\ [HeapNext]_heapVars => [Ranked!Next]_<<held, onTop, answered>>
  <2> SUFFICES ASSUME HeapInv, [HeapNext]_heapVars
               PROVE  Ranked!Next \/ UNCHANGED RankedVars
    BY DEF RankedVars
  <2>1. CASE pop
    BY <2>1, PopImplements DEF Ranked!Next
  <2>2. ASSUME NEW n \in Nodes, push(n) PROVE Ranked!Next
    BY <2>2, PushImplements DEF Ranked!Next
  <2>3. ASSUME NEW n \in Nodes, remove(n) PROVE Ranked!Next \/ UNCHANGED RankedVars
    BY <2>3, RemoveImplements DEF Ranked!Next
  <2>4. CASE pushNode \/ pushed \/ removed
    BY <2>4, PushNodeImplements, CountImplements
  <2>5. CASE popNode
    BY <2>5, PopDownImplements, PopLeafImplements
  <2>6. CASE removeNode
    BY <2>6, RemoveNodeImplements DEF Ranked!Next
  <2>7. CASE unfound
    BY <2>7, UnfoundImplements DEF Ranked!Next
  <2>8. CASE UNCHANGED heapVars
    <3>1. UNCHANGED <<mData, mSize, step, at, node, call>> /\ tree' = tree
      BY <2>8 DEF heapVars, tree
    <3>2. held' = held /\ onTop' = onTop /\ answered' = answered
      BY <3>1 DEF held, onTop, answered, answer, peek, children, popSide
    <3> QED
      BY <3>2 DEF RankedVars
  <2> QED
    BY <2>1, <2>2, <2>3, <2>4, <2>5, <2>6, <2>7, <2>8 DEF HeapNext
<1> QED
  BY <1>1, <1>2, HeapInvariance, PTL DEF HeapSpec, ImplementsRankedSet, Ranked!Spec

-----------------------------------------------------------------------------
(* The root counts the nodes of the tree, until a call that has linked or  *)
(* detached one is back at the root; pop counts at the root first.         *)
rootUncounted == (IF step = "removed" THEN 1 ELSE 0) - (IF step = "pushed" THEN 1 ELSE 0)
                 - (IF step = "pop" /\ from = 1 /\ at # 1 THEN 1 ELSE 0)
RootCounts == /\ IsFiniteSet(tree)
              /\ tree # {} => mSize[1] = Cardinality(tree) + rootUncounted

(* A step that neither links nor counts.                                   *)
LEMMA RootCountKept ==
    ASSUME RootCounts, tree' = tree, tree # {} => mSize'[1] = mSize[1],
           tree # {} => rootUncounted' = rootUncounted
    PROVE  RootCounts'
BY DEF RootCounts

LEMMA RootCountStep ==
    ASSUME HeapInv, RootCounts, [HeapNext]_heapVars
    PROVE  RootCounts'
<1>0. HeapType /\ (tree # {} => 1 \in tree)
  BY RootFirst DEF HeapInv
<1>n. IsFiniteSet(tree) /\ Cardinality(tree) \in Nat
  BY FS_CardinalityType DEF RootCounts
<1>1. ASSUME NEW n \in Nodes, push(n) PROVE RootCounts'
  <2>1. CASE tree = {}
    <3>1. /\ mData' = linked(mData, 1, n) /\ mSize' = linked(mSize, 1, 1) /\ step' = "idle"
          /\ DOMAIN mData = {} /\ DOMAIN mSize = {}
      BY <1>0, <1>1, <2>1 DEF push, tree, HeapType
    <3>2. tree' = {1} /\ mSize'[1] = 1
      BY <3>1 DEF linked, tree
    <3>3. rootUncounted' = 0
      BY <3>1 DEF rootUncounted
    <3>4. IsFiniteSet({1}) /\ Cardinality({1}) = 1
      BY FS_Singleton, Zenon
    <3> QED
      BY <3>2, <3>3, <3>4 DEF RootCounts
  <2>2. CASE tree # {}
    BY <1>1, <2>2, RootCountKept DEF push, rootUncounted, tree
  <2> QED
    BY <2>1, <2>2
<1>2. ASSUME NEW n \in Nodes, remove(n) PROVE RootCounts'
  BY <1>2, RootCountKept DEF remove, rootUncounted, tree
<1>3. CASE pop
  BY <1>3, RootCountKept DEF pop, rootUncounted, tree
<1>4. CASE pushNode
  <2> DEFINE side == pushSide(at)
  <2>0. step = "push" /\ 1 \in tree /\ at \in tree
    BY <1>0, <1>4 DEF pushNode, HeapType
  <2>1. DOMAIN stays = tree /\ DOMAIN mSize = tree
    BY <1>0 DEF stays, tree, HeapType
  <2>2. \/ side \in tree /\ mData' = stays /\ mSize' = mSize /\ step' = step
        \/ /\ side \notin tree /\ mData' = linked(stays, side, sinks)
           /\ mSize' = linked(mSize, side, 1) /\ step' = "pushed"
    BY <1>4 DEF pushNode
  <2> HIDE DEF side
  <2>3. CASE side \in tree
    <3>1. tree' = tree /\ mSize'[1] = mSize[1] /\ rootUncounted' = rootUncounted
      BY <2>0, <2>1, <2>2, <2>3 DEF tree, rootUncounted
    <3> QED
      BY <3>1, RootCountKept
  <2>4. CASE side \notin tree
    <3>1. tree' = tree \cup {side} /\ mSize'[1] = mSize[1]
      BY <2>0, <2>1, <2>2, <2>4 DEF linked, tree
    <3>2. rootUncounted = 0 /\ rootUncounted' = -1
      BY <2>0, <2>2, <2>4 DEF rootUncounted
    <3>3. IsFiniteSet(tree \cup {side}) /\ Cardinality(tree \cup {side}) = Cardinality(tree) + 1
      BY <1>n, <2>4, FS_AddElement
    <3> QED
      BY <1>n, <2>0, <3>1, <3>2, <3>3 DEF RootCounts
  <2> QED
    BY <2>3, <2>4
<1>5. CASE pushed \/ removed
  <2>0. at \in tree /\ 1 \in tree /\ tree' = tree
    BY <1>0, <1>5 DEF HeapType, pushed, removed, countBy, tree
  <2>1. PICK k \in {1, -1} : /\ k = 1 => step = "pushed"
                             /\ k = -1 => step = "removed"
                             /\ countBy(k)
    BY <1>5 DEF pushed, removed
  <2>2. mSize \in [tree -> Int] /\ rootUncounted = -k
    BY <1>0, <2>1 DEF HeapType, rootUncounted
  <2>3. CASE at = 1
    <3>1. mSize'[1] = mSize[1] + k /\ step' = "idle" /\ rootUncounted' = 0
      BY <2>0, <2>1, <2>2, <2>3 DEF countBy, returned, rootUncounted
    <3> QED
      BY <1>n, <2>0, <2>1, <2>2, <3>1 DEF RootCounts
  <2>4. CASE at # 1
    <3>1. mSize'[1] = mSize[1] /\ step' = step
      BY <2>0, <2>1, <2>2, <2>4 DEF countBy
    <3>2. rootUncounted' = rootUncounted
      BY <2>1, <3>1 DEF rootUncounted
    <3> QED
      BY <2>0, <3>1, <3>2, RootCountKept
  <2> QED
    BY <2>3, <2>4
<1>6. CASE popNode /\ children(at) # {}
  <2> DEFINE sub == popSide(at)
  <2>0. step = "pop" /\ at \in tree /\ 1 \in tree /\ (at = 1 => from = 1)
    BY <1>0, <1>6 DEF HeapType, popNode
  <2>1. /\ mData' = [mData EXCEPT ![at] = mData[sub], ![sub] = mData[at]] /\ at' = sub
        /\ mSize' = [mSize EXCEPT ![at] = @ - 1] /\ UNCHANGED <<step, from>>
    BY <1>6 DEF popNode
  <2>2. sub # 1
    BY <1>0, <1>6, <2>0, PopSides
  <2> HIDE DEF sub
  <2>3. tree' = tree /\ mSize \in [tree -> Int]
    BY <1>0, <2>1 DEF HeapType, tree
  <2>4. CASE at = 1
    <3>1. mSize'[1] = mSize[1] - 1 /\ rootUncounted = 0 /\ rootUncounted' = -1
      BY <2>0, <2>1, <2>2, <2>3, <2>4 DEF rootUncounted
    <3> QED
      BY <1>n, <2>0, <2>3, <3>1 DEF RootCounts
  <2>5. CASE at # 1
    <3>1. mSize'[1] = mSize[1] /\ rootUncounted' = rootUncounted
      BY <2>0, <2>1, <2>2, <2>3, <2>5 DEF rootUncounted
    <3> QED
      BY <2>3, <3>1, RootCountKept
  <2> QED
    BY <2>4, <2>5
<1>7. CASE popNode /\ children(at) = {}
  <2>0. step = "pop" /\ at \in tree /\ 1 \in tree /\ DOMAIN mSize = tree
    BY <1>0, <1>7 DEF HeapType, popNode
  <2>1. /\ mData' = detached(mData, at) /\ mSize' = detached(mSize, at)
        /\ \/ from = 1 /\ step' = "idle"
           \/ from # 1 /\ step' = "removed"
    BY <1>7 DEF popNode, returned
  <2>2. tree' = tree \ {at} /\ \A p \in tree' : mSize'[p] = mSize[p]
    BY <2>0, <2>1 DEF detached, tree
  <2>3. IsFiniteSet(tree \ {at}) /\ Cardinality(tree \ {at}) = Cardinality(tree) - 1
    BY <1>n, <2>0, FS_RemoveElement
  <2>4. CASE at = 1
    <3>1. tree' = {}
      BY <1>0, <1>7, <2>0, <2>2, <2>4, OnlyRoot
    <3> QED
      BY <2>2, <2>3, <3>1 DEF RootCounts
  <2>5. CASE at # 1
    <3>1. mSize'[1] = mSize[1]
      BY <2>0, <2>2, <2>5
    <3>2. rootUncounted' = rootUncounted + 1 /\ rootUncounted \in Int
      BY <2>0, <2>1, <2>5 DEF rootUncounted
    <3> QED
      BY <1>n, <2>0, <2>2, <2>3, <3>1, <3>2 DEF RootCounts
  <2> QED
    BY <2>4, <2>5
<1>8. CASE removeNode
  BY <1>8, RootCountKept DEF removeNode, rootUncounted, tree
<1>9. CASE unfound
  BY <1>9, RootCountKept DEF unfound, returned, rootUncounted, tree
<1>10. CASE UNCHANGED heapVars
  BY <1>10, RootCountKept DEF heapVars, rootUncounted, tree
<1> QED
  BY <1>1, <1>2, <1>3, <1>4, <1>5, <1>6, <1>7, <1>8, <1>9, <1>10 DEF HeapNext

(* getTreeSize, which the code's own test compares with the number of      *)
(* nodes it has pushed and not popped: after every call the root's mSize   *)
(* is the number of nodes that the heap holds.                             *)
THEOREM TreeSizeIsCount == HeapSpec => [](step = "idle" => getTreeSize = Cardinality(held))
<1>1. HeapInit => RootCounts
  BY FS_EmptySet DEF HeapInit, RootCounts, tree
<1>2. HeapInv /\ RootCounts /\ [HeapNext]_heapVars => RootCounts'
  BY RootCountStep
<1>3. HeapInv /\ RootCounts => (step = "idle" => getTreeSize = Cardinality(held))
  <2> SUFFICES ASSUME HeapInv, RootCounts, step = "idle" PROVE getTreeSize = Cardinality(held)
    OBVIOUS
  <2>1. held = {mData[p] : p \in tree} /\ mData \in [tree -> Nodes]
    BY DEF held, HeapInv, HeapType
  <2>2. mData \in Bijection(tree, held)
    <3>1. mData \in [tree -> held] /\ \A p, q \in tree : mData[p] = mData[q] => p = q
      BY <2>1 DEF HeapInv, StoredOnce
    <3>2. \A x \in held : \E p \in tree : mData[p] = x
      BY <2>1
    <3> QED
      BY <3>1, <3>2 DEF Bijection, Injection, Surjection, IsInjective
  <2>3. Cardinality(held) = Cardinality(tree) /\ Cardinality(tree) \in Nat
    BY <2>2, FS_Bijection, FS_CardinalityType DEF ExistsBijection, RootCounts
  <2>4. CASE tree = {}
    BY <2>3, <2>4, FS_EmptySet DEF getTreeSize
  <2>5. CASE tree # {}
    <3>1. rootUncounted = 0
      BY DEF rootUncounted
    <3> QED
      BY <2>3, <2>5, <3>1 DEF getTreeSize, RootCounts
  <2> QED
    BY <2>4, <2>5
<1> QED
  BY <1>1, <1>2, <1>3, HeapInvariance, PTL DEF HeapSpec
=============================================================================
