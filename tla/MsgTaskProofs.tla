---------------------------- MODULE MsgTaskProofs ----------------------------
(***************************************************************************)
(* Proofs about what a MsgTask is made of.                                 *)
(*                                                                         *)
(* The message queue (MsgQ), for any messages, any finite set of receivers *)
(* and any length of the list: no wakeup is lost, nobody sleeps on an      *)
(* unblocked queue, and the queue implements MsgChannel.                   *)
(*                                                                         *)
(* The thread (LocThread), for queues of any length: the delegate is       *)
(* deleted by the last of its two users, and the runnable by one of them.  *)
(***************************************************************************)
EXTENDS MsgQ, LocThread, FiniteSetTheorems, SequenceTheorems, TLAPS

(* Adding at the head and removing at the tail, seen from the tail.        *)
LEMMA AddFacts ==
    ASSUME NEW l \in Seq(Messages), NEW msg \in Messages
    PROVE  /\ linked_list_add(l, msg) \in Seq(Messages)
           /\ Len(l) \in Nat /\ Len(linked_list_add(l, msg)) = Len(l) + 1
           /\ linked_list_add(l, msg)[1] = msg
           /\ \A i \in 1..Len(l) : linked_list_add(l, msg)[i + 1] = l[i]
  BY DEF linked_list_add

LEMMA RemoveFacts ==
    ASSUME NEW l \in Seq(Messages), l # <<>>
    PROVE  /\ linked_list_remove(l) \in Seq(Messages)
           /\ Len(l) \in Nat /\ Len(l) > 0
           /\ Len(linked_list_remove(l)) = Len(l) - 1
           /\ linked_list_tail(l) \in Messages
           /\ \A i \in 1..(Len(l) - 1) : linked_list_remove(l)[i] = l[i]
<1>1. Len(l) \in Nat /\ Len(l) > 0
  OBVIOUS
<1>2. linked_list_tail(l) \in Messages
  BY <1>1 DEF linked_list_tail
<1>3. /\ linked_list_remove(l) \in Seq(Messages)
      /\ Len(linked_list_remove(l)) = Len(l) - 1
  BY <1>1 DEF linked_list_remove
<1>4. \A i \in 1..(Len(l) - 1) : linked_list_remove(l)[i] = l[i]
  BY <1>1 DEF linked_list_remove
<1> QED
  BY <1>1, <1>2, <1>3, <1>4

(* Every variable keeps its type.                                          *)
THEOREM TypeCorrect == Spec => []TypeOK
<1>1. Init => TypeOK
  <2> SUFFICES ASSUME Init PROVE TypeOK
    OBVIOUS
  <2>1. unblocked \in BOOLEAN
    BY Zenon DEF Init
  <2>2. /\ list \in Seq(Messages)
        /\ rcv \in [Receivers -> {"out", "waiting", "woken"}]
        /\ got \in [Receivers -> Messages \cup {Nothing}]
    BY DEF Init
  <2> QED
    BY <2>1, <2>2 DEF TypeOK
<1>2. TypeOK /\ [Next]_vars => TypeOK'
  <2> SUFFICES ASSUME TypeOK, [Next]_vars PROVE TypeOK'
    OBVIOUS
  <2> USE DEF TypeOK
  <2>1. ASSUME NEW msg \in Messages, msg_q_snd(msg) PROVE TypeOK'
    BY <2>1, AddFacts DEF msg_q_snd, pthread_cond_signal
  <2>2. ASSUME NEW r \in Receivers, take(r) PROVE TypeOK'
    <3>1. CASE list = <<>>
      BY <2>2, <3>1 DEF take
    <3>2. CASE list # <<>>
      BY <2>2, <3>2, RemoveFacts DEF take
    <3> QED
      BY <3>1, <3>2
  <2>3. ASSUME NEW r \in Receivers, msg_q_rcv(r) \/ wake(r) \/ spuriousWakeup(r)
        PROVE  TypeOK'
    BY <2>2, <2>3 DEF msg_q_rcv, wake, spuriousWakeup
  <2>4. CASE msg_q_flush
    BY <2>4 DEF msg_q_flush
  <2>5. CASE msg_q_unblock
    BY <2>5 DEF msg_q_unblock, pthread_cond_broadcast
  <2>6. CASE UNCHANGED vars
    BY <2>6 DEF vars
  <2> QED
    BY <2>1, <2>3, <2>4, <2>5, <2>6 DEF Next
<1> QED
  BY <1>1, <1>2, PTL DEF Spec

-----------------------------------------------------------------------------
(***************************************************************************)
(* NoLostWakeup is inductive with NobodySleepsUnblocked: a receiver that   *)
(* gives up empty-handed on an unblocked queue would otherwise leave       *)
(* sleepers behind.                                                        *)
(***************************************************************************)
LEMMA WokenFacts ==
    /\ IsFiniteSet(Woken) /\ Cardinality(Woken) \in Nat
    /\ \A r \in Woken : /\ Cardinality(Woken \ {r}) \in Nat
                       /\ Cardinality(Woken \ {r}) = Cardinality(Woken) - 1
    /\ \A r : r \notin Woken => Cardinality(Woken \cup {r}) = Cardinality(Woken) + 1
<1>1. IsFiniteSet(Woken)
  BY QueueAssumption, FS_Subset DEF Woken
<1> QED
  BY <1>1, FS_CardinalityType, FS_AddElement, FS_RemoveElement

(* No wakeup is lost, and nobody sleeps on an unblocked queue.             *)
THEOREM WakeupsKept == Spec => [](NoLostWakeup /\ NobodySleepsUnblocked)
<1>1. Init => NoLostWakeup /\ NobodySleepsUnblocked
  BY DEF Init, NoLostWakeup, NobodySleepsUnblocked, Waiting
<1>2. TypeOK /\ NoLostWakeup /\ NobodySleepsUnblocked /\ [Next]_vars
      => NoLostWakeup' /\ NobodySleepsUnblocked'
  <2> SUFFICES ASSUME TypeOK, NoLostWakeup, NobodySleepsUnblocked, [Next]_vars
               PROVE  NoLostWakeup' /\ NobodySleepsUnblocked'
    OBVIOUS
  <2>t. /\ rcv \in [Receivers -> {"out", "waiting", "woken"}]
        /\ list \in Seq(Messages) /\ Len(list) \in Nat
    BY DEF TypeOK
  <2>w. Waiting # {} => Len(list) <= Cardinality(Woken)
    BY DEF NoLostWakeup
  <2>u. unblocked => Waiting = {}
    BY DEF NobodySleepsUnblocked
  <2>1. ASSUME NEW msg \in Messages, msg_q_snd(msg)
        PROVE  NoLostWakeup' /\ NobodySleepsUnblocked'
    <3>1. Len(list') = Len(list) + 1 /\ ~unblocked'
      BY <2>t, <2>1, AddFacts DEF msg_q_snd
    <3>2. CASE Waiting = {}
      <4>1. Waiting' = {}
        BY <2>1, <3>2 DEF msg_q_snd, pthread_cond_signal, Waiting
      <4> QED
        BY <4>1 DEF NoLostWakeup, NobodySleepsUnblocked
    <3>3. CASE Waiting # {}
      <4>1. PICK r \in Waiting : rcv' = [rcv EXCEPT ![r] = "woken"]
        BY <2>1, <3>3 DEF msg_q_snd, pthread_cond_signal
      <4>2. Woken' = Woken \cup {r} /\ r \notin Woken
        BY <2>t, <4>1 DEF Waiting, Woken
      <4>3. Cardinality(Woken') = Cardinality(Woken) + 1
        BY <4>2, WokenFacts
      <4> QED
        BY <2>t, <2>w, <3>1, <3>3, <4>3, WokenFacts DEF NoLostWakeup, NobodySleepsUnblocked
    <3> QED
      BY <3>2, <3>3
  <2>2. ASSUME NEW r \in Receivers, rcv[r] # "waiting", take(r)
        PROVE  NoLostWakeup' /\ NobodySleepsUnblocked'
    <3>1. Waiting' = Waiting /\ Woken' = Woken \ {r} /\ (unblocked' <=> unblocked)
      BY <2>t, <2>2 DEF take, Waiting, Woken
    <3>2. Cardinality(Woken') \in Nat /\ Cardinality(Woken') >= Cardinality(Woken) - 1
      <4>1. CASE r \in Woken
        BY <3>1, <4>1, WokenFacts
      <4>2. CASE r \notin Woken
        <5>1. Woken' = Woken
          BY <3>1, <4>2
        <5> QED
          BY <5>1, WokenFacts
      <4> QED
        BY <4>1, <4>2
    <3>3. CASE list = <<>>
      <4>1. Len(list') = 0
        BY <2>2, <3>3 DEF take
      <4> QED
        BY <2>u, <3>1, <3>2, <4>1 DEF NoLostWakeup, NobodySleepsUnblocked
    <3>4. CASE list # <<>>
      <4>1. Len(list') = Len(list) - 1
        BY <2>t, <2>2, <3>4, RemoveFacts DEF take
      <4> QED
        BY <2>t, <2>w, <2>u, <3>1, <3>2, <4>1, WokenFacts
        DEF NoLostWakeup, NobodySleepsUnblocked
    <3> QED
      BY <3>3, <3>4
  <2>3. ASSUME NEW r \in Receivers, mustWait,
               rcv' = [rcv EXCEPT ![r] = "waiting"], UNCHANGED <<list, unblocked, got>>
        PROVE  NoLostWakeup' /\ NobodySleepsUnblocked'
    <3>1. IsFiniteSet(Woken') /\ Len(list') = 0 /\ ~unblocked'
      BY <2>3, QueueAssumption, FS_Subset DEF Woken, mustWait
    <3>2. Cardinality(Woken') \in Nat
      BY <3>1, FS_CardinalityType
    <3> QED
      BY <3>1, <3>2 DEF NoLostWakeup, NobodySleepsUnblocked
  <2>4. ASSUME NEW r \in Receivers, msg_q_rcv(r)
        PROVE  NoLostWakeup' /\ NobodySleepsUnblocked'
    <3>1. CASE unblocked
      BY <2>4, <2>u, <3>1
      DEF msg_q_rcv, mustWait, NoLostWakeup, NobodySleepsUnblocked, Waiting
    <3>2. CASE ~unblocked
      BY <2>2, <2>3, <2>4, <3>2 DEF msg_q_rcv
    <3> QED
      BY <3>1, <3>2
  <2>5. ASSUME NEW r \in Receivers, wake(r)
        PROVE  NoLostWakeup' /\ NobodySleepsUnblocked'
    BY <2>2, <2>3, <2>5 DEF wake
  <2>6. ASSUME NEW r \in Receivers, spuriousWakeup(r)
        PROVE  NoLostWakeup' /\ NobodySleepsUnblocked'
    <3>1. /\ r \in Waiting /\ r \notin Woken /\ Woken' = Woken \cup {r}
          /\ ~unblocked' /\ Len(list') = Len(list)
      BY <2>t, <2>u, <2>6 DEF spuriousWakeup, Waiting, Woken
    <3>2. Cardinality(Woken') = Cardinality(Woken) + 1
      BY <3>1, WokenFacts
    <3> QED
      BY <2>t, <2>w, <3>1, <3>2, WokenFacts DEF NoLostWakeup, NobodySleepsUnblocked
  <2>7. CASE msg_q_flush
    <3>1. Waiting' = Waiting /\ Woken' = Woken /\ Len(list') = 0 /\ (unblocked' <=> unblocked)
      BY <2>7 DEF msg_q_flush, Waiting, Woken
    <3> QED
      BY <2>u, <3>1, WokenFacts DEF NoLostWakeup, NobodySleepsUnblocked
  <2>8. CASE msg_q_unblock
    BY <2>t, <2>8
    DEF msg_q_unblock, pthread_cond_broadcast, NoLostWakeup, NobodySleepsUnblocked, Waiting
  <2>9. CASE UNCHANGED vars
    BY <2>w, <2>u, <2>9 DEF vars, NoLostWakeup, NobodySleepsUnblocked, Waiting, Woken
  <2> QED
    BY <2>1, <2>4, <2>5, <2>6, <2>7, <2>8, <2>9 DEF Next
<1> QED
  BY <1>1, <1>2, TypeCorrect, PTL DEF Spec

-----------------------------------------------------------------------------
(* What adding and removing do to the list read from its tail.             *)
fromTail(l) == [i \in 1..Len(l) |-> l[Len(l) + 1 - i]]

LEMMA AddIsAppend ==
    ASSUME NEW l \in Seq(Messages), NEW msg \in Messages
    PROVE  fromTail(linked_list_add(l, msg)) = Append(fromTail(l), msg)
<1> DEFINE m == linked_list_add(l, msg)
<1>1. /\ Len(l) \in Nat /\ Len(m) = Len(l) + 1 /\ m[1] = msg
      /\ \A i \in 1..Len(l) : m[i + 1] = l[i]
  BY AddFacts
<1>2. fromTail(l) \in Seq(Messages) /\ Len(fromTail(l)) = Len(l)
  BY <1>1 DEF fromTail
<1> HIDE DEF m
<1>3. /\ fromTail(m) \in Seq(Messages) /\ Len(fromTail(m)) = Len(l) + 1
      /\ \A i \in 1..(Len(l) + 1) : fromTail(m)[i] = m[Len(l) + 2 - i]
  <2>1. m \in Seq(Messages)
    BY AddFacts DEF m
  <2> QED
    BY <1>1, <2>1 DEF fromTail
<1> DEFINE a == Append(fromTail(l), msg)
<1>4. /\ a \in Seq(Messages) /\ Len(a) = Len(l) + 1 /\ a[Len(l) + 1] = msg
      /\ \A i \in 1..Len(l) : a[i] = fromTail(l)[i]
  BY <1>2, AppendProperties
<1> HIDE DEF a
<1>5. ASSUME NEW i \in 1..(Len(l) + 1)
      PROVE  fromTail(m)[i] = a[i]
  <2>1. CASE i = Len(l) + 1
    BY <1>1, <1>3, <1>4, <2>1
  <2>2. CASE i # Len(l) + 1
    <3>1. i \in 1..Len(l) /\ Len(l) + 1 - i \in 1..Len(l)
      BY <1>1, <2>2
    <3>2. fromTail(l)[i] = l[Len(l) + 1 - i]
      BY <3>1 DEF fromTail
    <3>3. m[(Len(l) + 1 - i) + 1] = l[Len(l) + 1 - i]
      BY <1>1, <3>1
    <3> QED
      BY <1>1, <1>3, <1>4, <3>1, <3>2, <3>3
  <2> QED
    BY <2>1, <2>2
<1>6. fromTail(m) = a
  BY <1>3, <1>4, <1>5, SeqEqual
<1> QED
  BY <1>6 DEF m, a

LEMMA RemoveIsTail ==
    ASSUME NEW l \in Seq(Messages), l # <<>>
    PROVE  /\ fromTail(l) # <<>>
           /\ Head(fromTail(l)) = linked_list_tail(l)
           /\ fromTail(linked_list_remove(l)) = Tail(fromTail(l))
<1> DEFINE m == linked_list_remove(l)
<1>1. /\ Len(l) \in Nat /\ Len(l) > 0 /\ Len(m) = Len(l) - 1
      /\ \A i \in 1..(Len(l) - 1) : m[i] = l[i]
  BY RemoveFacts
<1>2. fromTail(l) \in Seq(Messages) /\ Len(fromTail(l)) = Len(l)
  BY <1>1 DEF fromTail
<1>3. fromTail(l)[1] = linked_list_tail(l)
  BY <1>1 DEF fromTail, linked_list_tail
<1> HIDE DEF m
<1>4. /\ fromTail(m) \in Seq(Messages) /\ Len(fromTail(m)) = Len(l) - 1
      /\ \A i \in 1..(Len(l) - 1) : fromTail(m)[i] = m[Len(l) - i]
  <2>1. m \in Seq(Messages)
    BY RemoveFacts DEF m
  <2> QED
    BY <1>1, <2>1 DEF fromTail
<1> DEFINE t == Tail(fromTail(l))
<1>5. /\ t \in Seq(Messages) /\ Len(t) = Len(l) - 1
      /\ \A i \in 1..(Len(l) - 1) : t[i] = fromTail(l)[i + 1]
  <2>1. fromTail(l) # <<>>
    BY <1>1, <1>2
  <2> QED
    BY <1>2, <2>1, HeadTailProperties
<1> HIDE DEF t
<1>6. ASSUME NEW i \in 1..(Len(l) - 1) PROVE fromTail(m)[i] = t[i]
  <2>1. Len(l) - i \in 1..(Len(l) - 1) /\ i + 1 \in 1..Len(l)
    BY <1>1
  <2>2. fromTail(l)[i + 1] = l[Len(l) + 1 - (i + 1)]
    BY <2>1 DEF fromTail
  <2>3. Len(l) + 1 - (i + 1) = Len(l) - i
    <3>1. \A a, b \in Int : a + 1 - (b + 1) = a - b
      OBVIOUS
    <3>2. Len(l) \in Int /\ i \in Int
      BY <1>1
    <3> QED
      BY <3>1, <3>2
  <2>4. t[i] = l[Len(l) - i]
    BY <1>5, <2>2, <2>3
  <2>5. fromTail(m)[i] = m[Len(l) - i] /\ m[Len(l) - i] = l[Len(l) - i]
    BY <1>1, <1>4, <2>1
  <2> QED
    BY <2>4, <2>5
<1>7. fromTail(m) = t
  BY <1>4, <1>5, <1>6, SeqEqual
<1> QED
  BY <1>1, <1>2, <1>3, <1>7 DEF m, t

LEMMA EmptyFromTail == fromTail(<<>>) = <<>>
  BY DEF fromTail

(* The queue of msg_q.c implements the channel its users rely on.          *)
THEOREM Refinement == Spec => ImplementsChannel
<1>0. oldestFirst = fromTail(list)
  BY DEF oldestFirst, fromTail
<1>1. Init => Channel!Init
  BY <1>0, EmptyFromTail DEF Init, Channel!Init
<1>2. TypeOK /\ NobodySleepsUnblocked /\ [Next]_vars => [Channel!Next]_(Channel!vars)
  <2> SUFFICES ASSUME TypeOK, NobodySleepsUnblocked, [Next]_vars
               PROVE  Channel!Next \/ UNCHANGED Channel!vars
    BY Zenon
  <2>t. /\ list \in Seq(Messages)
        /\ rcv \in [Receivers -> {"out", "waiting", "woken"}]
    BY DEF TypeOK
  <2>p. oldestFirst' = fromTail(list')
    BY DEF oldestFirst, fromTail
  <2>1. ASSUME NEW msg \in Messages, msg_q_snd(msg) PROVE Channel!Send(msg)
    BY <2>t, <2>p, <1>0, <2>1, AddIsAppend DEF msg_q_snd, Channel!Send
  <2>2. ASSUME NEW r \in Receivers, take(r), list # <<>> PROVE Channel!Deliver(r)
    BY <2>t, <2>p, <1>0, <2>2, RemoveIsTail DEF take, Channel!Deliver
  <2>3. ASSUME NEW r \in Receivers, take(r), list = <<>>, unblocked PROVE Channel!TurnAway(r)
    BY <2>p, <1>0, <2>3 DEF take, Channel!TurnAway
  <2>4. ASSUME NEW r \in Receivers, msg_q_rcv(r) \/ wake(r) \/ spuriousWakeup(r)
        PROVE  Channel!Deliver(r) \/ Channel!TurnAway(r) \/ UNCHANGED Channel!vars
    <3>1. CASE take(r)
      <4>1. list = <<>> => unblocked
        BY <2>t, <2>4, <3>1 DEF msg_q_rcv, wake, spuriousWakeup, mustWait, take
      <4> QED
        BY <2>2, <2>3, <3>1, <4>1
    <3>2. CASE ~take(r)
      <4>1. \/ /\ unblocked /\ got' = [got EXCEPT ![r] = Nothing]
               /\ UNCHANGED <<list, unblocked>>
            \/ UNCHANGED <<list, unblocked, got>>
        BY <2>4, <3>2, Zenon DEF msg_q_rcv, wake, spuriousWakeup
      <4> QED
        BY <2>p, <1>0, <4>1 DEF Channel!TurnAway, Channel!vars
    <3> QED
      BY <3>1, <3>2
  <2>5. CASE msg_q_flush
    BY <2>p, <1>0, <2>5, EmptyFromTail DEF msg_q_flush, Channel!Next, Channel!Discard
  <2>6. CASE msg_q_unblock
    BY <2>p, <1>0, <2>6 DEF msg_q_unblock, Channel!Next, Channel!Close
  <2>7. CASE UNCHANGED vars
    BY <2>p, <1>0, <2>7 DEF vars, Channel!vars
  <2> QED
    BY <2>1, <2>4, <2>5, <2>6, <2>7, Zenon DEF Next, Channel!Next
<1> QED
  BY <1>1, <1>2, TypeCorrect, WakeupsKept, PTL DEF Spec, Channel!Spec, ImplementsChannel

(* A receiver gives up without a message only on an unblocked queue.       *)
THEOREM EmptyHanded == Spec => EmptyHandedOnlyUnblocked
<1> DEFINE A == \A r \in Receivers : got[r] # Nothing /\ got'[r] = Nothing => unblocked
<1>1. TypeOK /\ [Next]_vars => [A]_vars
  <2> SUFFICES ASSUME TypeOK, Next, NEW r \in Receivers,
                      got[r] # Nothing, got'[r] = Nothing
               PROVE  unblocked
    BY Zenon
  <2>t. /\ got \in [Receivers -> Messages \cup {Nothing}]
        /\ rcv \in [Receivers -> {"out", "waiting", "woken"}]
        /\ list \in Seq(Messages)
    BY DEF TypeOK
  <2>1. PICK s \in Receivers : msg_q_rcv(s) \/ wake(s)
    BY DEF Next, msg_q_snd, spuriousWakeup, msg_q_flush, msg_q_unblock
  <2>2. CASE take(s)
    <3>1. CASE list = <<>>
      BY <2>t, <2>1, <2>2, <3>1 DEF msg_q_rcv, wake, mustWait, take
    <3>2. CASE list # <<>>
      <4>1. linked_list_tail(list) # Nothing
        BY <2>t, <3>2, RemoveFacts, QueueAssumption
      <4>2. got' = [got EXCEPT ![s] = linked_list_tail(list)]
        BY <2>2, <3>2 DEF take
      <4> QED
        BY <2>t, <4>1, <4>2
    <3> QED
      BY <3>1, <3>2
  <2>3. CASE ~take(s)
    BY <2>1, <2>3 DEF msg_q_rcv, wake
  <2> QED
    BY <2>2, <2>3
<1> QED
  BY <1>1, TypeCorrect, PTL DEF Spec, EmptyHandedOnlyUnblocked

-----------------------------------------------------------------------------
(* Who has a reference to the delegate.  A task that is being destroyed    *)
(* has one if it has a thread.                                             *)
ClientHolds == \/ client \in {"created", "notStarted", "started", "bye", "stop", "join", "drop"}
               \/ client = "destroy" /\ mThread

(***************************************************************************)
(* The inductive invariant.  mRefCount is the number of those who have a   *)
(* reference, and the delegate is there as long as it is not zero.         *)
(***************************************************************************)
Counted ==
    /\ mRefCount = (IF ClientHolds THEN 1 ELSE 0) + (IF ThreadUsesDelegate THEN 1 ELSE 0)
    /\ delegate = IF client = "out" THEN "none" ELSE IF mRefCount > 0 THEN "alive" ELSE "freed"

TaskHasThread ==
    /\ client = "started" => mThread
    /\ client \notin {"started", "destroy"} => ~mThread
    /\ client \in {"out", "notStarted"} /\ thread = "none" => ~mRunnable
    /\ client = "out" => thread = "none"

(* Each of the two deletes the runnable at most once.                      *)
DeletionsCounted ==
    deleted <= (IF client = "gone" THEN 1 ELSE 0) + (IF thread \in {"leave", "exited"} THEN 1 ELSE 0)

(* If what run() waits on could be made, the thread cannot end before      *)
(* destroy() has been called.                                              *)
OpenUntilDestroyed ==
    source # "bad" /\ client \in {"out", "created", "notStarted", "noThread", "started"}
          => source = "open"

RunsUntilDestroyed ==
    source # "bad" /\ client \in {"created", "started"} =>
        \/ thread \in {"begin", "loop", "inRun"} /\ mRunnable
        \/ thread = "none" /\ client = "created" /\ ~mRunnable

(* So a client that was told that there is no thread was told the truth,   *)
(* and it alone deletes the runnable.                                      *)
NoThreadIsNone ==
    source # "bad" /\ (client \in {"notStarted", "noThread"} \/ (client = "destroy" /\ ~mThread)) => thread = "none"

OneDeletes ==
    source # "bad" /\ deleted > 0 =>
        /\ deleted = 1
        /\ \/ thread \in {"leave", "exited"}
           \/ thread = "none" /\ client = "gone"

ThreadInv ==
    /\ ThreadTypeOK /\ Counted /\ TaskHasThread /\ DeletionsCounted
    /\ OpenUntilDestroyed /\ RunsUntilDestroyed /\ NoThreadIsNone /\ OneDeletes

-----------------------------------------------------------------------------
LEMMA InitInv == ThreadInit => ThreadInv
<1> SUFFICES ASSUME ThreadInit PROVE ThreadInv
  OBVIOUS
<1> USE ThreadAssumption DEF ThreadInit
<1>1. mThread \in BOOLEAN /\ mRunnable \in BOOLEAN /\ mJoinable \in BOOLEAN /\ joinable \in BOOLEAN
  BY Zenon
<1>2. ThreadTypeOK
  BY <1>1 DEF ThreadTypeOK
<1>3. Counted /\ TaskHasThread /\ DeletionsCounted
  BY DEF Counted, TaskHasThread, DeletionsCounted, ClientHolds, ThreadUsesDelegate
<1>4. OpenUntilDestroyed /\ RunsUntilDestroyed /\ NoThreadIsNone /\ OneDeletes
  BY DEF OpenUntilDestroyed, RunsUntilDestroyed, NoThreadIsNone, OneDeletes
<1> QED
  BY <1>2, <1>3, <1>4 DEF ThreadInv

LEMMA CreateStep == ASSUME ThreadInv, createThread, UNCHANGED runnable PROVE ThreadInv'
<1> USE ThreadAssumption DEF createThread, initialRefCount, shared
<1>1. mThread' \in BOOLEAN /\ mRunnable' \in BOOLEAN /\ mJoinable' \in BOOLEAN /\ joinable' \in BOOLEAN
  BY Zenon DEF ThreadInv, ThreadTypeOK
<1>2. ThreadTypeOK'
  BY <1>1 DEF ThreadInv, ThreadTypeOK, DeletionsCounted
<1>3. Counted'
  BY DEF ThreadInv, Counted, ClientHolds, ThreadUsesDelegate, TaskHasThread, ThreadTypeOK
<1>4. TaskHasThread'
  BY DEF ThreadInv, TaskHasThread, ThreadTypeOK
<1>5. DeletionsCounted'
  BY DEF ThreadInv, DeletionsCounted, TaskHasThread, ThreadTypeOK
<1>6. OpenUntilDestroyed'
  BY DEF ThreadInv, OpenUntilDestroyed, ThreadTypeOK
<1>7. RunsUntilDestroyed'
  BY DEF ThreadInv, RunsUntilDestroyed, OpenUntilDestroyed, TaskHasThread, ThreadTypeOK
<1>8. NoThreadIsNone'
  BY DEF ThreadInv, NoThreadIsNone, RunsUntilDestroyed, TaskHasThread, ThreadTypeOK
<1>9. OneDeletes'
  BY DEF ThreadInv, OneDeletes, NoThreadIsNone, TaskHasThread, DeletionsCounted, ThreadTypeOK
<1> QED
  BY <1>2, <1>3, <1>4, <1>5, <1>6, <1>7, <1>8, <1>9 DEF ThreadInv

LEMMA CreateReturnsStep == ASSUME ThreadInv, createReturns, UNCHANGED runnable PROVE ThreadInv'
<1> USE ThreadAssumption DEF createReturns, shared
<1>1. mThread' \in BOOLEAN /\ mRunnable' \in BOOLEAN /\ mJoinable' \in BOOLEAN /\ joinable' \in BOOLEAN
  BY Zenon DEF ThreadInv, ThreadTypeOK
<1>2. ThreadTypeOK'
  BY <1>1 DEF ThreadInv, ThreadTypeOK, DeletionsCounted
<1>3. Counted'
  BY DEF ThreadInv, Counted, ClientHolds, ThreadUsesDelegate, TaskHasThread, ThreadTypeOK
<1>4. TaskHasThread'
  BY DEF ThreadInv, TaskHasThread, ThreadTypeOK
<1>5. DeletionsCounted'
  BY DEF ThreadInv, DeletionsCounted, ThreadTypeOK
<1>6. OpenUntilDestroyed'
  BY DEF ThreadInv, OpenUntilDestroyed, ThreadTypeOK
<1>7. RunsUntilDestroyed'
  BY DEF ThreadInv, RunsUntilDestroyed, OpenUntilDestroyed, TaskHasThread, ThreadTypeOK
<1>8. NoThreadIsNone'
  BY DEF ThreadInv, NoThreadIsNone, RunsUntilDestroyed, TaskHasThread, ThreadTypeOK
<1>9. OneDeletes'
  BY DEF ThreadInv, OneDeletes, NoThreadIsNone, TaskHasThread, DeletionsCounted, ThreadTypeOK
<1> QED
  BY <1>2, <1>3, <1>4, <1>5, <1>6, <1>7, <1>8, <1>9 DEF ThreadInv

LEMMA StartFailsStep == ASSUME ThreadInv, startFails, UNCHANGED runnable PROVE ThreadInv'
<1> USE ThreadAssumption DEF startFails, destroyDelegate, shared
<1>1. mThread' \in BOOLEAN /\ mRunnable' \in BOOLEAN /\ mJoinable' \in BOOLEAN /\ joinable' \in BOOLEAN
  BY Zenon DEF ThreadInv, ThreadTypeOK
<1>2. ThreadTypeOK'
  BY <1>1 DEF ThreadInv, ThreadTypeOK, DeletionsCounted
<1>3. Counted'
  BY DEF ThreadInv, Counted, ClientHolds, ThreadUsesDelegate, TaskHasThread, ThreadTypeOK
<1>4. TaskHasThread'
  BY DEF ThreadInv, TaskHasThread, ThreadTypeOK
<1>5. DeletionsCounted'
  BY DEF ThreadInv, DeletionsCounted, ThreadTypeOK
<1>6. OpenUntilDestroyed'
  BY DEF ThreadInv, OpenUntilDestroyed, ThreadTypeOK
<1>7. RunsUntilDestroyed'
  BY DEF ThreadInv, RunsUntilDestroyed, OpenUntilDestroyed, TaskHasThread, ThreadTypeOK
<1>8. NoThreadIsNone'
  BY DEF ThreadInv, NoThreadIsNone, RunsUntilDestroyed, TaskHasThread, ThreadTypeOK
<1>9. OneDeletes'
  BY DEF ThreadInv, OneDeletes, NoThreadIsNone, TaskHasThread, DeletionsCounted, ThreadTypeOK
<1> QED
  BY <1>2, <1>3, <1>4, <1>5, <1>6, <1>7, <1>8, <1>9 DEF ThreadInv

LEMMA DestroyStep == ASSUME ThreadInv, destroy, UNCHANGED runnable PROVE ThreadInv'
<1> USE ThreadAssumption DEF destroy, IsMsgTask, shared
<1>1. mThread' \in BOOLEAN /\ mRunnable' \in BOOLEAN /\ mJoinable' \in BOOLEAN /\ joinable' \in BOOLEAN
  BY Zenon DEF ThreadInv, ThreadTypeOK
<1>2. ThreadTypeOK'
  BY <1>1 DEF ThreadInv, ThreadTypeOK, DeletionsCounted
<1>3. Counted'
  BY DEF ThreadInv, Counted, ClientHolds, ThreadUsesDelegate, TaskHasThread, ThreadTypeOK
<1>4. TaskHasThread'
  BY DEF ThreadInv, TaskHasThread, ThreadTypeOK
<1>5. DeletionsCounted'
  BY DEF ThreadInv, DeletionsCounted, ThreadTypeOK
<1>6. OpenUntilDestroyed'
  BY DEF ThreadInv, OpenUntilDestroyed, ThreadTypeOK
<1>7. RunsUntilDestroyed'
  BY DEF ThreadInv, RunsUntilDestroyed, OpenUntilDestroyed, TaskHasThread, ThreadTypeOK
<1>8. NoThreadIsNone'
  BY DEF ThreadInv, NoThreadIsNone, RunsUntilDestroyed, TaskHasThread, ThreadTypeOK
<1>9. OneDeletes'
  BY DEF ThreadInv, OneDeletes, NoThreadIsNone, TaskHasThread, DeletionsCounted, ThreadTypeOK
<1> QED
  BY <1>2, <1>3, <1>4, <1>5, <1>6, <1>7, <1>8, <1>9 DEF ThreadInv

LEMMA DeleteThreadStep == ASSUME ThreadInv, deleteThreadOrThis, UNCHANGED runnable PROVE ThreadInv'
<1> USE ThreadAssumption DEF deleteThreadOrThis, deleteTask, shared
<1>1. mThread' \in BOOLEAN /\ mRunnable' \in BOOLEAN /\ mJoinable' \in BOOLEAN /\ joinable' \in BOOLEAN
  BY Zenon DEF ThreadInv, ThreadTypeOK
<1>2. ThreadTypeOK'
  BY <1>1 DEF ThreadInv, ThreadTypeOK, DeletionsCounted
<1>3. Counted'
  BY DEF ThreadInv, Counted, ClientHolds, ThreadUsesDelegate, TaskHasThread, ThreadTypeOK
<1>4. TaskHasThread'
  BY DEF ThreadInv, TaskHasThread, ThreadTypeOK
<1>5. DeletionsCounted'
  BY DEF ThreadInv, DeletionsCounted, ThreadTypeOK
<1>6. OpenUntilDestroyed'
  BY DEF ThreadInv, OpenUntilDestroyed, ThreadTypeOK
<1>7. RunsUntilDestroyed'
  BY DEF ThreadInv, RunsUntilDestroyed, OpenUntilDestroyed, TaskHasThread, ThreadTypeOK
<1>8. NoThreadIsNone'
  BY DEF ThreadInv, NoThreadIsNone, RunsUntilDestroyed, TaskHasThread, ThreadTypeOK
<1>9. OneDeletes'
  BY DEF ThreadInv, OneDeletes, NoThreadIsNone, TaskHasThread, DeletionsCounted, ThreadTypeOK
<1> QED
  BY <1>2, <1>3, <1>4, <1>5, <1>6, <1>7, <1>8, <1>9 DEF ThreadInv

LEMMA ByeStep == ASSUME ThreadInv, bye, UNCHANGED runnable PROVE ThreadInv'
<1> USE ThreadAssumption DEF bye, shared
<1>1. mThread' \in BOOLEAN /\ mRunnable' \in BOOLEAN /\ mJoinable' \in BOOLEAN /\ joinable' \in BOOLEAN
  BY Zenon DEF ThreadInv, ThreadTypeOK
<1>2. ThreadTypeOK'
  BY <1>1 DEF ThreadInv, ThreadTypeOK, DeletionsCounted
<1>3. Counted'
  BY DEF ThreadInv, Counted, ClientHolds, ThreadUsesDelegate, TaskHasThread, ThreadTypeOK
<1>4. TaskHasThread'
  BY DEF ThreadInv, TaskHasThread, ThreadTypeOK
<1>5. DeletionsCounted'
  BY DEF ThreadInv, DeletionsCounted, ThreadTypeOK
<1>6. OpenUntilDestroyed'
  BY DEF ThreadInv, OpenUntilDestroyed, ThreadTypeOK
<1>7. RunsUntilDestroyed'
  BY DEF ThreadInv, RunsUntilDestroyed, OpenUntilDestroyed, TaskHasThread, ThreadTypeOK
<1>8. NoThreadIsNone'
  BY DEF ThreadInv, NoThreadIsNone, RunsUntilDestroyed, TaskHasThread, ThreadTypeOK
<1>9. OneDeletes'
  BY DEF ThreadInv, OneDeletes, NoThreadIsNone, TaskHasThread, DeletionsCounted, ThreadTypeOK
<1> QED
  BY <1>2, <1>3, <1>4, <1>5, <1>6, <1>7, <1>8, <1>9 DEF ThreadInv

LEMMA StopStep == ASSUME ThreadInv, stop, UNCHANGED runnable PROVE ThreadInv'
<1> USE ThreadAssumption DEF stop, shared
<1>1. mThread' \in BOOLEAN /\ mRunnable' \in BOOLEAN /\ mJoinable' \in BOOLEAN /\ joinable' \in BOOLEAN
  BY Zenon DEF ThreadInv, ThreadTypeOK
<1>2. ThreadTypeOK'
  BY <1>1 DEF ThreadInv, ThreadTypeOK, DeletionsCounted
<1>3. Counted'
  BY DEF ThreadInv, Counted, ClientHolds, ThreadUsesDelegate, TaskHasThread, ThreadTypeOK
<1>4. TaskHasThread'
  BY DEF ThreadInv, TaskHasThread, ThreadTypeOK
<1>5. DeletionsCounted'
  BY DEF ThreadInv, DeletionsCounted, ThreadTypeOK
<1>6. OpenUntilDestroyed'
  BY DEF ThreadInv, OpenUntilDestroyed, ThreadTypeOK
<1>7. RunsUntilDestroyed'
  BY DEF ThreadInv, RunsUntilDestroyed, OpenUntilDestroyed, TaskHasThread, ThreadTypeOK
<1>8. NoThreadIsNone'
  BY DEF ThreadInv, NoThreadIsNone, RunsUntilDestroyed, TaskHasThread, ThreadTypeOK
<1>9. OneDeletes'
  BY DEF ThreadInv, OneDeletes, NoThreadIsNone, TaskHasThread, DeletionsCounted, ThreadTypeOK
<1> QED
  BY <1>2, <1>3, <1>4, <1>5, <1>6, <1>7, <1>8, <1>9 DEF ThreadInv

LEMMA JoinStep == ASSUME ThreadInv, join, UNCHANGED runnable PROVE ThreadInv'
<1> USE ThreadAssumption DEF join, shared
<1>1. mThread' \in BOOLEAN /\ mRunnable' \in BOOLEAN /\ mJoinable' \in BOOLEAN /\ joinable' \in BOOLEAN
  BY Zenon DEF ThreadInv, ThreadTypeOK
<1>2. ThreadTypeOK'
  BY <1>1 DEF ThreadInv, ThreadTypeOK, DeletionsCounted
<1>3. Counted'
  BY DEF ThreadInv, Counted, ClientHolds, ThreadUsesDelegate, TaskHasThread, ThreadTypeOK
<1>4. TaskHasThread'
  BY DEF ThreadInv, TaskHasThread, ThreadTypeOK
<1>5. DeletionsCounted'
  BY DEF ThreadInv, DeletionsCounted, ThreadTypeOK
<1>6. OpenUntilDestroyed'
  BY DEF ThreadInv, OpenUntilDestroyed, ThreadTypeOK
<1>7. RunsUntilDestroyed'
  BY DEF ThreadInv, RunsUntilDestroyed, OpenUntilDestroyed, TaskHasThread, ThreadTypeOK
<1>8. NoThreadIsNone'
  BY DEF ThreadInv, NoThreadIsNone, RunsUntilDestroyed, TaskHasThread, ThreadTypeOK
<1>9. OneDeletes'
  BY DEF ThreadInv, OneDeletes, NoThreadIsNone, TaskHasThread, DeletionsCounted, ThreadTypeOK
<1> QED
  BY <1>2, <1>3, <1>4, <1>5, <1>6, <1>7, <1>8, <1>9 DEF ThreadInv

LEMMA LetGoStep == ASSUME ThreadInv, letGo, UNCHANGED runnable PROVE ThreadInv'
<1> USE ThreadAssumption DEF letGo, destroyDelegate, shared
<1>1. mThread' \in BOOLEAN /\ mRunnable' \in BOOLEAN /\ mJoinable' \in BOOLEAN /\ joinable' \in BOOLEAN
  BY Zenon DEF ThreadInv, ThreadTypeOK
<1>2. ThreadTypeOK'
  BY <1>1 DEF ThreadInv, ThreadTypeOK, DeletionsCounted
<1>3. Counted'
  BY DEF ThreadInv, Counted, ClientHolds, ThreadUsesDelegate, TaskHasThread, ThreadTypeOK
<1>4. TaskHasThread'
  BY DEF ThreadInv, TaskHasThread, ThreadTypeOK
<1>5. DeletionsCounted'
  BY DEF ThreadInv, DeletionsCounted, ThreadTypeOK
<1>6. OpenUntilDestroyed'
  BY DEF ThreadInv, OpenUntilDestroyed, ThreadTypeOK
<1>7. RunsUntilDestroyed'
  BY DEF ThreadInv, RunsUntilDestroyed, OpenUntilDestroyed, TaskHasThread, ThreadTypeOK
<1>8. NoThreadIsNone'
  BY DEF ThreadInv, NoThreadIsNone, RunsUntilDestroyed, TaskHasThread, ThreadTypeOK
<1>9. OneDeletes'
  BY DEF ThreadInv, OneDeletes, NoThreadIsNone, TaskHasThread, DeletionsCounted, ThreadTypeOK
<1> QED
  BY <1>2, <1>3, <1>4, <1>5, <1>6, <1>7, <1>8, <1>9 DEF ThreadInv

LEMMA EnterStep == ASSUME ThreadInv, enter, UNCHANGED runnable PROVE ThreadInv'
<1> USE ThreadAssumption DEF enter, shared
<1>1. mThread' \in BOOLEAN /\ mRunnable' \in BOOLEAN /\ mJoinable' \in BOOLEAN /\ joinable' \in BOOLEAN
  BY Zenon DEF ThreadInv, ThreadTypeOK
<1>2. ThreadTypeOK'
  BY <1>1 DEF ThreadInv, ThreadTypeOK, DeletionsCounted
<1>3. Counted'
  BY DEF ThreadInv, Counted, ClientHolds, ThreadUsesDelegate, TaskHasThread, ThreadTypeOK
<1>4. TaskHasThread'
  BY DEF ThreadInv, TaskHasThread, ThreadTypeOK
<1>5. DeletionsCounted'
  BY DEF ThreadInv, DeletionsCounted, ThreadTypeOK
<1>6. OpenUntilDestroyed'
  BY DEF ThreadInv, OpenUntilDestroyed, ThreadTypeOK
<1>7. RunsUntilDestroyed'
  BY DEF ThreadInv, RunsUntilDestroyed, OpenUntilDestroyed, TaskHasThread, ThreadTypeOK
<1>8. NoThreadIsNone'
  BY DEF ThreadInv, NoThreadIsNone, RunsUntilDestroyed, TaskHasThread, ThreadTypeOK
<1>9. OneDeletes'
  BY DEF ThreadInv, OneDeletes, NoThreadIsNone, TaskHasThread, DeletionsCounted, ThreadTypeOK
<1> QED
  BY <1>2, <1>3, <1>4, <1>5, <1>6, <1>7, <1>8, <1>9 DEF ThreadInv

LEMMA CallRunStep == ASSUME ThreadInv, callRun, UNCHANGED runnable PROVE ThreadInv'
<1> USE ThreadAssumption DEF callRun, shared
<1>1. mThread' \in BOOLEAN /\ mRunnable' \in BOOLEAN /\ mJoinable' \in BOOLEAN /\ joinable' \in BOOLEAN
  BY Zenon DEF ThreadInv, ThreadTypeOK
<1>2. ThreadTypeOK'
  BY <1>1 DEF ThreadInv, ThreadTypeOK, DeletionsCounted
<1>3. Counted'
  BY DEF ThreadInv, Counted, ClientHolds, ThreadUsesDelegate, TaskHasThread, ThreadTypeOK
<1>4. TaskHasThread'
  BY DEF ThreadInv, TaskHasThread, ThreadTypeOK
<1>5. DeletionsCounted'
  BY DEF ThreadInv, DeletionsCounted, ThreadTypeOK
<1>6. OpenUntilDestroyed'
  BY DEF ThreadInv, OpenUntilDestroyed, ThreadTypeOK
<1>7. RunsUntilDestroyed'
  BY DEF ThreadInv, RunsUntilDestroyed, OpenUntilDestroyed, TaskHasThread, ThreadTypeOK
<1>8. NoThreadIsNone'
  BY DEF ThreadInv, NoThreadIsNone, RunsUntilDestroyed, TaskHasThread, ThreadTypeOK
<1>9. OneDeletes'
  BY DEF ThreadInv, OneDeletes, NoThreadIsNone, TaskHasThread, DeletionsCounted, ThreadTypeOK
<1> QED
  BY <1>2, <1>3, <1>4, <1>5, <1>6, <1>7, <1>8, <1>9 DEF ThreadInv

LEMMA ProcMsgStep == ASSUME ThreadInv, procMsg, UNCHANGED runnable PROVE ThreadInv'
<1> USE ThreadAssumption DEF procMsg, shared
<1>1. mThread' \in BOOLEAN /\ mRunnable' \in BOOLEAN /\ mJoinable' \in BOOLEAN /\ joinable' \in BOOLEAN
  BY Zenon DEF ThreadInv, ThreadTypeOK
<1>2. ThreadTypeOK'
  BY <1>1 DEF ThreadInv, ThreadTypeOK, DeletionsCounted
<1>3. Counted'
  BY DEF ThreadInv, Counted, ClientHolds, ThreadUsesDelegate, TaskHasThread, ThreadTypeOK
<1>4. TaskHasThread'
  BY DEF ThreadInv, TaskHasThread, ThreadTypeOK
<1>5. DeletionsCounted'
  BY DEF ThreadInv, DeletionsCounted, ThreadTypeOK
<1>6. OpenUntilDestroyed'
  BY DEF ThreadInv, OpenUntilDestroyed, ThreadTypeOK
<1>7. RunsUntilDestroyed'
  BY DEF ThreadInv, RunsUntilDestroyed, OpenUntilDestroyed, TaskHasThread, ThreadTypeOK
<1>8. NoThreadIsNone'
  BY DEF ThreadInv, NoThreadIsNone, RunsUntilDestroyed, TaskHasThread, ThreadTypeOK
<1>9. OneDeletes'
  BY DEF ThreadInv, OneDeletes, NoThreadIsNone, TaskHasThread, DeletionsCounted, ThreadTypeOK
<1> QED
  BY <1>2, <1>3, <1>4, <1>5, <1>6, <1>7, <1>8, <1>9 DEF ThreadInv

LEMMA PollEventStep == ASSUME ThreadInv, pollEvent, UNCHANGED runnable PROVE ThreadInv'
<1> USE ThreadAssumption DEF pollEvent, shared
<1>1. mThread' \in BOOLEAN /\ mRunnable' \in BOOLEAN /\ mJoinable' \in BOOLEAN /\ joinable' \in BOOLEAN
  BY Zenon DEF ThreadInv, ThreadTypeOK
<1>2. ThreadTypeOK'
  BY <1>1 DEF ThreadInv, ThreadTypeOK, DeletionsCounted
<1>3. Counted'
  BY DEF ThreadInv, Counted, ClientHolds, ThreadUsesDelegate, TaskHasThread, ThreadTypeOK
<1>4. TaskHasThread'
  BY DEF ThreadInv, TaskHasThread, ThreadTypeOK
<1>5. DeletionsCounted'
  BY DEF ThreadInv, DeletionsCounted, ThreadTypeOK
<1>6. OpenUntilDestroyed'
  BY DEF ThreadInv, OpenUntilDestroyed, ThreadTypeOK
<1>7. RunsUntilDestroyed'
  BY DEF ThreadInv, RunsUntilDestroyed, OpenUntilDestroyed, TaskHasThread, ThreadTypeOK
<1>8. NoThreadIsNone'
  BY DEF ThreadInv, NoThreadIsNone, RunsUntilDestroyed, TaskHasThread, ThreadTypeOK
<1>9. OneDeletes'
  BY DEF ThreadInv, OneDeletes, NoThreadIsNone, TaskHasThread, DeletionsCounted, ThreadTypeOK
<1> QED
  BY <1>2, <1>3, <1>4, <1>5, <1>6, <1>7, <1>8, <1>9 DEF ThreadInv

LEMMA RunEndsStep == ASSUME ThreadInv, runEnds, UNCHANGED runnable PROVE ThreadInv'
<1> USE ThreadAssumption DEF runEnds, shared
<1>1. mThread' \in BOOLEAN /\ mRunnable' \in BOOLEAN /\ mJoinable' \in BOOLEAN /\ joinable' \in BOOLEAN
  BY Zenon DEF ThreadInv, ThreadTypeOK
<1>2. ThreadTypeOK'
  BY <1>1 DEF ThreadInv, ThreadTypeOK, DeletionsCounted
<1>3. Counted'
  BY DEF ThreadInv, Counted, ClientHolds, ThreadUsesDelegate, TaskHasThread, ThreadTypeOK
<1>4. TaskHasThread'
  BY DEF ThreadInv, TaskHasThread, ThreadTypeOK
<1>5. DeletionsCounted'
  BY DEF ThreadInv, DeletionsCounted, ThreadTypeOK
<1>6. OpenUntilDestroyed'
  BY DEF ThreadInv, OpenUntilDestroyed, ThreadTypeOK
<1>7. RunsUntilDestroyed'
  BY DEF ThreadInv, RunsUntilDestroyed, OpenUntilDestroyed, TaskHasThread, ThreadTypeOK
<1>8. NoThreadIsNone'
  BY DEF ThreadInv, NoThreadIsNone, RunsUntilDestroyed, TaskHasThread, ThreadTypeOK
<1>9. OneDeletes'
  BY DEF ThreadInv, OneDeletes, NoThreadIsNone, TaskHasThread, DeletionsCounted, ThreadTypeOK
<1> QED
  BY <1>2, <1>3, <1>4, <1>5, <1>6, <1>7, <1>8, <1>9 DEF ThreadInv

LEMMA CleanupStep == ASSUME ThreadInv, cleanup, UNCHANGED runnable PROVE ThreadInv'
<1> USE ThreadAssumption DEF cleanup, shared
<1>1. mThread' \in BOOLEAN /\ mRunnable' \in BOOLEAN /\ mJoinable' \in BOOLEAN /\ joinable' \in BOOLEAN
  BY Zenon DEF ThreadInv, ThreadTypeOK
<1>2. ThreadTypeOK'
  BY <1>1 DEF ThreadInv, ThreadTypeOK, DeletionsCounted
<1>3. Counted'
  BY DEF ThreadInv, Counted, ClientHolds, ThreadUsesDelegate, TaskHasThread, ThreadTypeOK
<1>4. TaskHasThread'
  BY DEF ThreadInv, TaskHasThread, ThreadTypeOK
<1>5. DeletionsCounted'
  BY DEF ThreadInv, DeletionsCounted, ThreadTypeOK
<1>6. OpenUntilDestroyed'
  BY DEF ThreadInv, OpenUntilDestroyed, ThreadTypeOK
<1>7. RunsUntilDestroyed'
  BY DEF ThreadInv, RunsUntilDestroyed, OpenUntilDestroyed, TaskHasThread, ThreadTypeOK
<1>8. NoThreadIsNone'
  BY DEF ThreadInv, NoThreadIsNone, RunsUntilDestroyed, TaskHasThread, ThreadTypeOK
<1>9. OneDeletes'
  BY DEF ThreadInv, OneDeletes, NoThreadIsNone, TaskHasThread, DeletionsCounted, ThreadTypeOK
<1> QED
  BY <1>2, <1>3, <1>4, <1>5, <1>6, <1>7, <1>8, <1>9 DEF ThreadInv

LEMMA DeleteRunnableStep == ASSUME ThreadInv, deleteRunnable, UNCHANGED runnable PROVE ThreadInv'
<1> USE ThreadAssumption DEF deleteRunnable, deleteTask, shared
<1>1. mThread' \in BOOLEAN /\ mRunnable' \in BOOLEAN /\ mJoinable' \in BOOLEAN /\ joinable' \in BOOLEAN
  BY Zenon DEF ThreadInv, ThreadTypeOK
<1>2. ThreadTypeOK'
  BY <1>1 DEF ThreadInv, ThreadTypeOK, DeletionsCounted
<1>3. Counted'
  BY DEF ThreadInv, Counted, ClientHolds, ThreadUsesDelegate, TaskHasThread, ThreadTypeOK
<1>4. TaskHasThread'
  BY DEF ThreadInv, TaskHasThread, ThreadTypeOK
<1>5. DeletionsCounted'
  BY DEF ThreadInv, DeletionsCounted, ThreadTypeOK
<1>6. OpenUntilDestroyed'
  BY DEF ThreadInv, OpenUntilDestroyed, ThreadTypeOK
<1>7. RunsUntilDestroyed'
  BY DEF ThreadInv, RunsUntilDestroyed, OpenUntilDestroyed, TaskHasThread, ThreadTypeOK
<1>8. NoThreadIsNone'
  BY DEF ThreadInv, NoThreadIsNone, RunsUntilDestroyed, TaskHasThread, ThreadTypeOK
<1>9. OneDeletes'
  BY DEF ThreadInv, OneDeletes, NoThreadIsNone, TaskHasThread, DeletionsCounted, ThreadTypeOK
<1> QED
  BY <1>2, <1>3, <1>4, <1>5, <1>6, <1>7, <1>8, <1>9 DEF ThreadInv

LEMMA LeaveStep == ASSUME ThreadInv, leave, UNCHANGED runnable PROVE ThreadInv'
<1> USE ThreadAssumption DEF leave, destroyDelegate, shared
<1>1. mThread' \in BOOLEAN /\ mRunnable' \in BOOLEAN /\ mJoinable' \in BOOLEAN /\ joinable' \in BOOLEAN
  BY Zenon DEF ThreadInv, ThreadTypeOK
<1>2. ThreadTypeOK'
  BY <1>1 DEF ThreadInv, ThreadTypeOK, DeletionsCounted
<1>3. Counted'
  BY DEF ThreadInv, Counted, ClientHolds, ThreadUsesDelegate, TaskHasThread, ThreadTypeOK
<1>4. TaskHasThread'
  BY DEF ThreadInv, TaskHasThread, ThreadTypeOK
<1>5. DeletionsCounted'
  BY DEF ThreadInv, DeletionsCounted, ThreadTypeOK
<1>6. OpenUntilDestroyed'
  BY DEF ThreadInv, OpenUntilDestroyed, ThreadTypeOK
<1>7. RunsUntilDestroyed'
  BY DEF ThreadInv, RunsUntilDestroyed, OpenUntilDestroyed, TaskHasThread, ThreadTypeOK
<1>8. NoThreadIsNone'
  BY DEF ThreadInv, NoThreadIsNone, RunsUntilDestroyed, TaskHasThread, ThreadTypeOK
<1>9. OneDeletes'
  BY DEF ThreadInv, OneDeletes, NoThreadIsNone, TaskHasThread, DeletionsCounted, ThreadTypeOK
<1> QED
  BY <1>2, <1>3, <1>4, <1>5, <1>6, <1>7, <1>8, <1>9 DEF ThreadInv

LEMMA SendMsgStep == ASSUME ThreadInv, sendMsg, UNCHANGED runnable PROVE ThreadInv'
<1> USE ThreadAssumption DEF sendMsg, shared
<1>1. mThread' \in BOOLEAN /\ mRunnable' \in BOOLEAN /\ mJoinable' \in BOOLEAN /\ joinable' \in BOOLEAN
  BY Zenon DEF ThreadInv, ThreadTypeOK
<1>2. ThreadTypeOK'
  BY <1>1 DEF ThreadInv, ThreadTypeOK, DeletionsCounted
<1>3. Counted'
  BY DEF ThreadInv, Counted, ClientHolds, ThreadUsesDelegate, TaskHasThread, ThreadTypeOK
<1>4. TaskHasThread'
  BY DEF ThreadInv, TaskHasThread, ThreadTypeOK
<1>5. DeletionsCounted'
  BY DEF ThreadInv, DeletionsCounted, ThreadTypeOK
<1>6. OpenUntilDestroyed'
  BY DEF ThreadInv, OpenUntilDestroyed, ThreadTypeOK
<1>7. RunsUntilDestroyed'
  BY DEF ThreadInv, RunsUntilDestroyed, OpenUntilDestroyed, TaskHasThread, ThreadTypeOK
<1>8. NoThreadIsNone'
  BY DEF ThreadInv, NoThreadIsNone, RunsUntilDestroyed, TaskHasThread, ThreadTypeOK
<1>9. OneDeletes'
  BY DEF ThreadInv, OneDeletes, NoThreadIsNone, TaskHasThread, DeletionsCounted, ThreadTypeOK
<1> QED
  BY <1>2, <1>3, <1>4, <1>5, <1>6, <1>7, <1>8, <1>9 DEF ThreadInv

LEMMA FdExpiresStep == ASSUME ThreadInv, fdExpires, UNCHANGED runnable PROVE ThreadInv'
<1> USE ThreadAssumption DEF fdExpires, shared
<1>1. mThread' \in BOOLEAN /\ mRunnable' \in BOOLEAN /\ mJoinable' \in BOOLEAN /\ joinable' \in BOOLEAN
  BY Zenon DEF ThreadInv, ThreadTypeOK
<1>2. ThreadTypeOK'
  BY <1>1 DEF ThreadInv, ThreadTypeOK, DeletionsCounted
<1>3. Counted'
  BY DEF ThreadInv, Counted, ClientHolds, ThreadUsesDelegate, TaskHasThread, ThreadTypeOK
<1>4. TaskHasThread'
  BY DEF ThreadInv, TaskHasThread, ThreadTypeOK
<1>5. DeletionsCounted'
  BY DEF ThreadInv, DeletionsCounted, ThreadTypeOK
<1>6. OpenUntilDestroyed'
  BY DEF ThreadInv, OpenUntilDestroyed, ThreadTypeOK
<1>7. RunsUntilDestroyed'
  BY DEF ThreadInv, RunsUntilDestroyed, OpenUntilDestroyed, TaskHasThread, ThreadTypeOK
<1>8. NoThreadIsNone'
  BY DEF ThreadInv, NoThreadIsNone, RunsUntilDestroyed, TaskHasThread, ThreadTypeOK
<1>9. OneDeletes'
  BY DEF ThreadInv, OneDeletes, NoThreadIsNone, TaskHasThread, DeletionsCounted, ThreadTypeOK
<1> QED
  BY <1>2, <1>3, <1>4, <1>5, <1>6, <1>7, <1>8, <1>9 DEF ThreadInv

-----------------------------------------------------------------------------
LEMMA InvStep == ThreadInv /\ [ThreadNext]_threadVars => ThreadInv'
<1> SUFFICES ASSUME ThreadInv, [ThreadNext]_threadVars PROVE ThreadInv'
  OBVIOUS
<1>1. CASE Client
  <2>1. CASE createThread \/ destroy
    BY <1>1, <2>1, CreateStep, DestroyStep DEF Client
  <2>2. CASE Finish
    BY <1>1, <2>2, CreateReturnsStep, StartFailsStep, DeleteThreadStep,
       ByeStep, StopStep, JoinStep, LetGoStep DEF Client, Finish
  <2> QED
    BY <1>1, <2>1, <2>2 DEF Client
<1>2. CASE threadMain
  BY <1>2, EnterStep, CallRunStep, ProcMsgStep, PollEventStep, RunEndsStep,
     CleanupStep, DeleteRunnableStep, LeaveStep DEF threadMain
<1>3. CASE Others
  BY <1>3, SendMsgStep, FdExpiresStep DEF Others
<1>4. CASE UNCHANGED threadVars
  BY <1>4 DEF threadVars, ThreadInv, ThreadTypeOK, Counted, TaskHasThread, DeletionsCounted, OpenUntilDestroyed,
     RunsUntilDestroyed, NoThreadIsNone, OneDeletes, ClientHolds, ThreadUsesDelegate
<1> QED
  BY <1>1, <1>2, <1>3, <1>4 DEF ThreadNext

(* In every reachable state, for queues of any length.                     *)
THEOREM ThreadInvariance == ThreadSpec => []ThreadInv
<1>1. ThreadInit => ThreadInv
  BY InitInv
<1>2. ThreadInv /\ [ThreadNext]_threadVars => ThreadInv'
  BY InvStep
<1> QED
  BY <1>1, <1>2, PTL DEF ThreadSpec

(* The client, the thread and what they share have their types: mRefCount  *)
(* stays within 0..2, although both count it down.                         *)
THEOREM ThreadTypeCorrect == ThreadSpec => []ThreadTypeOK
<1>1. ThreadInv => ThreadTypeOK
  BY DEF ThreadInv
<1> QED
  BY <1>1, ThreadInvariance, PTL

(* LocThreadDelegate::destroy: neither of the two users touches a delegate *)
(* that has been deleted, and the delegate is not left behind.             *)
THEOREM LastUserDeletes == ThreadSpec => []DelegateFreedOnce
<1>1. ThreadInv => DelegateFreedOnce
  <2> SUFFICES ASSUME ThreadInv PROVE DelegateOutlivesUsers /\ DelegateNotLeaked
    BY DEF DelegateFreedOnce
  <2>1. DelegateOutlivesUsers
    BY DEF ThreadInv, ThreadTypeOK, Counted, TaskHasThread, ClientHolds, ThreadUsesDelegate,
           ClientUsesDelegate, DelegateOutlivesUsers
  <2>2. DelegateNotLeaked
    BY DEF ThreadInv, ThreadTypeOK, Counted, ClientHolds, ThreadUsesDelegate, DelegateNotLeaked
  <2> QED
    BY <2>1, <2>2
<1> QED
  BY <1>1, ThreadInvariance, PTL

(* threadMain and destroy() of the task: the thread runs no runnable that  *)
(* has been deleted, and no runnable is deleted twice, if its queue or     *)
(* descriptor could be made.                                               *)
THEOREM OneOfThemDeletes == ThreadSpec => []RunnableFreedOnce
<1>1. ThreadInv => RunnableFreedOnce
  BY DEF ThreadInv, ThreadTypeOK, OneDeletes, RunnableFreedOnce, RunsWhatIsAlive, DeletedOnce
<1> QED
  BY <1>1, ThreadInvariance, PTL
=============================================================================
