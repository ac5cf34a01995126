-------------------------------- MODULE MsgQ --------------------------------
(***************************************************************************)
(* The message queue of msg_q.c: a linked list, a mutex, a condition       *)
(* variable and a flag.  Every operation does its work between one lock    *)
(* and one unlock of list_mutex, except that a receiver gives the mutex    *)
(* back while it waits in pthread_cond_wait.  So one action is one stretch *)
(* of code that holds the mutex: a whole operation, or a receiver's part   *)
(* before the wait or after it.                                            *)
(***************************************************************************)
EXTENDS Integers, Sequences, FiniteSets

CONSTANTS Messages, Receivers,
          Nothing,      \* eMSG_Q_UNAVAILABLE_RESOURCE: no message to give
          MaxLen        \* bound: messages in the list

ASSUME QueueAssumption ==
    /\ IsFiniteSet(Receivers)
    /\ Nothing \notin Messages
    /\ MaxLen \in Nat

VARIABLES list,        \* msg_list, from p_head to p_tail
          unblocked,
          rcv,         \* where each receiver is in msg_q_rcv
          got          \* what msg_q_rcv returned last

vars == <<list, unblocked, rcv, got>>

Waiting == {r \in Receivers : rcv[r] = "waiting"}
Woken == {r \in Receivers : rcv[r] = "woken"}

Init == /\ list = <<>>
        /\ unblocked = FALSE
        /\ rcv = [r \in Receivers |-> "out"]
        /\ got = [r \in Receivers |-> Nothing]

(***************************************************************************)
(* The list: elements are added at the head and removed at the tail.       *)
(***************************************************************************)
linked_list_add(l, msg) == <<msg>> \o l
linked_list_newest(l) == l[1]
linked_list_tail(l) == l[Len(l)]
linked_list_remove(l) == [i \in 1..(Len(l) - 1) |-> l[i]]

pthread_cond_lost == UNCHANGED rcv
pthread_cond_signal ==
    IF Waiting = {} THEN UNCHANGED rcv
    ELSE \E r \in Waiting : rcv' = [rcv EXCEPT ![r] = "woken"]

pthread_cond_broadcast ==
    rcv' = [r \in Receivers |-> IF rcv[r] = "waiting" THEN "woken" ELSE rcv[r]]

msg_q_snd(msg) ==
    /\ ~unblocked
    /\ Len(list) < MaxLen
    /\ list' = linked_list_add(list, msg)
    /\ pthread_cond_signal
    /\ UNCHANGED <<unblocked, got>>

(***************************************************************************)
(* The end of msg_q_rcv, which the receiver reaches when it does not have  *)
(* to wait (any more).                                                     *)
(***************************************************************************)
take(r) ==
    /\ rcv' = [rcv EXCEPT ![r] = "out"]
    /\ IF list = <<>>
       THEN got' = [got EXCEPT ![r] = Nothing] /\ UNCHANGED list
       ELSE /\ got' = [got EXCEPT ![r] = linked_list_tail(list)]
            /\ list' = linked_list_remove(list)
    /\ UNCHANGED unblocked

mustWait == list = <<>> /\ ~unblocked

(* A call of msg_q_rcv, until it returns or waits.                         *)
msg_q_rcv(r) ==
    /\ rcv[r] = "out"
    /\ \/ /\ unblocked
          /\ got' = [got EXCEPT ![r] = Nothing]
          /\ UNCHANGED <<list, unblocked, rcv>>
       \/ /\ mustWait
          /\ rcv' = [rcv EXCEPT ![r] = "waiting"]
          /\ UNCHANGED <<list, unblocked, got>>
       \/ ~unblocked /\ ~mustWait /\ take(r)

(* pthread_cond_wait returns: the loop tests its condition again.          *)
wake(r) ==
    /\ rcv[r] = "woken"
    /\ \/ /\ mustWait
          /\ rcv' = [rcv EXCEPT ![r] = "waiting"]
          /\ UNCHANGED <<list, unblocked, got>>
       \/ ~mustWait /\ take(r)

(* pthread_cond_wait may also return without a signal.                     *)
spuriousWakeup(r) ==
    /\ rcv[r] = "waiting"
    /\ rcv' = [rcv EXCEPT ![r] = "woken"]
    /\ UNCHANGED <<list, unblocked, got>>

msg_q_flush ==
    /\ list' = <<>>
    /\ UNCHANGED <<unblocked, rcv, got>>

msg_q_unblock == /\ ~unblocked
                 /\ unblocked' = TRUE
                 /\ pthread_cond_broadcast
                 /\ UNCHANGED <<list, got>>

Next == \/ \E msg \in Messages : msg_q_snd(msg)
        \/ \E r \in Receivers : msg_q_rcv(r) \/ wake(r) \/ spuriousWakeup(r)
        \/ msg_q_flush
        \/ msg_q_unblock

(***************************************************************************)
(* A receiver that was woken gets the mutex, and one that is out of        *)
(* msg_q_rcv calls it again, as MsgTask::run does.                         *)
(***************************************************************************)
Spec == /\ Init /\ [][Next]_vars
        /\ \A r \in Receivers : WF_vars(wake(r)) /\ WF_vars(msg_q_rcv(r))

-----------------------------------------------------------------------------
TypeOK == /\ list \in Seq(Messages)
          /\ unblocked \in BOOLEAN
          /\ rcv \in [Receivers -> {"out", "waiting", "woken"}]
          /\ got \in [Receivers -> Messages \cup {Nothing}]

(* No wakeup is lost: while a receiver sleeps there is a woken receiver    *)
(* for every message in the list.                                          *)
NoLostWakeup == Waiting # {} => Len(list) <= Cardinality(Woken)

(* Nobody sleeps on a queue that has been unblocked: msg_q_unblock wakes   *)
(* every waiter, and none waits after it.                                  *)
NobodySleepsUnblocked == unblocked => Waiting = {}

(* msg_q_rcv gives up without a message only on an unblocked queue: a      *)
(* step that gives one receiver Nothing is a step of an unblocked queue.   *)
EmptyHandedOnlyUnblocked ==
    [][ \A r \in Receivers :
           got[r] # Nothing /\ got'[r] = Nothing => unblocked ]_vars

(* A list as long as it can get does not stay so: the receivers get to it, *)
(* or the queue is unblocked.                                              *)
FullListMoves == Len(list) = MaxLen ~> Len(list) < MaxLen \/ unblocked

(* The queue is a channel: the list, read from its tail, is what is in it. *)
oldestFirst == [i \in 1..Len(list) |-> list[Len(list) + 1 - i]]
Channel == INSTANCE MsgChannel WITH chan <- oldestFirst, closed <- unblocked
ImplementsChannel == Channel!Spec

=============================================================================
