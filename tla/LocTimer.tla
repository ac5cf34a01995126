------------------------------ MODULE LocTimer ------------------------------
(***************************************************************************)
(* The timers of LocTimer.cpp: the clients' LocTimer objects, the          *)
(* LocTimerDelegates that live from start() until they are removed, the    *)
(* container with its heap and its timerfd, the MsgTask thread that owns   *)
(* the heap and the poll thread that waits for the descriptor.             *)
(*                                                                         *)
(* A client's start() and stop() hold its lock throughout and are one      *)
(* action each.  The handlers of the MsgTask thread are cut where they     *)
(* meet the other threads: at each system call on the descriptor, at the   *)
(* unlocked read of mClient and at the client's lock.                      *)
(*                                                                         *)
(* Time passes in units of which a second has PerSecond.  A client may be  *)
(* a LocTimer that is started over and over, or (in Wrapped) the one-shot  *)
(* LocTimerWrapper behind loc_timer_start and loc_timer_stop, which is     *)
(* deleted when it is stopped or has called back.                          *)
(***************************************************************************)
EXTENDS Naturals, Sequences

CONSTANTS Clients, NULL, PerSecond,
          Wrapped,       \* the clients that are wrappers
          Timeouts,      \* the delays that clients ask for
          MaxStarts,     \* bound: calls of start()
          MaxTime        \* bound: time

ASSUME TimerAssumption ==
    /\ Wrapped \subseteq Clients
    /\ PerSecond \in Nat \ {0} /\ MaxStarts \in Nat /\ MaxTime \in Nat
    /\ Timeouts \subseteq Nat
    /\ NULL \notin Clients

VARIABLES now,
          mTimer,        \* each client's delegate
          born, dead,    \* clients that exist or existed, and no longer exist
          starts,        \* calls of start() so far
          live,          \* delegates that are allocated
          nulled,        \* delegates whose mClient is NULL
          heap, top,     \* the container's heap
          msgs,          \* the MsgTask's queue
          task,          \* where the MsgTask thread is
          cur,           \* the delegate it is expiring
          client,        \* its copy of mClient
          timerOfNow,
          armed,         \* when the timerfd expires
          polled,        \* the timerfd is in the epoll set
          poll,          \* where the poll thread is
          tally          \* per client: starts not yet stopped or called back

clients == <<mTimer, born, dead, starts, live, nulled, tally>>
container == <<heap, top>>
fd == <<armed, polled>>
vars == <<now, clients, container, msgs, task, cur, client, timerOfNow, fd, poll>>

sec(t) == t \div PerSecond

(* LocTimerDelegate::ranks, above zero: it looks at the seconds only.      *)
ranks(a, b) == sec(a.due) < sec(b.due)

Delegates == [n : 1..MaxStarts, due : 0..MaxTime, owner : Clients]

(* No object is at the address NULL.                                       *)
ASSUME NullAssumption == NULL \notin Delegates

Heap == INSTANCE RankedSet WITH Nodes <- Delegates, outRanks <- ranks,
                              call <- <<NULL, NULL, NULL>>

Never == MaxTime + 1

Init == /\ now = 0 /\ starts = 0
        /\ mTimer = [c \in Clients |-> NULL]
        /\ born = Clients \ Wrapped
        /\ dead = {}
        /\ live = {} /\ nulled = {}
        /\ heap = {} /\ top = NULL
        /\ msgs = <<>>
        /\ task = "idle" /\ cur = NULL /\ client = NULL /\ timerOfNow = NULL
        /\ armed = Never /\ polled = FALSE /\ poll = "wait"
        /\ tally = [c \in Clients |-> 0]

-----------------------------------------------------------------------------
(***************************************************************************)
(* The clients.                                                            *)
(***************************************************************************)
start(c, timeOut) ==
    /\ c \in Wrapped => c \notin born
    /\ mTimer[c] = NULL
    /\ starts < MaxStarts /\ now + timeOut <= MaxTime
    /\ LET d == [n |-> starts + 1, due |-> now + timeOut, owner |-> c]
       IN  /\ mTimer' = [mTimer EXCEPT ![c] = d]
           /\ live' = live \cup {d}
           /\ msgs' = Append(msgs, <<"push", d>>)
    /\ starts' = starts + 1
    /\ born' = born \cup {c}
    /\ tally' = [tally EXCEPT ![c] = @ + 1]
    /\ UNCHANGED <<now, dead, nulled, container, task, cur, client, timerOfNow, fd, poll>>

(* LocTimer::stop with a running timer.                                    *)
destroyLocked(c) ==
    /\ mTimer' = [mTimer EXCEPT ![c] = NULL]
    /\ nulled' = nulled \cup {mTimer[c]}
    /\ msgs' = Append(msgs, <<"remove", mTimer[c]>>)

stop(c) ==
    /\ c \notin Wrapped
    /\ mTimer[c] # NULL
    /\ destroyLocked(c)
    /\ tally' = [tally EXCEPT ![c] = @ - 1]
    /\ UNCHANGED <<now, born, dead, starts, live, container, task, cur, client, timerOfNow,
                   fd, poll>>

(* loc_timer_stop: ~LocTimer stops the timer, and the wrapper is no more.  *)
loc_timer_stop(c) ==
    /\ c \in Wrapped
    /\ c \in born \ dead
    /\ IF mTimer[c] # NULL
       THEN destroyLocked(c) /\ tally' = [tally EXCEPT ![c] = @ - 1]
       ELSE UNCHANGED <<mTimer, nulled, msgs, tally>>
    /\ dead' = dead \cup {c}
    /\ UNCHANGED <<now, born, starts, live, container, task, cur, client, timerOfNow,
                   fd, poll>>

-----------------------------------------------------------------------------
(***************************************************************************)
(* The MsgTask thread.  updateSoonestTime is two system calls: one on the  *)
(* epoll set, at the end of the action that uses it, and settime.          *)
(***************************************************************************)
updateFirstOnly(priorTop, curTop) ==
    IF priorTop = NULL /\ curTop # NULL THEN "arm" ELSE "idle"
updateSoonestTime(priorTop, curTop) ==
    CASE curTop = priorTop -> "idle"
      [] curTop # priorTop /\ curTop = NULL -> "disarm"
      [] curTop # priorTop /\ curTop # NULL ->
           IF priorTop = NULL \/ ranks(curTop, priorTop) THEN "arm" ELSE "idle"

pollFor(todo) == /\ task' = todo
                 /\ polled' = IF todo = "idle" THEN polled ELSE todo = "arm"
                 /\ UNCHANGED armed

settime ==
    /\ task \in {"arm", "disarm"}
    /\ armed' = IF task = "arm" THEN top.due ELSE Never
    /\ task' = "idle"
    /\ UNCHANGED <<now, clients, container, msgs, cur, client, timerOfNow, polled, poll>>

receives(kind) == task = "idle" /\ msgs # <<>> /\ Head(msgs)[1] = kind /\ msgs' = Tail(msgs)

MsgTimerPush ==
    /\ receives("push")
    /\ Heap!pushed(Head(msgs)[2])
    /\ pollFor(updateSoonestTime(top, top'))
    /\ UNCHANGED <<now, clients, cur, client, timerOfNow, poll>>

MsgTimerRemoveLeftIn ==
    /\ receives("remove")
    /\ live' = live \ {Head(msgs)[2]}
    /\ pollFor("idle")
    /\ UNCHANGED <<now, container, mTimer, born, dead, starts, nulled, tally, cur, client,
                   timerOfNow, poll>>
MsgTimerRemove ==
    /\ receives("remove")
    /\ LET d == Head(msgs)[2]
           removed == IF d \in heap THEN d ELSE NULL
       IN  /\ Heap!removed(d)
           /\ pollFor(IF top = removed THEN updateSoonestTime(NULL, top') ELSE "idle")
           /\ live' = live \ {d} /\ nulled' = nulled \ {d}
    /\ UNCHANGED <<now, mTimer, born, dead, starts, tally, cur, client,
                   timerOfNow, poll>>

(* The first timer is popped whatever the time is.                         *)
MsgTimerExpire ==
    /\ receives("expire")
    /\ IF heap = {} THEN task' = "idle" /\ UNCHANGED <<container, cur, timerOfNow>>
       ELSE /\ Heap!popped
            /\ timerOfNow' = [due |-> now] /\ cur' = top /\ task' = "expire"
    /\ UNCHANGED <<now, clients, client, fd, poll>>

(* LocTimerDelegate::expire: the client is read without its lock,          *)
readClient ==
    /\ task = "expire"
    /\ client' = IF cur \in nulled THEN NULL ELSE cur.owner
    /\ task' = IF cur \in nulled THEN "next" ELSE "stop"
    /\ UNCHANGED <<now, clients, container, msgs, cur, timerOfNow, fd, poll>>

(* its timer is stopped (a dead client's is NULL)                          *)
stopUnasked ==
    /\ task = "stop"
    /\ IF mTimer[client] # NULL THEN destroyLocked(client)
       ELSE UNCHANGED <<mTimer, nulled, msgs>>
    /\ cur' = IF mTimer[client] # NULL THEN mTimer[client] ELSE cur
    /\ task' = "callback"
    /\ UNCHANGED <<now, born, dead, starts, live, tally, container, client, timerOfNow,
                   fd, poll>>
stopClient ==
    /\ task = "stop"
    /\ IF mTimer[client] # NULL
       THEN destroyLocked(client) /\ cur' = mTimer[client] /\ task' = "callback"
       ELSE UNCHANGED <<mTimer, nulled, msgs, cur>> /\ task' = "next"
    /\ UNCHANGED <<now, born, dead, starts, live, tally, container, client, timerOfNow,
                   fd, poll>>

(* and it is called back; a wrapper deletes itself then.                   *)
timeOutCallback ==
    /\ task = "callback"
    /\ tally' = [tally EXCEPT ![client] = @ - 1]
    /\ dead' = dead \cup ({client} \cap Wrapped)
    /\ task' = "next"
    /\ UNCHANGED <<now, mTimer, born, starts, live, nulled, container, msgs, cur, client,
                   timerOfNow, fd, poll>>

(* The loop goes on while the top is not later than now.                   *)
popIfOutRanks ==
    /\ task = "next"
    /\ IF heap # {} /\ ~ranks(timerOfNow, top)
       THEN /\ Heap!popped /\ cur' = top /\ task' = "expire"
            /\ UNCHANGED <<fd, timerOfNow>>
       ELSE /\ pollFor(updateSoonestTime(NULL, top))
            /\ cur' = NULL /\ timerOfNow' = NULL
            /\ UNCHANGED container
    /\ client' = NULL
    /\ UNCHANGED <<now, clients, msgs, poll>>

MsgTask == \/ MsgTimerPush \/ MsgTimerRemove \/ MsgTimerExpire \/ settime
           \/ readClient \/ stopClient \/ timeOutCallback \/ popIfOutRanks

-----------------------------------------------------------------------------
(***************************************************************************)
(* The poll thread: epoll_wait, then LocTimerContainer::expire.            *)
(***************************************************************************)
epoll_wait ==
    /\ poll = "wait"
    /\ polled /\ now >= armed
    /\ poll' = "expire"
    /\ UNCHANGED <<now, clients, container, msgs, task, cur, client, timerOfNow, fd>>

disarm ==
    /\ poll = "expire"
    /\ armed' = Never
    /\ poll' = "removePoll"
    /\ UNCHANGED <<now, clients, container, msgs, task, cur, client, timerOfNow, polled>>

removePoll ==
    /\ poll = "removePoll"
    /\ polled' = FALSE
    /\ poll' = "send"
    /\ UNCHANGED <<now, clients, container, msgs, task, cur, client, timerOfNow, armed>>

forgetExpire ==
    /\ poll = "send"
    /\ poll' = "wait"
    /\ UNCHANGED <<now, clients, container, msgs, task, cur, client, timerOfNow, fd>>
sendExpire ==
    /\ poll = "send"
    /\ msgs' = Append(msgs, <<"expire">>)
    /\ poll' = "wait"
    /\ UNCHANGED <<now, clients, container, task, cur, client, timerOfNow, fd>>

PollTask == epoll_wait \/ disarm \/ removePoll \/ sendExpire

tick == /\ now < MaxTime
        /\ now' = now + 1
        /\ UNCHANGED <<clients, container, msgs, task, cur, client, timerOfNow, fd, poll>>

Next == \/ \E c \in Clients : \/ \E timeOut \in Timeouts : start(c, timeOut)
                              \/ stop(c) \/ loc_timer_stop(c)
        \/ MsgTask \/ PollTask \/ tick

(***************************************************************************)
(* The two threads go on when they can, and time passes.                   *)
(***************************************************************************)
Spec == Init /\ [][Next]_vars /\ WF_vars(MsgTask) /\ WF_vars(PollTask) /\ WF_vars(tick)

-----------------------------------------------------------------------------
Messages == {<<"expire">>} \cup ({"push", "remove"} \X Delegates)

(* The clients, the container, the queue and the two threads.              *)
TypeOK ==
    /\ now \in 0..MaxTime /\ starts \in 0..MaxStarts
    /\ mTimer \in [Clients -> Delegates \cup {NULL}] /\ tally \in [Clients -> Nat]
    /\ born \subseteq Clients /\ dead \subseteq Clients
    /\ live \subseteq Delegates /\ nulled \subseteq Delegates
    /\ heap \subseteq Delegates /\ top \in Delegates \cup {NULL}
    /\ msgs \in Seq(Messages)
    /\ task \in {"idle", "arm", "disarm", "expire", "stop", "callback", "next"}
    /\ cur \in Delegates \cup {NULL} /\ client \in Clients \cup {NULL}
    /\ timerOfNow \in [due : 0..MaxTime] \cup {NULL}
    /\ armed \in 0..Never /\ polled \in BOOLEAN
    /\ poll \in {"wait", "expire", "removePoll", "send"}

inQueue(m) == \E i \in 1..Len(msgs) : msgs[i] = m

(* Whenever the two threads rest, the kernel is set to wake the poll       *)
(* thread for the timer at the top of the heap, no later than the second   *)
(* in which any timer is due: no crossing of updateSoonestTime with        *)
(* expire() leaves the heap unattended.                                    *)
SoonestIsArmed ==
    task = "idle" /\ poll = "wait" /\ ~inQueue(<<"expire">>) /\ heap # {}
    => polled /\ armed = top.due /\ \A d \in heap : sec(armed) <= sec(d.due)

(* Of what a client started, each is stopped or calls back, never both and *)
(* never twice.                                                            *)
OncePerStart ==
    \A c \in Clients :
        tally[c] = (IF mTimer[c] # NULL THEN 1 ELSE 0)
                   + (IF task = "callback" /\ client = c THEN 1 ELSE 0)

(***************************************************************************)
(* Every delegate is accounted for: neither the heap nor a message nor the *)
(* thread at work refers to one that is deleted, and one that its client   *)
(* has let go of is on its way to being deleted, whatever the order of     *)
(* stop, restart and expiry (destroyLocked, MsgTimerRemove).               *)
(***************************************************************************)
NoDanglingDelegate ==
    /\ heap \subseteq live
    /\ \A i \in 1..Len(msgs) : msgs[i][1] # "expire" => msgs[i][2] \in live
    /\ task = "expire" => cur \in live
NoLeakedDelegate ==
    \A d \in live : mTimer[d.owner] = d \/ inQueue(<<"remove", d>>)
DelegatesAccounted == NoDanglingDelegate /\ NoLeakedDelegate

(* A timer that runs ends: it is stopped, or it expires.                   *)
EveryTimerEnds == \A c \in Clients : mTimer[c] # NULL ~> mTimer[c] = NULL

-----------------------------------------------------------------------------
(***************************************************************************)
(* What comments of the code say and the code does not do; see the README. *)
(***************************************************************************)

(* "continuously pop the heap until the top node's timeout is in the       *)
(* future" (LocTimer.cpp): no timer expires in a second before it is due.  *)
NotEarly == task = "callback" => sec(now) >= sec(cur.due)

(* "expire() won't call the callback on the dead handle any more"          *)
(* (LocTimer.cpp): the client that is stopped and called back exists.      *)
ClientIsAlive == task \in {"stop", "callback"} => client \notin dead

(* "if tree is empty now, we remove poll and disarm timer" (LocTimer.cpp): *)
(* with the heap empty and nothing under way, the kernel is not set.       *)
EmptyIsDisarmed ==
    task = "idle" /\ poll = "wait" /\ msgs = <<>> /\ heap = {} => armed = Never
=============================================================================
