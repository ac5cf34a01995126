--------------------------- MODULE DSStateMachine ---------------------------
(***************************************************************************)
(* The emergency SUPL session: the data services machine ds_nif, the data  *)
(* call it brings up through ds_client, its retry timer, and the fallback  *)
(* to the AGNSS machine when the call cannot be had.                       *)
(*                                                                         *)
(* ds_nif has the states of AgpsState, but its own sendRsrcRequest, which  *)
(* starts the data call at once and may fail, and its own onRsrcEvent.     *)
(* Its list is also kept in order here (newest first, as linked_list_add   *)
(* builds it): a retry and a fallback are for the first active subscriber. *)
(* The modem gives each session a handle of its own and uses it once.      *)
(***************************************************************************)
EXTENDS Integers, Sequences

CONSTANTS Clients,                        \* connection handles of the modem
          MAX_START_DATA_CALL_RETRIES,    \* 4 in the code
          MaxInFlight                     \* bound: messages, calls and timers

ASSUME RetriesAssumption == MAX_START_DATA_CALL_RETRIES \in Nat
ASSUME InFlightAssumption == MaxInFlight \in Nat

Ds  == INSTANCE AgpsState WITH Kind <- [c \in Clients |-> "DS"]
Atl == INSTANCE AgpsState WITH Kind <- [c \in Clients |-> "ATL"]

VARIABLES ds,         \* ds_nif
          order,      \* the order of ds_nif's list
          mRetries,   \* failed starts of the data call in a row
          timers,     \* delay_callback timers that have not expired
          dataCall,   \* the data call behind dsClientHandle
          agnss,      \* agnss_nif
          q,          \* the messages in MsgTask's queue
          fwq,        \* agnss_nif's calls that the framework has not handled
          view        \* what the modem has asked for and been told

dsVars == <<ds, order, mRetries, timers, dataCall, agnss, q, fwq, view>>

NoClient == "nobody"
Msg(ev, c) == [ev |-> ev, c |-> c]
Msgs == [ev : {"SUPL_ES", "ATL", "RELEASE_ATL"}, c : Clients]
          \cup [ev : {"OPENED", "CLOSED", "GRANTED", "DENIED", "RELEASED"},
                c : {NoClient}]
StartOutcomes == {"SUCCESS", "BUSY", "UNSUPPORTED"}

InQueue(ev) == \E i \in 1..Len(q) : q[i].ev = ev
RoomForMore == Len(q) + Len(fwq) + timers < MaxInFlight
AtHead(ev) == q # <<>> /\ Head(q).ev = ev

DsInit == /\ ds = Ds!NewMachine /\ order = <<>> /\ mRetries = 0 /\ timers = 0
          /\ dataCall = "none"
          /\ agnss = Atl!NewMachine
          /\ q = <<>> /\ fwq = <<>>
          /\ view = [c \in Clients |-> "idle"]

(***************************************************************************)
(* The modem.                                                              *)
(***************************************************************************)
Request(c) ==
    /\ view[c] = "idle" /\ RoomForMore
    /\ view' = [view EXCEPT ![c] = "waiting"]
    /\ q' = Append(q, Msg("SUPL_ES", c))
    /\ UNCHANGED <<ds, order, mRetries, timers, dataCall, agnss, fwq>>

Release(c) ==
    /\ view[c] \in {"waiting", "using"} /\ RoomForMore
    /\ view' = [view EXCEPT ![c] = "closing"]
    /\ q' = Append(q, Msg("RELEASE_ATL", c))
    /\ UNCHANGED <<ds, order, mRetries, timers, dataCall, agnss, fwq>>

(* atlOpenStatus and atlCloseStatus: what the modem makes of them.         *)
opened(v) == IF v = "waiting" THEN "using" ELSE v

(***************************************************************************)
(* How the start of the data call ends.  The first active subscriber falls *)
(* back to the AGNSS machine when there is no emergency profile or the     *)
(* retries are used up; while they last, a timer is started.               *)
(***************************************************************************)
givesUp(outcome) ==
    \/ outcome = "UNSUPPORTED"
    \/ outcome = "BUSY" /\ mRetries + 1 > MAX_START_DATA_CALL_RETRIES

(***************************************************************************)
(* The members of S in the order of the list: SelectSeq, in a form that    *)
(* can be reasoned about.                                                  *)
(***************************************************************************)
Sublist(list, S) ==
    LET kept[i \in 0..Len(list)] ==
            IF i = 0 THEN <<>>
            ELSE IF list[i] \in S THEN Append(kept[i - 1], list[i])
            ELSE kept[i - 1]
    IN  kept[Len(list)]

firstActive(list, m) == Sublist(list, Ds!Active(m))[1]

retriesNotCounted(fellBack, busy) == 0
retriesAfter(fellBack, busy) ==
    IF fellBack THEN 0 ELSE IF busy THEN mRetries + 1 ELSE mRetries

stateAfterStartUnmoved(outcome) == "Released"
stateAfterStart(outcome) == IF outcome = "SUCCESS" THEN "Pending" ELSE "Released"

(***************************************************************************)
(* The effects of one event of ds_nif: the notifications come first        *)
(* (informStatus), then the servicer's request (sendRsrcRequest).  A       *)
(* subscriber told RELEASED only closes the handle of the data call; for   *)
(* one told DENIED ATL is asked for, and dsClientHandle of the call that   *)
(* has failed stays as it is until the next start overwrites it.           *)
(***************************************************************************)
DsHandle(out, list, outcome) ==
    LET starts == out.req = "REQUEST"
        denied == Sublist(list, {c \in Clients : out.told[c] = "DENIED"})
        fallback == IF starts /\ givesUp(outcome)
                    THEN <<firstActive(list, out.m)>> ELSE denied
        closed == IF \E c \in Clients : out.told[c] = "RELEASED" THEN "none" ELSE dataCall
    IN  /\ ds' = out.m
        /\ order' = Sublist(list, out.m.subs)
        /\ q' = Tail(q) \o [i \in 1..Len(fallback) |-> Msg("ATL", fallback[i])]
        /\ mRetries' = retriesAfter(fallback # <<>>, starts /\ outcome = "BUSY")
        /\ timers' = IF starts /\ outcome = "BUSY" /\ ~givesUp(outcome)
                     THEN timers + 1 ELSE timers
        /\ dataCall' = IF starts /\ outcome = "SUCCESS" THEN "starting"
                       ELSE IF out.req = "RELEASE" /\ closed # "none" THEN "stopping"
                       ELSE closed
        /\ view' = [c \in Clients |->
                       CASE out.told[c] = "GRANTED" -> opened(view[c])
                         [] out.told[c] = "UNSUBSCRIBE" -> "done"
                         [] OTHER -> view[c]]
        /\ UNCHANGED <<agnss, fwq>>

RequestSuplEs ==
    /\ AtHead("SUPL_ES")
    /\ LET c == Head(q).c
           list == IF c \in ds.subs THEN order ELSE <<c>> \o order
       IN  \E outcome \in StartOutcomes :
              DsHandle(Ds!onRsrcEvent(ds, "SUBSCRIBE", c, {}, stateAfterStart(outcome)),
                       list, outcome)

(***************************************************************************)
(* DSStateMachine::onRsrcEvent.  A RELEASED that leaves the state alone is *)
(* taken for a DENIED: the call never came up.                             *)
(***************************************************************************)
onRsrcEventUntranslated(ev) == Ds!onRsrcEvent(ds, ev, NoClient, {}, "Pending")
onRsrcEvent(ev) ==
    LET out == Ds!onRsrcEvent(ds, ev, NoClient, {}, "Pending")
    IN  IF ev = "RELEASED" /\ out.m.st = ds.st
        THEN Ds!onRsrcEvent(ds, "DENIED", NoClient, {}, "Pending")
        ELSE out

SuplEsOpened ==
    /\ AtHead("OPENED")
    /\ \E outcome \in StartOutcomes : DsHandle(onRsrcEvent("GRANTED"), order, outcome)

SuplEsClosed ==
    /\ AtHead("CLOSED")
    /\ \E outcome \in StartOutcomes : DsHandle(onRsrcEvent("RELEASED"), order, outcome)

(***************************************************************************)
(* LocEngReleaseATL: the AGNSS machine is tried first, then ds_nif.        *)
(***************************************************************************)
AgnssHandle(out) ==
    /\ agnss' = out.m
    /\ q' = Tail(q)
    /\ fwq' = IF out.req = "none" THEN fwq ELSE Append(fwq, out.req)
    /\ view' = [c \in Clients |->
                   CASE out.told[c] = "none" -> view[c]
                     [] out.told[c] = "GRANTED" -> opened(view[c])
                     [] OTHER -> "done"]
    /\ UNCHANGED <<ds, order, mRetries, timers, dataCall>>

ReleaseATL ==
    /\ AtHead("RELEASE_ATL")
    /\ LET c == Head(q).c IN
         IF c \in agnss.subs
         THEN \E stray \in SUBSET (agnss.subs \ {c}) :
                 AgnssHandle(Atl!onRsrcEvent(agnss, "UNSUBSCRIBE", c, stray, "Pending"))
         ELSE IF c \in ds.subs
         THEN DsHandle(Ds!onRsrcEvent(ds, "UNSUBSCRIBE", c, {}, "Pending"),
                       order, "SUCCESS")
         ELSE AgnssHandle(Atl!Out(agnss, Atl!Tell({c}, "UNSUBSCRIBE"), "none"))

RequestATL ==
    /\ AtHead("ATL")
    /\ AgnssHandle(Atl!onRsrcEvent(agnss, "SUBSCRIBE", Head(q).c, {}, "Pending"))

AgnssEvent(ev) ==
    /\ AtHead(ev)
    /\ AgnssHandle(Atl!onRsrcEvent(agnss, ev, NoClient, {}, "Pending"))

(***************************************************************************)
(* The retry timer's thread.                                               *)
(***************************************************************************)
retryCallback ==
    /\ timers > 0
    /\ timers' = timers - 1
    /\ q' = IF Ds!Active(ds) = {} THEN q
            ELSE Append(q, Msg("SUPL_ES", firstActive(order, ds)))
    /\ UNCHANGED <<ds, order, mRetries, dataCall, agnss, fwq, view>>

(***************************************************************************)
(* The data call.  DSI may report that it is connected twice (network up   *)
(* and WDS connected), that it did not come up, and that it ended, asked   *)
(* to or not.                                                              *)
(***************************************************************************)
DsiEvent(ev, to) ==
    /\ dataCall' = to
    /\ q' = Append(q, Msg(ev, NoClient))
    /\ UNCHANGED <<ds, order, mRetries, timers, agnss, fwq, view>>

DsiConnected == dataCall = "starting" /\ DsiEvent("OPENED", "up")
DsiConnectedAgain == dataCall = "up" /\ RoomForMore /\ DsiEvent("OPENED", "up")
DsiFailed == dataCall = "starting" /\ DsiEvent("CLOSED", "none")
DsiStopped == dataCall = "stopping" /\ DsiEvent("CLOSED", "none")
DsiDropped == dataCall = "up" /\ RoomForMore /\ DsiEvent("CLOSED", "none")

FwAgnss ==
    /\ fwq # <<>>
    /\ fwq' = Tail(fwq)
    /\ \E ev \in IF Head(fwq) = "REQUEST" THEN {"GRANTED", "DENIED"} ELSE {"RELEASED"} :
          q' = Append(q, Msg(ev, NoClient))
    /\ UNCHANGED <<ds, order, mRetries, timers, dataCall, agnss, view>>

DsMsgTask == \/ RequestSuplEs \/ SuplEsOpened \/ SuplEsClosed
             \/ RequestATL \/ ReleaseATL
             \/ \E ev \in {"GRANTED", "DENIED", "RELEASED"} : AgnssEvent(ev)
Dsi == DsiConnected \/ DsiFailed \/ DsiStopped

DsNext == \/ \E c \in Clients : Request(c) \/ Release(c)
          \/ DsMsgTask \/ retryCallback \/ FwAgnss
          \/ Dsi \/ DsiConnectedAgain \/ DsiDropped

(***************************************************************************)
(* The MsgTask thread takes messages, timers expire, the framework answers *)
(* and a data call that is being started or stopped gets somewhere.        *)
(***************************************************************************)
DsSpec == /\ DsInit /\ [][DsNext]_dsVars
          /\ WF_dsVars(DsMsgTask) /\ WF_dsVars(retryCallback)
          /\ WF_dsVars(FwAgnss) /\ WF_dsVars(Dsi)

-----------------------------------------------------------------------------
DsTypeOK ==
    /\ ds \in Ds!Machines /\ ds.inactive \subseteq ds.subs
    /\ order \in Seq(Clients) /\ {order[i] : i \in 1..Len(order)} = ds.subs
    /\ mRetries \in 0..MAX_START_DATA_CALL_RETRIES
    /\ timers \in Nat
    /\ dataCall \in {"none", "starting", "up", "stopping"}
    /\ agnss \in Atl!Machines
    /\ q \in Seq(Msgs)
    /\ fwq \in Seq({"REQUEST", "RELEASE"})
    /\ view \in [Clients -> {"idle", "waiting", "using", "closing", "done"}]

(* The data call is never left to itself: when ds_nif rests in Released no *)
(* call is up or on its way, and no report of one is still to be handled.  *)
(* So a new call is never started over one that is up, whose handle        *)
(* (dsClientHandle) would be lost.  And a granted emergency session has    *)
(* its data call, or the report that the call ended is on its way.         *)
NoOrphanCall ==
    ds.st = "Released" => /\ dataCall = "none"
                          /\ ~InQueue("OPENED") /\ ~InQueue("CLOSED")
GrantHasCall == ds.st = "Acquired" => dataCall = "up" \/ InQueue("CLOSED")
CallFollowsState == NoOrphanCall /\ GrantHasCall

(***************************************************************************)
(* What makes CallFollowsState inductive: a call is being stopped only in  *)
(* Releasing; a CLOSED in the queue is the last report of a call that is   *)
(* over; and an OPENED is one of a call that is still there, or it is      *)
(* followed by CLOSED.                                                     *)
(***************************************************************************)
StopsInReleasing == dataCall = "stopping" => ds.st = "Releasing"
ClosedIsLast ==
    \A i \in 1..Len(q) : q[i].ev = "CLOSED" =>
        /\ dataCall = "none"
        /\ \A j \in (i+1)..Len(q) : q[j].ev \notin {"OPENED", "CLOSED"}
OpenedIsBacked ==
    \A i \in 1..Len(q) : q[i].ev = "OPENED" =>
        \/ dataCall \in {"up", "stopping"}
        \/ \E j \in (i+1)..Len(q) : q[j].ev = "CLOSED"

DsInv == /\ DsTypeOK /\ NoOrphanCall /\ GrantHasCall
         /\ StopsInReleasing /\ ClosedIsLast /\ OpenedIsBacked

(* The retries come to an end: a data call that always finds the service   *)
(* busy falls back to ATL and no timer is left running.                    *)
RetriesEnd == <>[](timers = 0)

(* "if the data call setup fails for DS State Machine, we want to retry in *)
(* released state" (loc_eng_agps.cpp): a machine that waits for the data   *)
(* call has one that is being started or stopped, or its report queued.    *)
(* The code does not do so when the call is started anew on the way out of *)
(* Releasing and fails: the machine is then Pending, and nothing comes.    *)
WaitsForACall ==
    ds.st \in {"Pending", "Releasing"} =>
        dataCall # "none" \/ InQueue("OPENED") \/ InQueue("CLOSED")

(* No other session is under way or has left anything behind.              *)
Lone(c) ==
    \A d \in Clients \ {c} :
        view[d] \in {"idle", "done"} /\ d \notin ds.subs /\ \A i \in 1..Len(q) : q[i].c # d

(* A session that is alone is answered, by the data call or, when that     *)
(* cannot be had, by the fallback to the AGNSS interface, whatever earlier *)
(* sessions have done: unless another session begins before that, or it    *)
(* has come upon a machine in Releasing or in a wait for nothing.          *)
Answered ==
    \A c \in Clients :
        view[c] = "waiting" /\ Lone(c) /\ ds.st # "Releasing" /\ WaitsForACall
            ~> view[c] # "waiting" \/ ~Lone(c)

-----------------------------------------------------------------------------
(***************************************************************************)
(* What comments of the code say and the code does not do, as              *)
(* WaitsForACall above; see the README.                                    *)
(***************************************************************************)

(* "the list should really be empty, nothing to remove [...] tell the      *)
(* client it is unsubscribed" (loc_eng_agps.cpp): a client that was told   *)
(* so, and has nothing in the queue, is not an active subscriber.          *)
UnsubscribedIsGone ==
    \A c \in Clients : view[c] = "done" /\ (\A i \in 1..Len(q) : q[i].c # c) =>
        c \notin Ds!Active(ds)

=============================================================================
