-------------------------- MODULE AgpsStateMachine --------------------------
(***************************************************************************)
(* One AGPS network interface (NIF) of the location engine: its state      *)
(* machine, the clients that ask for it and the connectivity framework     *)
(* that opens and closes it.                                               *)
(*                                                                         *)
(* Clients (the modem over ATL, the BIT daemon, the WiFi daemons) and the  *)
(* framework only ever put a message into the queue of the engine's        *)
(* MsgTask thread.  That thread takes the messages in order and runs each  *)
(* one's proc() to its end, so one action handles one message.  In proc()  *)
(* the machine tells clients of the outcome and calls the framework        *)
(* (agps_status_cb); the framework works on those calls in order, later,   *)
(* and answers with a message.  Meanwhile clients change their mind, the   *)
(* framework takes the interface back and the modem restarts.              *)
(***************************************************************************)
EXTENDS AgpsState, Integers, Sequences

CONSTANTS Nif,            \* which of the engine's three machines this one is
          MaxInFlight     \* bound: messages and framework calls under way

ASSUME NifAssumption ==
    /\ Nif \in {"agnss", "internet", "wifi"}
    /\ \A c \in Clients : /\ Nif = "agnss" => Kind[c] = "ATL"
                          /\ Nif = "internet" => Kind[c] \in {"ATL", "BIT"}
                          /\ Nif = "wifi" => Kind[c] = "WIFI"
ASSUME BoundAssumption == MaxInFlight \in Nat

VARIABLES m,      \* the state machine
          q,      \* the messages in MsgTask's queue
          fwq,    \* agps_status_cb calls the framework has not handled
          nif,    \* what the interface really is
          view    \* what each client has asked for and been told

vars == <<m, q, fwq, nif, view>>

NoClient == "nobody"
Msg(ev, c) == [ev |-> ev, c |-> c]
Answers == {"GRANTED", "RELEASED", "DENIED"}
Msgs == [ev : {"SUBSCRIBE", "UNSUBSCRIBE"}, c : Clients]
            \cup [ev : Answers \cup {"UP"}, c : {NoClient}]
Calls == {"REQUEST", "RELEASE"}
Views == {"idle", "waiting", "using", "closing"}

InQueue(ev) == \E i \in 1..Len(q) : q[i].ev = ev
FromClient(c) == \E i \in 1..Len(q) : q[i].c = c
Called(action) == \E i \in 1..Len(fwq) : fwq[i] = action
RoomForMore == Len(q) + Len(fwq) < MaxInFlight

mEnforceSingleSubscriber == Nif = "wifi"
droppedOnRestart == Nif # "wifi"

Init == /\ m = NewMachine
        /\ q = <<>>
        /\ fwq = <<>>
        /\ nif = "closed"
        /\ view = [c \in Clients |-> "idle"]

(***************************************************************************)
(* Clients.  An ID asks again only when the messages of its earlier use    *)
(* are handled, and the modem only when the engine is registered with it.  *)
(***************************************************************************)
Request(c) ==
    /\ view[c] = "idle" /\ ~FromClient(c) /\ ~InQueue("UP") /\ RoomForMore
    /\ view' = [view EXCEPT ![c] = "waiting"]
    /\ q' = Append(q, Msg("SUBSCRIBE", c))
    /\ UNCHANGED <<m, fwq, nif>>

Release(c) ==
    /\ view[c] \in {"waiting", "using"} /\ RoomForMore
    /\ view' = [view EXCEPT ![c] = "closing"]
    /\ q' = Append(q, Msg("UNSUBSCRIBE", c))
    /\ UNCHANGED <<m, fwq, nif>>

(***************************************************************************)
(* What a client makes of a notification.  WIFISubscriber passes the       *)
(* UNSUBSCRIBE status on to nobody.                                        *)
(***************************************************************************)
hears(c, status) ==
    CASE status = "none" -> view[c]
      [] status = "GRANTED" -> IF view[c] = "waiting" THEN "using" ELSE view[c]
      [] status = "UNSUBSCRIBE" /\ Kind[c] = "WIFI" -> view[c]
      [] OTHER -> "idle"

(***************************************************************************)
(* MsgTask: one message, handled to its end.                               *)
(***************************************************************************)
Handle(out) ==
    /\ m' = out.m
    /\ q' = Tail(q)
    /\ fwq' = IF out.req = "none" THEN fwq ELSE Append(fwq, out.req)
    /\ view' = [c \in Clients |-> hears(c, out.told[c])]
    /\ UNCHANGED nif

AtHead(ev) == q # <<>> /\ Head(q).ev = ev

subscribeRsrc ==
    /\ AtHead("SUBSCRIBE")
    /\ LET c == Head(q).c IN
         Handle(IF mEnforceSingleSubscriber /\ m.subs # {}
                THEN Out(m, Tell({c}, "DENIED"), "none")
                ELSE onRsrcEvent(m, "SUBSCRIBE", c, {}, "Pending"))

(***************************************************************************)
(* An ID that is not in the list changes nothing; only an ATL client is    *)
(* told so (LocEngReleaseATL: atlCloseStatus(mID, 0)).                     *)
(***************************************************************************)
unsubscribeRsrc ==
    /\ AtHead("UNSUBSCRIBE")
    /\ LET c == Head(q).c IN
         IF c \in m.subs
         THEN \E stray \in SUBSET (m.subs \ {c}) :
                 Handle(onRsrcEvent(m, "UNSUBSCRIBE", c, stray, "Pending"))
         ELSE Handle(Out(m, IF Kind[c] = "ATL" THEN Tell({c}, "UNSUBSCRIBE")
                                               ELSE Nobody, "none"))

rsrcEvent(ev) ==
    /\ AtHead(ev)
    /\ Handle(onRsrcEvent(m, ev, NoClient, {}, "Pending"))

dropAllSubscribers ==
    /\ AtHead("UP")
    /\ Handle(Out(IF droppedOnRestart THEN dropSubscribers(m, m.subs) ELSE m,
                  Nobody, "none"))

(***************************************************************************)
(* The modem restarts: its clients forget what they asked for and were     *)
(* told, and the engine finds a LocEngUp message when the modem is back.   *)
(***************************************************************************)
ModemRestart ==
    /\ ~InQueue("UP") /\ RoomForMore
    /\ view' = [c \in Clients |-> IF Kind[c] = "ATL" THEN "idle" ELSE view[c]]
    /\ q' = Append(q, Msg("UP", NoClient))
    /\ UNCHANGED <<m, fwq, nif>>

(***************************************************************************)
(* The framework, as the engine uses it: it handles the calls in order,    *)
(* answers each one and may close the interface on its own.                *)
(***************************************************************************)
FwAnswer(ev, to) ==
    /\ nif' = to
    /\ q' = Append(q, Msg(ev, NoClient))
    /\ UNCHANGED <<m, view>>

FwOpen == /\ fwq # <<>> /\ Head(fwq) = "REQUEST"
          /\ fwq' = Tail(fwq)
          /\ FwAnswer("GRANTED", "open")

FwDeny == /\ fwq # <<>> /\ Head(fwq) = "REQUEST" /\ nif = "closed"
          /\ fwq' = Tail(fwq)
          /\ FwAnswer("DENIED", "closed")

FwClose == /\ fwq # <<>> /\ Head(fwq) = "RELEASE"
           /\ fwq' = Tail(fwq)
           /\ FwAnswer("RELEASED", "closed")

FwTakeBack == /\ nif = "open" /\ RoomForMore
              /\ UNCHANGED fwq
              /\ FwAnswer("RELEASED", "closed")

MsgTask == \/ subscribeRsrc \/ unsubscribeRsrc \/ dropAllSubscribers
           \/ \E ev \in Answers : rsrcEvent(ev)
Framework == FwOpen \/ FwDeny \/ FwClose

Next == \/ \E c \in Clients : Request(c) \/ Release(c)
        \/ MsgTask
        \/ ModemRestart
        \/ Framework
        \/ FwTakeBack

(***************************************************************************)
(* The MsgTask thread keeps taking messages, and the framework works off   *)
(* its calls.  Nothing obliges a client to ask or to release.              *)
(***************************************************************************)
Spec == Init /\ [][Next]_vars /\ WF_vars(MsgTask) /\ WF_vars(Framework)

-----------------------------------------------------------------------------
TypeOK ==
    /\ m \in Machines /\ m.inactive \subseteq m.subs
    /\ q \in Seq(Msgs)
    /\ fwq \in Seq(Calls)
    /\ nif \in {"open", "closed"}
    /\ view \in [Clients -> Views]

(* "the list should really be empty" (loc_eng_agps.cpp): the machine rests *)
(* in the Released state only when no subscriber is left behind in it.     *)
ReleasedIsEmpty == m.st = "Released" => m.subs = {}

(* A client that was told GRANTED, and nothing since, is an active         *)
(* subscriber of an Acquired machine, and the interface is open, or the    *)
(* message that will take it back is already on its way.  (The BIT client  *)
(* is left out: a modem restart drops it without a word.)                  *)
UsersHoldTheNif ==
    \A c \in Clients : view[c] = "using" /\ Kind[c] # "BIT" =>
        /\ m.st = "Acquired" /\ c \in Active(m)
        /\ nif = "open" \/ InQueue("RELEASED")

(* Nobody waits for an answer that will never come: a Pending machine has  *)
(* a request with the framework or its answer in the queue, a Releasing    *)
(* one a release or its answer.                                            *)
AnswerUnderWay ==
    /\ m.st = "Pending" =>
          Called("REQUEST") \/ InQueue("GRANTED") \/ InQueue("DENIED")
    /\ m.st = "Releasing" => Called("RELEASE") \/ InQueue("RELEASED")

(* No subscriber is overlooked: once the machine is Acquired every active  *)
(* subscriber has been told, and a client that still waits has its request *)
(* in the queue or is an active subscriber of a machine that will answer.  *)
NobodyOverlooked ==
    \A c \in Clients : view[c] = "waiting" /\ Kind[c] # "BIT" =>
        \/ \E i \in 1..Len(q) : q[i] = Msg("SUBSCRIBE", c)
        \/ c \in Active(m) /\ m.st \in {"Pending", "Releasing"}

(***************************************************************************)
(* What makes the properties above inductive: a GRANTED answer still in    *)
(* the queue is as good as the interface unless a RELEASED follows it;     *)
(* only WiFi subscribers are ever inactive; an UNSUBSCRIBE in the queue    *)
(* comes from a client that wants nothing any more; and between a restart  *)
(* of the modem and its LocEngUp message the modem's clients are idle.     *)
(***************************************************************************)
GrantsAreBacked ==
    /\ m.st = "Acquired" => nif = "open" \/ InQueue("RELEASED")
    /\ \A i \in 1..Len(q) : q[i].ev = "GRANTED" =>
          nif = "open" \/ \E j \in (i+1)..Len(q) : q[j].ev = "RELEASED"
UsersAreListed ==
    \A c \in Clients : view[c] = "using" /\ Kind[c] # "BIT" =>
        m.st = "Acquired" /\ c \in Active(m)
OnlyWifiInactive == \A c \in m.inactive : Kind[c] = "WIFI"
ReleasesAreMeant ==
    \A i \in 1..Len(q) : q[i].ev = "UNSUBSCRIBE" =>
        view[q[i].c] \in {"closing", "idle"}
RestartForgets ==
    InQueue("UP") => \A c \in Clients : Kind[c] = "ATL" => view[c] = "idle"

IndInv == /\ TypeOK /\ ReleasedIsEmpty /\ OnlyWifiInactive
          /\ GrantsAreBacked /\ AnswerUnderWay
          /\ ReleasesAreMeant /\ RestartForgets
          /\ UsersAreListed /\ NobodyOverlooked

(* The interface is handed back only when no client is using it: a step    *)
(* that calls the framework with RELEASE leaves no client (other than a    *)
(* dropped BIT) that was told GRANTED.                                     *)
ReleaseOnlyWhenUnused ==
    [][ fwq' = Append(fwq, "RELEASE") =>
           \A c \in Clients : Kind[c] # "BIT" => view'[c] # "using" ]_vars

(* Every client that asks is answered, and every client that lets go is    *)
(* told that the interface is gone, however the framework's answers cross  *)
(* with the clients' messages and the modem's restarts.                    *)
EveryRequestAnswered ==
    \A c \in Clients : Kind[c] # "BIT" =>
        /\ view[c] = "waiting" ~> view[c] # "waiting"
        /\ view[c] = "closing" ~> view[c] # "closing"

-----------------------------------------------------------------------------
(***************************************************************************)
(* What comments of the code say and the code does not do; see the README. *)
(***************************************************************************)

(* "Each state machine tracks resource state of a particular NIF"          *)
(* (loc_eng_agps.h): when nothing is under way, the interface is open only *)
(* if the machine has it in hand.                                          *)
TracksNif == q = <<>> /\ fwq = <<>> /\ nif = "open" => m.st = "Acquired"

=============================================================================
