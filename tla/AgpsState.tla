----------------------------- MODULE AgpsState -----------------------------
(***************************************************************************)
(* The four states of the AGPS state machine of loc_eng_agps.cpp           *)
(* (AgpsReleasedState, AgpsPendingState, AgpsAcquiredState and             *)
(* AgpsReleasingState) and the helpers they call, as operators on the      *)
(* machine's own data.                                                     *)
(*                                                                         *)
(* A machine m keeps mStatePtr (st) and the list mSubscribers: the IDs in  *)
(* it (subs) and, of those, the ones whose mIsInactive is set (inactive).  *)
(* The list never holds two equal IDs (addSubscriber), and no operation of *)
(* the base class depends on its order, so it is a set.                    *)
(*                                                                         *)
(* A handler returns the machine after the event, what each subscriber was *)
(* told on the way (told) and the request handed to the servicer (req).    *)
(*                                                                         *)
(* Here and in the other modules a definition may be preceded by a broken  *)
(* form of it (afterLeavingAtOnce, sendRsrcRequestInverted...), which no   *)
(* specification uses: put in its place, it makes a property fail, which   *)
(* shows that the property depends on the code modelled by the definition. *)
(***************************************************************************)
CONSTANTS Clients,      \* the IDs that may subscribe
          Kind          \* the class of the subscriber with an ID

ASSUME KindAssumption == Kind \in [Clients -> {"ATL", "BIT", "WIFI", "DS"}]

States == {"Released", "Pending", "Acquired", "Releasing"}
Statuses == {"SUBSCRIBE", "UNSUBSCRIBE", "GRANTED", "RELEASED", "DENIED"}
Machines == [st : States, subs : SUBSET Clients, inactive : SUBSET Clients]

Machine(st, subs, inactive) == [st |-> st, subs |-> subs, inactive |-> inactive]

Out(m, told, req) == [m |-> m, told |-> told, req |-> req]

Tell(S, status) == [c \in Clients |-> IF c \in S THEN status ELSE "none"]
Nobody == Tell({}, "none")
Stay(m) == Out(m, Nobody, "none")

NewMachine == Machine("Released", {}, {})

Active(m) == m.subs \ m.inactive

waitForCloseComplete(c) == Kind[c] \in {"WIFI", "DS"}

addSubscriberFirstOnly(m, c) ==
    IF m.subs = {} THEN Machine(m.st, {c}, {}) ELSE m
addSubscriber(m, c) == Machine(m.st, m.subs \cup {c}, m.inactive)

setInactive(m, c) == Machine(m.st, m.subs, m.inactive \cup {c})

dropSubscribers(m, S) == Machine(m.st, m.subs \ S, m.inactive \ S)

moveTo(m, s) == Machine(s, m.subs, m.inactive)

sendRsrcRequestInverted(m, action) ==
    IF Active(m) = {} <=> action = "REQUEST" THEN action ELSE "none"

(***************************************************************************)
(* The request reaches the servicer only when it agrees with the list: a   *)
(* RELEASE when no subscriber is active, a REQUEST when one is.            *)
(***************************************************************************)
sendRsrcRequest(m, action) ==
    IF Active(m) = {} <=> action = "RELEASE" THEN action ELSE "none"

(***************************************************************************)
(* What an UNSUBSCRIBE does to the list in the Pending, Acquired and       *)
(* Releasing states.  A subscriber that waits for the close stays in the   *)
(* list, inactive (a DSSubscriber is told of it at once).  Any other one   *)
(* is told and deleted.  The loop of                                       *)
(* notifySubscribers then compares the rest of the list with the object it *)
(* has just deleted: stray is the set of the other subscribers that the    *)
(* freed memory happens to match (none, unless it was reused meanwhile).   *)
(***************************************************************************)
leaveList(m, c, stray) ==
    IF waitForCloseComplete(c)
    THEN Out(setInactive(m, c),
             IF Kind[c] = "DS" THEN Tell({c}, "UNSUBSCRIBE") ELSE Nobody, "none")
    ELSE LET gone == {c} \cup (stray \cap m.subs)
         IN  Out(dropSubscribers(m, gone), Tell(gone, "UNSUBSCRIBE"), "none")

AgpsReleasedState(m, ev, c, next) ==
    CASE ev = "SUBSCRIBE" ->
            LET added == addSubscriber(m, c)
            IN  Out(moveTo(added, next), Nobody, sendRsrcRequest(added, "REQUEST"))
      [] ev = "UNSUBSCRIBE" -> Out(m, Tell({c}, "UNSUBSCRIBE"), "none")
      [] OTHER -> Stay(m)

afterLeavingAtOnce(left) ==
    Out(moveTo(left.m, "Released"), left.told, "RELEASE")

(***************************************************************************)
(* The end of an UNSUBSCRIBE in the Pending and Acquired states.           *)
(***************************************************************************)
afterLeaving(left) ==
    LET m == left.m IN
    CASE m.subs = {} ->
            Out(moveTo(m, "Released"), left.told, sendRsrcRequest(m, "RELEASE"))
      [] m.subs # {} /\ Active(m) = {} ->
            Out(moveTo(m, "Releasing"), left.told, sendRsrcRequest(m, "RELEASE"))
      [] OTHER -> left

AgpsPendingState(m, ev, c, stray) ==
    CASE ev = "SUBSCRIBE" -> Out(addSubscriber(m, c), Nobody, "none")
      [] ev = "UNSUBSCRIBE" -> afterLeaving(leaveList(m, c, stray))
      [] ev = "GRANTED" ->
            Out(moveTo(m, "Acquired"), Tell(Active(m), "GRANTED"), "none")
      [] ev = "DENIED" ->
            Out(moveTo(dropSubscribers(m, m.subs), "Released"),
                Tell(m.subs, "DENIED"), "none")
      [] OTHER -> Stay(m)

AgpsAcquiredStateDeaf(m, ev, c, stray) ==
    CASE ev = "SUBSCRIBE" ->
            Out(addSubscriber(m, c), Tell({c}, "GRANTED"), "none")
      [] ev = "UNSUBSCRIBE" -> afterLeaving(leaveList(m, c, stray))
      [] OTHER -> Stay(m)

AgpsAcquiredState(m, ev, c, stray) ==
    CASE ev = "SUBSCRIBE" ->
            Out(addSubscriber(m, c), Tell({c}, "GRANTED"), "none")
      [] ev = "UNSUBSCRIBE" -> afterLeaving(leaveList(m, c, stray))
      [] ev = "RELEASED" ->
            Out(moveTo(dropSubscribers(m, m.subs), "Released"),
                Tell(m.subs, "RELEASED"), "none")
      [] OTHER -> Stay(m)

AgpsReleasingState(m, ev, c, stray) ==
    CASE ev = "SUBSCRIBE" -> Out(addSubscriber(m, c), Nobody, "none")
      [] ev = "UNSUBSCRIBE" ->
            LET left == leaveList(m, c, stray)
            IN  IF left.m.subs = {}
                THEN Out(moveTo(left.m, "Released"), left.told, "none")
                ELSE left
      [] ev \in {"DENIED", "RELEASED"} ->
            LET kept == dropSubscribers(m, m.inactive)
                told == Tell(m.inactive, ev)
            IN  IF Active(kept) # {}
                THEN Out(moveTo(kept, "Pending"), told,
                         sendRsrcRequest(kept, "REQUEST"))
                ELSE Out(moveTo(kept, "Released"), told, "none")
      [] OTHER -> Stay(m)

(***************************************************************************)
(* mStatePtr->onRsrcEvent(ev, data): the virtual call.  next is where a    *)
(* SUBSCRIBE takes the Released state: "Pending" when sendRsrcRequest      *)
(* returns 0, as it always does but for the emergency SUPL machine.        *)
(***************************************************************************)
onRsrcEvent(m, ev, c, stray, next) ==
    CASE m.st = "Released"  -> AgpsReleasedState(m, ev, c, next)
      [] m.st = "Pending"   -> AgpsPendingState(m, ev, c, stray)
      [] m.st = "Acquired"  -> AgpsAcquiredState(m, ev, c, stray)
      [] m.st = "Releasing" -> AgpsReleasingState(m, ev, c, stray)

=============================================================================
