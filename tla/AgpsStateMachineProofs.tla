----------------------- MODULE AgpsStateMachineProofs -----------------------
(***************************************************************************)
(* Proofs about one AGPS interface, for any set of clients and any bound   *)
(* on what is under way.  IndInv of AgpsStateMachine is inductive; the     *)
(* safety properties follow from it.                                       *)
(***************************************************************************)
EXTENDS AgpsStateMachine, TLAPS

LeaveListOutcome(mm, c, stray, left) ==
    /\ left.m \in Machines
    /\ left.m.st = mm.st
    /\ left.m.inactive \subseteq left.m.subs
    /\ left.req = "none"
    /\ Kind[c] = "WIFI" => /\ left.m.subs = mm.subs
                           /\ left.m.inactive = mm.inactive \cup {c}
                           /\ left.told = Nobody
    /\ Kind[c] \in {"ATL", "BIT"} =>
          /\ left.m.subs = mm.subs \ ({c} \cup stray)
          /\ left.m.inactive = mm.inactive \ ({c} \cup stray)
          /\ left.told = Tell({c} \cup stray, "UNSUBSCRIBE")

(* The list after an UNSUBSCRIBE: a WiFi subscriber becomes inactive, any  *)
(* other one is deleted and told, and so are the strays (leaveList).       *)
LEMMA LeaveListFacts ==
    ASSUME NEW mm \in Machines, mm.inactive \subseteq mm.subs,
           NEW c \in mm.subs, NEW stray \in SUBSET (mm.subs \ {c}),
           NEW left, left = leaveList(mm, c, stray)
    PROVE  LeaveListOutcome(mm, c, stray, left)
  BY KindAssumption
     DEF LeaveListOutcome, leaveList, waitForCloseComplete, setInactive,
         dropSubscribers, Machines, Machine, Out

SubscribeOutcome(mm, c, out) ==
    /\ out.m \in Machines
    /\ out.m.st = IF mm.st = "Released" THEN "Pending" ELSE mm.st
    /\ out.m.subs = mm.subs \cup {c}
    /\ out.m.inactive = mm.inactive
    /\ out.told = IF mm.st = "Acquired" THEN Tell({c}, "GRANTED")
                                        ELSE Nobody
    /\ out.req = IF mm.st = "Released" THEN "REQUEST" ELSE "none"

(* A SUBSCRIBE adds the client, calls the framework only from the Released *)
(* state and answers at once only in the Acquired state.                   *)
LEMMA SubscribeFacts ==
    ASSUME NEW mm \in Machines, mm.inactive \subseteq mm.subs,
           NEW c \in Clients, c \notin mm.inactive,
           NEW out, out = onRsrcEvent(mm, "SUBSCRIBE", c, {}, "Pending")
    PROVE  SubscribeOutcome(mm, c, out)
<1> DEFINE added == addSubscriber(mm, c)
<1>1. mm.st = "Released" =>
         out = Out(moveTo(added, "Pending"), Nobody, sendRsrcRequest(added, "REQUEST"))
  BY Zenon DEF onRsrcEvent, AgpsReleasedState
<1>2. mm.st = "Pending" => out = Out(added, Nobody, "none")
  BY Zenon DEF onRsrcEvent, AgpsPendingState
<1>3. mm.st = "Acquired" => out = Out(added, Tell({c}, "GRANTED"), "none")
  BY Zenon DEF onRsrcEvent, AgpsAcquiredState
<1>4. mm.st = "Releasing" => out = Out(added, Nobody, "none")
  BY Zenon DEF onRsrcEvent, AgpsReleasingState
<1> QED
  BY <1>1, <1>2, <1>3, <1>4
     DEF SubscribeOutcome, addSubscriber, moveTo, sendRsrcRequest, Active, Machines, Machine, Out, States

UnsubscribeOutcome(mm, left, out) ==
    /\ out.m \in Machines
    /\ out.m.subs = left.m.subs
    /\ out.m.inactive = left.m.inactive
    /\ out.told = left.told
    /\ out.m.st = "Released" <=> left.m.subs = {}
    /\ out.m.st # "Released" =>
          out.m.st = IF Active(left.m) = {} THEN "Releasing" ELSE mm.st
    /\ out.req \in {"none", "RELEASE"}
    /\ out.req = "RELEASE" => Active(out.m) = {}
    /\ mm.st # "Releasing" /\ out.m.st = "Releasing" => out.req = "RELEASE"

(* An UNSUBSCRIBE of a listed client ends in Released or Releasing, with a *)
(* RELEASE for the framework, exactly when it was the last active one.     *)
LEMMA UnsubscribeFacts ==
    ASSUME NEW mm \in Machines, mm.inactive \subseteq mm.subs, mm.st # "Released",
           NEW c \in mm.subs, NEW stray \in SUBSET (mm.subs \ {c}),
           NEW left, left = leaveList(mm, c, stray),
           NEW out, out = onRsrcEvent(mm, "UNSUBSCRIBE", c, stray, "Pending")
    PROVE  UnsubscribeOutcome(mm, left, out)
<1> USE DEF UnsubscribeOutcome
<1>1. /\ left.m \in Machines /\ left.m.st = mm.st
      /\ left.m.inactive \subseteq left.m.subs /\ left.req = "none"
  BY DEF leaveList, waitForCloseComplete, setInactive, dropSubscribers,
         Machines, Machine, Out
<1>2. mm.st \in States
  BY DEF Machines
<1>3. /\ left.m.subs \subseteq Clients /\ left.m.inactive \subseteq Clients
  BY <1>1 DEF Machines
<1>4. CASE mm.st \in {"Pending", "Acquired"}
  <2>1. out = afterLeaving(left)
    BY <1>4, Zenon DEF onRsrcEvent, AgpsPendingState, AgpsAcquiredState
  <2>2. CASE left.m.subs = {}
    <3>1. out = Out(moveTo(left.m, "Released"), left.told,
                    sendRsrcRequest(left.m, "RELEASE"))
      BY <2>1, <2>2, Zenon DEF afterLeaving
    <3> QED
      BY <3>1, <2>2, <1>1, <1>3
         DEF moveTo, sendRsrcRequest, Active, Machines, Machine, Out, States
  <2>3. CASE left.m.subs # {} /\ Active(left.m) = {}
    <3>1. out = Out(moveTo(left.m, "Releasing"), left.told,
                    sendRsrcRequest(left.m, "RELEASE"))
      BY <2>1, <2>3, Zenon DEF afterLeaving
    <3>2. sendRsrcRequest(left.m, "RELEASE") = "RELEASE"
      BY <2>3 DEF sendRsrcRequest
    <3>3. /\ out.m = [st |-> "Releasing", subs |-> left.m.subs,
                      inactive |-> left.m.inactive]
          /\ out.told = left.told /\ out.req = "RELEASE"
      BY <3>1, <3>2 DEF moveTo, Machine, Out
    <3>4. out.m \in Machines
      BY <3>3, <1>3 DEF Machines, States
    <3>5. /\ out.m.st = "Releasing" /\ out.m.subs = left.m.subs
          /\ out.m.inactive = left.m.inactive
      BY <3>3
    <3>6. Active(out.m) = {}
      BY <3>5, <2>3 DEF Active
    <3> QED
      BY <3>3, <3>4, <3>5, <3>6, <2>3
  <2>4. CASE left.m.subs # {} /\ Active(left.m) # {}
    <3>1. out = left
      BY <2>1, <2>4, Zenon DEF afterLeaving
    <3> QED
      BY <3>1, <2>4, <1>1, <1>3, <1>4
  <2> QED
    BY <2>2, <2>3, <2>4
<1>5. CASE mm.st = "Releasing"
  <2>1. out = IF left.m.subs = {} THEN Out(moveTo(left.m, "Released"), left.told, "none")
                                  ELSE left
    BY <1>5, Zenon DEF onRsrcEvent, AgpsReleasingState
  <2>2. CASE left.m.subs = {}
    <3>1. out = Out(moveTo(left.m, "Released"), left.told, "none")
      BY <2>1, <2>2
    <3>2. /\ out.m = [st |-> "Released", subs |-> left.m.subs,
                      inactive |-> left.m.inactive]
          /\ out.told = left.told /\ out.req = "none"
      BY <3>1 DEF moveTo, Machine, Out
    <3>3. out.m \in Machines
      BY <3>2, <1>3 DEF Machines, States
    <3>4. /\ out.m.st = "Released" /\ out.m.subs = left.m.subs
          /\ out.m.inactive = left.m.inactive
      BY <3>2
    <3> QED
      BY <3>2, <3>3, <3>4, <2>2, <1>5
  <2>3. CASE left.m.subs # {}
    <3>1. out = left
      BY <2>1, <2>3
    <3> QED
      BY <3>1, <2>3, <1>5, <1>1
  <2> QED
    BY <2>2, <2>3
<1> QED
  BY <1>2, <1>4, <1>5 DEF States

AnswerOutcome(mm, ev, out) ==
    \/ /\ out = Stay(mm)
       /\ mm.st = "Pending" => ev = "RELEASED"
       /\ mm.st = "Acquired" => ev # "RELEASED"
       /\ mm.st = "Releasing" => ev = "GRANTED"
    \/ /\ mm.st = "Pending" /\ ev = "GRANTED"
       /\ out = Out(Machine("Acquired", mm.subs, mm.inactive),
                    Tell(Active(mm), "GRANTED"), "none")
    \/ /\ mm.st \in {"Pending", "Acquired"} /\ ev # "GRANTED"
       /\ out = Out(Machine("Released", {}, {}), Tell(mm.subs, ev), "none")
    \/ /\ mm.st = "Releasing" /\ ev # "GRANTED" /\ Active(mm) = {}
       /\ out = Out(Machine("Released", {}, {}), Tell(mm.inactive, ev), "none")
    \/ /\ mm.st = "Releasing" /\ ev # "GRANTED" /\ Active(mm) # {}
       /\ out = Out(Machine("Pending", Active(mm), {}), Tell(mm.inactive, ev),
                    "REQUEST")

(* What an answer of the framework does in each state.                     *)
LEMMA AnswerFacts ==
    ASSUME NEW mm \in Machines, mm.inactive \subseteq mm.subs, NEW ev \in Answers,
           NEW out, out = onRsrcEvent(mm, ev, NoClient, {}, "Pending")
    PROVE  AnswerOutcome(mm, ev, out)
<1> USE DEF AnswerOutcome
<1>1. mm.st \in States
  BY DEF Machines
<1>2. /\ moveTo(dropSubscribers(mm, mm.subs), "Released") = Machine("Released", {}, {})
      /\ dropSubscribers(mm, mm.inactive).subs = Active(mm)
      /\ dropSubscribers(mm, mm.inactive).inactive = {}
      /\ Active(dropSubscribers(mm, mm.inactive)) = Active(mm)
  BY DEF moveTo, dropSubscribers, Machine, Active
<1>3. CASE mm.st = "Released"
  BY <1>3, Zenon DEF onRsrcEvent, AgpsReleasedState, Answers
<1>4. CASE mm.st = "Pending"
  BY <1>4, <1>2, Zenon DEF onRsrcEvent, AgpsPendingState, Answers, moveTo
<1>5. CASE mm.st = "Acquired"
  BY <1>5, <1>2, Zenon DEF onRsrcEvent, AgpsAcquiredState, Answers
<1>6. CASE mm.st = "Releasing"
  <2>1. CASE ev = "GRANTED"
    BY <1>6, <2>1, Zenon DEF onRsrcEvent, AgpsReleasingState
  <2>2. CASE ev # "GRANTED"
    <3> DEFINE kept == dropSubscribers(mm, mm.inactive)
               told == Tell(mm.inactive, ev)
    <3>1. ev \in {"DENIED", "RELEASED"}
      BY <2>2 DEF Answers
    <3>2. out = IF Active(kept) # {}
                THEN Out(moveTo(kept, "Pending"), told, sendRsrcRequest(kept, "REQUEST"))
                ELSE Out(moveTo(kept, "Released"), told, "none")
      BY <1>6, <3>1, Zenon DEF onRsrcEvent, AgpsReleasingState
    <3>3. /\ moveTo(kept, "Pending") = Machine("Pending", Active(mm), {})
          /\ moveTo(kept, "Released") = Machine("Released", Active(mm), {})
      BY <1>2, Zenon DEF moveTo
    <3>4. Active(mm) # {} => sendRsrcRequest(kept, "REQUEST") = "REQUEST"
      BY <1>2 DEF sendRsrcRequest
    <3> HIDE DEF kept, told
    <3> QED
      BY <1>2, <1>6, <2>2, <3>2, <3>3, <3>4, Zenon DEF kept, told
  <2> QED
    BY <2>1, <2>2
<1> QED
  BY <1>1, <1>3, <1>4, <1>5, <1>6 DEF States

(* A client's view after a notification.                                   *)
LEMMA HearsFacts ==
    ASSUME view \in [Clients -> Views], NEW c \in Clients, NEW status
    PROVE  /\ hears(c, status) \in Views
           /\ status = "none" => hears(c, status) = view[c]
           /\ \/ hears(c, status) # "using"
              \/ view[c] = "using"
              \/ view[c] = "waiting" /\ status = "GRANTED"
           /\ \/ hears(c, status) \in {view[c], "idle"}
              \/ view[c] = "waiting" /\ hears(c, status) = "using"
           /\ status = "GRANTED" /\ view[c] = "waiting" => hears(c, status) = "using"
           /\ status \in {"DENIED", "RELEASED"} => hears(c, status) = "idle"
           /\ status = "UNSUBSCRIBE" /\ Kind[c] # "WIFI" => hears(c, status) = "idle"
<1>1. view[c] \in Views /\ "idle" \in Views /\ "using" \in Views
  BY DEF Views
<1>2. status = "none" => hears(c, status) = view[c]
  BY Zenon DEF hears
<1>3. status = "GRANTED" =>
         hears(c, status) = IF view[c] = "waiting" THEN "using" ELSE view[c]
  BY Zenon DEF hears
<1>4. status = "UNSUBSCRIBE" /\ Kind[c] = "WIFI" => hears(c, status) = view[c]
  BY Zenon DEF hears
<1>5. status \notin {"none", "GRANTED"} /\ ~(status = "UNSUBSCRIBE" /\ Kind[c] = "WIFI")
         => hears(c, status) = "idle"
  BY Zenon DEF hears
<1> QED
  BY <1>1, <1>2, <1>3, <1>4, <1>5

LEMMA TailFacts ==
    ASSUME q \in Seq(Msgs), q # <<>>
    PROVE  /\ Len(q) \in Nat /\ Len(q) > 0
           /\ Head(q) = q[1] /\ Head(q) \in Msgs
           /\ Tail(q) \in Seq(Msgs) /\ Len(Tail(q)) = Len(q) - 1
           /\ \A i \in 1..(Len(q) - 1) : Tail(q)[i] = q[i+1]
  OBVIOUS

LEMMA AppendFacts ==
    ASSUME NEW S, NEW s \in Seq(S), NEW e \in S
    PROVE  /\ Len(s) \in Nat
           /\ Append(s, e) \in Seq(S) /\ Len(Append(s, e)) = Len(s) + 1
           /\ \A i \in 1..Len(s) : Append(s, e)[i] = s[i]
           /\ Append(s, e)[Len(s) + 1] = e
  OBVIOUS

(* What holds after any message is taken, whatever its handler did to the  *)
(* machine: the rest of the queue is as it was, and clients have only been *)
(* moved to idle, or from waiting to using.                                *)
LEMMA HandleQueue ==
    ASSUME IndInv, q # <<>>, NEW told,
           q' = Tail(q), nif' = nif,
           view' = [c \in Clients |-> hears(c, told[c])]
    PROVE  /\ q' \in Seq(Msgs)
           /\ nif' \in {"open", "closed"}
           /\ view' \in [Clients -> Views]
           /\ \A c \in Clients : view'[c] = hears(c, told[c])
           /\ \A e \in Answers \cup {"UP"} : InQueue(e) => InQueue(e)' \/ Head(q).ev = e
           /\ \A i \in 1..Len(q') : q'[i].ev = "GRANTED" =>
                 nif' = "open" \/ \E j \in (i+1)..Len(q') : q'[j].ev = "RELEASED"
           /\ Head(q).ev = "GRANTED" => nif' = "open" \/ InQueue("RELEASED")'
           /\ \A c \in Clients :
                 (\E i \in 1..Len(q) : q[i] = Msg("SUBSCRIBE", c))
                    => \/ \E i \in 1..Len(q') : q'[i] = Msg("SUBSCRIBE", c)
                       \/ Head(q) = Msg("SUBSCRIBE", c)
           /\ ReleasesAreMeant' /\ RestartForgets'
<1> USE DEF IndInv, TypeOK
<1>1. /\ Len(q) \in Nat /\ Len(q) > 0
      /\ Head(q) = q[1] /\ Head(q) \in Msgs
      /\ q' \in Seq(Msgs) /\ Len(q') = Len(q) - 1
      /\ \A i \in 1..(Len(q) - 1) : q'[i] = q[i+1]
  BY TailFacts
<1>2. \A c \in Clients : /\ view'[c] = hears(c, told[c])
                         /\ view'[c] \in Views
                         /\ \/ view'[c] \in {view[c], "idle"}
                            \/ view[c] = "waiting" /\ view'[c] = "using"
  BY HearsFacts
<1>3. \A i \in 1..Len(q) : i = 1 \/ (i - 1 \in 1..Len(q') /\ q'[i-1] = q[i])
  BY <1>1
<1>4. \A e \in Answers \cup {"UP"} : InQueue(e) => InQueue(e)' \/ Head(q).ev = e
  BY <1>1, <1>3 DEF InQueue
<1>5. \A i \in 1..Len(q') : q'[i].ev = "GRANTED" =>
          nif' = "open" \/ \E j \in (i+1)..Len(q') : q'[j].ev = "RELEASED"
  <2>1. SUFFICES ASSUME NEW i \in 1..Len(q'), q'[i].ev = "GRANTED", nif' # "open"
                 PROVE  \E j \in (i+1)..Len(q') : q'[j].ev = "RELEASED"
    OBVIOUS
  <2>2. i + 1 \in 1..Len(q) /\ q[i+1].ev = "GRANTED"
    BY <1>1, <2>1
  <2>3. PICK j \in (i+2)..Len(q) : q[j].ev = "RELEASED"
    BY <2>1, <2>2, <1>1 DEF GrantsAreBacked
  <2>4. j - 1 \in (i+1)..Len(q') /\ q'[j-1].ev = "RELEASED"
    BY <1>1, <2>3
  <2> QED
    BY <2>4
<1>6. Head(q).ev = "GRANTED" => nif' = "open" \/ InQueue("RELEASED")'
  <2>1. SUFFICES ASSUME Head(q).ev = "GRANTED", nif' # "open"
                 PROVE  InQueue("RELEASED")'
    OBVIOUS
  <2>2. PICK j \in 2..Len(q) : q[j].ev = "RELEASED"
    BY <1>1, <2>1 DEF GrantsAreBacked
  <2>3. j - 1 \in 1..Len(q') /\ q'[j-1].ev = "RELEASED"
    BY <1>1, <2>2
  <2> QED
    BY <2>3 DEF InQueue
<1>7. ASSUME NEW c \in Clients, NEW i \in 1..Len(q), q[i] = Msg("SUBSCRIBE", c)
      PROVE  \/ \E k \in 1..Len(q') : q'[k] = Msg("SUBSCRIBE", c)
             \/ Head(q) = Msg("SUBSCRIBE", c)
  BY <1>1, <1>3, <1>7
<1>8. ReleasesAreMeant'
  <2>1. SUFFICES ASSUME NEW i \in 1..Len(q'), q'[i].ev = "UNSUBSCRIBE"
                 PROVE  view'[q'[i].c] \in {"closing", "idle"}
    BY DEF ReleasesAreMeant
  <2>2. i + 1 \in 1..Len(q) /\ q'[i] = q[i+1] /\ q[i+1] \in Msgs
    BY <1>1
  <2>3. q'[i].c \in Clients
    BY <2>1, <2>2 DEF Msgs, Answers
  <2>4. view[q'[i].c] \in {"closing", "idle"}
    BY <2>1, <2>2 DEF ReleasesAreMeant
  <2> QED
    BY <2>3, <2>4, <1>2
<1>9. RestartForgets'
  <2>1. InQueue("UP")' => InQueue("UP")
    BY <1>1 DEF InQueue
  <2> QED
    BY <2>1, <1>2 DEF RestartForgets
<1> QED
  BY <1>1, <1>2, <1>4, <1>5, <1>6, <1>7, <1>8, <1>9

LEMMA SubscribeStep ==
    ASSUME IndInv, subscribeRsrc
    PROVE  IndInv'
<1> USE DEF IndInv, TypeOK
<1> DEFINE c == Head(q).c
<1>1. /\ q # <<>> /\ Head(q) \in Msgs /\ Head(q).ev = "SUBSCRIBE"
      /\ c \in Clients /\ Head(q) = Msg("SUBSCRIBE", c)
  BY TailFacts DEF subscribeRsrc, AtHead, Msgs, Answers, Msg
<1>2. m.st \in States /\ m.subs \subseteq Clients /\ m.inactive \subseteq Clients
  BY DEF Machines
<1>3. CASE mEnforceSingleSubscriber /\ m.subs # {}
  <2> DEFINE out == Out(m, Tell({c}, "DENIED"), "none")
  <2>1. Handle(out)
    BY <1>3 DEF subscribeRsrc
  <2>2. /\ m' = m /\ q' = Tail(q) /\ fwq' = fwq /\ nif' = nif
        /\ view' = [d \in Clients |-> hears(d, Tell({c}, "DENIED")[d])]
    BY <2>1 DEF Handle, Out
  <2>3. \A d \in Clients : /\ d = c => view'[d] = "idle"
                           /\ d # c => view'[d] = view[d]
    BY <2>2, HearsFacts DEF Tell
  <2> HIDE DEF out, c
  <2>4. TypeOK' /\ ReleasedIsEmpty' /\ OnlyWifiInactive'
    BY <1>1, <2>2, HandleQueue DEF ReleasedIsEmpty, OnlyWifiInactive
  <2>5. Called("REQUEST")' = Called("REQUEST") /\ Called("RELEASE")' = Called("RELEASE")
    BY <2>2 DEF Called
  <2>6. GrantsAreBacked' /\ AnswerUnderWay'
    BY <1>1, <2>2, <2>5, HandleQueue DEF GrantsAreBacked, AnswerUnderWay, Answers
  <2>7. UsersAreListed'
    BY <2>2, <2>3 DEF UsersAreListed
  <2>8. NobodyOverlooked'
    <3>1. \A d \in Clients : d # c => Head(q) # Msg("SUBSCRIBE", d)
      BY <1>1 DEF Msg
    <3> QED
      BY <1>1, <3>1, <2>2, <2>3, HandleQueue DEF NobodyOverlooked
  <2> QED
    BY <1>1, <2>2, <2>4, <2>6, <2>7, <2>8, HandleQueue
<1>4. CASE ~(mEnforceSingleSubscriber /\ m.subs # {})
  <2>1. c \notin m.inactive
    BY <1>1, <1>2, <1>4, NifAssumption
       DEF OnlyWifiInactive, mEnforceSingleSubscriber
  <2>2. PICK out : out = onRsrcEvent(m, "SUBSCRIBE", c, {}, "Pending") /\ Handle(out)
    BY <1>4 DEF subscribeRsrc
  <2>31. SubscribeOutcome(m, c, out)
    <3>1. m \in Machines /\ m.inactive \subseteq m.subs /\ c \in Clients
      BY <1>1
    <3> HIDE DEF c
    <3> QED
      BY <3>1, <2>1, <2>2, SubscribeFacts, Zenon
  <2>3. /\ out.m \in Machines
        /\ out.m.st = IF m.st = "Released" THEN "Pending" ELSE m.st
        /\ out.m.subs = m.subs \cup {c}
        /\ out.m.inactive = m.inactive
        /\ out.told = IF m.st = "Acquired" THEN Tell({c}, "GRANTED") ELSE Nobody
        /\ out.req = IF m.st = "Released" THEN "REQUEST" ELSE "none"
    BY <2>31 DEF SubscribeOutcome
  <2>4. /\ m' = out.m /\ q' = Tail(q) /\ nif' = nif
        /\ fwq' = IF out.req = "none" THEN fwq ELSE Append(fwq, out.req)
        /\ view' = [d \in Clients |-> hears(d, out.told[d])]
    BY <2>2 DEF Handle
  <2> HIDE DEF c
  <2>5. \A d \in Clients :
           /\ view'[d] = view[d] \/ d = c
           /\ m.st # "Acquired" => view'[d] = view[d]
           /\ view'[c] \in {view[c], "using"}
           /\ m.st = "Acquired" => view'[c] # "waiting"
    <3>1. \A d \in Clients : view'[d] = hears(d, out.told[d])
      BY <2>4
    <3>2. \A d \in Clients : m.st # "Acquired" \/ d # c => out.told[d] = "none"
      BY <2>3 DEF Tell, Nobody
    <3>3. m.st = "Acquired" => out.told[c] = "GRANTED"
      BY <1>1, <2>3 DEF Tell
    <3>4. m.st = "Acquired" => /\ view'[c] \in {view[c], "using"}
                               /\ view'[c] # "waiting"
      BY <1>1, <3>1, <3>3, Zenon DEF hears
    <3>5. \A d \in Clients : m.st # "Acquired" \/ d # c => view'[d] = view[d]
      BY <3>1, <3>2, HearsFacts
    <3> QED
      BY <1>1, <3>4, <3>5
  <2>6. /\ fwq' \in Seq(Calls)
        /\ m.st = "Released" => Called("REQUEST")'
        /\ Called("RELEASE") => Called("RELEASE")'
        /\ Called("REQUEST") => Called("REQUEST")'
    BY <2>3, <2>4, AppendFacts DEF Calls, Called
  <2>7. TypeOK' /\ ReleasedIsEmpty' /\ OnlyWifiInactive'
    BY <1>1, <1>2, <2>3, <2>4, <2>6, HandleQueue DEF ReleasedIsEmpty, OnlyWifiInactive
  <2>8. GrantsAreBacked' /\ AnswerUnderWay'
    BY <1>1, <1>2, <2>3, <2>4, <2>6, HandleQueue
       DEF GrantsAreBacked, AnswerUnderWay, Answers, States
  <2>9. UsersAreListed'
    BY <1>1, <1>2, <2>1, <2>3, <2>4, <2>5 DEF UsersAreListed, Active
  <2>10. NobodyOverlooked'
    <3>1. \A d \in Clients : d # c => Head(q) # Msg("SUBSCRIBE", d)
      BY <1>1 DEF Msg
    <3>2. c \in Active(m') /\ (view'[c] = "waiting" => m'.st \in {"Pending", "Releasing"})
      BY <1>1, <1>2, <2>1, <2>3, <2>4, <2>5 DEF Active, States
    <3>3. \A d \in Active(m) : d \in Active(m') /\ m'.st = m.st
      BY <2>3, <2>4 DEF Active, ReleasedIsEmpty
    <3> QED
      BY <1>1, <3>1, <3>2, <3>3, <2>4, <2>5, HandleQueue DEF NobodyOverlooked
  <2> QED
    BY <1>1, <2>4, <2>7, <2>8, <2>9, <2>10, HandleQueue
<1> QED
  BY <1>3, <1>4

LEMMA UnsubscribeStep ==
    ASSUME IndInv, unsubscribeRsrc
    PROVE  IndInv'
<1> USE DEF IndInv, TypeOK
<1> DEFINE c == Head(q).c
<1>1. /\ q # <<>> /\ Head(q) \in Msgs /\ Head(q).ev = "UNSUBSCRIBE" /\ c \in Clients
      /\ Head(q) = q[1] /\ Len(q) \in Nat /\ Len(q) > 0
  BY TailFacts DEF unsubscribeRsrc, AtHead, Msgs, Answers
<1>2. m.st \in States /\ m.subs \subseteq Clients /\ m.inactive \subseteq Clients
  BY DEF Machines
<1>3. view[c] \in {"closing", "idle"}
  BY <1>1 DEF ReleasesAreMeant
<1>4. \A d \in Clients : Head(q) # Msg("SUBSCRIBE", d)
  BY <1>1 DEF Msg
<1>5. CASE c \notin m.subs
  <2>1. PICK told : /\ told \in {Tell({c}, "UNSUBSCRIBE"), Nobody}
                    /\ Handle(Out(m, told, "none"))
    BY <1>5 DEF unsubscribeRsrc
  <2>2. /\ m' = m /\ q' = Tail(q) /\ fwq' = fwq /\ nif' = nif
        /\ view' = [d \in Clients |-> hears(d, told[d])]
    BY <2>1 DEF Handle, Out
  <2>3. \A d \in Clients : /\ d = c => view'[d] \in {"closing", "idle"}
                           /\ d # c => view'[d] = view[d]
    BY <1>3, <2>1, <2>2, HearsFacts DEF Tell, Nobody
  <2> HIDE DEF c
  <2>4. TypeOK' /\ ReleasedIsEmpty' /\ OnlyWifiInactive'
    BY <1>1, <2>2, HandleQueue DEF ReleasedIsEmpty, OnlyWifiInactive
  <2>5. Called("REQUEST")' = Called("REQUEST") /\ Called("RELEASE")' = Called("RELEASE")
    BY <2>2 DEF Called
  <2>6. GrantsAreBacked' /\ AnswerUnderWay'
    BY <1>1, <2>2, <2>5, HandleQueue DEF GrantsAreBacked, AnswerUnderWay, Answers
  <2>7. UsersAreListed'
    BY <2>2, <2>3 DEF UsersAreListed
  <2>8. NobodyOverlooked'
    BY <1>1, <1>4, <2>2, <2>3, HandleQueue DEF NobodyOverlooked
  <2> QED
    BY <1>1, <2>2, <2>4, <2>6, <2>7, <2>8, HandleQueue
<1>6. CASE c \in m.subs
  <2>1. PICK stray \in SUBSET (m.subs \ {c}) :
           Handle(onRsrcEvent(m, "UNSUBSCRIBE", c, stray, "Pending"))
    BY <1>6 DEF unsubscribeRsrc
  <2>2. PICK left : left = leaveList(m, c, stray)
    OBVIOUS
  <2>3. PICK out : out = onRsrcEvent(m, "UNSUBSCRIBE", c, stray, "Pending")
    OBVIOUS
  <2>4. m.st # "Released"
    BY <1>6 DEF ReleasedIsEmpty
  <2> HIDE DEF c
  <2>0. /\ m \in Machines /\ m.inactive \subseteq m.subs
        /\ c \in m.subs /\ stray \in SUBSET (m.subs \ {c})
    BY <1>6, <2>1
  <2>51. LeaveListOutcome(m, c, stray, left)
    BY <2>0, <2>2, LeaveListFacts, Zenon
  <2>5. /\ left.m.inactive \subseteq left.m.subs
        /\ Kind[c] = "WIFI" => /\ left.m.subs = m.subs
                               /\ left.m.inactive = m.inactive \cup {c}
                               /\ left.told = Nobody
        /\ Kind[c] \in {"ATL", "BIT"} =>
              /\ left.m.subs = m.subs \ ({c} \cup stray)
              /\ left.m.inactive = m.inactive \ ({c} \cup stray)
              /\ left.told = Tell({c} \cup stray, "UNSUBSCRIBE")
    BY <2>51 DEF LeaveListOutcome
  <2>61. UnsubscribeOutcome(m, left, out)
    BY <2>0, <2>2, <2>3, <2>4, UnsubscribeFacts, Zenon
  <2>6. /\ out.m \in Machines
        /\ out.m.subs = left.m.subs
        /\ out.m.inactive = left.m.inactive
        /\ out.told = left.told
        /\ out.m.st = "Released" <=> left.m.subs = {}
        /\ out.m.st # "Released" =>
              out.m.st = IF Active(left.m) = {} THEN "Releasing" ELSE m.st
        /\ out.req \in {"none", "RELEASE"}
        /\ out.req = "RELEASE" => Active(out.m) = {}
        /\ m.st # "Releasing" /\ out.m.st = "Releasing" => out.req = "RELEASE"
    BY <2>61 DEF UnsubscribeOutcome
  <2>7. /\ m' = out.m /\ q' = Tail(q) /\ nif' = nif
        /\ fwq' = IF out.req = "none" THEN fwq ELSE Append(fwq, out.req)
        /\ view' = [d \in Clients |-> hears(d, out.told[d])]
    BY <2>1, <2>3 DEF Handle
  <2>8. Kind[c] \in {"WIFI", "ATL", "BIT"}
    BY <1>1, NifAssumption
  <2>9. \A d \in Clients :
           /\ d = c => view'[d] \in {"closing", "idle"}
           /\ Kind[c] # "WIFI" /\ d \in stray =>
                 view'[d] = "idle" \/ Kind[d] = "WIFI"
           /\ d # c /\ (Kind[c] = "WIFI" \/ d \notin stray) => view'[d] = view[d]
    BY <1>1, <1>3, <2>5, <2>6, <2>7, <2>8, HearsFacts DEF Tell, Nobody
  <2>10. \A d \in Clients : Kind[d] = "WIFI" => Kind[c] = "WIFI"
    BY <1>1, NifAssumption
  <2>11. \A d \in Clients : view'[d] \notin {"closing", "idle"} =>
            view'[d] = view[d] /\ (d \in Active(m) => d \in Active(m'))
    BY <1>2, <2>5, <2>6, <2>7, <2>8, <2>9, <2>10 DEF Active
  <2>12. /\ fwq' \in Seq(Calls)
         /\ m.st # "Releasing" /\ m'.st = "Releasing" => Called("RELEASE")'
         /\ Called("RELEASE") => Called("RELEASE")'
         /\ Called("REQUEST") => Called("REQUEST")'
    BY <2>6, <2>7, AppendFacts DEF Calls, Called
  <2>13. \A d \in Active(m') : m'.st = m.st
    BY <1>2, <2>5, <2>6, <2>7, <2>8 DEF Active
  <2>14. TypeOK' /\ ReleasedIsEmpty' /\ OnlyWifiInactive'
    <3>1. TypeOK'
      BY <1>1, <2>5, <2>6, <2>7, <2>12, HandleQueue
    <3>2. ReleasedIsEmpty'
      BY <2>6, <2>7 DEF ReleasedIsEmpty
    <3>3. OnlyWifiInactive'
      BY <2>5, <2>6, <2>7, <2>8 DEF OnlyWifiInactive
    <3> QED
      BY <3>1, <3>2, <3>3
  <2>15. m'.st \in {"Released", "Releasing", m.st}
    BY <2>6, <2>7
  <2>16. GrantsAreBacked' /\ AnswerUnderWay'
    BY <1>1, <2>7, <2>12, <2>15, HandleQueue
       DEF GrantsAreBacked, AnswerUnderWay, Answers
  <2>17. UsersAreListed'
    BY <2>11, <2>13 DEF UsersAreListed
  <2>18. NobodyOverlooked'
    BY <1>1, <1>4, <2>7, <2>11, <2>13, HandleQueue DEF NobodyOverlooked
  <2> QED
    BY <1>1, <2>7, <2>14, <2>16, <2>17, <2>18, HandleQueue
<1> QED
  BY <1>5, <1>6

LEMMA AnswerStep ==
    ASSUME IndInv, NEW ev \in Answers, rsrcEvent(ev)
    PROVE  IndInv'
<1> USE DEF IndInv, TypeOK
<1>1. q # <<>> /\ Head(q).ev = ev /\ \A d \in Clients : Head(q) # Msg("SUBSCRIBE", d)
  BY DEF rsrcEvent, AtHead, Answers, Msg
<1>2. m.st \in States /\ m.subs \subseteq Clients /\ m.inactive \subseteq Clients
  BY DEF Machines
<1>3. PICK out : out = onRsrcEvent(m, ev, NoClient, {}, "Pending") /\ Handle(out)
  BY DEF rsrcEvent
<1>4. /\ m' = out.m /\ q' = Tail(q) /\ nif' = nif
      /\ fwq' = IF out.req = "none" THEN fwq ELSE Append(fwq, out.req)
      /\ view' = [d \in Clients |-> hears(d, out.told[d])]
  BY <1>3 DEF Handle
<1>5. \A d \in Clients : view'[d] = hears(d, out.told[d])
  BY <1>4
<1>6. \A d \in Clients :
         /\ out.told[d] = "none" => view'[d] = view[d]
         /\ out.told[d] \in {"DENIED", "RELEASED"} => view'[d] = "idle"
         /\ out.told[d] = "GRANTED" =>
               view'[d] = IF view[d] = "waiting" THEN "using" ELSE view[d]
  <2> TAKE d \in Clients
  <2>1. view'[d] = hears(d, out.told[d])
    BY <1>5
  <2> QED
    BY <2>1, Zenon DEF hears
<1>7. SUFFICES
         /\ m' \in Machines /\ m'.inactive \subseteq m'.subs
         /\ fwq' \in Seq(Calls)
         /\ ReleasedIsEmpty' /\ OnlyWifiInactive' /\ AnswerUnderWay'
         /\ m'.st = "Acquired" => nif' = "open" \/ InQueue("RELEASED")'
         /\ UsersAreListed'
         /\ \A d \in Active(m) :
               \/ view'[d] # "waiting"
               \/ m.st \notin {"Pending", "Releasing"}
               \/ d \in Active(m') /\ m'.st \in {"Pending", "Releasing"}
         /\ \A d \in Clients : view'[d] = "waiting" => view[d] = "waiting"
  <2>1. GrantsAreBacked'
    BY <1>1, <1>4, <1>7, HandleQueue DEF GrantsAreBacked
  <2>2. NobodyOverlooked'
    BY <1>1, <1>4, <1>7, HandleQueue DEF NobodyOverlooked
  <2>3. TypeOK'
    BY <1>1, <1>4, <1>7, HandleQueue
  <2> QED
    BY <1>1, <1>4, <1>7, <2>1, <2>2, <2>3, HandleQueue
<1>8. CASE /\ out = Stay(m)
           /\ m.st = "Pending" => ev = "RELEASED"
           /\ m.st = "Acquired" => ev # "RELEASED"
           /\ m.st = "Releasing" => ev = "GRANTED"
  <2>1. m' = m /\ fwq' = fwq /\ \A d \in Clients : view'[d] = view[d]
    BY <1>4, <1>6, <1>8 DEF Stay, Out, Nobody, Tell
  <2>2. Called("REQUEST")' = Called("REQUEST") /\ Called("RELEASE")' = Called("RELEASE")
    BY <2>1 DEF Called
  <2>3. AnswerUnderWay'
    BY <1>1, <1>4, <1>8, <2>1, <2>2, HandleQueue DEF AnswerUnderWay, Answers
  <2>4. m'.st = "Acquired" => nif' = "open" \/ InQueue("RELEASED")'
    BY <1>1, <1>4, <1>8, <2>1, HandleQueue DEF GrantsAreBacked, Answers
  <2> QED
    BY <1>2, <2>1, <2>3, <2>4 DEF ReleasedIsEmpty, OnlyWifiInactive, UsersAreListed, Active
<1>9. CASE /\ m.st = "Pending" /\ ev = "GRANTED"
           /\ out = Out(Machine("Acquired", m.subs, m.inactive),
                        Tell(Active(m), "GRANTED"), "none")
  <2>1. /\ m' = [st |-> "Acquired", subs |-> m.subs, inactive |-> m.inactive]
        /\ fwq' = fwq
        /\ \A d \in Clients : out.told[d] = IF d \in Active(m) THEN "GRANTED" ELSE "none"
    BY <1>4, <1>9 DEF Out, Machine, Tell
  <2>2. /\ m'.st = "Acquired" /\ m'.subs = m.subs /\ m'.inactive = m.inactive
        /\ m' \in Machines
    BY <2>1, <1>2 DEF Machines, States
  <2>3. /\ \A d \in Clients : view'[d] = "using" => d \in Active(m) \/ view[d] = "using"
        /\ \A d \in Active(m) : view'[d] # "waiting"
        /\ \A d \in Clients : view'[d] = "waiting" => view[d] = "waiting"
    BY <1>2, <1>6, <2>1 DEF Active
  <2>4. UsersAreListed'
    BY <1>9, <2>2, <2>3 DEF UsersAreListed, Active
  <2>5. nif' = "open" \/ InQueue("RELEASED")'
    BY <1>1, <1>4, <1>9, HandleQueue
  <2> QED
    BY <2>1, <2>2, <2>3, <2>4, <2>5
       DEF ReleasedIsEmpty, OnlyWifiInactive, AnswerUnderWay
<1>10. CASE /\ m.st \in {"Pending", "Acquired"} /\ ev # "GRANTED"
            /\ out = Out(Machine("Released", {}, {}), Tell(m.subs, ev), "none")
  <2>1. /\ m' = [st |-> "Released", subs |-> {}, inactive |-> {}]
        /\ fwq' = fwq
        /\ \A d \in Clients : out.told[d] = IF d \in m.subs THEN ev ELSE "none"
    BY <1>4, <1>10 DEF Out, Machine, Tell
  <2>2. /\ m'.st = "Released" /\ m'.subs = {} /\ m'.inactive = {}
        /\ m' \in Machines
    BY <2>1 DEF Machines, States
  <2>3. /\ \A d \in m.subs : view'[d] = "idle"
        /\ \A d \in Clients : d \notin m.subs => view'[d] = view[d]
    BY <1>2, <1>6, <1>10, <2>1 DEF Answers
  <2>4. UsersAreListed'
    BY <1>10, <2>2, <2>3 DEF UsersAreListed, Active
  <2> QED
    BY <1>2, <2>1, <2>2, <2>3, <2>4
       DEF ReleasedIsEmpty, OnlyWifiInactive, AnswerUnderWay, Active
<1>11. CASE /\ m.st = "Releasing" /\ ev # "GRANTED" /\ Active(m) = {}
            /\ out = Out(Machine("Released", {}, {}), Tell(m.inactive, ev), "none")
  <2>1. /\ m' = [st |-> "Released", subs |-> {}, inactive |-> {}]
        /\ fwq' = fwq
        /\ \A d \in Clients : out.told[d] = IF d \in m.inactive THEN ev ELSE "none"
    BY <1>4, <1>11 DEF Out, Machine, Tell
  <2>2. /\ m'.st = "Released" /\ m'.subs = {} /\ m'.inactive = {}
        /\ m' \in Machines
    BY <2>1 DEF Machines, States
  <2>3. \A d \in Clients : view'[d] \in {view[d], "idle"}
    BY <1>6, <1>11, <2>1 DEF Answers
  <2>4. UsersAreListed'
    BY <1>11, <2>2, <2>3 DEF UsersAreListed, Active
  <2> QED
    BY <1>11, <2>1, <2>2, <2>3, <2>4
       DEF ReleasedIsEmpty, OnlyWifiInactive, AnswerUnderWay
<1>12. CASE /\ m.st = "Releasing" /\ ev # "GRANTED" /\ Active(m) # {}
            /\ out = Out(Machine("Pending", Active(m), {}), Tell(m.inactive, ev),
                         "REQUEST")
  <2>1. /\ m' = [st |-> "Pending", subs |-> Active(m), inactive |-> {}]
        /\ fwq' = Append(fwq, "REQUEST")
        /\ \A d \in Clients : out.told[d] = IF d \in m.inactive THEN ev ELSE "none"
    BY <1>4, <1>12 DEF Out, Machine, Tell
  <2>2. /\ m'.st = "Pending" /\ m'.subs = Active(m) /\ m'.inactive = {}
        /\ m' \in Machines /\ Active(m') = Active(m)
    BY <1>2, <2>1 DEF Machines, States, Active
  <2>3. \A d \in Clients : view'[d] \in {view[d], "idle"}
    BY <1>6, <1>12, <2>1 DEF Answers
  <2>4. fwq' \in Seq(Calls) /\ Called("REQUEST")'
    BY <2>1, AppendFacts DEF Calls, Called
  <2>5. UsersAreListed'
    BY <1>12, <2>2, <2>3 DEF UsersAreListed
  <2> QED
    BY <2>2, <2>3, <2>4, <2>5
       DEF ReleasedIsEmpty, OnlyWifiInactive, AnswerUnderWay
<1> QED
  <2> HIDE DEF IndInv, TypeOK
  <2>1. m \in Machines /\ m.inactive \subseteq m.subs
    BY DEF IndInv, TypeOK
  <2>2. AnswerOutcome(m, ev, out)
    BY <1>3, <2>1, AnswerFacts, Zenon
  <2> QED
    BY <1>8, <1>9, <1>10, <1>11, <1>12, <2>2 DEF AnswerOutcome

LEMMA UpStep ==
    ASSUME IndInv, dropAllSubscribers
    PROVE  IndInv'
<1> USE DEF IndInv, TypeOK
<1>1. /\ q # <<>> /\ Head(q).ev = "UP" /\ \A d \in Clients : Head(q) # Msg("SUBSCRIBE", d)
      /\ InQueue("UP")
  BY TailFacts DEF dropAllSubscribers, AtHead, Msg, InQueue
<1>2. /\ m' = IF droppedOnRestart THEN dropSubscribers(m, m.subs) ELSE m
      /\ q' = Tail(q) /\ fwq' = fwq /\ nif' = nif
      /\ view' = [d \in Clients |-> hears(d, Nobody[d])]
  BY DEF dropAllSubscribers, Handle, Out
<1>3. \A d \in Clients : view'[d] = view[d]
  BY <1>2, HearsFacts DEF Nobody, Tell
<1>4. /\ m' \in Machines /\ m'.inactive \subseteq m'.subs /\ m'.st = m.st
      /\ m'.subs \subseteq m.subs /\ m'.inactive \subseteq m.inactive
      /\ ~droppedOnRestart => m' = m
  BY <1>2 DEF dropSubscribers, Machines, Machine
<1>5. Called("REQUEST")' = Called("REQUEST") /\ Called("RELEASE")' = Called("RELEASE")
  BY <1>2 DEF Called
<1>6. TypeOK' /\ ReleasedIsEmpty' /\ OnlyWifiInactive'
  BY <1>1, <1>2, <1>4, HandleQueue DEF ReleasedIsEmpty, OnlyWifiInactive
<1>7. GrantsAreBacked' /\ AnswerUnderWay'
  BY <1>1, <1>2, <1>4, <1>5, HandleQueue DEF GrantsAreBacked, AnswerUnderWay, Answers
<1>8. droppedOnRestart => \A d \in Clients : Kind[d] # "BIT" => view[d] = "idle"
  BY <1>1, NifAssumption DEF RestartForgets, droppedOnRestart
<1>9. UsersAreListed'
  BY <1>3, <1>4, <1>8 DEF UsersAreListed
<1>10. NobodyOverlooked'
  BY <1>1, <1>2, <1>3, <1>4, <1>8, HandleQueue DEF NobodyOverlooked
<1> QED
  BY <1>1, <1>2, <1>6, <1>7, <1>9, <1>10, HandleQueue

(* What holds after any message is put into the queue.                     *)
LEMMA EnqueueFacts ==
    ASSUME q \in Seq(Msgs), NEW msg \in Msgs, q' = Append(q, msg)
    PROVE  /\ q' \in Seq(Msgs)
           /\ Len(q) \in Nat /\ Len(q') = Len(q) + 1
           /\ q'[Len(q) + 1] = msg
           /\ \A i \in 1..Len(q) : i \in 1..Len(q') /\ q'[i] = q[i]
           /\ \A i \in 1..Len(q') : i \in 1..Len(q) \/ q'[i] = msg
           /\ InQueue(msg.ev)'
           /\ \A e : InQueue(e) => InQueue(e)'
           /\ \A e : InQueue(e)' => InQueue(e) \/ e = msg.ev
<1>1. /\ q' \in Seq(Msgs) /\ Len(q) \in Nat /\ Len(q') = Len(q) + 1
      /\ q'[Len(q) + 1] = msg /\ \A i \in 1..Len(q) : q'[i] = q[i]
  BY AppendFacts
<1>2. /\ \A i \in 1..Len(q) : i \in 1..Len(q') /\ q'[i] = q[i]
      /\ \A i \in 1..Len(q') : i \in 1..Len(q) \/ q'[i] = msg
      /\ Len(q) + 1 \in 1..Len(q')
  BY <1>1
<1> QED
  BY <1>1, <1>2 DEF InQueue

(* The machine does not move in a step of a client, the modem or the       *)
(* framework, which puts one message into the queue and takes a call from  *)
(* the framework's only if the message answers it.                         *)
LEMMA EnvironmentStep ==
    ASSUME IndInv, NEW msg \in Msgs, q' = Append(q, msg), m' = m,
           fwq' \in Seq(Calls), nif' \in {"open", "closed"},
           view' \in [Clients -> Views],
           \A d \in Clients :
              \/ view'[d] \in {view[d], "closing", "idle"}
              \/ view'[d] = "waiting" /\ msg = Msg("SUBSCRIBE", d),
           nif' = "open" \/ msg.ev = "RELEASED" \/ (nif' = nif /\ msg.ev # "GRANTED"),
           Called("REQUEST") => Called("REQUEST")' \/ msg.ev \in {"GRANTED", "DENIED"},
           Called("RELEASE") => Called("RELEASE")' \/ msg.ev = "RELEASED",
           ReleasesAreMeant', RestartForgets'
    PROVE  IndInv'
<1> USE DEF IndInv, TypeOK
<1>1. TypeOK' /\ ReleasedIsEmpty' /\ OnlyWifiInactive'
  BY EnqueueFacts DEF ReleasedIsEmpty, OnlyWifiInactive
<1>2. AnswerUnderWay'
  BY EnqueueFacts DEF AnswerUnderWay
<1>3. UsersAreListed'
  BY DEF UsersAreListed
<1>4. NobodyOverlooked'
  <2>1. SUFFICES ASSUME NEW d \in Clients, view'[d] = "waiting", Kind[d] # "BIT"
                 PROVE  \/ \E i \in 1..Len(q') : q'[i] = Msg("SUBSCRIBE", d)
                        \/ d \in Active(m') /\ m'.st \in {"Pending", "Releasing"}
    BY DEF NobodyOverlooked
  <2>2. CASE msg = Msg("SUBSCRIBE", d)
    BY <2>2, EnqueueFacts
  <2>3. CASE view[d] = "waiting"
    BY <2>1, <2>3, EnqueueFacts DEF NobodyOverlooked
  <2> QED
    BY <2>1, <2>2, <2>3
<1>5. GrantsAreBacked'
  <2>1. m'.st = "Acquired" => nif' = "open" \/ InQueue("RELEASED")'
    BY EnqueueFacts DEF GrantsAreBacked
  <2>2. ASSUME NEW i \in 1..Len(q'), q'[i].ev = "GRANTED", nif' # "open"
        PROVE  \E j \in (i+1)..Len(q') : q'[j].ev = "RELEASED"
    <3>1. i \in 1..Len(q) /\ q[i].ev = "GRANTED"
      BY <2>2, EnqueueFacts
    <3>2. CASE msg.ev = "RELEASED"
      <4>1. /\ Len(q) + 1 \in (i+1)..Len(q') /\ q'[Len(q) + 1].ev = "RELEASED"
        BY <3>1, <3>2, EnqueueFacts
      <4> QED
        BY <4>1
    <3>3. CASE msg.ev # "RELEASED"
      <4>1. PICK j \in (i+1)..Len(q) : q[j].ev = "RELEASED"
        BY <2>2, <3>1, <3>3 DEF GrantsAreBacked
      <4>2. j \in (i+1)..Len(q') /\ q'[j].ev = "RELEASED"
        BY <3>1, <4>1, EnqueueFacts
      <4> QED
        BY <4>2
    <3> QED
      BY <3>2, <3>3
  <2> QED
    BY <2>1, <2>2 DEF GrantsAreBacked
<1> QED
  BY <1>1, <1>2, <1>3, <1>4, <1>5

LEMMA ClientStep ==
    ASSUME IndInv, NEW c \in Clients, Request(c) \/ Release(c)
    PROVE  IndInv'
<1> USE DEF IndInv, TypeOK
<1>1. CASE Request(c)
  <2> DEFINE msg == Msg("SUBSCRIBE", c)
  <2>1. /\ msg \in Msgs /\ msg.ev = "SUBSCRIBE" /\ msg.c = c /\ q' = Append(q, msg)
        /\ m' = m /\ fwq' = fwq /\ nif' = nif
        /\ view' = [view EXCEPT ![c] = "waiting"] /\ ~FromClient(c) /\ ~InQueue("UP")
    BY <1>1 DEF Request, Msg, Msgs
  <2> HIDE DEF msg
  <2>2. /\ view' \in [Clients -> Views]
        /\ \A d \in Clients : view'[d] = view[d] \/ (d = c /\ view'[d] = "waiting")
    BY <2>1 DEF Views
  <2>3. ReleasesAreMeant'
    BY <2>1, <2>2, EnqueueFacts DEF ReleasesAreMeant, FromClient, Msgs, Answers
  <2>4. RestartForgets'
    BY <2>1, EnqueueFacts DEF RestartForgets
  <2>5. Called("REQUEST")' = Called("REQUEST") /\ Called("RELEASE")' = Called("RELEASE")
    BY <2>1 DEF Called
  <2> QED
    BY <2>1, <2>2, <2>3, <2>4, <2>5, EnvironmentStep DEF msg
<1>2. CASE Release(c)
  <2> DEFINE msg == Msg("UNSUBSCRIBE", c)
  <2>1. /\ msg \in Msgs /\ msg.ev = "UNSUBSCRIBE" /\ msg.c = c /\ q' = Append(q, msg)
        /\ m' = m /\ fwq' = fwq /\ nif' = nif
        /\ view[c] # "idle" /\ view' = [view EXCEPT ![c] = "closing"]
    BY <1>2 DEF Release, Msg, Msgs
  <2> HIDE DEF msg
  <2>2. /\ view' \in [Clients -> Views]
        /\ \A d \in Clients : \/ d # c /\ view'[d] = view[d]
                              \/ d = c /\ view'[d] = "closing"
    BY <2>1 DEF Views
  <2>3. ReleasesAreMeant'
    BY <2>1, <2>2, EnqueueFacts DEF ReleasesAreMeant, Msgs, Answers
  <2>4. RestartForgets'
    BY <2>1, <2>2, EnqueueFacts DEF RestartForgets
  <2>5. Called("REQUEST")' = Called("REQUEST") /\ Called("RELEASE")' = Called("RELEASE")
    BY <2>1 DEF Called
  <2> QED
    BY <2>1, <2>2, <2>3, <2>4, <2>5, EnvironmentStep
<1> QED
  BY <1>1, <1>2

LEMMA RestartStep ==
    ASSUME IndInv, ModemRestart
    PROVE  IndInv'
<1> USE DEF IndInv, TypeOK
<1> DEFINE msg == Msg("UP", NoClient)
<1>1. /\ msg \in Msgs /\ msg.ev = "UP" /\ q' = Append(q, msg)
      /\ m' = m /\ fwq' = fwq /\ nif' = nif
      /\ view' = [c \in Clients |-> IF Kind[c] = "ATL" THEN "idle" ELSE view[c]]
  BY DEF ModemRestart, Msg, Msgs
<1> HIDE DEF msg
<1>2. /\ view' \in [Clients -> Views]
      /\ \A d \in Clients : view'[d] = IF Kind[d] = "ATL" THEN "idle" ELSE view[d]
  BY <1>1 DEF Views
<1>3. ReleasesAreMeant'
  <2>1. SUFFICES ASSUME NEW i \in 1..Len(q'), q'[i].ev = "UNSUBSCRIBE"
                 PROVE  view'[q'[i].c] \in {"closing", "idle"}
    BY DEF ReleasesAreMeant
  <2>2. i \in 1..Len(q) /\ q'[i] = q[i] /\ q[i] \in Msgs
    BY <1>1, <2>1, EnqueueFacts
  <2>3. q[i].c \in Clients /\ view[q[i].c] \in {"closing", "idle"}
    BY <2>1, <2>2 DEF ReleasesAreMeant, Msgs, Answers
  <2> QED
    BY <1>2, <2>2, <2>3
<1>4. RestartForgets'
  BY <1>2 DEF RestartForgets
<1>5. Called("REQUEST")' = Called("REQUEST") /\ Called("RELEASE")' = Called("RELEASE")
  BY <1>1 DEF Called
<1> QED
  BY <1>1, <1>2, <1>3, <1>4, <1>5, EnvironmentStep

LEMMA FrameworkStep ==
    ASSUME IndInv, Framework \/ FwTakeBack
    PROVE  IndInv'
<1> USE DEF IndInv, TypeOK
<1>1. PICK ev \in Answers, to \in {"open", "closed"} :
         /\ FwAnswer(ev, to)
         /\ to = "open" \/ ev = "RELEASED" \/ (to = nif /\ ev # "GRANTED")
         /\ \/ fwq' = fwq
            \/ /\ fwq # <<>> /\ fwq' = Tail(fwq)
               /\ Head(fwq) = "REQUEST" => ev \in {"GRANTED", "DENIED"}
               /\ Head(fwq) = "RELEASE" => ev = "RELEASED"
  BY DEF Framework, FwOpen, FwDeny, FwClose, FwTakeBack, Answers
<1> DEFINE msg == Msg(ev, NoClient)
<1>2. /\ msg \in Msgs /\ msg.ev = ev /\ q' = Append(q, msg) /\ nif' = to
      /\ m' = m /\ view' = view
  BY <1>1 DEF FwAnswer, Msg, Msgs
<1> HIDE DEF msg
<1>3. /\ fwq' \in Seq(Calls)
      /\ Called("REQUEST") => Called("REQUEST")' \/ ev \in {"GRANTED", "DENIED"}
      /\ Called("RELEASE") => Called("RELEASE")' \/ ev = "RELEASED"
  <2>1. CASE fwq' = fwq
    BY <2>1 DEF Called
  <2>2. CASE /\ fwq # <<>> /\ fwq' = Tail(fwq)
             /\ Head(fwq) = "REQUEST" => ev \in {"GRANTED", "DENIED"}
             /\ Head(fwq) = "RELEASE" => ev = "RELEASED"
    <3>1. /\ fwq' \in Seq(Calls) /\ Len(fwq) \in Nat /\ Len(fwq') = Len(fwq) - 1
          /\ Head(fwq) = fwq[1] /\ \A i \in 1..Len(fwq') : fwq'[i] = fwq[i+1]
      BY <2>2
    <3>2. \A i \in 1..Len(fwq) : i = 1 \/ (i - 1 \in 1..Len(fwq') /\ fwq'[i-1] = fwq[i])
      BY <3>1
    <3> QED
      BY <2>2, <3>1, <3>2 DEF Called
  <2> QED
    BY <1>1, <2>1, <2>2
<1>4. ReleasesAreMeant'
  BY <1>2, EnqueueFacts DEF ReleasesAreMeant, Answers
<1>5. RestartForgets'
  BY <1>2, EnqueueFacts DEF RestartForgets, Answers
<1> QED
  BY <1>1, <1>2, <1>3, <1>4, <1>5, EnvironmentStep

(* IndInv holds in every state the engine, its clients and the framework   *)
(* reach.                                                                  *)
THEOREM Invariance == Spec => []IndInv
<1>1. Init => IndInv
  <2> SUFFICES ASSUME Init PROVE IndInv
    OBVIOUS
  <2>1. /\ m.st = "Released" /\ m.subs = {} /\ m.inactive = {} /\ m \in Machines
    BY DEF Init, NewMachine, Machine, Machines, States
  <2>2. /\ q = <<>> /\ fwq = <<>> /\ nif = "closed"
        /\ view = [c \in Clients |-> "idle"]
    BY DEF Init
  <2>3. TypeOK
    BY <2>1, <2>2 DEF TypeOK, Views
  <2>4. Len(q) = 0 /\ \A c \in Clients : view[c] = "idle"
    BY <2>2
  <2> QED
    BY <2>1, <2>2, <2>3, <2>4
       DEF IndInv, ReleasedIsEmpty, OnlyWifiInactive, GrantsAreBacked, AnswerUnderWay,
           ReleasesAreMeant, RestartForgets, UsersAreListed, NobodyOverlooked, InQueue
<1>2. IndInv /\ [Next]_vars => IndInv'
  <2> SUFFICES ASSUME IndInv, [Next]_vars PROVE IndInv'
    OBVIOUS
  <2>1. CASE UNCHANGED vars
    BY <2>1
       DEF vars, IndInv, TypeOK, ReleasedIsEmpty, OnlyWifiInactive, GrantsAreBacked,
           AnswerUnderWay, ReleasesAreMeant, RestartForgets, UsersAreListed,
           NobodyOverlooked, InQueue, Called
  <2>2. CASE Next
    BY <2>2, SubscribeStep, UnsubscribeStep, AnswerStep, UpStep, ClientStep,
       RestartStep, FrameworkStep
       DEF Next, MsgTask
  <2> QED
    BY <2>1, <2>2
<1> QED
  BY <1>1, <1>2, PTL DEF Spec

(* Every variable keeps its type.                                          *)
THEOREM TypeCorrect == Spec => []TypeOK
<1>1. IndInv => TypeOK
  BY DEF IndInv
<1> QED
  BY <1>1, Invariance, PTL

(* A client that was told GRANTED, and nothing since, holds the interface. *)
THEOREM UsersHold == Spec => []UsersHoldTheNif
<1>1. IndInv => UsersHoldTheNif
  BY DEF IndInv, UsersAreListed, GrantsAreBacked, UsersHoldTheNif
<1> QED
  BY <1>1, Invariance, PTL

(* A machine that waits for the framework has an answer coming.            *)
THEOREM AnswerComes == Spec => []AnswerUnderWay
<1>1. IndInv => AnswerUnderWay
  BY DEF IndInv
<1> QED
  BY <1>1, Invariance, PTL

(* No client that waits is missing from the machine and from the queue.    *)
THEOREM NoneOverlooked == Spec => []NobodyOverlooked
<1>1. IndInv => NobodyOverlooked
  BY DEF IndInv
<1> QED
  BY <1>1, Invariance, PTL

(* A step that calls the framework with RELEASE leaves no active           *)
(* subscriber: only an UNSUBSCRIBE makes that call.                        *)
LEMMA ReleaseFacts ==
    ASSUME IndInv, Next, fwq' = Append(fwq, "RELEASE")
    PROVE  Active(m') = {}
<1> USE DEF IndInv, TypeOK
<1> DEFINE c == Head(q).c
<1>1. /\ fwq \in Seq(Calls) /\ Len(fwq) \in Nat
      /\ Append(fwq, "RELEASE") # fwq
      /\ Append(fwq, "RELEASE") # Append(fwq, "REQUEST")
      /\ fwq # <<>> => Append(fwq, "RELEASE") # Tail(fwq)
  <2>1. /\ fwq \in Seq(Calls) /\ "RELEASE" \in Calls /\ "REQUEST" \in Calls
    BY DEF Calls
  <2>2. /\ Len(fwq) \in Nat
        /\ Len(Append(fwq, "RELEASE")) = Len(fwq) + 1
        /\ Append(fwq, "RELEASE")[Len(fwq) + 1] = "RELEASE"
        /\ Append(fwq, "REQUEST")[Len(fwq) + 1] = "REQUEST"
    BY <2>1, AppendFacts
  <2>3. fwq # <<>> => Len(Tail(fwq)) = Len(fwq) - 1
    BY <2>1
  <2> QED
    BY <2>1, <2>2, <2>3
<1>2. ASSUME NEW out, Handle(out)
      PROVE  out.req \notin {"none", "REQUEST"} /\ m' = out.m
  BY <1>1, <1>2 DEF Handle
<1>3. MsgTask
  BY <1>1 DEF Next, Request, Release, ModemRestart, Framework, FwOpen, FwDeny, FwClose,
              FwTakeBack
<1>4. ~dropAllSubscribers
  <2>1. \A mm : Out(mm, Nobody, "none").req = "none"
    BY DEF Out
  <2> QED
    BY <1>2, <2>1 DEF dropAllSubscribers
<1>5. \A ev \in Answers : ~rsrcEvent(ev)
  <2>1. SUFFICES ASSUME NEW ev \in Answers, rsrcEvent(ev) PROVE FALSE
    OBVIOUS
  <2>2. PICK out : out = onRsrcEvent(m, ev, NoClient, {}, "Pending") /\ Handle(out)
    BY <2>1 DEF rsrcEvent
  <2>3. m \in Machines /\ m.inactive \subseteq m.subs
    OBVIOUS
  <2>4. AnswerOutcome(m, ev, out)
    BY <2>2, <2>3, AnswerFacts, Zenon
  <2>5. out.req \in {"none", "REQUEST"}
    BY <2>4 DEF AnswerOutcome, Stay, Out
  <2> QED
    BY <1>2, <2>2, <2>5
<1>6. ~subscribeRsrc
  <2>1. SUFFICES ASSUME subscribeRsrc PROVE FALSE
    OBVIOUS
  <2>2. /\ q # <<>> /\ c \in Clients
    BY <2>1, TailFacts DEF subscribeRsrc, AtHead, Msgs, Answers
  <2>3. CASE mEnforceSingleSubscriber /\ m.subs # {}
    <3>1. Handle(Out(m, Tell({c}, "DENIED"), "none"))
      BY <2>1, <2>3 DEF subscribeRsrc
    <3> QED
      BY <1>2, <3>1 DEF Out
  <2>4. CASE ~(mEnforceSingleSubscriber /\ m.subs # {})
    <3>1. c \notin m.inactive
      BY <2>2, <2>4, NifAssumption DEF OnlyWifiInactive, mEnforceSingleSubscriber
    <3>2. PICK out : out = onRsrcEvent(m, "SUBSCRIBE", c, {}, "Pending") /\ Handle(out)
      BY <2>1, <2>4 DEF subscribeRsrc
    <3>3. m \in Machines /\ m.inactive \subseteq m.subs
      OBVIOUS
    <3> HIDE DEF c
    <3>4. SubscribeOutcome(m, c, out)
      BY <2>2, <3>1, <3>2, <3>3, SubscribeFacts, Zenon
    <3> QED
      BY <1>2, <3>2, <3>4 DEF SubscribeOutcome
  <2> QED
    BY <2>3, <2>4
<1>7. unsubscribeRsrc
  BY <1>3, <1>4, <1>5, <1>6 DEF MsgTask
<1>8. c \in m.subs
  <2>1. SUFFICES ASSUME c \notin m.subs PROVE FALSE
    OBVIOUS
  <2>2. PICK told : Handle(Out(m, told, "none"))
    BY <1>7, <2>1 DEF unsubscribeRsrc
  <2> QED
    BY <1>2, <2>2 DEF Out
<1>9. PICK stray \in SUBSET (m.subs \ {c}) :
         Handle(onRsrcEvent(m, "UNSUBSCRIBE", c, stray, "Pending"))
  BY <1>7, <1>8 DEF unsubscribeRsrc
<1>10. PICK left : left = leaveList(m, c, stray)
  OBVIOUS
<1>11. PICK out : out = onRsrcEvent(m, "UNSUBSCRIBE", c, stray, "Pending")
  OBVIOUS
<1>12. /\ m \in Machines /\ m.inactive \subseteq m.subs /\ m.st # "Released"
       /\ stray \in SUBSET (m.subs \ {c})
  BY <1>8, <1>9 DEF ReleasedIsEmpty
<1> HIDE DEF c
<1>13. UnsubscribeOutcome(m, left, out)
  BY <1>8, <1>10, <1>11, <1>12, UnsubscribeFacts, Zenon
<1> QED
  BY <1>2, <1>9, <1>11, <1>13 DEF UnsubscribeOutcome

(* The machine calls the framework with RELEASE only when no client is     *)
(* left using the interface.                                               *)
THEOREM ReleaseWhenUnused == Spec => ReleaseOnlyWhenUnused
<1> DEFINE Safe == fwq' = Append(fwq, "RELEASE") =>
                      \A c \in Clients : Kind[c] # "BIT" => view'[c] # "using"
<1>1. IndInv /\ IndInv' /\ [Next]_vars => [Safe]_vars
  BY ReleaseFacts DEF IndInv, UsersAreListed
<1> QED
  BY <1>1, Invariance, PTL DEF Spec, ReleaseOnlyWhenUnused

=============================================================================
