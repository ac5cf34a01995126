----------------------------- MODULE LocEngProofs -----------------------------
(***************************************************************************)
(* Proofs about the location engine.                                       *)
(*                                                                         *)
(* Network-initiated requests (LocEngNi), for any number of them: none is  *)
(* forgotten and none is answered twice, although rawRequest is tested,    *)
(* freed and cleared without the lock.                                     *)
(*                                                                         *)
(* The session (LocEngSession), for any number of calls and of restarts of *)
(* the modem: a fix that runs is heard and has a session, and a stop is    *)
(* obeyed.                                                                 *)
(*                                                                         *)
(* The emergency SUPL machine (DSStateMachine), for any set of sessions,   *)
(* any bound on the retries and on what is under way: the data call        *)
(* follows the machine's state.                                            *)
(***************************************************************************)
EXTENDS LocEngNi, LocEngSession, DSStateMachine, WellFoundedInduction, TLAPS

(* The requests that a session has been given so far.                      *)
saved == IF mt.pc = "spawn" THEN reqIDCounter + 1 ELSE reqIDCounter

Accounted(n) == \/ \E s \in Sessions : rawRequest[s] = n
                \/ \E k \in Requests : thread[k].msg.payload = n
                \/ n \in freed

Taking(n) == thread[n].pc \in {"take", "clear"}

(***************************************************************************)
(* The inductive invariant.  Every request is somewhere, from the moment a *)
(* session was given it; numbers are not used twice.                       *)
(***************************************************************************)
Numbered ==
    /\ saved <= MaxRequests
    /\ \A n \in 1..saved : Accounted(n)
    /\ \A s \in Sessions : rawRequest[s] <= saved
    /\ \A n \in Requests : thread[n].msg.payload <= saved
    /\ \A n \in Requests : n > reqIDCounter => thread[n] = NoThread

(* One thread of a session has the lock; while it has, the session is not  *)
(* given another request: either it still has one, or the restart has to   *)
(* wait for the lock before it ends.                                       *)
OneTakes == \A k, l \in Requests : Taking(k) /\ Taking(l) /\ thread[k].s = thread[l].s => k = l

SessionIsHeld ==
    \A n \in Requests : Taking(n) =>
        rawRequest[thread[n].s] # None \/ (mt.pc = "signal" /\ mt.s = thread[n].s)

(* What is about to be cleared is in a message or has been freed.          *)
ClearsWhatIsSafe ==
    /\ mt.pc = "null" => rawRequest[mt.s] \in freed \cup {None}
    /\ \A n \in Requests : thread[n].pc = "clear" =>
          rawRequest[thread[n].s] \in freed \cup {None, thread[n].msg.payload}

(* A message is made once, and of the request that the session has.        *)
NoMessageYet ==
    \A n \in Requests :
        thread[n].pc \notin {"clear", "after", "done"} => thread[n].msg.payload = None

OwnRequest ==
    /\ \A s, t \in Sessions : rawRequest[s] # None /\ rawRequest[s] = rawRequest[t] => s = t
    /\ \A s \in Sessions, n \in Requests : rawRequest[s] # None /\ thread[n].msg.payload = rawRequest[s] =>
          thread[n].pc = "clear" /\ thread[n].s = s

NiInv ==
    /\ TypeOK /\ Numbered /\ OneTakes /\ SessionIsHeld /\ ClearsWhatIsSafe
    /\ NoMessageYet /\ OwnRequest /\ AnsweredOnce

-----------------------------------------------------------------------------
LEMMA InitInv == Init => NiInv
<1> SUFFICES ASSUME Init PROVE NiInv
  OBVIOUS
<1> USE NiAssumption DEF Init, None, Requests, NoThread, NoMsg, Idle, Silent, Sessions
<1>1. TypeOK
  BY DEF TypeOK, Numbers, Responses, Threads
<1>2. Numbered
  BY DEF Numbered, saved, Accounted
<1>3. OneTakes /\ SessionIsHeld /\ ClearsWhatIsSafe
  BY DEF OneTakes, SessionIsHeld, ClearsWhatIsSafe, Taking
<1>4. NoMessageYet /\ OwnRequest /\ AnsweredOnce
  BY DEF NoMessageYet, OwnRequest, AnsweredOnce
<1> QED
  BY <1>1, <1>2, <1>3, <1>4 DEF NiInv

-----------------------------------------------------------------------------
(***************************************************************************)
(* A thread that goes on keeps its session and its message.                *)
(***************************************************************************)
Pcs == {"none", "failed", "start", "wait", "take", "clear", "after", "done"}

LEMMA GoesOn ==
  ASSUME TypeOK, NEW n \in Requests, NEW pc \in Pcs, goes(n, pc)
  PROVE  /\ thread' \in [Requests -> Threads]
         /\ \A k \in Requests : /\ thread'[k].s = thread[k].s /\ thread'[k].msg = thread[k].msg
                                /\ thread'[k].pc = IF k = n THEN pc ELSE thread[k].pc
                                /\ k # n => thread'[k] = thread[k]
<1>1. thread \in [Requests -> Threads]
  BY DEF TypeOK
<1>2. thread' = [thread EXCEPT ![n] = [thread[n] EXCEPT !.pc = pc]]
  BY DEF goes
<1>3. thread[n] \in Threads
  BY <1>1
<1>4. /\ [thread[n] EXCEPT !.pc = pc] \in Threads
      /\ [thread[n] EXCEPT !.pc = pc].s = thread[n].s
      /\ [thread[n] EXCEPT !.pc = pc].msg = thread[n].msg
      /\ [thread[n] EXCEPT !.pc = pc].pc = pc
  BY <1>3 DEF Threads, Pcs
<1>5. thread' \in [Requests -> Threads]
  BY <1>1, <1>2, <1>4
<1>6. \A k \in Requests : thread'[k] = IF k = n THEN [thread[n] EXCEPT !.pc = pc] ELSE thread[k]
  BY <1>1, <1>2
<1> QED
  BY <1>4, <1>5, <1>6

(* So it changes nothing of what the numbers are about.                    *)
LEMMA GoesNumbered ==
  ASSUME NiInv, NEW n \in Requests, NEW pc \in Pcs, thread[n].pc # "none", goes(n, pc),
         UNCHANGED <<rawRequest, mt, reqIDCounter>>, freed \subseteq freed'
  PROVE  Numbered'
<1>1. TypeOK /\ Numbered
  BY DEF NiInv
<1>2. \A k \in Requests : thread'[k].msg = thread[k].msg /\ (k # n => thread'[k] = thread[k])
  BY <1>1, GoesOn
<1>3. saved' = saved
  BY DEF saved
<1>4. \A k \in 1..saved : Accounted(k)'
  BY <1>1, <1>2 DEF Numbered, Accounted
<1>5. ~(n > reqIDCounter)
  BY <1>1 DEF Numbered, NoThread
<1>6. \A k \in Requests : k > reqIDCounter' => thread'[k] = NoThread
  BY <1>1, <1>2, <1>5 DEF Numbered
<1>7. \A k \in Requests : thread'[k].msg.payload <= saved'
  BY <1>1, <1>2, <1>3 DEF Numbered
<1> QED
  BY <1>1, <1>3, <1>4, <1>6, <1>7 DEF Numbered

LEMMA SaveStep == ASSUME NEW s \in Sessions, NiInv, saveRequest(s) PROVE NiInv'
<1> USE NiAssumption DEF saveRequest, admits, nidata, None, Requests
<1>1. TypeOK'
  <2>1. reqIDCounter + 1 \in Numbers
    BY DEF NiInv, TypeOK, Numbers
  <2>2. rawRequest' \in [Sessions -> Numbers]
    BY <2>1 DEF NiInv, TypeOK
  <2>3. mt' \in [pc : {"idle", "spawn", "notify", "check", "free", "null", "signal"}, s : Sessions]
    BY DEF NiInv, TypeOK
  <2> QED
    BY <2>2, <2>3 DEF NiInv, TypeOK
<1>2. Numbered'
  <2>1. saved = reqIDCounter /\ saved' = reqIDCounter + 1 /\ reqIDCounter \in Nat
    BY DEF NiInv, TypeOK, Numbers, saved
  <2>2. s \in Sessions /\ rawRequest \in [Sessions -> Numbers] /\ rawRequest[s] = 0
    BY DEF NiInv, TypeOK
  <2>3. \A k \in 1..saved' : Accounted(k)'
    <3> TAKE k \in 1..saved'
    <3>1. CASE k = reqIDCounter + 1
      BY <2>2, <3>1 DEF Accounted
    <3>2. CASE k # reqIDCounter + 1
      <4>1. k \in 1..saved /\ k # 0
        BY <2>1, <3>2
      <4>2. Accounted(k)
        BY <4>1 DEF NiInv, Numbered
      <4> QED
        BY <2>2, <4>1, <4>2 DEF Accounted
    <3> QED
      BY <3>1, <3>2
  <2>4. \A n \in Requests : thread[n].msg.payload \in Nat
    BY DEF NiInv, TypeOK, Threads, Numbers
  <2>5. \A n \in Requests : thread'[n].msg.payload <= saved'
    BY <2>1, <2>4 DEF NiInv, Numbered
  <2>6. \A t \in Sessions : rawRequest'[t] <= saved'
    BY <2>1, <2>2 DEF NiInv, Numbered, Numbers
  <2>7. saved' <= MaxRequests
    BY <2>1 DEF NiInv
  <2> QED
    BY <2>1, <2>3, <2>5, <2>6, <2>7 DEF NiInv, Numbered
<1>3. OneTakes'
  BY DEF NiInv, OneTakes, Taking, TypeOK, Numbers, Threads, Requests
<1>4. SessionIsHeld'
  BY DEF NiInv, SessionIsHeld, Taking, TypeOK, Numbers, Threads, Requests
<1>5. ClearsWhatIsSafe'
  <2>1. \A n \in Requests : Taking(n) => thread[n].s # s
    BY DEF NiInv, SessionIsHeld
  <2> QED
    BY <2>1 DEF NiInv, ClearsWhatIsSafe, Taking, TypeOK, Threads
<1>6. NoMessageYet'
  BY DEF NiInv, NoMessageYet, TypeOK, Numbers, Threads, Requests
<1>7. OwnRequest'
  <2>1. \A n \in Requests : thread[n].msg.payload \in Nat /\ thread[n].msg.payload <= reqIDCounter
    <3>1. \A n \in Requests : thread[n].msg.payload \in Nat
      BY DEF NiInv, TypeOK, Threads, Numbers
    <3>2. saved = reqIDCounter
      BY DEF saved
    <3> QED
      BY <3>1, <3>2 DEF NiInv, Numbered
  <2>2. \A t \in Sessions : rawRequest[t] \in Nat /\ rawRequest[t] <= reqIDCounter
    BY DEF NiInv, TypeOK, Numbers, Numbered, saved
  <2>3. reqIDCounter \in Nat /\ rawRequest \in [Sessions -> Numbers]
    BY DEF NiInv, TypeOK, Numbers
  <2>4. \A t \in Sessions : rawRequest'[t] = IF t = s THEN reqIDCounter + 1 ELSE rawRequest[t]
    BY <2>3
  <2> QED
    BY <2>1, <2>2, <2>3, <2>4 DEF NiInv, OwnRequest
<1>8. AnsweredOnce'
  BY DEF NiInv, AnsweredOnce, TypeOK, Numbers, Threads, Requests
<1> QED
  BY <1>1, <1>2, <1>3, <1>4, <1>5, <1>6, <1>7, <1>8 DEF NiInv

LEMMA SpawnStep == ASSUME NiInv, spawn PROVE NiInv'
<1> USE NiAssumption DEF spawn, nidata, None, Requests
<1>a. /\ reqIDCounter \in Nat /\ reqIDCounter' = reqIDCounter + 1 /\ reqIDCounter' \in Requests
      /\ mt.s \in Sessions /\ thread \in [Requests -> Threads]
  BY DEF NiInv, TypeOK, Numbered, saved, Numbers
<1>b. thread[reqIDCounter'] = NoThread
  BY <1>a DEF NiInv, Numbered
<1>c. PICK pc \in {"start", "failed"} :
        thread' = [thread EXCEPT ![reqIDCounter'] = [NoThread EXCEPT !.pc = pc, !.s = mt.s]]
  OBVIOUS
<1>d. thread' = [thread EXCEPT ![reqIDCounter'] = [pc |-> pc, s |-> mt.s, msg |-> NoMsg]]
  BY <1>c DEF NoThread
<1>e. \A k \in Requests : /\ thread'[k].msg = thread[k].msg
                          /\ k # reqIDCounter' => thread'[k] = thread[k]
                          /\ k = reqIDCounter' => thread'[k].pc = pc
  <2>1. \A k \in Requests : thread'[k] = IF k = reqIDCounter' THEN [pc |-> pc, s |-> mt.s, msg |-> NoMsg] ELSE thread[k]
    BY <1>a, <1>d
  <2>2. thread[reqIDCounter'].msg = NoMsg
    BY <1>b DEF NoThread
  <2> HIDE DEF spawn, Requests
  <2> QED
    BY <2>1, <2>2
<1>f. mt' = [mt EXCEPT !.pc = "notify"] /\ mt'.pc = "notify" /\ mt.pc = "spawn"
  BY DEF NiInv, TypeOK
<1>g. pc \in {"start", "failed"} /\ UNCHANGED <<rawRequest, freed>>
  BY <1>c
<1> HIDE DEF spawn
<1>1. TypeOK'
  <2>1. [pc |-> pc, s |-> mt.s, msg |-> NoMsg] \in Threads
    BY <1>a, <1>g DEF Threads, NoMsg, Numbers, Responses
  <2>2. thread' \in [Requests -> Threads]
    BY <1>a, <1>d, <2>1
  <2>3. reqIDCounter' \in Numbers
    BY <1>a DEF Numbers
  <2>4. reqID' \in [Sessions -> Numbers] /\ UNCHANGED <<respRecvd, resp, user>>
    BY <2>3, <1>a DEF NiInv, TypeOK, spawn
  <2>5. mt' \in [pc : {"idle", "spawn", "notify", "check", "free", "null", "signal"}, s : Sessions]
    BY <1>f DEF NiInv, TypeOK
  <2> QED
    BY <1>g, <2>2, <2>3, <2>4, <2>5 DEF NiInv, TypeOK
<1>2. Numbered'
  <2>1. saved' = saved
    BY <1>a, <1>f DEF saved
  <2>2. \A k \in 1..saved : Accounted(k)'
    BY <1>e, <1>g DEF NiInv, Numbered, Accounted
  <2>3. \A k \in Requests : k > reqIDCounter' => k > reqIDCounter /\ k # reqIDCounter'
    BY <1>a
  <2> QED
    BY <1>e, <1>g, <2>1, <2>2, <2>3 DEF NiInv, Numbered
<1>3. OneTakes'
  BY <1>e, <1>g DEF NiInv, OneTakes, Taking
<1>4. SessionIsHeld'
  BY <1>e, <1>f, <1>g DEF NiInv, SessionIsHeld, Taking
<1>5. ClearsWhatIsSafe'
  BY <1>e, <1>f, <1>g DEF NiInv, ClearsWhatIsSafe
<1>6. NoMessageYet'
  BY <1>b, <1>e, <1>g DEF NiInv, NoMessageYet, NoThread, NoMsg
<1>7. OwnRequest'
  <2>1. \A k \in Requests : thread[k].pc = "clear" => thread'[k] = thread[k]
    BY <1>b, <1>e DEF NoThread
  <2> QED
    BY <1>e, <1>g, <2>1 DEF NiInv, OwnRequest
<1>8. AnsweredOnce'
  BY <1>e DEF NiInv, AnsweredOnce
<1> QED
  BY <1>1, <1>2, <1>3, <1>4, <1>5, <1>6, <1>7, <1>8 DEF NiInv

LEMMA NotifyStep == ASSUME NiInv, ni_notify_cb PROVE NiInv'
<1> USE NiAssumption DEF ni_notify_cb, Idle, nidata, None, Requests
<1>1. TypeOK'
  BY DEF NiInv, TypeOK, Numbers, Responses, Threads, Sessions, NoThread, NoMsg, Idle, Silent
<1>2. Numbered'
  BY DEF NiInv, Numbered, saved, Accounted, TypeOK, Numbers, Threads, Requests
<1>3. OneTakes'
  BY DEF NiInv, OneTakes, Taking, TypeOK, Numbers, Threads, Requests
<1>4. SessionIsHeld'
  BY DEF NiInv, SessionIsHeld, Taking, TypeOK, Numbers, Threads, Requests
<1>5. ClearsWhatIsSafe'
  BY DEF NiInv, ClearsWhatIsSafe, TypeOK, Numbers, Threads, Requests
<1>6. NoMessageYet'
  BY DEF NiInv, NoMessageYet, TypeOK, Numbers, Threads, Requests
<1>7. OwnRequest'
  BY DEF NiInv, OwnRequest, TypeOK, Numbers, Threads, Requests
<1>8. AnsweredOnce'
  BY DEF NiInv, AnsweredOnce, TypeOK, Numbers, Threads, Requests
<1> QED
  BY <1>1, <1>2, <1>3, <1>4, <1>5, <1>6, <1>7, <1>8 DEF NiInv

LEMMA RestartStep == ASSUME NiInv, engineRestart PROVE NiInv'
<1> USE NiAssumption DEF engineRestart, nidata, None, Requests
<1>1. TypeOK'
  BY DEF NiInv, TypeOK, Numbers, Responses, Threads, Sessions, NoThread, NoMsg, Idle, Silent
<1>2. Numbered'
  BY DEF NiInv, Numbered, saved, Accounted, TypeOK, Numbers, Threads, Requests
<1>3. OneTakes'
  BY DEF NiInv, OneTakes, Taking, TypeOK, Numbers, Threads, Requests
<1>4. SessionIsHeld'
  BY DEF NiInv, SessionIsHeld, Taking, TypeOK, Numbers, Threads, Requests
<1>5. ClearsWhatIsSafe'
  BY DEF NiInv, ClearsWhatIsSafe, TypeOK, Numbers, Threads, Requests
<1>6. NoMessageYet'
  BY DEF NiInv, NoMessageYet, TypeOK, Numbers, Threads, Requests
<1>7. OwnRequest'
  BY DEF NiInv, OwnRequest, TypeOK, Numbers, Threads, Requests
<1>8. AnsweredOnce'
  BY DEF NiInv, AnsweredOnce, TypeOK, Numbers, Threads, Requests
<1> QED
  BY <1>1, <1>2, <1>3, <1>4, <1>5, <1>6, <1>7, <1>8 DEF NiInv

LEMMA CheckStep == ASSUME NiInv, resetCheck PROVE NiInv'
<1> USE NiAssumption DEF resetCheck, nextSession, Idle, nidata, None, Requests
<1>1. TypeOK'
  BY DEF NiInv, TypeOK, Numbers, Responses, Threads, Sessions, NoThread, NoMsg, Idle, Silent
<1>2. Numbered'
  BY DEF NiInv, Numbered, saved, Accounted, TypeOK, Numbers, Threads, Requests
<1>3. OneTakes'
  BY DEF NiInv, OneTakes, Taking, TypeOK, Numbers, Threads, Requests
<1>4. SessionIsHeld'
  BY DEF NiInv, SessionIsHeld, Taking, TypeOK, Numbers, Threads, Requests
<1>5. ClearsWhatIsSafe'
  BY DEF NiInv, ClearsWhatIsSafe, TypeOK, Numbers, Threads, Requests
<1>6. NoMessageYet'
  BY DEF NiInv, NoMessageYet, TypeOK, Numbers, Threads, Requests
<1>7. OwnRequest'
  BY DEF NiInv, OwnRequest, TypeOK, Numbers, Threads, Requests
<1>8. AnsweredOnce'
  BY DEF NiInv, AnsweredOnce, TypeOK, Numbers, Threads, Requests
<1> QED
  BY <1>1, <1>2, <1>3, <1>4, <1>5, <1>6, <1>7, <1>8 DEF NiInv

LEMMA FreeStep == ASSUME NiInv, resetFree PROVE NiInv'
<1> USE NiAssumption DEF resetFree, nidata, None, Requests
<1>1. TypeOK'
  <2>1. rawRequest[mt.s] \in 0..MaxRequests
    BY DEF NiInv, TypeOK, Numbers
  <2>2. freed' \subseteq Requests
    BY <2>1 DEF NiInv, TypeOK
  <2>3. mt' \in [pc : {"idle", "spawn", "notify", "check", "free", "null", "signal"}, s : Sessions]
    BY DEF NiInv, TypeOK
  <2> QED
    BY <2>2, <2>3 DEF NiInv, TypeOK
<1>2. Numbered'
  BY DEF NiInv, Numbered, saved, Accounted, TypeOK, Numbers, Threads, Requests
<1>3. OneTakes'
  BY DEF NiInv, OneTakes, Taking, TypeOK, Numbers, Threads, Requests
<1>4. SessionIsHeld'
  BY DEF NiInv, SessionIsHeld, Taking, TypeOK, Numbers, Threads, Requests
<1>5. ClearsWhatIsSafe'
  BY DEF NiInv, ClearsWhatIsSafe, TypeOK, Numbers, Threads, Requests
<1>6. NoMessageYet'
  BY DEF NiInv, NoMessageYet, TypeOK, Numbers, Threads, Requests
<1>7. OwnRequest'
  BY DEF NiInv, OwnRequest, TypeOK, Numbers, Threads, Requests
<1>8. AnsweredOnce'
  BY DEF NiInv, AnsweredOnce, TypeOK, Numbers, Threads, Requests
<1> QED
  BY <1>1, <1>2, <1>3, <1>4, <1>5, <1>6, <1>7, <1>8 DEF NiInv

LEMMA NullStep == ASSUME NiInv, resetNull PROVE NiInv'
<1> USE NiAssumption DEF resetNull, nidata, None, Requests
<1>1. TypeOK'
  <2>1. 0 \in Numbers
    BY DEF NiInv, TypeOK, Numbers
  <2>2. rawRequest' \in [Sessions -> Numbers]
    BY <2>1 DEF NiInv, TypeOK
  <2>3. mt' \in [pc : {"idle", "spawn", "notify", "check", "free", "null", "signal"}, s : Sessions]
    BY DEF NiInv, TypeOK
  <2> QED
    BY <2>2, <2>3 DEF NiInv, TypeOK
<1>2. Numbered'
  <2>1. saved' = saved /\ mt.s \in Sessions /\ rawRequest \in [Sessions -> Numbers] /\ saved \in Nat
    BY DEF NiInv, TypeOK, saved, Numbers
  <2>2. \A k \in 1..saved : Accounted(k)'
    <3> TAKE k \in 1..saved
    <3>1. Accounted(k) /\ k # 0
      BY <2>1 DEF NiInv, Numbered
    <3>2. rawRequest[mt.s] = k => k \in freed
      BY <3>1 DEF NiInv, ClearsWhatIsSafe
    <3> QED
      BY <2>1, <3>1, <3>2 DEF Accounted
  <2>3. \A s \in Sessions : rawRequest'[s] <= saved
    BY <2>1 DEF NiInv, Numbered
  <2> QED
    BY <2>1, <2>2, <2>3 DEF NiInv, Numbered
<1>3. OneTakes'
  BY DEF NiInv, OneTakes, Taking, TypeOK, Numbers, Threads, Requests
<1>4. SessionIsHeld'
  BY DEF NiInv, SessionIsHeld, Taking, TypeOK, Numbers, Threads, Requests
<1>5. ClearsWhatIsSafe'
  BY DEF NiInv, ClearsWhatIsSafe, TypeOK, Numbers, Threads, Requests
<1>6. NoMessageYet'
  BY DEF NiInv, NoMessageYet, TypeOK, Numbers, Threads, Requests
<1>7. OwnRequest'
  <2>1. \A s \in Sessions : rawRequest'[s] \in {0, rawRequest[s]}
    BY DEF NiInv, TypeOK
  <2> QED
    BY <2>1 DEF NiInv, OwnRequest
<1>8. AnsweredOnce'
  BY DEF NiInv, AnsweredOnce, TypeOK, Numbers, Threads, Requests
<1> QED
  BY <1>1, <1>2, <1>3, <1>4, <1>5, <1>6, <1>7, <1>8 DEF NiInv

LEMMA SignalStep == ASSUME NiInv, resetSignal PROVE NiInv'
<1> USE NiAssumption DEF resetSignal, nextSession, Idle, locked, nidata, None, Requests
<1>1. TypeOK'
  BY DEF NiInv, TypeOK, Numbers, Responses, Threads, Sessions, NoThread, NoMsg, Idle, Silent
<1>2. Numbered'
  BY DEF NiInv, Numbered, saved, Accounted, TypeOK, Numbers, Threads, Requests
<1>3. OneTakes'
  BY DEF NiInv, OneTakes, Taking, TypeOK, Numbers, Threads, Requests
<1>4. SessionIsHeld'
  BY DEF NiInv, SessionIsHeld, Taking, TypeOK, Numbers, Threads, Requests
<1>5. ClearsWhatIsSafe'
  BY DEF NiInv, ClearsWhatIsSafe, TypeOK, Numbers, Threads, Requests
<1>6. NoMessageYet'
  BY DEF NiInv, NoMessageYet, TypeOK, Numbers, Threads, Requests
<1>7. OwnRequest'
  BY DEF NiInv, OwnRequest, TypeOK, Numbers, Threads, Requests
<1>8. AnsweredOnce'
  BY DEF NiInv, AnsweredOnce, TypeOK, Numbers, Threads, Requests
<1> QED
  BY <1>1, <1>2, <1>3, <1>4, <1>5, <1>6, <1>7, <1>8 DEF NiInv

LEMMA RespondStep == ASSUME NEW n \in Requests, NEW a \in Answers, NiInv, respond(n, a) PROVE NiInv'
<1> USE NiAssumption DEF respond, nidata, None, Requests
<1>1. TypeOK'
  <2>1. <<a, n>> \in Responses
    BY DEF Responses, Numbers
  <2>2. user' \in [pc : {"idle", "ignore", "answer"}, s : Sessions, resp : Responses]
    BY <2>1 DEF Sessions
  <2> QED
    BY <2>2 DEF NiInv, TypeOK
<1>2. Numbered'
  BY DEF NiInv, Numbered, saved, Accounted, TypeOK, Numbers, Threads, Requests
<1>3. OneTakes'
  BY DEF NiInv, OneTakes, Taking, TypeOK, Numbers, Threads, Requests
<1>4. SessionIsHeld'
  BY DEF NiInv, SessionIsHeld, Taking, TypeOK, Numbers, Threads, Requests
<1>5. ClearsWhatIsSafe'
  BY DEF NiInv, ClearsWhatIsSafe, TypeOK, Numbers, Threads, Requests
<1>6. NoMessageYet'
  BY DEF NiInv, NoMessageYet, TypeOK, Numbers, Threads, Requests
<1>7. OwnRequest'
  BY DEF NiInv, OwnRequest, TypeOK, Numbers, Threads, Requests
<1>8. AnsweredOnce'
  BY DEF NiInv, AnsweredOnce, TypeOK, Numbers, Threads, Requests
<1> QED
  BY <1>1, <1>2, <1>3, <1>4, <1>5, <1>6, <1>7, <1>8 DEF NiInv

LEMMA IgnoreStep == ASSUME NiInv, ignoreOther PROVE NiInv'
<1> USE NiAssumption DEF ignoreOther, sets, nidata, None, Requests
<1>1. TypeOK'
  <2>1. <<"IGNORE", 0>> \in Responses
    BY DEF Responses, Numbers
  <2>2. resp' \in [Sessions -> Responses]
    BY <2>1 DEF NiInv, TypeOK
  <2>3. respRecvd' \in [Sessions -> BOOLEAN]
    BY Zenon DEF NiInv, TypeOK
  <2>4. user' \in [pc : {"idle", "ignore", "answer"}, s : Sessions, resp : Responses]
    BY <2>1 DEF NiInv, TypeOK, Silent, Sessions
  <2> QED
    BY <2>2, <2>3, <2>4 DEF NiInv, TypeOK
<1>2. Numbered'
  BY DEF NiInv, Numbered, saved, Accounted, TypeOK, Numbers, Threads, Requests
<1>3. OneTakes'
  BY DEF NiInv, OneTakes, Taking, TypeOK, Numbers, Threads, Requests
<1>4. SessionIsHeld'
  BY DEF NiInv, SessionIsHeld, Taking, TypeOK, Numbers, Threads, Requests
<1>5. ClearsWhatIsSafe'
  BY DEF NiInv, ClearsWhatIsSafe, TypeOK, Numbers, Threads, Requests
<1>6. NoMessageYet'
  BY DEF NiInv, NoMessageYet, TypeOK, Numbers, Threads, Requests
<1>7. OwnRequest'
  BY DEF NiInv, OwnRequest, TypeOK, Numbers, Threads, Requests
<1>8. AnsweredOnce'
  BY DEF NiInv, AnsweredOnce, TypeOK, Numbers, Threads, Requests
<1> QED
  BY <1>1, <1>2, <1>3, <1>4, <1>5, <1>6, <1>7, <1>8 DEF NiInv

LEMMA GiveStep == ASSUME NiInv, giveAnswer PROVE NiInv'
<1> USE NiAssumption DEF giveAnswer, sets, nidata, None, Requests
<1>1. TypeOK'
  <2>1. user.s \in Sessions /\ user.resp \in Responses
    BY DEF NiInv, TypeOK
  <2>2. resp' \in [Sessions -> Responses]
    BY <2>1 DEF NiInv, TypeOK
  <2>3. respRecvd' \in [Sessions -> BOOLEAN]
    BY Zenon DEF NiInv, TypeOK
  <2>4. user' \in [pc : {"idle", "ignore", "answer"}, s : Sessions, resp : Responses]
    <3>1. <<"none", 0>> \in Responses
      BY DEF Responses, Numbers
    <3> QED
      BY <3>1 DEF Silent, Sessions
  <2> QED
    BY <2>2, <2>3, <2>4 DEF NiInv, TypeOK
<1>2. Numbered'
  BY DEF NiInv, Numbered, saved, Accounted, TypeOK, Numbers, Threads, Requests
<1>3. OneTakes'
  BY DEF NiInv, OneTakes, Taking, TypeOK, Numbers, Threads, Requests
<1>4. SessionIsHeld'
  BY DEF NiInv, SessionIsHeld, Taking, TypeOK, Numbers, Threads, Requests
<1>5. ClearsWhatIsSafe'
  BY DEF NiInv, ClearsWhatIsSafe, TypeOK, Numbers, Threads, Requests
<1>6. NoMessageYet'
  BY DEF NiInv, NoMessageYet, TypeOK, Numbers, Threads, Requests
<1>7. OwnRequest'
  BY DEF NiInv, OwnRequest, TypeOK, Numbers, Threads, Requests
<1>8. AnsweredOnce'
  BY DEF NiInv, AnsweredOnce, TypeOK, Numbers, Threads, Requests
<1> QED
  BY <1>1, <1>2, <1>3, <1>4, <1>5, <1>6, <1>7, <1>8 DEF NiInv

LEMMA BeginsStep == ASSUME NEW n \in Requests, NiInv, beginsWait(n) PROVE NiInv'
<1> USE NiAssumption DEF beginsWait, nidata, None, Requests
<1>a. PICK pc \in Pcs : goes(n, pc) /\ pc = "wait"
  BY DEF Pcs
<1>b. /\ thread' \in [Requests -> Threads]
      /\ \A k \in Requests : /\ thread'[k].s = thread[k].s /\ thread'[k].msg = thread[k].msg
                             /\ thread'[k].pc = IF k = n THEN pc ELSE thread[k].pc
  <2> HIDE DEF Requests
  <2> QED
    BY <1>a, GoesOn DEF NiInv
<1>c. thread[n].pc = "start"
      /\ UNCHANGED <<rawRequest, mt, reqIDCounter>> /\ freed \subseteq freed'
  BY DEF NiInv, TypeOK, Threads
<1> HIDE DEF beginsWait
<1>1. TypeOK'
  BY <1>b DEF NiInv, TypeOK, beginsWait
<1>2. Numbered'
  <2> HIDE DEF Requests
  <2> QED
    BY <1>a, <1>c, GoesNumbered
<1>3. OneTakes'
  BY <1>a, <1>b, <1>c DEF NiInv, OneTakes, Taking, locked
<1>4. SessionIsHeld'
  BY <1>a, <1>b, <1>c DEF NiInv, SessionIsHeld, Taking
<1>5. ClearsWhatIsSafe'
  BY <1>a, <1>b, <1>c DEF NiInv, ClearsWhatIsSafe
<1>6. NoMessageYet'
  BY <1>a, <1>b, <1>c DEF NiInv, NoMessageYet
<1>7. OwnRequest'
  BY <1>a, <1>b, <1>c DEF NiInv, OwnRequest
<1>8. AnsweredOnce'
  BY <1>b DEF NiInv, AnsweredOnce
<1> QED
  BY <1>1, <1>2, <1>3, <1>4, <1>5, <1>6, <1>7, <1>8 DEF NiInv

LEMMA HasStep == ASSUME NEW n \in Requests, NiInv, hasAnswer(n) PROVE NiInv'
<1> USE NiAssumption DEF hasAnswer, leavesLoop, nidata, None, Requests
<1>a. PICK pc \in Pcs : /\ goes(n, pc) /\ pc \in {"take", "after"}
                        /\ pc = "take" => rawRequest[thread[n].s] # None
  BY DEF Pcs
<1>b. /\ thread' \in [Requests -> Threads]
      /\ \A k \in Requests : /\ thread'[k].s = thread[k].s /\ thread'[k].msg = thread[k].msg
                             /\ thread'[k].pc = IF k = n THEN pc ELSE thread[k].pc
  <2> HIDE DEF Requests
  <2> QED
    BY <1>a, GoesOn DEF NiInv
<1>c. thread[n].pc \in {"start", "wait"} /\ ~locked(thread[n].s)
      /\ UNCHANGED <<rawRequest, mt, reqIDCounter>> /\ freed \subseteq freed'
  BY DEF NiInv, TypeOK, Threads
<1> HIDE DEF hasAnswer, leavesLoop
<1>1. TypeOK'
  <2>1. respRecvd' \in [Sessions -> BOOLEAN]
    BY Zenon DEF NiInv, TypeOK, hasAnswer, leavesLoop
  <2>2. resp' \in [Sessions -> Responses]
    <3>1. <<"NORESP", 0>> \in Responses
      BY DEF Responses, Numbers
    <3> QED
      BY <1>c, <3>1 DEF NiInv, TypeOK, hasAnswer, leavesLoop
  <2>3. UNCHANGED <<reqID, user, freed>>
    BY DEF hasAnswer, leavesLoop
  <2> QED
    BY <1>b, <1>c, <2>1, <2>2, <2>3 DEF NiInv, TypeOK
<1>2. Numbered'
  <2> HIDE DEF Requests
  <2> QED
    BY <1>a, <1>c, GoesNumbered
<1>3. OneTakes'
  BY <1>a, <1>b, <1>c DEF NiInv, OneTakes, Taking, locked
<1>4. SessionIsHeld'
  BY <1>a, <1>b, <1>c DEF NiInv, SessionIsHeld, Taking
<1>5. ClearsWhatIsSafe'
  BY <1>a, <1>b, <1>c DEF NiInv, ClearsWhatIsSafe
<1>6. NoMessageYet'
  BY <1>a, <1>b, <1>c DEF NiInv, NoMessageYet
<1>7. OwnRequest'
  BY <1>a, <1>b, <1>c DEF NiInv, OwnRequest
<1>8. AnsweredOnce'
  BY <1>b DEF NiInv, AnsweredOnce
<1> QED
  BY <1>1, <1>2, <1>3, <1>4, <1>5, <1>6, <1>7, <1>8 DEF NiInv

LEMMA TimesOutStep == ASSUME NEW n \in Requests, NiInv, timesOut(n) PROVE NiInv'
<1> USE NiAssumption DEF timesOut, leavesLoop, nidata, None, Requests
<1>a. PICK pc \in Pcs : /\ goes(n, pc) /\ pc \in {"take", "after"}
                        /\ pc = "take" => rawRequest[thread[n].s] # None
  BY DEF Pcs
<1>b. /\ thread' \in [Requests -> Threads]
      /\ \A k \in Requests : /\ thread'[k].s = thread[k].s /\ thread'[k].msg = thread[k].msg
                             /\ thread'[k].pc = IF k = n THEN pc ELSE thread[k].pc
  <2> HIDE DEF Requests
  <2> QED
    BY <1>a, GoesOn DEF NiInv
<1>c. thread[n].pc = "wait" /\ ~locked(thread[n].s)
      /\ UNCHANGED <<rawRequest, mt, reqIDCounter>> /\ freed \subseteq freed'
  BY DEF NiInv, TypeOK, Threads
<1> HIDE DEF timesOut, leavesLoop
<1>1. TypeOK'
  <2>1. respRecvd' \in [Sessions -> BOOLEAN]
    BY Zenon DEF NiInv, TypeOK, timesOut, leavesLoop
  <2>2. resp' \in [Sessions -> Responses]
    <3>1. <<"NORESP", 0>> \in Responses
      BY DEF Responses, Numbers
    <3> QED
      BY <1>c, <3>1 DEF NiInv, TypeOK, timesOut, leavesLoop
  <2>3. UNCHANGED <<reqID, user, freed>>
    BY DEF timesOut, leavesLoop
  <2> QED
    BY <1>b, <1>c, <2>1, <2>2, <2>3 DEF NiInv, TypeOK
<1>2. Numbered'
  <2> HIDE DEF Requests
  <2> QED
    BY <1>a, <1>c, GoesNumbered
<1>3. OneTakes'
  BY <1>a, <1>b, <1>c DEF NiInv, OneTakes, Taking, locked
<1>4. SessionIsHeld'
  BY <1>a, <1>b, <1>c DEF NiInv, SessionIsHeld, Taking
<1>5. ClearsWhatIsSafe'
  BY <1>a, <1>b, <1>c DEF NiInv, ClearsWhatIsSafe
<1>6. NoMessageYet'
  BY <1>a, <1>b, <1>c DEF NiInv, NoMessageYet
<1>7. OwnRequest'
  BY <1>a, <1>b, <1>c DEF NiInv, OwnRequest
<1>8. AnsweredOnce'
  BY <1>b DEF NiInv, AnsweredOnce
<1> QED
  BY <1>1, <1>2, <1>3, <1>4, <1>5, <1>6, <1>7, <1>8 DEF NiInv

LEMMA TakeStep == ASSUME NEW n \in Requests, NiInv, takeRequest(n) PROVE NiInv'
<1> USE NiAssumption DEF takeRequest, nidata, None, Requests
<1>a. /\ thread[n].pc = "take" /\ thread[n].s \in Sessions /\ thread \in [Requests -> Threads]
      /\ UNCHANGED <<rawRequest, reqID, respRecvd, resp, reqIDCounter, mt, user>>
  BY DEF NiInv, TypeOK, Threads
<1>b. PICK msg \in [payload : Numbers, resp : Responses] :
        /\ thread' = [thread EXCEPT ![n] = [pc |-> "clear", s |-> thread[n].s, msg |-> msg]]
        /\ \/ msg.payload = rawRequest[thread[n].s] /\ freed' = freed
           \/ /\ msg.payload = 0
              /\ freed' = freed \cup ({rawRequest[thread[n].s]} \ {0})
  <2>1. CASE resp[thread[n].s][1] # "IGNORE"
    <3> DEFINE msg == [payload |-> rawRequest[thread[n].s], resp |-> resp[thread[n].s]]
    <3>1. msg \in [payload : Numbers, resp : Responses]
      BY <1>a DEF NiInv, TypeOK
    <3>2. thread' = [thread EXCEPT ![n].pc = "clear", ![n].msg = msg] /\ freed' = freed
      BY <2>1
    <3>3. thread[n] \in Threads
      BY <1>a
    <3>4. thread' = [thread EXCEPT ![n] = [pc |-> "clear", s |-> thread[n].s, msg |-> msg]]
      <4>1. thread' = [thread EXCEPT ![n] = [[thread[n] EXCEPT !.pc = "clear"] EXCEPT !.msg = msg]]
        BY <1>a, <3>2
      <4>2. [[thread[n] EXCEPT !.pc = "clear"] EXCEPT !.msg = msg] = [pc |-> "clear", s |-> thread[n].s, msg |-> msg]
        <5> HIDE DEF msg, takeRequest
        <5>1. [thread[n] EXCEPT !.pc = "clear"] = [pc |-> "clear", s |-> thread[n].s, msg |-> thread[n].msg]
          BY <3>3 DEF Threads
        <5>2. [[pc |-> "clear", s |-> thread[n].s, msg |-> thread[n].msg] EXCEPT !.msg = msg]
                = [pc |-> "clear", s |-> thread[n].s, msg |-> msg]
          OBVIOUS
        <5> QED
          BY <5>1, <5>2
      <4> QED
        BY <4>1, <4>2
    <3> QED
      BY <3>1, <3>2, <3>4
  <2>2. CASE resp[thread[n].s][1] = "IGNORE"
    <3>1. thread[n] \in Threads /\ thread[n].msg.payload = 0
      BY <1>a DEF NiInv, NoMessageYet
    <3>2. thread' = [thread EXCEPT ![n].pc = "clear"] /\ freed' = freed \cup ({rawRequest[thread[n].s]} \ {0})
      BY <2>2 DEF goes
    <3>3. thread' = [thread EXCEPT ![n] = [pc |-> "clear", s |-> thread[n].s, msg |-> thread[n].msg]]
      <4>1. thread' = [thread EXCEPT ![n] = [thread[n] EXCEPT !.pc = "clear"]]
        BY <1>a, <3>2
      <4>2. [thread[n] EXCEPT !.pc = "clear"] = [pc |-> "clear", s |-> thread[n].s, msg |-> thread[n].msg]
        BY <3>1 DEF Threads
      <4> QED
        BY <4>1, <4>2
    <3> QED
      BY <3>1, <3>2, <3>3 DEF Threads
  <2> QED
    BY <2>1, <2>2
<1> HIDE DEF takeRequest
<1>c. \A k \in Requests : k # n => thread'[k] = thread[k]
  BY <1>a, <1>b
<1>d. /\ thread'[n].pc = "clear" /\ thread'[n].s = thread[n].s /\ thread'[n].msg = msg
      /\ thread[n].msg.payload = 0
  BY <1>a, <1>b DEF NiInv, NoMessageYet
<1>e. rawRequest[thread[n].s] \in 0..MaxRequests /\ msg.payload \in {0, rawRequest[thread[n].s]}
  BY <1>a, <1>b DEF NiInv, TypeOK, Numbers
<1>f. freed \subseteq freed'
  BY <1>b
<1>1. TypeOK'
  <2>1. [pc |-> "clear", s |-> thread[n].s, msg |-> msg] \in Threads
    BY <1>a DEF Threads
  <2>2. thread' \in [Requests -> Threads]
    BY <1>a, <1>b, <2>1
  <2>3. freed' \subseteq Requests
    BY <1>b, <1>e DEF NiInv, TypeOK
  <2> QED
    BY <1>a, <2>2, <2>3 DEF NiInv, TypeOK
<1>2. Numbered'
  <2>1. saved' = saved /\ saved \in Nat
    BY <1>a DEF NiInv, TypeOK, saved, Numbers
  <2>2. \A k \in 1..saved : Accounted(k)'
    <3> TAKE k \in 1..saved
    <3>1. Accounted(k) /\ k # 0
      BY <2>1 DEF NiInv, Numbered
    <3>2. \A l \in Requests : thread[l].msg.payload = k => thread'[l].msg.payload = k
      BY <1>c, <1>d, <3>1
    <3> QED
      BY <1>a, <1>f, <3>1, <3>2 DEF Accounted
  <2>3. \A k \in Requests : thread'[k].msg.payload <= saved
    BY <1>a, <1>c, <1>d, <1>e, <2>1 DEF NiInv, Numbered
  <2>4. ~(n > reqIDCounter)
    BY <1>a DEF NiInv, Numbered, NoThread
  <2> QED
    BY <1>a, <1>c, <2>1, <2>2, <2>3, <2>4 DEF NiInv, Numbered
<1>3. OneTakes'
  BY <1>a, <1>c, <1>d DEF NiInv, OneTakes, Taking
<1>4. SessionIsHeld'
  BY <1>a, <1>c, <1>d DEF NiInv, SessionIsHeld, Taking
<1>5. ClearsWhatIsSafe'
  <2>1. rawRequest[thread[n].s] \in freed' \cup {0, msg.payload}
    BY <1>b
  <2> QED
    BY <1>a, <1>c, <1>d, <1>f, <2>1 DEF NiInv, ClearsWhatIsSafe
<1>6. NoMessageYet'
  BY <1>c, <1>d DEF NiInv, NoMessageYet
<1>7. OwnRequest'
  BY <1>a, <1>c, <1>d, <1>e DEF NiInv, OwnRequest
<1>8. AnsweredOnce'
  <2>1. \A k \in Requests : k # n /\ msg.payload # 0 => thread[k].msg.payload # msg.payload
    <3> SUFFICES ASSUME NEW k \in Requests, k # n, msg.payload # 0,
                        thread[k].msg.payload = msg.payload
                 PROVE  FALSE
      OBVIOUS
    <3>1. thread[k].msg.payload = rawRequest[thread[n].s] /\ rawRequest[thread[n].s] # 0
      BY <1>e
    <3>2. thread[k].pc = "clear" /\ thread[k].s = thread[n].s
      BY <1>a, <3>1 DEF NiInv, OwnRequest
    <3> QED
      BY <1>a, <3>2 DEF NiInv, OneTakes, Taking
  <2> QED
    BY <1>c, <1>d, <2>1 DEF NiInv, AnsweredOnce
<1> QED
  BY <1>1, <1>2, <1>3, <1>4, <1>5, <1>6, <1>7, <1>8 DEF NiInv

LEMMA ClearStep == ASSUME NEW n \in Requests, NiInv, clearRequest(n) PROVE NiInv'
<1> USE NiAssumption DEF clearRequest, nidata, None, Requests
<1>a. PICK pc \in Pcs : goes(n, pc) /\ pc = "after"
  BY DEF Pcs
<1>b. /\ thread' \in [Requests -> Threads]
      /\ \A k \in Requests : /\ thread'[k].s = thread[k].s /\ thread'[k].msg = thread[k].msg
                             /\ thread'[k].pc = IF k = n THEN pc ELSE thread[k].pc
  <2> HIDE DEF Requests
  <2> QED
    BY <1>a, GoesOn DEF NiInv
<1>c. thread[n].pc = "clear" /\ thread[n].s \in Sessions /\ thread \in [Requests -> Threads]
      /\ UNCHANGED <<reqID, respRecvd, resp, reqIDCounter, mt, user, freed>>
  BY DEF NiInv, TypeOK, Threads
<1>d. \A s \in Sessions : rawRequest[s] \in Numbers /\ rawRequest'[s] = IF s = thread[n].s THEN 0 ELSE rawRequest[s]
  BY <1>c DEF NiInv, TypeOK
<1>e. rawRequest' \in [Sessions -> Numbers]
  BY <1>c DEF NiInv, TypeOK, Numbers
<1> HIDE DEF clearRequest
<1>1. TypeOK'
  BY <1>b, <1>c, <1>e DEF NiInv, TypeOK
<1>2. Numbered'
  <2>1. saved' = saved /\ saved \in Nat
    BY <1>c DEF NiInv, TypeOK, saved, Numbers
  <2>2. \A k \in 1..saved : Accounted(k)'
    <3> TAKE k \in 1..saved
    <3>1. Accounted(k) /\ k # 0
      BY <2>1 DEF NiInv, Numbered
    <3>2. rawRequest[thread[n].s] = k => k \in freed \/ thread[n].msg.payload = k
      BY <1>c, <3>1 DEF NiInv, ClearsWhatIsSafe
    <3> QED
      BY <1>b, <1>c, <1>d, <3>1, <3>2 DEF Accounted
  <2>3. \A s \in Sessions : rawRequest'[s] <= saved
    BY <1>d, <2>1 DEF NiInv, Numbered
  <2>4. \A k \in Requests : thread'[k].msg.payload <= saved
    BY <1>b DEF NiInv, Numbered
  <2>5. ~(n > reqIDCounter)
    BY <1>c DEF NiInv, Numbered, NoThread
  <2>6. \A k \in Requests : k # n => thread'[k] = thread[k]
    BY <1>a, <1>c DEF goes
  <2> QED
    BY <1>c, <2>1, <2>2, <2>3, <2>4, <2>5, <2>6 DEF NiInv, Numbered
<1>3. OneTakes'
  BY <1>a, <1>b, <1>c DEF NiInv, OneTakes, Taking, locked
<1>4. SessionIsHeld'
  <2>1. \A k \in Requests : k # n /\ Taking(k) => thread[k].s # thread[n].s
    BY <1>c DEF NiInv, OneTakes, Taking
  <2>2. \A k \in Requests : thread[k].s \in Sessions
    BY <1>c DEF Threads
  <2> QED
    BY <1>a, <1>b, <1>c, <1>d, <2>1, <2>2 DEF NiInv, SessionIsHeld, Taking
<1>5. ClearsWhatIsSafe'
  <2>1. mt.s \in Sessions /\ \A k \in Requests : thread[k].s \in Sessions
    BY <1>c DEF NiInv, TypeOK, Threads
  <2>2. mt.pc = "null" => rawRequest'[mt.s] \in freed \cup {None}
    BY <1>d, <2>1 DEF NiInv, ClearsWhatIsSafe, None
  <2>3. ASSUME NEW k \in Requests, thread'[k].pc = "clear"
        PROVE  rawRequest'[thread[k].s] \in freed \cup {None, thread[k].msg.payload}
    <3>1. thread[k].pc = "clear"
      BY <1>a, <1>b, <2>3
    <3>2. rawRequest[thread[k].s] \in freed \cup {None, thread[k].msg.payload}
      BY <3>1 DEF NiInv, ClearsWhatIsSafe
    <3> QED
      BY <3>2, <1>d, <2>1 DEF None
  <2> QED
    BY <1>b, <1>c, <2>2, <2>3 DEF ClearsWhatIsSafe
<1>6. NoMessageYet'
  BY <1>a, <1>b, <1>c DEF NiInv, NoMessageYet
<1>7. OwnRequest'
  <2>1. \A s, t \in Sessions : rawRequest'[s] # 0 /\ rawRequest'[s] = rawRequest'[t] => s = t
    BY <1>d DEF NiInv, OwnRequest
  <2>2. ASSUME NEW s \in Sessions, NEW k \in Requests, rawRequest'[s] # 0,
               thread'[k].msg.payload = rawRequest'[s]
        PROVE  thread'[k].pc = "clear" /\ thread'[k].s = s
    <3>1. rawRequest'[s] = rawRequest[s] /\ s # thread[n].s
      BY <1>d, <2>2
    <3>2. thread[k].pc = "clear" /\ thread[k].s = s
      BY <1>b, <2>2, <3>1 DEF NiInv, OwnRequest
    <3> QED
      BY <1>a, <1>b, <3>1, <3>2
  <2> QED
    BY <2>1, <2>2 DEF OwnRequest
<1>8. AnsweredOnce'
  BY <1>b DEF NiInv, AnsweredOnce
<1> QED
  BY <1>1, <1>2, <1>3, <1>4, <1>5, <1>6, <1>7, <1>8 DEF NiInv

LEMMA SendStep == ASSUME NEW n \in Requests, NiInv, sendMsg(n) PROVE NiInv'
<1> USE NiAssumption DEF sendMsg, nidata, None, Requests
<1>a. PICK pc \in Pcs : goes(n, pc) /\ pc = "done"
  BY DEF Pcs
<1>b. /\ thread' \in [Requests -> Threads]
      /\ \A k \in Requests : /\ thread'[k].s = thread[k].s /\ thread'[k].msg = thread[k].msg
                             /\ thread'[k].pc = IF k = n THEN pc ELSE thread[k].pc
  <2> HIDE DEF Requests
  <2> QED
    BY <1>a, GoesOn DEF NiInv
<1>c. thread[n].pc = "after"
      /\ UNCHANGED <<rawRequest, mt, reqIDCounter>> /\ freed \subseteq freed'
  BY DEF NiInv, TypeOK, Threads
<1> HIDE DEF sendMsg
<1>1. TypeOK'
  <2>1. reqID' \in [Sessions -> Numbers]
    <3>1. 0 \in Numbers
      BY DEF Numbers
    <3> QED
      BY <3>1 DEF NiInv, TypeOK, sendMsg
  <2>2. UNCHANGED <<respRecvd, resp, user, freed>>
    BY DEF sendMsg
  <2> QED
    BY <1>b, <1>c, <2>1, <2>2 DEF NiInv, TypeOK
<1>2. Numbered'
  <2> HIDE DEF Requests
  <2> QED
    BY <1>a, <1>c, GoesNumbered
<1>3. OneTakes'
  BY <1>a, <1>b, <1>c DEF NiInv, OneTakes, Taking, locked
<1>4. SessionIsHeld'
  BY <1>a, <1>b, <1>c DEF NiInv, SessionIsHeld, Taking
<1>5. ClearsWhatIsSafe'
  BY <1>a, <1>b, <1>c DEF NiInv, ClearsWhatIsSafe
<1>6. NoMessageYet'
  BY <1>a, <1>b, <1>c DEF NiInv, NoMessageYet
<1>7. OwnRequest'
  BY <1>a, <1>b, <1>c DEF NiInv, OwnRequest
<1>8. AnsweredOnce'
  BY <1>b DEF NiInv, AnsweredOnce
<1> QED
  BY <1>1, <1>2, <1>3, <1>4, <1>5, <1>6, <1>7, <1>8 DEF NiInv

-----------------------------------------------------------------------------
LEMMA InvStep == NiInv /\ [Next]_vars => NiInv'
<1> SUFFICES ASSUME NiInv, [Next]_vars PROVE NiInv'
  OBVIOUS
<1>1. CASE \E s \in Sessions : saveRequest(s)
  BY <1>1, SaveStep
<1>2. CASE engineRestart
  BY <1>2, RestartStep
<1>3. CASE goesOn
  BY <1>3, SpawnStep, NotifyStep, CheckStep, FreeStep, NullStep, SignalStep DEF goesOn
<1>4. CASE \E n \in Requests, a \in Answers : respond(n, a)
  BY <1>4, RespondStep
<1>5. CASE answers
  BY <1>5, IgnoreStep, GiveStep DEF answers
<1>6. CASE \E n \in Requests : ni_thread_proc(n)
  BY <1>6, BeginsStep, HasStep, TimesOutStep, TakeStep, ClearStep, SendStep DEF ni_thread_proc
<1>7. CASE UNCHANGED vars
  <2> USE <1>7 DEF vars, nidata
  <2>1. TypeOK' /\ AnsweredOnce' /\ NoMessageYet' /\ OwnRequest'
    BY DEF NiInv, TypeOK, AnsweredOnce, NoMessageYet, OwnRequest
  <2>2. Numbered'
    BY DEF NiInv, Numbered, saved, Accounted
  <2>3. OneTakes' /\ SessionIsHeld' /\ ClearsWhatIsSafe'
    BY DEF NiInv, OneTakes, SessionIsHeld, ClearsWhatIsSafe, Taking
  <2> QED
    BY <2>1, <2>2, <2>3 DEF NiInv
<1> QED
  BY <1>1, <1>2, <1>3, <1>4, <1>5, <1>6, <1>7 DEF Next

(* In every reachable state of any instance.                               *)
THEOREM Invariance == Spec => []NiInv
<1>1. Init => NiInv
  BY InitInv
<1>2. NiInv /\ [Next]_vars => NiInv'
  BY InvStep
<1> QED
  BY <1>1, <1>2, PTL DEF Spec

(* The sessions, the answers, the messages and the threads have their      *)
(* types; in particular no request has a number beyond MaxRequests.        *)
THEOREM TypeCorrect == Spec => []TypeOK
<1>1. NiInv => TypeOK
  BY DEF NiInv
<1> QED
  BY <1>1, Invariance, PTL

(* No request of the modem is forgotten by loc_eng_ni_request_handler,     *)
(* ni_thread_proc and the reset on a restart: each is in its session, in a *)
(* response or freed.                                                      *)
THEOREM NothingLost == Spec => []NoRequestLost
<1>1. NiInv => NoRequestLost
  <2> SUFFICES ASSUME NiInv, NEW n \in 1..reqIDCounter PROVE Accounted(n)
    BY DEF NoRequestLost, Accounted
  <2>1. n \in 1..saved
    BY DEF NiInv, TypeOK, Numbers, saved
  <2> QED
    BY <2>1 DEF NiInv, Numbered
<1> QED
  BY <1>1, Invariance, PTL

(* ni_thread_proc answers no request twice, whichever threads of requests  *)
(* from before a restart are still under way.                              *)
THEOREM OneAnswer == Spec => []AnsweredOnce
<1>1. NiInv => AnsweredOnce
  BY DEF NiInv
<1> QED
  BY <1>1, Invariance, PTL

-----------------------------------------------------------------------------
(***************************************************************************)
(* The session.  Its messages; a message that is at most once in a queue;  *)
(* a stop that no start follows.                                           *)
(***************************************************************************)
Messages == {"start", "restart", "stop", "mode", "delete", "engineOn", "engineOff", "on",
             "off", "begin", "end", "down", "ssr", "up"} \cup Reports

Once(s, m) == \A i, j \in 1..Len(s) : s[i] = m /\ s[j] = m => i = j

StopsLast(s) == \E i \in 1..Len(s) : s[i] = "stop" /\ \A j \in 1..Len(s) : j > i => s[j] # "start"

(* The inductive invariant of the session.                                 *)
QueueType == /\ queue \in Seq(Messages)
             /\ errorCb \in {<<>>, <<"down", "ssr", "up">>, <<"ssr", "up">>, <<"up">>}

(* A modem that is away, or that has not been opened again, runs no fix.   *)
AwayIsIdle == /\ ~ up => clientHandle # "open"
              /\ clientHandle # "open" => fix = "none"

(* The client is opened again once for a restart, and until then it is     *)
(* stale: no fix of a client that is open is cut off by it.                *)
ReopenToCome == Len(errorCb) > 1
ReopenedOnce == /\ Once(queue, "ssr")
                /\ Contains(queue, "ssr") => clientHandle = "stale" /\ ~ ReopenToCome
                /\ ReopenToCome => clientHandle = "stale"

FixInSession == fix # "none" => mInSession \/ failed = "stop"

(* Only fixes of single shots are reported here.                           *)
NoReports == recurrence = "periodic" => \A r \in Reports : ~ Contains(queue, r)

(* A fix without a session will be taken over by the restart.              *)
TakenOver ==
    recurrence = "periodic" /\ fix # "none" /\ ~ mNavigating
          => answer = "refused" \/ failed = "stop" \/ Contains(queue, "restart")

(* After the last stop there is no start, and no restart it did not see.   *)
StopComes ==
    ~ wanted => \/ StopsLast(queue)
                \/ /\ ~ Contains(queue, "start")
                   /\ overtaken \/ (~ mNavigating /\ ~ Contains(queue, "restart"))

SessionInv ==
    /\ QueueType /\ AwayIsIdle /\ ReopenedOnce /\ FixInSession /\ RunningIsHeard
    /\ NoReports /\ TakenOver /\ StopComes

-----------------------------------------------------------------------------
LEMMA SessionInitially == SessionInit => SessionInv
<1> SUFFICES ASSUME SessionInit PROVE SessionInv
  OBVIOUS
<1> USE DEF SessionInit
<1>1. QueueType /\ AwayIsIdle /\ FixInSession /\ RunningIsHeard
  BY DEF QueueType, AwayIsIdle, FixInSession, RunningIsHeard
<1>2. ReopenedOnce
  BY DEF ReopenedOnce, ReopenToCome, Once, Contains
<1>3. NoReports /\ TakenOver /\ StopComes
  BY DEF NoReports, TakenOver, StopComes, Contains
<1> QED
  BY <1>1, <1>2, <1>3 DEF SessionInv

-----------------------------------------------------------------------------
(* What the handlers do to the queue.                                      *)
LEMMA AddsLast ==
  ASSUME NEW s \in Seq(Messages), NEW m \in Messages
  PROVE  /\ Append(s, m) \in Seq(Messages)
         /\ \A x : Contains(Append(s, m), x) <=> Contains(s, x) \/ x = m
         /\ Once(s, "ssr") /\ (m = "ssr" => ~ Contains(s, "ssr")) => Once(Append(s, m), "ssr")
         /\ m = "stop" => StopsLast(Append(s, m))
         /\ m # "start" /\ StopsLast(s) => StopsLast(Append(s, m))
<1> DEFINE r == Append(s, m)
<1> HIDE DEF Messages
<1>1. /\ r \in Seq(Messages) /\ Len(s) \in Nat /\ Len(r) = Len(s) + 1
      /\ \A i \in 1..Len(s) : r[i] = s[i]
      /\ r[Len(s) + 1] = m
  OBVIOUS
<1> HIDE DEF r
<1>2. /\ \A i \in 1..Len(r) : (i \in 1..Len(s) /\ r[i] = s[i]) \/ (i = Len(s) + 1 /\ r[i] = m)
      /\ \A i \in 1..Len(s) : i \in 1..Len(r) /\ r[i] = s[i]
      /\ Len(s) + 1 \in 1..Len(r) /\ r[Len(s) + 1] = m
  BY <1>1
<1>3. \A x : Contains(r, x) <=> Contains(s, x) \/ x = m
  BY <1>2 DEF Contains
<1>4. Once(s, "ssr") /\ (m = "ssr" => ~ Contains(s, "ssr")) => Once(r, "ssr")
  BY <1>2 DEF Contains, Once
<1>5. m = "stop" => StopsLast(r)
  <2> SUFFICES ASSUME m = "stop" PROVE StopsLast(r)
    OBVIOUS
  <2>1. \A j \in 1..Len(r) : ~ (j > Len(s) + 1)
    BY <1>1
  <2> QED
    BY <1>2, <2>1 DEF StopsLast
<1>6. m # "start" /\ StopsLast(s) => StopsLast(r)
  BY <1>2 DEF StopsLast
<1> QED
  BY <1>1, <1>3, <1>4, <1>5, <1>6 DEF r

LEMMA TakesFirst ==
  ASSUME NEW s \in Seq(Messages), s # <<>>
  PROVE  /\ Tail(s) \in Seq(Messages) /\ Contains(s, Head(s))
         /\ \A x : Contains(Tail(s), x) => Contains(s, x)
         /\ \A x : Contains(s, x) /\ x # Head(s) => Contains(Tail(s), x)
         /\ Once(s, "ssr") => Once(Tail(s), "ssr")
         /\ Once(s, "ssr") /\ Head(s) = "ssr" => ~ Contains(Tail(s), "ssr")
         /\ StopsLast(s) => StopsLast(Tail(s)) \/ (Head(s) = "stop" /\ ~ Contains(Tail(s), "start"))
<1> DEFINE r == Tail(s)
           h == Head(s)
<1> HIDE DEF Messages
<1>1. /\ r \in Seq(Messages) /\ Len(s) \in Nat \ {0} /\ Len(r) = Len(s) - 1 /\ h = s[1]
      /\ \A i \in 1..(Len(s) - 1) : r[i] = s[i + 1]
  OBVIOUS
<1> HIDE DEF r, h
<1>2. /\ \A i \in 1..Len(r) : i + 1 \in 1..Len(s) /\ r[i] = s[i + 1] /\ i + 1 # 1
      /\ \A i \in 1..Len(s) : (i = 1 /\ s[i] = h) \/ (i - 1 \in 1..Len(r) /\ r[i - 1] = s[i])
      /\ 1 \in 1..Len(s) /\ s[1] = h
  BY <1>1
<1>3. Contains(s, h) /\ \A x : Contains(r, x) => Contains(s, x)
  BY <1>2 DEF Contains
<1>4. \A x : Contains(s, x) /\ x # h => Contains(r, x)
  BY <1>2 DEF Contains
<1>5. Once(s, "ssr") => Once(r, "ssr")
  <2> SUFFICES ASSUME Once(s, "ssr"), NEW i \in 1..Len(r), NEW j \in 1..Len(r), r[i] = "ssr",
                      r[j] = "ssr"
               PROVE  i = j
    BY DEF Once
  <2>1. i + 1 \in 1..Len(s) /\ j + 1 \in 1..Len(s) /\ s[i + 1] = "ssr" /\ s[j + 1] = "ssr"
    BY <1>2
  <2>2. i + 1 = j + 1
    BY <2>1 DEF Once
  <2> QED
    BY <1>1, <2>2
<1>6. Once(s, "ssr") /\ h = "ssr" => ~ Contains(r, "ssr")
  <2> SUFFICES ASSUME Once(s, "ssr"), h = "ssr", NEW i \in 1..Len(r), r[i] = "ssr"
               PROVE  FALSE
    BY DEF Contains
  <2>1. i + 1 \in 1..Len(s) /\ s[i + 1] = "ssr" /\ i + 1 # 1
    BY <1>2
  <2> QED
    BY <1>2, <2>1 DEF Once
<1>7. StopsLast(s) => StopsLast(r) \/ (h = "stop" /\ ~ Contains(r, "start"))
  <2> SUFFICES ASSUME NEW i \in 1..Len(s), s[i] = "stop",
                      \A j \in 1..Len(s) : j > i => s[j] # "start"
               PROVE  StopsLast(r) \/ (h = "stop" /\ ~ Contains(r, "start"))
    BY DEF StopsLast
  <2>1. \A j \in 1..Len(r) : j > i - 1 => r[j] # "start"
    <3> SUFFICES ASSUME NEW j \in 1..Len(r), j > i - 1 PROVE r[j] # "start"
      OBVIOUS
    <3>1. j + 1 \in 1..Len(s) /\ j + 1 > i /\ r[j] = s[j + 1]
      BY <1>2
    <3> QED
      BY <3>1
  <2>2. CASE i = 1
    BY <1>2, <2>1, <2>2 DEF Contains
  <2>3. CASE i # 1
    <3>1. i - 1 \in 1..Len(r) /\ r[i - 1] = "stop"
      BY <1>2, <2>3
    <3> QED
      BY <2>1, <3>1 DEF StopsLast
  <2> QED
    BY <2>2, <2>3
<1> QED
  BY <1>1, <1>3, <1>4, <1>5, <1>6, <1>7 DEF r, h

LEMMA AddsTwo ==
  ASSUME NEW s \in Seq(Messages), NEW a \in Messages, NEW b \in Messages
  PROVE  s \o <<a, b>> = Append(Append(s, a), b)
<1> HIDE DEF Messages
<1> QED
  OBVIOUS

-----------------------------------------------------------------------------
LEMMA StartStep == ASSUME SessionInv, loc_eng_start PROVE SessionInv'
<1> USE DEF loc_eng_start, call, framework, adapter, locApi, locEng, modem, errors
<1>a. queue \in Seq(Messages) /\ queue' = Append(queue, "start") /\ Once(queue, "ssr") /\ "start" \in Messages
  BY DEF SessionInv, QueueType, ReopenedOnce, Messages, Reports
<1>q. /\ queue' \in Seq(Messages) /\ \A x : Contains(queue', x) <=> Contains(queue, x) \/ x = "start"
      /\ "start" # "ssr" => Once(queue', "ssr")
      /\ "start" = "stop" => StopsLast(queue')
      /\ "start" # "start" /\ StopsLast(queue) => StopsLast(queue')
  BY <1>a, AddsLast
<1>1. QueueType'
  BY <1>q DEF SessionInv, QueueType
<1>2. AwayIsIdle'
  BY <1>q DEF SessionInv, AwayIsIdle, reachable, Outcomes
<1>3. ReopenedOnce'
  BY <1>q DEF SessionInv, ReopenedOnce, ReopenToCome, QueueType
<1>4. FixInSession'
  BY <1>q DEF SessionInv, FixInSession, AwayIsIdle, reachable
<1>5. RunningIsHeard'
  BY <1>q DEF SessionInv, RunningIsHeard, AwayIsIdle, FixInSession, reachable, Outcomes
<1>6. NoReports'
  BY <1>q DEF SessionInv, NoReports, Reports
<1>7. TakenOver'
  BY <1>q DEF SessionInv, TakenOver, AwayIsIdle, reachable, Outcomes
<1>8. StopComes'
  BY <1>q DEF SessionInv, StopComes
<1> QED
  BY <1>1, <1>2, <1>3, <1>4, <1>5, <1>6, <1>7, <1>8 DEF SessionInv

LEMMA StopStep == ASSUME SessionInv, loc_eng_stop PROVE SessionInv'
<1> USE DEF loc_eng_stop, call, framework, adapter, locApi, locEng, modem, errors
<1>a. queue \in Seq(Messages) /\ queue' = Append(queue, "stop") /\ Once(queue, "ssr") /\ "stop" \in Messages
  BY DEF SessionInv, QueueType, ReopenedOnce, Messages, Reports
<1>q. /\ queue' \in Seq(Messages) /\ \A x : Contains(queue', x) <=> Contains(queue, x) \/ x = "stop"
      /\ "stop" # "ssr" => Once(queue', "ssr")
      /\ "stop" = "stop" => StopsLast(queue')
      /\ "stop" # "start" /\ StopsLast(queue) => StopsLast(queue')
  BY <1>a, AddsLast
<1>1. QueueType'
  BY <1>q DEF SessionInv, QueueType
<1>2. AwayIsIdle'
  BY <1>q DEF SessionInv, AwayIsIdle, reachable, Outcomes
<1>3. ReopenedOnce'
  BY <1>q DEF SessionInv, ReopenedOnce, ReopenToCome, QueueType
<1>4. FixInSession'
  BY <1>q DEF SessionInv, FixInSession, AwayIsIdle, reachable
<1>5. RunningIsHeard'
  BY <1>q DEF SessionInv, RunningIsHeard, AwayIsIdle, FixInSession, reachable, Outcomes
<1>6. NoReports'
  BY <1>q DEF SessionInv, NoReports, Reports
<1>7. TakenOver'
  BY <1>q DEF SessionInv, TakenOver, AwayIsIdle, reachable, Outcomes
<1>8. StopComes'
  BY <1>q DEF SessionInv, StopComes
<1> QED
  BY <1>1, <1>2, <1>3, <1>4, <1>5, <1>6, <1>7, <1>8 DEF SessionInv

LEMMA ModeStep == ASSUME SessionInv, loc_eng_set_position_mode PROVE SessionInv'
<1> USE DEF loc_eng_set_position_mode, call, framework, adapter, locApi, locEng, modem, errors
<1>a. queue \in Seq(Messages) /\ queue' = Append(queue, "mode") /\ Once(queue, "ssr") /\ "mode" \in Messages
  BY DEF SessionInv, QueueType, ReopenedOnce, Messages, Reports
<1>q. /\ queue' \in Seq(Messages) /\ \A x : Contains(queue', x) <=> Contains(queue, x) \/ x = "mode"
      /\ "mode" # "ssr" => Once(queue', "ssr")
      /\ "mode" = "stop" => StopsLast(queue')
      /\ "mode" # "start" /\ StopsLast(queue) => StopsLast(queue')
  BY <1>a, AddsLast
<1>1. QueueType'
  BY <1>q DEF SessionInv, QueueType
<1>2. AwayIsIdle'
  BY <1>q DEF SessionInv, AwayIsIdle, reachable, Outcomes
<1>3. ReopenedOnce'
  BY <1>q DEF SessionInv, ReopenedOnce, ReopenToCome, QueueType
<1>4. FixInSession'
  BY <1>q DEF SessionInv, FixInSession, AwayIsIdle, reachable
<1>5. RunningIsHeard'
  BY <1>q DEF SessionInv, RunningIsHeard, AwayIsIdle, FixInSession, reachable, Outcomes
<1>6. NoReports'
  BY <1>q DEF SessionInv, NoReports, Reports
<1>7. TakenOver'
  BY <1>q DEF SessionInv, TakenOver, AwayIsIdle, reachable, Outcomes
<1>8. StopComes'
  BY <1>q DEF SessionInv, StopComes
<1> QED
  BY <1>1, <1>2, <1>3, <1>4, <1>5, <1>6, <1>7, <1>8 DEF SessionInv

LEMMA DeleteStep == ASSUME SessionInv, loc_eng_delete_aiding_data PROVE SessionInv'
<1> USE DEF loc_eng_delete_aiding_data, call, framework, adapter, locApi, locEng, modem, errors
<1>a. queue \in Seq(Messages) /\ queue' = Append(queue, "delete") /\ Once(queue, "ssr") /\ "delete" \in Messages
  BY DEF SessionInv, QueueType, ReopenedOnce, Messages, Reports
<1>q. /\ queue' \in Seq(Messages) /\ \A x : Contains(queue', x) <=> Contains(queue, x) \/ x = "delete"
      /\ "delete" # "ssr" => Once(queue', "ssr")
      /\ "delete" = "stop" => StopsLast(queue')
      /\ "delete" # "start" /\ StopsLast(queue) => StopsLast(queue')
  BY <1>a, AddsLast
<1>1. QueueType'
  BY <1>q DEF SessionInv, QueueType
<1>2. AwayIsIdle'
  BY <1>q DEF SessionInv, AwayIsIdle, reachable, Outcomes
<1>3. ReopenedOnce'
  BY <1>q DEF SessionInv, ReopenedOnce, ReopenToCome, QueueType
<1>4. FixInSession'
  BY <1>q DEF SessionInv, FixInSession, AwayIsIdle, reachable
<1>5. RunningIsHeard'
  BY <1>q DEF SessionInv, RunningIsHeard, AwayIsIdle, FixInSession, reachable, Outcomes
<1>6. NoReports'
  BY <1>q DEF SessionInv, NoReports, Reports
<1>7. TakenOver'
  BY <1>q DEF SessionInv, TakenOver, AwayIsIdle, reachable, Outcomes
<1>8. StopComes'
  BY <1>q DEF SessionInv, StopComes
<1> QED
  BY <1>1, <1>2, <1>3, <1>4, <1>5, <1>6, <1>7, <1>8 DEF SessionInv

LEMMA StartHandlerStep == ASSUME NEW outcome \in Outcomes, SessionInv,
                                 loc_eng_start_handler(outcome) PROVE SessionInv'
<1> USE DEF loc_eng_start_handler, handles, startFix, Started, registerEventMask, framework,
            adapter, locApi, locEng, modem, errors
<1>a. queue \in Seq(Messages) /\ queue # <<>> /\ queue' = Tail(queue) /\ Once(queue, "ssr")
  BY DEF SessionInv, QueueType, ReopenedOnce
<1>q. /\ queue' \in Seq(Messages) /\ Contains(queue, Head(queue))
      /\ \A x : Contains(queue', x) => Contains(queue, x)
      /\ \A x : Contains(queue, x) /\ x # Head(queue) => Contains(queue', x)
      /\ Once(queue', "ssr") /\ (Head(queue) = "ssr" => ~ Contains(queue', "ssr"))
      /\ StopsLast(queue) => StopsLast(queue')
            \/ (Head(queue) = "stop" /\ ~ Contains(queue', "start"))
  BY <1>a, TakesFirst
<1>1. QueueType'
  BY <1>q DEF SessionInv, QueueType
<1>2. AwayIsIdle'
  BY <1>q DEF SessionInv, AwayIsIdle, reachable, Outcomes
<1>3. ReopenedOnce'
  BY <1>q DEF SessionInv, ReopenedOnce, ReopenToCome, QueueType
<1>4. FixInSession'
  BY <1>q DEF SessionInv, FixInSession, AwayIsIdle, reachable
<1>5. RunningIsHeard'
  BY <1>q DEF SessionInv, RunningIsHeard, AwayIsIdle, FixInSession, reachable, Outcomes
<1>6. NoReports'
  BY <1>q DEF SessionInv, NoReports, Reports
<1>7. TakenOver'
  BY <1>q DEF SessionInv, TakenOver, AwayIsIdle, reachable, Outcomes
<1>8. StopComes'
  BY <1>q DEF SessionInv, StopComes
<1> QED
  BY <1>1, <1>2, <1>3, <1>4, <1>5, <1>6, <1>7, <1>8 DEF SessionInv

LEMMA StartedAlreadyStep == ASSUME SessionInv, startedAlready PROVE SessionInv'
<1> USE DEF startedAlready, handles, framework, adapter, locApi, locEng, modem, errors
<1>a. queue \in Seq(Messages) /\ queue # <<>> /\ queue' = Tail(queue) /\ Once(queue, "ssr")
  BY DEF SessionInv, QueueType, ReopenedOnce
<1>q. /\ queue' \in Seq(Messages) /\ Contains(queue, Head(queue))
      /\ \A x : Contains(queue', x) => Contains(queue, x)
      /\ \A x : Contains(queue, x) /\ x # Head(queue) => Contains(queue', x)
      /\ Once(queue', "ssr") /\ (Head(queue) = "ssr" => ~ Contains(queue', "ssr"))
      /\ StopsLast(queue) => StopsLast(queue')
            \/ (Head(queue) = "stop" /\ ~ Contains(queue', "start"))
  BY <1>a, TakesFirst
<1>1. QueueType'
  BY <1>q DEF SessionInv, QueueType
<1>2. AwayIsIdle'
  BY <1>q DEF SessionInv, AwayIsIdle, reachable, Outcomes
<1>3. ReopenedOnce'
  BY <1>q DEF SessionInv, ReopenedOnce, ReopenToCome, QueueType
<1>4. FixInSession'
  BY <1>q DEF SessionInv, FixInSession, AwayIsIdle, reachable
<1>5. RunningIsHeard'
  BY <1>q DEF SessionInv, RunningIsHeard, AwayIsIdle, FixInSession, reachable, Outcomes
<1>6. NoReports'
  BY <1>q DEF SessionInv, NoReports, Reports
<1>7. TakenOver'
  BY <1>q DEF SessionInv, TakenOver, AwayIsIdle, reachable, Outcomes
<1>8. StopComes'
  BY <1>q DEF SessionInv, StopComes
<1> QED
  BY <1>1, <1>2, <1>3, <1>4, <1>5, <1>6, <1>7, <1>8 DEF SessionInv

LEMMA StopHandlerStep == ASSUME SessionInv, loc_eng_stop_handler PROVE SessionInv'
<1> USE DEF loc_eng_stop_handler, handles, stopFix, sendStop, registerEventMask, endSession,
            setInSession, framework, adapter, locApi, locEng, modem, errors
<1>a. queue \in Seq(Messages) /\ queue # <<>> /\ queue' = Tail(queue) /\ Once(queue, "ssr")
  BY DEF SessionInv, QueueType, ReopenedOnce
<1>q. /\ queue' \in Seq(Messages) /\ Contains(queue, Head(queue))
      /\ \A x : Contains(queue', x) => Contains(queue, x)
      /\ \A x : Contains(queue, x) /\ x # Head(queue) => Contains(queue', x)
      /\ Once(queue', "ssr") /\ (Head(queue) = "ssr" => ~ Contains(queue', "ssr"))
      /\ StopsLast(queue) => StopsLast(queue')
            \/ (Head(queue) = "stop" /\ ~ Contains(queue', "start"))
  BY <1>a, TakesFirst
<1>1. QueueType'
  BY <1>q DEF SessionInv, QueueType
<1>2. AwayIsIdle'
  BY <1>q DEF SessionInv, AwayIsIdle, reachable, Outcomes
<1>3. ReopenedOnce'
  BY <1>q DEF SessionInv, ReopenedOnce, ReopenToCome, QueueType
<1>4. FixInSession'
  BY <1>q DEF SessionInv, FixInSession, AwayIsIdle, reachable
<1>5. RunningIsHeard'
  BY <1>q DEF SessionInv, RunningIsHeard, AwayIsIdle, FixInSession, reachable, Outcomes
<1>6. NoReports'
  BY <1>q DEF SessionInv, NoReports, Reports
<1>7. TakenOver'
  BY <1>q DEF SessionInv, TakenOver, AwayIsIdle, reachable, Outcomes
<1>8. StopComes'
  BY <1>q DEF SessionInv, StopComes
<1> QED
  BY <1>1, <1>2, <1>3, <1>4, <1>5, <1>6, <1>7, <1>8 DEF SessionInv

LEMMA NotInSessionStep == ASSUME SessionInv, notInSession PROVE SessionInv'
<1> USE DEF notInSession, handles, framework, adapter, locApi, locEng, modem, errors
<1>a. queue \in Seq(Messages) /\ queue # <<>> /\ queue' = Tail(queue) /\ Once(queue, "ssr")
  BY DEF SessionInv, QueueType, ReopenedOnce
<1>q. /\ queue' \in Seq(Messages) /\ Contains(queue, Head(queue))
      /\ \A x : Contains(queue', x) => Contains(queue, x)
      /\ \A x : Contains(queue, x) /\ x # Head(queue) => Contains(queue', x)
      /\ Once(queue', "ssr") /\ (Head(queue) = "ssr" => ~ Contains(queue', "ssr"))
      /\ StopsLast(queue) => StopsLast(queue')
            \/ (Head(queue) = "stop" /\ ~ Contains(queue', "start"))
  BY <1>a, TakesFirst
<1>1. QueueType'
  BY <1>q DEF SessionInv, QueueType
<1>2. AwayIsIdle'
  BY <1>q DEF SessionInv, AwayIsIdle, reachable, Outcomes
<1>3. ReopenedOnce'
  BY <1>q DEF SessionInv, ReopenedOnce, ReopenToCome, QueueType
<1>4. FixInSession'
  BY <1>q DEF SessionInv, FixInSession, AwayIsIdle, reachable
<1>5. RunningIsHeard'
  BY <1>q DEF SessionInv, RunningIsHeard, AwayIsIdle, FixInSession, reachable, Outcomes
<1>6. NoReports'
  BY <1>q DEF SessionInv, NoReports, Reports
<1>7. TakenOver'
  BY <1>q DEF SessionInv, TakenOver, AwayIsIdle, reachable, Outcomes
<1>8. StopComes'
  BY <1>q DEF SessionInv, StopComes
<1> QED
  BY <1>1, <1>2, <1>3, <1>4, <1>5, <1>6, <1>7, <1>8 DEF SessionInv

LEMMA PositionModeStep == ASSUME NEW outcome \in Outcomes, SessionInv,
                                 setPositionMode(outcome) PROVE SessionInv'
<1> USE DEF setPositionMode, handles, startFix, Started, registerEventMask, framework,
            adapter, locApi, locEng, modem, errors
<1>a. queue \in Seq(Messages) /\ queue # <<>> /\ queue' = Tail(queue) /\ Once(queue, "ssr")
  BY DEF SessionInv, QueueType, ReopenedOnce
<1>q. /\ queue' \in Seq(Messages) /\ Contains(queue, Head(queue))
      /\ \A x : Contains(queue', x) => Contains(queue, x)
      /\ \A x : Contains(queue, x) /\ x # Head(queue) => Contains(queue', x)
      /\ Once(queue', "ssr") /\ (Head(queue) = "ssr" => ~ Contains(queue', "ssr"))
      /\ StopsLast(queue) => StopsLast(queue')
            \/ (Head(queue) = "stop" /\ ~ Contains(queue', "start"))
  BY <1>a, TakesFirst
<1>1. QueueType'
  BY <1>q DEF SessionInv, QueueType
<1>2. AwayIsIdle'
  BY <1>q DEF SessionInv, AwayIsIdle, reachable, Outcomes
<1>3. ReopenedOnce'
  BY <1>q DEF SessionInv, ReopenedOnce, ReopenToCome, QueueType
<1>4. FixInSession'
  BY <1>q DEF SessionInv, FixInSession, AwayIsIdle, reachable
<1>5. RunningIsHeard'
  BY <1>q DEF SessionInv, RunningIsHeard, AwayIsIdle, FixInSession, reachable, Outcomes
<1>6. NoReports'
  BY <1>q DEF SessionInv, NoReports, Reports
<1>7. TakenOver'
  BY <1>q DEF SessionInv, TakenOver, AwayIsIdle, reachable, Outcomes
<1>8. StopComes'
  BY <1>q DEF SessionInv, StopComes
<1> QED
  BY <1>1, <1>2, <1>3, <1>4, <1>5, <1>6, <1>7, <1>8 DEF SessionInv

LEMMA DelAidDataStep == ASSUME SessionInv, LocEngDelAidData PROVE SessionInv'
<1> USE DEF LocEngDelAidData, handles, framework, adapter, locApi, locEng, modem, errors
<1>a. queue \in Seq(Messages) /\ queue # <<>> /\ queue' = Tail(queue) /\ Once(queue, "ssr")
  BY DEF SessionInv, QueueType, ReopenedOnce
<1>q. /\ queue' \in Seq(Messages) /\ Contains(queue, Head(queue))
      /\ \A x : Contains(queue', x) => Contains(queue, x)
      /\ \A x : Contains(queue, x) /\ x # Head(queue) => Contains(queue', x)
      /\ Once(queue', "ssr") /\ (Head(queue) = "ssr" => ~ Contains(queue', "ssr"))
      /\ StopsLast(queue) => StopsLast(queue')
            \/ (Head(queue) = "stop" /\ ~ Contains(queue', "start"))
  BY <1>a, TakesFirst
<1>1. QueueType'
  BY <1>q DEF SessionInv, QueueType
<1>2. AwayIsIdle'
  BY <1>q DEF SessionInv, AwayIsIdle, reachable, Outcomes
<1>3. ReopenedOnce'
  BY <1>q DEF SessionInv, ReopenedOnce, ReopenToCome, QueueType
<1>4. FixInSession'
  BY <1>q DEF SessionInv, FixInSession, AwayIsIdle, reachable
<1>5. RunningIsHeard'
  BY <1>q DEF SessionInv, RunningIsHeard, AwayIsIdle, FixInSession, reachable, Outcomes
<1>6. NoReports'
  BY <1>q DEF SessionInv, NoReports, Reports
<1>7. TakenOver'
  BY <1>q DEF SessionInv, TakenOver, AwayIsIdle, reachable, Outcomes
<1>8. StopComes'
  BY <1>q DEF SessionInv, StopComes
<1> QED
  BY <1>1, <1>2, <1>3, <1>4, <1>5, <1>6, <1>7, <1>8 DEF SessionInv

LEMMA EngineStateOnStep == ASSUME SessionInv, engineStateOn PROVE SessionInv'
<1> USE DEF engineStateOn, handles, framework, adapter, locApi, locEng, modem, errors
<1> DEFINE rest == Tail(queue)
           more == Append(rest, "on")
<1>a. queue \in Seq(Messages) /\ queue # <<>> /\ Head(queue) = "engineOn" /\ Once(queue, "ssr")
  BY DEF SessionInv, QueueType, ReopenedOnce
<1>b. /\ rest \in Seq(Messages) /\ \A x : Contains(rest, x) => Contains(queue, x)
      /\ \A x : Contains(queue, x) /\ x # Head(queue) => Contains(rest, x)
      /\ Once(rest, "ssr") /\ (StopsLast(queue) => StopsLast(rest) \/ Head(queue) = "stop")
  BY <1>a, TakesFirst
<1>c. "on" \in Messages /\ "begin" \in Messages
  BY DEF Messages
<1>d. queue' = rest \/ queue' = Append(more, "begin")
  BY <1>b, <1>c, AddsTwo
<1> HIDE DEF rest
<1>e. /\ more \in Seq(Messages) /\ Once(more, "ssr") /\ (StopsLast(rest) => StopsLast(more))
      /\ \A x : Contains(more, x) <=> Contains(rest, x) \/ x = "on"
  BY <1>b, <1>c, AddsLast
<1> HIDE DEF more
<1>f. /\ Append(more, "begin") \in Seq(Messages) /\ Once(Append(more, "begin"), "ssr")
      /\ StopsLast(more) => StopsLast(Append(more, "begin"))
      /\ \A x : Contains(Append(more, "begin"), x) <=> Contains(more, x) \/ x = "begin"
  BY <1>c, <1>e, AddsLast
<1>q. /\ queue' \in Seq(Messages) /\ Once(queue', "ssr") /\ (StopsLast(queue) => StopsLast(queue'))
      /\ \A x : Contains(queue', x) => Contains(queue, x) \/ x = "on" \/ x = "begin"
      /\ \A x : Contains(queue, x) /\ x # "engineOn" => Contains(queue', x)
  BY <1>a, <1>b, <1>d, <1>e, <1>f
<1>1. QueueType'
  BY <1>q DEF SessionInv, QueueType
<1>2. AwayIsIdle'
  BY <1>q DEF SessionInv, AwayIsIdle, reachable, Outcomes
<1>3. ReopenedOnce'
  BY <1>q DEF SessionInv, ReopenedOnce, ReopenToCome, QueueType
<1>4. FixInSession'
  BY <1>q DEF SessionInv, FixInSession, AwayIsIdle, reachable
<1>5. RunningIsHeard'
  BY <1>q DEF SessionInv, RunningIsHeard, AwayIsIdle, FixInSession, reachable, Outcomes
<1>6. NoReports'
  BY <1>q DEF SessionInv, NoReports, Reports
<1>7. TakenOver'
  BY <1>q DEF SessionInv, TakenOver, AwayIsIdle, reachable, Outcomes
<1>8. StopComes'
  BY <1>q DEF SessionInv, StopComes
<1> QED
  BY <1>1, <1>2, <1>3, <1>4, <1>5, <1>6, <1>7, <1>8 DEF SessionInv

LEMMA EngineStateOffStep == ASSUME SessionInv, engineStateOff PROVE SessionInv'
<1> USE DEF engineStateOff, handles, deregisterAfterSession, registerEventMask, framework,
            adapter, locApi, locEng, modem, errors
<1> DEFINE rest == Tail(queue)
           more == Append(rest, "end")
<1>a. queue \in Seq(Messages) /\ queue # <<>> /\ Head(queue) = "engineOff" /\ Once(queue, "ssr")
  BY DEF SessionInv, QueueType, ReopenedOnce
<1>b. /\ rest \in Seq(Messages) /\ \A x : Contains(rest, x) => Contains(queue, x)
      /\ \A x : Contains(queue, x) /\ x # Head(queue) => Contains(rest, x)
      /\ Once(rest, "ssr") /\ (StopsLast(queue) => StopsLast(rest) \/ Head(queue) = "stop")
  BY <1>a, TakesFirst
<1>c. "end" \in Messages /\ "off" \in Messages
  BY DEF Messages
<1>d. queue' = rest \/ queue' = Append(more, "off")
  BY <1>b, <1>c, AddsTwo
<1> HIDE DEF rest
<1>e. /\ more \in Seq(Messages) /\ Once(more, "ssr") /\ (StopsLast(rest) => StopsLast(more))
      /\ \A x : Contains(more, x) <=> Contains(rest, x) \/ x = "end"
  BY <1>b, <1>c, AddsLast
<1> HIDE DEF more
<1>f. /\ Append(more, "off") \in Seq(Messages) /\ Once(Append(more, "off"), "ssr")
      /\ StopsLast(more) => StopsLast(Append(more, "off"))
      /\ \A x : Contains(Append(more, "off"), x) <=> Contains(more, x) \/ x = "off"
  BY <1>c, <1>e, AddsLast
<1>q. /\ queue' \in Seq(Messages) /\ Once(queue', "ssr") /\ (StopsLast(queue) => StopsLast(queue'))
      /\ \A x : Contains(queue', x) => Contains(queue, x) \/ x = "end" \/ x = "off"
      /\ \A x : Contains(queue, x) /\ x # "engineOff" => Contains(queue', x)
  BY <1>a, <1>b, <1>d, <1>e, <1>f
<1>1. QueueType'
  BY <1>q DEF SessionInv, QueueType
<1>2. AwayIsIdle'
  BY <1>q DEF SessionInv, AwayIsIdle, reachable, Outcomes
<1>3. ReopenedOnce'
  BY <1>q DEF SessionInv, ReopenedOnce, ReopenToCome, QueueType
<1>4. FixInSession'
  BY <1>q DEF SessionInv, FixInSession, AwayIsIdle, reachable
<1>5. RunningIsHeard'
  BY <1>q DEF SessionInv, RunningIsHeard, AwayIsIdle, FixInSession, reachable, Outcomes
<1>6. NoReports'
  BY <1>q DEF SessionInv, NoReports, Reports
<1>7. TakenOver'
  BY <1>q DEF SessionInv, TakenOver, AwayIsIdle, reachable, Outcomes
<1>8. StopComes'
  BY <1>q DEF SessionInv, StopComes
<1> QED
  BY <1>1, <1>2, <1>3, <1>4, <1>5, <1>6, <1>7, <1>8 DEF SessionInv

LEMMA ReportStatusStep == ASSUME NEW status \in {"on", "off", "begin", "end"}, SessionInv,
                                 LocEngReportStatus(status) PROVE SessionInv'
<1> USE DEF LocEngReportStatus, handles, framework, adapter, locApi, locEng, modem, errors
<1>a. queue \in Seq(Messages) /\ queue # <<>> /\ queue' = Tail(queue) /\ Once(queue, "ssr")
  BY DEF SessionInv, QueueType, ReopenedOnce
<1>q. /\ queue' \in Seq(Messages) /\ Contains(queue, Head(queue))
      /\ \A x : Contains(queue', x) => Contains(queue, x)
      /\ \A x : Contains(queue, x) /\ x # Head(queue) => Contains(queue', x)
      /\ Once(queue', "ssr") /\ (Head(queue) = "ssr" => ~ Contains(queue', "ssr"))
      /\ StopsLast(queue) => StopsLast(queue')
            \/ (Head(queue) = "stop" /\ ~ Contains(queue', "start"))
  BY <1>a, TakesFirst
<1>1. QueueType'
  BY <1>q DEF SessionInv, QueueType
<1>2. AwayIsIdle'
  BY <1>q DEF SessionInv, AwayIsIdle, reachable, Outcomes
<1>3. ReopenedOnce'
  BY <1>q DEF SessionInv, ReopenedOnce, ReopenToCome, QueueType
<1>4. FixInSession'
  BY <1>q DEF SessionInv, FixInSession, AwayIsIdle, reachable
<1>5. RunningIsHeard'
  BY <1>q DEF SessionInv, RunningIsHeard, AwayIsIdle, FixInSession, reachable, Outcomes
<1>6. NoReports'
  BY <1>q DEF SessionInv, NoReports, Reports
<1>7. TakenOver'
  BY <1>q DEF SessionInv, TakenOver, AwayIsIdle, reachable, Outcomes
<1>8. StopComes'
  BY <1>q DEF SessionInv, StopComes
<1> QED
  BY <1>1, <1>2, <1>3, <1>4, <1>5, <1>6, <1>7, <1>8 DEF SessionInv

LEMMA ReportPositionStep == ASSUME NEW report \in Reports, SessionInv,
                                   LocEngReportPosition(report) PROVE SessionInv'
<1> USE DEF LocEngReportPosition, handles, stopFix, sendStop, registerEventMask, setInSession,
            Reports, framework, adapter, locApi, locEng, modem, errors
<1>a. queue \in Seq(Messages) /\ queue # <<>> /\ queue' = Tail(queue) /\ Once(queue, "ssr")
  BY DEF SessionInv, QueueType, ReopenedOnce
<1>p. recurrence # "periodic"
  BY <1>a, TakesFirst DEF SessionInv, NoReports
<1>q. /\ queue' \in Seq(Messages) /\ Contains(queue, Head(queue))
      /\ \A x : Contains(queue', x) => Contains(queue, x)
      /\ \A x : Contains(queue, x) /\ x # Head(queue) => Contains(queue', x)
      /\ Once(queue', "ssr") /\ (Head(queue) = "ssr" => ~ Contains(queue', "ssr"))
      /\ StopsLast(queue) => StopsLast(queue')
            \/ (Head(queue) = "stop" /\ ~ Contains(queue', "start"))
  BY <1>a, TakesFirst
<1>1. QueueType'
  BY <1>q, <1>p DEF SessionInv, QueueType
<1>2. AwayIsIdle'
  BY <1>q, <1>p DEF SessionInv, AwayIsIdle, reachable, Outcomes
<1>3. ReopenedOnce'
  BY <1>q, <1>p DEF SessionInv, ReopenedOnce, ReopenToCome, QueueType
<1>4. FixInSession'
  BY <1>q, <1>p DEF SessionInv, FixInSession, AwayIsIdle, reachable
<1>5. RunningIsHeard'
  BY <1>q, <1>p DEF SessionInv, RunningIsHeard, AwayIsIdle, FixInSession, reachable, Outcomes
<1>6. NoReports'
  BY <1>q, <1>p DEF SessionInv, NoReports, Reports
<1>7. TakenOver'
  BY <1>q, <1>p DEF SessionInv, TakenOver, AwayIsIdle, reachable, Outcomes
<1>8. StopComes'
  BY <1>q, <1>p DEF SessionInv, StopComes
<1> QED
  BY <1>1, <1>2, <1>3, <1>4, <1>5, <1>6, <1>7, <1>8 DEF SessionInv

LEMMA EngineDownStep == ASSUME SessionInv, loc_eng_handle_engine_down PROVE SessionInv'
<1> USE DEF loc_eng_handle_engine_down, handles, framework, adapter, locApi, locEng, modem, errors
<1>a. queue \in Seq(Messages) /\ queue # <<>> /\ queue' = Tail(queue) /\ Once(queue, "ssr")
  BY DEF SessionInv, QueueType, ReopenedOnce
<1>q. /\ queue' \in Seq(Messages) /\ Contains(queue, Head(queue))
      /\ \A x : Contains(queue', x) => Contains(queue, x)
      /\ \A x : Contains(queue, x) /\ x # Head(queue) => Contains(queue', x)
      /\ Once(queue', "ssr") /\ (Head(queue) = "ssr" => ~ Contains(queue', "ssr"))
      /\ StopsLast(queue) => StopsLast(queue')
            \/ (Head(queue) = "stop" /\ ~ Contains(queue', "start"))
  BY <1>a, TakesFirst
<1>1. QueueType'
  BY <1>q DEF SessionInv, QueueType
<1>2. AwayIsIdle'
  BY <1>q DEF SessionInv, AwayIsIdle, reachable, Outcomes
<1>3. ReopenedOnce'
  BY <1>q DEF SessionInv, ReopenedOnce, ReopenToCome, QueueType
<1>4. FixInSession'
  BY <1>q DEF SessionInv, FixInSession, AwayIsIdle, reachable
<1>5. RunningIsHeard'
  BY <1>q DEF SessionInv, RunningIsHeard, AwayIsIdle, FixInSession, reachable, Outcomes
<1>6. NoReports'
  BY <1>q DEF SessionInv, NoReports, Reports
<1>7. TakenOver'
  BY <1>q DEF SessionInv, TakenOver, AwayIsIdle, reachable, Outcomes
<1>8. StopComes'
  BY <1>q DEF SessionInv, StopComes
<1> QED
  BY <1>1, <1>2, <1>3, <1>4, <1>5, <1>6, <1>7, <1>8 DEF SessionInv

LEMMA SsrStep == ASSUME SessionInv, LocSsrMsg PROVE SessionInv'
<1> USE DEF LocSsrMsg, handles, open, framework, adapter, locApi, locEng, modem, errors
<1>a. queue \in Seq(Messages) /\ queue # <<>> /\ queue' = Tail(queue) /\ Once(queue, "ssr")
  BY DEF SessionInv, QueueType, ReopenedOnce
<1>p. clientHandle = "stale" /\ ~ ReopenToCome
  BY <1>a, TakesFirst DEF SessionInv, ReopenedOnce
<1>q. /\ queue' \in Seq(Messages) /\ Contains(queue, Head(queue))
      /\ \A x : Contains(queue', x) => Contains(queue, x)
      /\ \A x : Contains(queue, x) /\ x # Head(queue) => Contains(queue', x)
      /\ Once(queue', "ssr") /\ (Head(queue) = "ssr" => ~ Contains(queue', "ssr"))
      /\ StopsLast(queue) => StopsLast(queue')
            \/ (Head(queue) = "stop" /\ ~ Contains(queue', "start"))
  BY <1>a, TakesFirst
<1>1. QueueType'
  BY <1>q, <1>p DEF SessionInv, QueueType
<1>2. AwayIsIdle'
  BY <1>q, <1>p DEF SessionInv, AwayIsIdle, reachable, Outcomes
<1>3. ReopenedOnce'
  BY <1>q, <1>p DEF SessionInv, ReopenedOnce, ReopenToCome, QueueType
<1>4. FixInSession'
  BY <1>q, <1>p DEF SessionInv, FixInSession, AwayIsIdle, reachable
<1>5. RunningIsHeard'
  BY <1>q, <1>p DEF SessionInv, RunningIsHeard, AwayIsIdle, FixInSession, reachable, Outcomes
<1>6. NoReports'
  BY <1>q, <1>p DEF SessionInv, NoReports, Reports
<1>7. TakenOver'
  BY <1>q, <1>p DEF SessionInv, TakenOver, AwayIsIdle, reachable, Outcomes
<1>8. StopComes'
  BY <1>q, <1>p DEF SessionInv, StopComes
<1> QED
  BY <1>1, <1>2, <1>3, <1>4, <1>5, <1>6, <1>7, <1>8 DEF SessionInv

LEMMA EngineUpStep == ASSUME SessionInv, loc_eng_handle_engine_up PROVE SessionInv'
<1> USE DEF loc_eng_handle_engine_up, handles, leaveSession, setInSession, framework, adapter,
            locApi, locEng, modem, errors
<1> DEFINE rest == Tail(queue)
<1>a. queue \in Seq(Messages) /\ queue # <<>> /\ Head(queue) = "up" /\ Once(queue, "ssr")
  BY DEF SessionInv, QueueType, ReopenedOnce
<1>b. /\ rest \in Seq(Messages) /\ \A x : Contains(rest, x) => Contains(queue, x)
      /\ \A x : Contains(queue, x) /\ x # Head(queue) => Contains(rest, x)
      /\ Once(rest, "ssr") /\ (StopsLast(queue) => StopsLast(rest) \/ Head(queue) = "stop")
  BY <1>a, TakesFirst
<1>c. IF mNavigating THEN queue' = Append(rest, "restart") ELSE queue' = rest
  OBVIOUS
<1> HIDE DEF rest
<1>d. /\ Append(rest, "restart") \in Seq(Messages) /\ Once(Append(rest, "restart"), "ssr")
      /\ StopsLast(rest) => StopsLast(Append(rest, "restart"))
      /\ \A x : Contains(Append(rest, "restart"), x) <=> Contains(rest, x) \/ x = "restart"
  <2>1. "restart" \in Messages
    BY DEF Messages
  <2> QED
    BY <1>b, <2>1, AddsLast
<1>q. /\ queue' \in Seq(Messages) /\ Once(queue', "ssr") /\ (StopsLast(queue) => StopsLast(queue'))
      /\ \A x : Contains(queue', x) => Contains(queue, x) \/ (x = "restart" /\ mNavigating)
      /\ \A x : Contains(queue, x) /\ x # "up" => Contains(queue', x)
      /\ mNavigating => Contains(queue', "restart")
  BY <1>a, <1>b, <1>c, <1>d
<1>1. QueueType'
  BY <1>q DEF SessionInv, QueueType
<1>2. AwayIsIdle'
  BY <1>q DEF SessionInv, AwayIsIdle, reachable, Outcomes
<1>3. ReopenedOnce'
  BY <1>q DEF SessionInv, ReopenedOnce, ReopenToCome, QueueType
<1>4. FixInSession'
  BY <1>q DEF SessionInv, FixInSession, AwayIsIdle, reachable
<1>5. RunningIsHeard'
  BY <1>q DEF SessionInv, RunningIsHeard, AwayIsIdle, FixInSession, reachable, Outcomes
<1>6. NoReports'
  BY <1>q DEF SessionInv, NoReports, Reports
<1>7. TakenOver'
  BY <1>q DEF SessionInv, TakenOver, AwayIsIdle, reachable, Outcomes
<1>8. StopComes'
  BY <1>q DEF SessionInv, StopComes
<1> QED
  BY <1>1, <1>2, <1>3, <1>4, <1>5, <1>6, <1>7, <1>8 DEF SessionInv

LEMMA MuteStep == ASSUME SessionInv, loc_eng_mute_one_session PROVE SessionInv'
<1> USE DEF loc_eng_mute_one_session, framework, adapter, locApi, locEng, modem, errors
<1>1. QueueType'
  BY DEF SessionInv, QueueType
<1>2. AwayIsIdle'
  BY DEF SessionInv, AwayIsIdle, reachable, Outcomes
<1>3. ReopenedOnce'
  BY DEF SessionInv, ReopenedOnce, ReopenToCome, QueueType
<1>4. FixInSession'
  BY DEF SessionInv, FixInSession, AwayIsIdle, reachable
<1>5. RunningIsHeard'
  BY DEF SessionInv, RunningIsHeard, AwayIsIdle, FixInSession, reachable, Outcomes
<1>6. NoReports'
  BY DEF SessionInv, NoReports, Reports
<1>7. TakenOver'
  BY DEF SessionInv, TakenOver, AwayIsIdle, reachable, Outcomes
<1>8. StopComes'
  BY DEF SessionInv, StopComes
<1> QED
  BY <1>1, <1>2, <1>3, <1>4, <1>5, <1>6, <1>7, <1>8 DEF SessionInv

LEMMA EngineOnStep == ASSUME SessionInv, engineOn PROVE SessionInv'
<1> USE DEF engineOn, event, framework, adapter, locApi, locEng, modem, errors
<1>a. /\ queue \in Seq(Messages) /\ Once(queue, "ssr") /\ "engineOn" \in Messages
      /\ queue' = Append(queue, "engineOn") \/ queue' = queue
  BY DEF SessionInv, QueueType, ReopenedOnce, Messages, Reports
<1>q. /\ queue' \in Seq(Messages) /\ Once(queue', "ssr")
      /\ \A x : Contains(queue, x) => Contains(queue', x)
      /\ \A x : Contains(queue', x) => Contains(queue, x) \/ x = "engineOn"
      /\ StopsLast(queue) => StopsLast(queue')
  BY <1>a, AddsLast DEF Reports
<1>1. QueueType'
  BY <1>q DEF SessionInv, QueueType
<1>2. AwayIsIdle'
  BY <1>q DEF SessionInv, AwayIsIdle, reachable, Outcomes
<1>3. ReopenedOnce'
  BY <1>q DEF SessionInv, ReopenedOnce, ReopenToCome, QueueType
<1>4. FixInSession'
  BY <1>q DEF SessionInv, FixInSession, AwayIsIdle, reachable
<1>5. RunningIsHeard'
  BY <1>q DEF SessionInv, RunningIsHeard, AwayIsIdle, FixInSession, reachable, Outcomes
<1>6. NoReports'
  BY <1>q DEF SessionInv, NoReports, Reports
<1>7. TakenOver'
  BY <1>q DEF SessionInv, TakenOver, AwayIsIdle, reachable, Outcomes
<1>8. StopComes'
  BY <1>q DEF SessionInv, StopComes
<1> QED
  BY <1>1, <1>2, <1>3, <1>4, <1>5, <1>6, <1>7, <1>8 DEF SessionInv

LEMMA EngineOffStep == ASSUME SessionInv, engineOff PROVE SessionInv'
<1> USE DEF engineOff, event, framework, adapter, locApi, locEng, modem, errors
<1>a. /\ queue \in Seq(Messages) /\ Once(queue, "ssr") /\ "engineOff" \in Messages
      /\ queue' = Append(queue, "engineOff") \/ queue' = queue
  BY DEF SessionInv, QueueType, ReopenedOnce, Messages, Reports
<1>q. /\ queue' \in Seq(Messages) /\ Once(queue', "ssr")
      /\ \A x : Contains(queue, x) => Contains(queue', x)
      /\ \A x : Contains(queue', x) => Contains(queue, x) \/ x = "engineOff"
      /\ StopsLast(queue) => StopsLast(queue')
  BY <1>a, AddsLast DEF Reports
<1>1. QueueType'
  BY <1>q DEF SessionInv, QueueType
<1>2. AwayIsIdle'
  BY <1>q DEF SessionInv, AwayIsIdle, reachable, Outcomes
<1>3. ReopenedOnce'
  BY <1>q DEF SessionInv, ReopenedOnce, ReopenToCome, QueueType
<1>4. FixInSession'
  BY <1>q DEF SessionInv, FixInSession, AwayIsIdle, reachable
<1>5. RunningIsHeard'
  BY <1>q DEF SessionInv, RunningIsHeard, AwayIsIdle, FixInSession, reachable, Outcomes
<1>6. NoReports'
  BY <1>q DEF SessionInv, NoReports, Reports
<1>7. TakenOver'
  BY <1>q DEF SessionInv, TakenOver, AwayIsIdle, reachable, Outcomes
<1>8. StopComes'
  BY <1>q DEF SessionInv, StopComes
<1> QED
  BY <1>1, <1>2, <1>3, <1>4, <1>5, <1>6, <1>7, <1>8 DEF SessionInv

LEMMA PositionStep == ASSUME NEW report \in Reports, SessionInv, position(report) PROVE SessionInv'
<1> USE DEF position, event, Reports, framework, adapter, locApi, locEng, modem, errors
<1>a. /\ queue \in Seq(Messages) /\ Once(queue, "ssr") /\ report \in Messages
      /\ queue' = Append(queue, report) \/ queue' = queue
  BY DEF SessionInv, QueueType, ReopenedOnce, Messages, Reports
<1>q. /\ queue' \in Seq(Messages) /\ Once(queue', "ssr")
      /\ \A x : Contains(queue, x) => Contains(queue', x)
      /\ \A x : Contains(queue', x) => Contains(queue, x) \/ x = report
      /\ StopsLast(queue) => StopsLast(queue')
  BY <1>a, AddsLast DEF Reports
<1>1. QueueType'
  BY <1>q DEF SessionInv, QueueType
<1>2. AwayIsIdle'
  BY <1>q DEF SessionInv, AwayIsIdle, reachable, Outcomes
<1>3. ReopenedOnce'
  BY <1>q DEF SessionInv, ReopenedOnce, ReopenToCome, QueueType
<1>4. FixInSession'
  BY <1>q DEF SessionInv, FixInSession, AwayIsIdle, reachable
<1>5. RunningIsHeard'
  BY <1>q DEF SessionInv, RunningIsHeard, AwayIsIdle, FixInSession, reachable, Outcomes
<1>6. NoReports'
  BY <1>q DEF SessionInv, NoReports, Reports
<1>7. TakenOver'
  BY <1>q DEF SessionInv, TakenOver, AwayIsIdle, reachable, Outcomes
<1>8. StopComes'
  BY <1>q DEF SessionInv, StopComes
<1> QED
  BY <1>1, <1>2, <1>3, <1>4, <1>5, <1>6, <1>7, <1>8 DEF SessionInv

LEMMA CrashStep == ASSUME SessionInv, crash PROVE SessionInv'
<1> USE DEF crash, framework, adapter, locApi, locEng, modem, errors
<1>1. QueueType'
  BY DEF SessionInv, QueueType
<1>2. AwayIsIdle'
  BY DEF SessionInv, AwayIsIdle, reachable, Outcomes
<1>3. ReopenedOnce'
  BY DEF SessionInv, ReopenedOnce, ReopenToCome, QueueType
<1>4. FixInSession'
  BY DEF SessionInv, FixInSession, AwayIsIdle, reachable
<1>5. RunningIsHeard'
  BY DEF SessionInv, RunningIsHeard, AwayIsIdle, FixInSession, reachable, Outcomes
<1>6. NoReports'
  BY DEF SessionInv, NoReports, Reports
<1>7. TakenOver'
  BY DEF SessionInv, TakenOver, AwayIsIdle, reachable, Outcomes
<1>8. StopComes'
  BY DEF SessionInv, StopComes
<1> QED
  BY <1>1, <1>2, <1>3, <1>4, <1>5, <1>6, <1>7, <1>8 DEF SessionInv

LEMMA RebootStep == ASSUME SessionInv, reboot PROVE SessionInv'
<1> USE DEF reboot, framework, adapter, locApi, locEng, modem, errors
<1>1. QueueType'
  BY DEF SessionInv, QueueType
<1>2. AwayIsIdle'
  BY DEF SessionInv, AwayIsIdle, reachable, Outcomes
<1>3. ReopenedOnce'
  BY DEF SessionInv, ReopenedOnce, ReopenToCome, QueueType
<1>4. FixInSession'
  BY DEF SessionInv, FixInSession, AwayIsIdle, reachable
<1>5. RunningIsHeard'
  BY DEF SessionInv, RunningIsHeard, AwayIsIdle, FixInSession, reachable, Outcomes
<1>6. NoReports'
  BY DEF SessionInv, NoReports, Reports
<1>7. TakenOver'
  BY DEF SessionInv, TakenOver, AwayIsIdle, reachable, Outcomes
<1>8. StopComes'
  BY DEF SessionInv, StopComes
<1> QED
  BY <1>1, <1>2, <1>3, <1>4, <1>5, <1>6, <1>7, <1>8 DEF SessionInv

LEMMA SendErrorStep == ASSUME SessionInv, sendError PROVE SessionInv'
<1> USE DEF sendError, framework, adapter, locApi, locEng, modem, errors
<1>a. queue \in Seq(Messages) /\ Once(queue, "ssr")
  BY DEF SessionInv, QueueType, ReopenedOnce
<1>b. \/ errorCb = <<"down", "ssr", "up">> /\ Head(errorCb) = "down" /\ errorCb' = <<"ssr", "up">>
      \/ errorCb = <<"ssr", "up">> /\ Head(errorCb) = "ssr" /\ errorCb' = <<"up">>
      \/ errorCb = <<"up">> /\ Head(errorCb) = "up" /\ errorCb' = <<>>
  <2>1. errorCb \in {<<"down", "ssr", "up">>, <<"ssr", "up">>, <<"up">>} /\ errorCb' = Tail(errorCb)
    BY DEF SessionInv, QueueType
  <2>2. CASE errorCb = <<"down", "ssr", "up">>
    BY <2>1, <2>2
  <2>3. CASE errorCb = <<"ssr", "up">>
    BY <2>1, <2>3
  <2>4. CASE errorCb = <<"up">>
    BY <2>1, <2>4
  <2> QED
    BY <2>1, <2>2, <2>3, <2>4
<1>c. PICK m \in Messages : /\ queue' = Append(queue, m)
                            /\ \/ m = "down" /\ errorCb = <<"down", "ssr", "up">> /\ errorCb' = <<"ssr", "up">>
                               \/ m = "ssr" /\ errorCb = <<"ssr", "up">> /\ errorCb' = <<"up">>
                               \/ m = "up" /\ errorCb = <<"up">> /\ errorCb' = <<>>
  BY <1>b DEF Messages
<1>d. m = "ssr" => ~ Contains(queue, "ssr") /\ clientHandle = "stale"
  BY <1>c DEF SessionInv, ReopenedOnce, ReopenToCome
<1>q. /\ queue' \in Seq(Messages) /\ \A x : Contains(queue', x) <=> Contains(queue, x) \/ x = m
      /\ Once(queue', "ssr") /\ (StopsLast(queue) => StopsLast(queue'))
  BY <1>a, <1>c, <1>d, AddsLast
<1>1. QueueType'
  BY <1>q, <1>c, <1>d DEF SessionInv, QueueType
<1>2. AwayIsIdle'
  BY <1>q, <1>c, <1>d DEF SessionInv, AwayIsIdle, reachable, Outcomes
<1>3. ReopenedOnce'
  <2>1. CASE m = "ssr"
    <3>1. ~ (Len(errorCb') > 1) /\ clientHandle' = "stale"
      BY <1>c, <1>d, <2>1
    <3> QED
      BY <1>q, <3>1 DEF ReopenedOnce, ReopenToCome
  <2>2. CASE m # "ssr"
    <3>1. Len(errorCb') > 1 => Len(errorCb) > 1
      BY <1>c, <2>2
    <3>2. Contains(queue', "ssr") => Contains(queue, "ssr")
      BY <1>q, <2>2
    <3> QED
      BY <1>q, <3>1, <3>2 DEF SessionInv, ReopenedOnce, ReopenToCome
  <2> QED
    BY <2>1, <2>2
<1>4. FixInSession'
  BY <1>q, <1>c, <1>d DEF SessionInv, FixInSession, AwayIsIdle, reachable
<1>5. RunningIsHeard'
  BY <1>q, <1>c, <1>d DEF SessionInv, RunningIsHeard, AwayIsIdle, FixInSession, reachable, Outcomes
<1>6. NoReports'
  BY <1>q, <1>c, <1>d DEF SessionInv, NoReports, Reports
<1>7. TakenOver'
  BY <1>q, <1>c, <1>d DEF SessionInv, TakenOver, AwayIsIdle, reachable, Outcomes
<1>8. StopComes'
  BY <1>q, <1>c, <1>d DEF SessionInv, StopComes
<1> QED
  BY <1>1, <1>2, <1>3, <1>4, <1>5, <1>6, <1>7, <1>8 DEF SessionInv

-----------------------------------------------------------------------------
LEMMA SessionStep == SessionInv /\ [SessionNext]_sessionVars => SessionInv'
<1> SUFFICES ASSUME SessionInv, [SessionNext]_sessionVars PROVE SessionInv'
  OBVIOUS
<1>1. CASE MsgTask
  <2>1. CASE \E outcome \in Outcomes : loc_eng_start_handler(outcome) \/ setPositionMode(outcome)
    BY <2>1, StartHandlerStep, PositionModeStep
  <2>2. CASE \E status \in {"on", "off", "begin", "end"} : LocEngReportStatus(status)
    BY <2>2, ReportStatusStep
  <2>3. CASE \E report \in Reports : LocEngReportPosition(report)
    BY <2>3, ReportPositionStep
  <2> QED
    BY <1>1, <2>1, <2>2, <2>3, StartedAlreadyStep, StopHandlerStep, NotInSessionStep,
       DelAidDataStep,
       EngineStateOnStep, EngineStateOffStep, EngineDownStep, SsrStep, EngineUpStep DEF MsgTask
<1>2. CASE Framework
  BY <1>2, StartStep, StopStep, ModeStep, DeleteStep, MuteStep DEF Framework
<1>3. CASE Modem
  BY <1>3, EngineOnStep, EngineOffStep, PositionStep, CrashStep DEF Modem
<1>4. CASE reboot \/ sendError
  BY <1>4, RebootStep, SendErrorStep
<1>5. CASE UNCHANGED sessionVars
  <2> USE <1>5 DEF sessionVars, framework, adapter, locApi, locEng, modem, errors
  <2>1. QueueType' /\ AwayIsIdle' /\ FixInSession' /\ RunningIsHeard'
    BY DEF SessionInv, QueueType, AwayIsIdle, FixInSession, RunningIsHeard
  <2>2. ReopenedOnce' /\ NoReports' /\ TakenOver' /\ StopComes'
    BY DEF SessionInv, ReopenedOnce, ReopenToCome, NoReports, TakenOver, StopComes
  <2> QED
    BY <2>1, <2>2 DEF SessionInv
<1> QED
  BY <1>1, <1>2, <1>3, <1>4, <1>5 DEF SessionNext

(* In every reachable state of any instance.                               *)
THEOREM SessionInvariance == SessionSpec => []SessionInv
<1>1. SessionInit => SessionInv
  BY SessionInitially
<1>2. SessionInv /\ [SessionNext]_sessionVars => SessionInv'
  BY SessionStep
<1> QED
  BY <1>1, <1>2, PTL DEF SessionSpec

(* startFix, stopFix, MsgUpdateEngineState and open deregister the events  *)
(* of a session only when no fix runs, but for the fix whose own stop or   *)
(* whose own registration failed.                                          *)
THEOREM HeardWhileRunning == SessionSpec => []RunningIsHeard
<1>1. SessionInv => RunningIsHeard
  BY DEF SessionInv
<1> QED
  BY <1>1, SessionInvariance, PTL

(* A periodic fix is stopped with its session, through stops, changes of   *)
(* the mode and restarts of the modem (loc_eng_stop_handler,               *)
(* loc_eng_handle_engine_up); a start that was refused and a stop request  *)
(* that failed are the exceptions.                                         *)
THEOREM FixHasSession == SessionSpec => []NoOrphanFix
<1>1. SessionInv => NoOrphanFix
  <2> SUFFICES ASSUME SessionInv, Quiet, recurrence = "periodic", fix # "none"
               PROVE  mNavigating \/ answer = "refused" \/ failed = "stop"
    BY DEF NoOrphanFix
  <2>1. ~ Contains(queue, "restart")
    BY DEF Quiet, Contains
  <2> QED
    BY <2>1 DEF SessionInv, TakenOver
<1> QED
  BY <1>1, SessionInvariance, PTL

(* When everything has been handled a stop is obeyed, unless it found the  *)
(* restart of the session in the queue (loc_eng_stop).                     *)
THEOREM StopsInTheEnd == SessionSpec => []StopIsObeyed
<1>1. SessionInv => StopIsObeyed
  <2> SUFFICES ASSUME SessionInv, Quiet, ~ wanted PROVE ~ mNavigating \/ overtaken
    BY DEF StopIsObeyed
  <2>1. ~ StopsLast(queue)
    BY DEF Quiet, StopsLast
  <2> QED
    BY <2>1 DEF SessionInv, StopComes
<1> QED
  BY <1>1, SessionInvariance, PTL

-----------------------------------------------------------------------------
(***************************************************************************)
(* The emergency SUPL machine (DSStateMachine).  Its list is ordered, and  *)
(* Sublist, which follows that order, is recursive: what it returns is     *)
(* proved first, by looking at the least position where it would not.      *)
(***************************************************************************)

(* A set of natural numbers that is not empty has a least member: what an  *)
(* induction over the positions of a list starts from.                     *)
LEMMA LeastMember ==
    ASSUME NEW T \in SUBSET Nat, T # {}
    PROVE  \E n \in T : \A k \in T : ~ (k < n)
<1> DEFINE R == OpToRel(<, Nat)
<1>1. IsWellFoundedOn(R, Nat)
  BY NatLessThanWellFounded, Zenon
<1>2. \A y \in Nat, x \in Nat : y < x => <<y, x>> \in R
  BY DEF OpToRel
<1> HIDE DEF R
<1>3. \E x \in T : \A y \in T : ~ (<<y, x>> \in R)
  BY WFMin, <1>1, Zenon
<1> QED
  BY <1>2, <1>3, Zenon

(* One step of Sublist, from the members kept so far.                      *)
Keeps(list, S, g, i) ==
    IF i = 0 THEN <<>>
    ELSE IF list[i] \in S THEN Append(g[i - 1], list[i])
    ELSE g[i - 1]

(* The recursion of Sublist is well-founded: some function satisfies it.   *)
LEMMA SublistDefined ==
    ASSUME NEW C, NEW list \in Seq(C), NEW S
    PROVE  \E g : g = [i \in 0..Len(list) |-> Keeps(list, S, g, i)]
<1> DEFINE F(n) == {g \in [0..n -> Seq(C)] : \A i \in 0..n : g[i] = Keeps(list, S, g, i)}
           T == {n \in 0..Len(list) : F(n) = {}}
<1>1. T = {}
  <2> SUFFICES ASSUME T # {} PROVE FALSE
    OBVIOUS
  <2>1. PICK n \in T : \A k \in T : ~ (k < n)
    <3>1. T \in SUBSET Nat
      OBVIOUS
    <3> QED
      BY <3>1, LeastMember, Zenon
  <2>2. n \in Nat /\ n <= Len(list) /\ F(n) = {}
    <3>1. n \in 0..Len(list) /\ F(n) = {}
      BY Zenon
    <3> HIDE DEF F, T
    <3>2. n \in Nat /\ n <= Len(list)
      BY <3>1
    <3> QED
      BY <3>1, <3>2, Zenon
  <2>3. n # 0
    <3> SUFFICES ASSUME n = 0 PROVE FALSE
      OBVIOUS
    <3> DEFINE g == [i \in 0..0 |-> <<>>]
    <3>1. g \in F(0)
      BY DEF Keeps
    <3> QED
      BY <3>1, <2>2
  <2>4. n - 1 \in Nat /\ n - 1 < n /\ n - 1 \in 0..Len(list)
    BY <2>2, <2>3
  <2>5. PICK g : g \in F(n - 1)
    <3>1. n - 1 \notin T
      BY <2>1, <2>4
    <3> QED
      BY <3>1, <2>4
  <2> DEFINE h == [i \in 0..n |-> IF i = n THEN Keeps(list, S, g, n) ELSE g[i]]
  <2>6. /\ g \in [0..(n - 1) -> Seq(C)]
        /\ \A i \in 0..(n - 1) : g[i] = Keeps(list, S, g, i)
    BY <2>5
  <2>7. Keeps(list, S, g, n) \in Seq(C)
    <3>1. g[n - 1] \in Seq(C) /\ list[n] \in C
      BY <2>2, <2>3, <2>6
    <3> QED
      BY <3>1, <2>2, <2>3 DEF Keeps
  <2>8. h \in [0..n -> Seq(C)]
    BY <2>2, <2>6, <2>7
  <2>9. ASSUME NEW i \in 0..n PROVE h[i] = Keeps(list, S, h, i)
    <3>1. i # 0 => h[i - 1] = g[i - 1]
      BY <2>2
    <3>2. Keeps(list, S, h, i) = Keeps(list, S, g, i)
      BY <3>1 DEF Keeps
    <3>3. h[i] = Keeps(list, S, g, i)
      BY <2>2, <2>6
    <3> QED
      BY <3>2, <3>3
  <2>10. h \in F(n)
    BY <2>8, <2>9
  <2> QED
    BY <2>10, <2>2
<1>2. Len(list) \in 0..Len(list)
  OBVIOUS
<1>3. PICK g : g \in F(Len(list))
  BY <1>1, <1>2
<1>4. g = [i \in 0..Len(list) |-> Keeps(list, S, g, i)]
  BY <1>3
<1> QED
  BY <1>4

SublistOutcome(C, list, S, sub) ==
    /\ sub \in Seq(C)
    /\ \A k \in 1..Len(sub) : sub[k] \in S /\ \E j \in 1..Len(list) : list[j] = sub[k]
    /\ \A j \in 1..Len(list) : list[j] \in S => \E k \in 1..Len(sub) : sub[k] = list[j]

(* Sublist keeps the members of S and nothing else.                        *)
LEMMA SublistFacts ==
    ASSUME NEW C, NEW list \in Seq(C), NEW S
    PROVE  SublistOutcome(C, list, S, Sublist(list, S))
<1> DEFINE kept == CHOOSE g : g = [i \in 0..Len(list) |-> Keeps(list, S, g, i)]
           Good(i) == /\ kept[i] \in Seq(C)
                      /\ \A k \in 1..Len(kept[i]) :
                            kept[i][k] \in S /\ \E j \in 1..i : list[j] = kept[i][k]
                      /\ \A j \in 1..i : list[j] \in S =>
                            \E k \in 1..Len(kept[i]) : kept[i][k] = list[j]
           T == {n \in 0..Len(list) : ~ Good(n)}
<1>1. Sublist(list, S) = kept[Len(list)]
  BY DEF Sublist, Keeps
<1>2. kept = [i \in 0..Len(list) |-> Keeps(list, S, kept, i)]
  BY SublistDefined, Zenon
<1> HIDE DEF kept
<1>3. T = {}
  <2> SUFFICES ASSUME T # {} PROVE FALSE
    OBVIOUS
  <2>1. PICK n \in T : \A k \in T : ~ (k < n)
    <3>1. T \in SUBSET Nat
      OBVIOUS
    <3> QED
      BY <3>1, LeastMember, Zenon
  <2>2. n \in Nat /\ n <= Len(list) /\ ~ Good(n)
    OBVIOUS
  <2>3. kept[n] = Keeps(list, S, kept, n)
    BY <1>2, <2>2
  <2>4. CASE n = 0
    <3>1. kept[n] = <<>>
      BY <2>3, <2>4 DEF Keeps
    <3>2. Good(n)
      BY <3>1, <2>4
    <3> QED
      BY <3>2, <2>2
  <2>5. CASE n # 0
    <3>1. n - 1 \in 0..Len(list) /\ n - 1 < n
      BY <2>2, <2>5
    <3>2. Good(n - 1)
      BY <3>1, <2>1
    <3> DEFINE was == kept[n - 1]
    <3>3. list[n] \in C
      BY <2>2, <2>5
    <3>4. was \in Seq(C)
      BY <3>2
    <3> HIDE DEF was
    <3>5. CASE list[n] \in S
      <4>1. kept[n] = Append(was, list[n])
        BY <2>3, <2>5, <3>5 DEF Keeps, was
      <4>2. /\ kept[n] \in Seq(C)
            /\ Len(kept[n]) = Len(was) + 1
            /\ \A k \in 1..Len(was) : kept[n][k] = was[k]
            /\ kept[n][Len(was) + 1] = list[n]
        BY <4>1, <3>3, <3>4
      <4>3. Len(was) \in Nat
        BY <3>4
      <4>4. ASSUME NEW k \in 1..Len(kept[n])
            PROVE  kept[n][k] \in S /\ \E j \in 1..n : list[j] = kept[n][k]
        <5>1. CASE k = Len(was) + 1
          BY <5>1, <4>2, <3>5, <2>2, <2>5
        <5>2. CASE k # Len(was) + 1
          <6>1. k \in 1..Len(was)
            BY <5>2, <4>2, <4>3
          <6>2. was[k] \in S /\ \E j \in 1..(n - 1) : list[j] = was[k]
            BY <6>1, <3>2 DEF was
          <6>3. PICK j \in 1..(n - 1) : list[j] = was[k]
            BY <6>2
          <6>4. j \in 1..n
            BY <2>2
          <6>5. kept[n][k] = was[k]
            BY <6>1, <4>2
          <6> QED
            BY <6>2, <6>3, <6>4, <6>5
        <5> QED
          BY <5>1, <5>2
      <4>5. ASSUME NEW j \in 1..n, list[j] \in S
            PROVE  \E k \in 1..Len(kept[n]) : kept[n][k] = list[j]
        <5>1. CASE j = n
          BY <5>1, <4>2, <4>3
        <5>2. CASE j # n
          <6>1. j \in 1..(n - 1)
            BY <5>2, <2>2
          <6>2. \E k \in 1..Len(was) : was[k] = list[j]
            BY <6>1, <4>5, <3>2 DEF was
          <6> QED
            BY <6>2, <4>2, <4>3
        <5> QED
          BY <5>1, <5>2
      <4> QED
        BY <4>2, <4>4, <4>5, <2>2
    <3>6. CASE list[n] \notin S
      <4>1. kept[n] = was
        BY <2>3, <2>5, <3>6 DEF Keeps, was
      <4>2. ASSUME NEW k \in 1..Len(was)
            PROVE  was[k] \in S /\ \E j \in 1..n : list[j] = was[k]
        <5>1. PICK j \in 1..(n - 1) : list[j] = was[k]
          BY <3>2 DEF was
        <5>2. j \in 1..n
          BY <2>2
        <5> QED
          BY <5>1, <5>2, <3>2 DEF was
      <4>3. ASSUME NEW j \in 1..n, list[j] \in S
            PROVE  \E k \in 1..Len(was) : was[k] = list[j]
        <5>1. j \in 1..(n - 1)
          BY <4>3, <3>6, <2>2
        <5> QED
          BY <5>1, <4>3, <3>2 DEF was
      <4> QED
        BY <4>1, <4>2, <4>3, <3>4, <2>2
    <3> QED
      BY <3>5, <3>6
  <2> QED
    BY <2>4, <2>5
<1>4. Len(list) \in 0..Len(list)
  OBVIOUS
<1>5. Good(Len(list))
  BY <1>3, <1>4
<1> QED
  BY <1>1, <1>5 DEF SublistOutcome

DsTyped(out) ==
    /\ out.m \in Ds!Machines /\ out.m.inactive \subseteq out.m.subs
    /\ out.req \in {"none", "REQUEST", "RELEASE"}
    /\ out.req = "REQUEST" => Ds!Active(out.m) # {}

Untold(out, status) == \A c \in Clients : out.told[c] # status

DsSubscribed(mm, c, next, out) ==
    /\ DsTyped(out)
    /\ out.m.subs = mm.subs \cup {c}
    /\ out.m.st = IF mm.st = "Released" THEN next ELSE mm.st
    /\ mm.st # "Released" => out.req = "none"
    /\ out.req # "RELEASE"
    /\ Untold(out, "RELEASED")

(* A session that subscribes to ds_nif: only in the Released state is the  *)
(* data call started.                                                      *)
LEMMA DsSubscribeFacts ==
    ASSUME NEW mm \in Ds!Machines, mm.inactive \subseteq mm.subs,
           NEW c \in Clients, NEW next \in {"Pending", "Released"},
           NEW out, out = Ds!onRsrcEvent(mm, "SUBSCRIBE", c, {}, next)
    PROVE  DsSubscribed(mm, c, next, out)
<1> DEFINE added == Ds!addSubscriber(mm, c)
<1>1. mm.st = "Released" =>
         out = Ds!Out(Ds!moveTo(added, next), Ds!Nobody, Ds!sendRsrcRequest(added, "REQUEST"))
  BY Zenon DEF Ds!onRsrcEvent, Ds!AgpsReleasedState
<1>2. mm.st = "Pending" => out = Ds!Out(added, Ds!Nobody, "none")
  BY Zenon DEF Ds!onRsrcEvent, Ds!AgpsPendingState
<1>3. mm.st = "Acquired" => out = Ds!Out(added, Ds!Tell({c}, "GRANTED"), "none")
  BY Zenon DEF Ds!onRsrcEvent, Ds!AgpsAcquiredState
<1>4. mm.st = "Releasing" => out = Ds!Out(added, Ds!Nobody, "none")
  BY Zenon DEF Ds!onRsrcEvent, Ds!AgpsReleasingState
<1> QED
  BY <1>1, <1>2, <1>3, <1>4
     DEF DsSubscribed, DsTyped, Untold, Ds!addSubscriber, Ds!moveTo, Ds!sendRsrcRequest,
         Ds!Active, Ds!Machines, Ds!Machine, Ds!Out, Ds!States, Ds!Nobody, Ds!Tell

DsUnsubscribed(mm, out) ==
    /\ DsTyped(out)
    /\ out.m.subs = mm.subs
    /\ out.m.st = IF mm.st \in {"Pending", "Acquired"} /\ out.req = "RELEASE"
                  THEN "Releasing" ELSE mm.st
    /\ out.req # "REQUEST"
    /\ mm.st \notin {"Pending", "Acquired"} => out.req = "none"
    /\ Untold(out, "RELEASED")

(* A listed session that leaves ds_nif stays in the list, inactive, and    *)
(* the data call is stopped when it was the last active one.               *)
LEMMA DsUnsubscribeFacts ==
    ASSUME NEW mm \in Ds!Machines, mm.inactive \subseteq mm.subs, NEW c \in mm.subs,
           NEW out, out = Ds!onRsrcEvent(mm, "UNSUBSCRIBE", c, {}, "Pending")
    PROVE  DsUnsubscribed(mm, out)
<1> DEFINE left == Ds!leaveList(mm, c, {})
           gone == Ds!setInactive(mm, c)
<1>0. c \in Clients
  BY DEF Ds!Machines
<1>1. left = Ds!Out(gone, Ds!Tell({c}, "UNSUBSCRIBE"), "none")
  BY <1>0 DEF Ds!leaveList, Ds!waitForCloseComplete
<1>2. /\ left.m = gone /\ left.told = Ds!Tell({c}, "UNSUBSCRIBE")
  BY <1>1 DEF Ds!Out
<1>3. /\ gone \in Ds!Machines /\ gone.st = mm.st /\ gone.subs = mm.subs
      /\ gone.inactive \subseteq gone.subs /\ gone.subs # {}
  BY DEF Ds!setInactive, Ds!Machines, Ds!Machine
<1>4. mm.st \in {"Released", "Pending", "Acquired", "Releasing"}
  BY DEF Ds!Machines, Ds!States
<1> HIDE DEF left, gone
<1>5. CASE mm.st = "Released"
  <2>1. out = Ds!Out(mm, Ds!Tell({c}, "UNSUBSCRIBE"), "none")
    BY <1>5, Zenon DEF Ds!onRsrcEvent, Ds!AgpsReleasedState
  <2> QED
    BY <2>1, <1>5 DEF DsUnsubscribed, DsTyped, Untold, Ds!Out, Ds!Tell
<1>6. CASE mm.st \in {"Pending", "Acquired"}
  <2>1. out = Ds!afterLeaving(left)
    BY <1>6, Zenon DEF Ds!onRsrcEvent, Ds!AgpsPendingState, Ds!AgpsAcquiredState, left
  <2>2. CASE Ds!Active(gone) = {}
    <3>1. out = Ds!Out(Ds!moveTo(gone, "Releasing"), left.told,
                       Ds!sendRsrcRequest(gone, "RELEASE"))
      BY <2>1, <2>2, <1>2, <1>3, Zenon DEF Ds!afterLeaving
    <3>2. Ds!sendRsrcRequest(gone, "RELEASE") = "RELEASE"
      BY <2>2 DEF Ds!sendRsrcRequest
    <3> QED
      BY <3>1, <3>2, <1>2, <1>3, <1>6
         DEF DsUnsubscribed, DsTyped, Untold, Ds!Out, Ds!Tell, Ds!moveTo, Ds!Machines,
             Ds!Machine, Ds!States
  <2>3. CASE Ds!Active(gone) # {}
    <3>1. out = left
      BY <2>1, <2>3, <1>2, <1>3, Zenon DEF Ds!afterLeaving
    <3> QED
      BY <3>1, <1>1, <1>3, <1>6
         DEF DsUnsubscribed, DsTyped, Untold, Ds!Out, Ds!Tell
  <2> QED
    BY <2>2, <2>3
<1>7. CASE mm.st = "Releasing"
  <2>1. out = left
    BY <1>7, <1>2, <1>3, Zenon DEF Ds!onRsrcEvent, Ds!AgpsReleasingState, left
  <2> QED
    BY <2>1, <1>1, <1>3, <1>7
       DEF DsUnsubscribed, DsTyped, Untold, Ds!Out, Ds!Tell
<1> QED
  BY <1>4, <1>5, <1>6, <1>7

DsGranted(mm, out) ==
    /\ DsTyped(out)
    /\ out.m.subs = mm.subs
    /\ out.m.st = IF mm.st = "Pending" THEN "Acquired" ELSE mm.st
    /\ out.req = "none"
    /\ Untold(out, "RELEASED")

(* The data call is up: the sessions that wait for it are told.            *)
LEMMA DsGrantedFacts ==
    ASSUME ds \in Ds!Machines, ds.inactive \subseteq ds.subs,
           NEW out, out = onRsrcEvent("GRANTED")
    PROVE  DsGranted(ds, out)
<1>1. out = Ds!onRsrcEvent(ds, "GRANTED", NoClient, {}, "Pending")
  BY DEF onRsrcEvent
<1>2. ds.st \in {"Released", "Pending", "Acquired", "Releasing"}
  BY DEF Ds!Machines, Ds!States
<1>3. ds.st # "Pending" => out = Ds!Stay(ds)
  BY <1>1, <1>2, Zenon
     DEF Ds!onRsrcEvent, Ds!AgpsReleasedState, Ds!AgpsAcquiredState, Ds!AgpsReleasingState
<1>4. ds.st = "Pending" =>
         out = Ds!Out(Ds!moveTo(ds, "Acquired"), Ds!Tell(Ds!Active(ds), "GRANTED"), "none")
  BY <1>1, Zenon DEF Ds!onRsrcEvent, Ds!AgpsPendingState
<1> QED
  BY <1>3, <1>4
     DEF DsGranted, DsTyped, Untold, Ds!Stay, Ds!Out, Ds!Nobody, Ds!Tell, Ds!moveTo,
         Ds!Machines, Ds!Machine, Ds!States

DsClosed(mm, out) ==
    /\ DsTyped(out)
    /\ out.m.subs \subseteq mm.subs
    /\ out.req \in {"none", "REQUEST"}
    /\ out.m.st \in {"Released", "Pending"}
    /\ out.m.st = "Released" => out.req = "none"

(* The data call has ended, or never came up: ds_nif is Released, unless a *)
(* session has subscribed while the call was stopping.                     *)
LEMMA DsClosedFacts ==
    ASSUME ds \in Ds!Machines, ds.inactive \subseteq ds.subs, ds.st # "Released",
           NEW out, out = onRsrcEvent("RELEASED")
    PROVE  DsClosed(ds, out)
<1> DEFINE ended == Ds!onRsrcEvent(ds, "RELEASED", NoClient, {}, "Pending")
           denied == Ds!onRsrcEvent(ds, "DENIED", NoClient, {}, "Pending")
           kept == Ds!dropSubscribers(ds, ds.inactive)
           none == Ds!dropSubscribers(ds, ds.subs)
<1>1. out = IF ended.m.st = ds.st THEN denied ELSE ended
  BY DEF onRsrcEvent
<1>2. ds.st \in {"Pending", "Acquired", "Releasing"}
  BY DEF Ds!Machines, Ds!States
<1>3. ds.st = "Pending" =>
         /\ ended = Ds!Stay(ds)
         /\ denied = Ds!Out(Ds!moveTo(none, "Released"), Ds!Tell(ds.subs, "DENIED"), "none")
  BY Zenon DEF Ds!onRsrcEvent, Ds!AgpsPendingState
<1>4. ds.st = "Acquired" =>
         ended = Ds!Out(Ds!moveTo(none, "Released"), Ds!Tell(ds.subs, "RELEASED"), "none")
  BY Zenon DEF Ds!onRsrcEvent, Ds!AgpsAcquiredState
<1>5. ds.st = "Releasing" =>
         ended = IF Ds!Active(kept) # {}
                 THEN Ds!Out(Ds!moveTo(kept, "Pending"), Ds!Tell(ds.inactive, "RELEASED"),
                             Ds!sendRsrcRequest(kept, "REQUEST"))
                 ELSE Ds!Out(Ds!moveTo(kept, "Released"), Ds!Tell(ds.inactive, "RELEASED"),
                             "none")
  BY Zenon DEF Ds!onRsrcEvent, Ds!AgpsReleasingState
<1> HIDE DEF ended, denied
<1>6. /\ none = [st |-> ds.st, subs |-> {}, inactive |-> {}]
      /\ kept = [st |-> ds.st, subs |-> ds.subs \ ds.inactive, inactive |-> {}]
  BY DEF Ds!dropSubscribers, Ds!Machine
<1> HIDE DEF none, kept
<1>7. CASE ds.st = "Pending"
  <2>1. ended.m = ds
    BY <1>3, <1>7 DEF Ds!Stay, Ds!Out
  <2>2. out = Ds!Out(Ds!moveTo(none, "Released"), Ds!Tell(ds.subs, "DENIED"), "none")
    BY <2>1, <1>1, <1>3, <1>7
  <2> QED
    BY <2>2, <1>6 DEF DsClosed, DsTyped, Ds!Out, Ds!moveTo, Ds!Machines, Ds!Machine, Ds!States
<1>8. CASE ds.st = "Acquired"
  <2>1. ended.m.st = "Released"
    BY <1>4, <1>8 DEF Ds!Out, Ds!moveTo, Ds!Machine
  <2>2. out = Ds!Out(Ds!moveTo(none, "Released"), Ds!Tell(ds.subs, "RELEASED"), "none")
    BY <2>1, <1>1, <1>4, <1>8
  <2> QED
    BY <2>2, <1>6 DEF DsClosed, DsTyped, Ds!Out, Ds!moveTo, Ds!Machines, Ds!Machine, Ds!States
<1>9. CASE ds.st = "Releasing"
  <2>1. ended.m.st # "Releasing"
    BY <1>5, <1>9 DEF Ds!Out, Ds!moveTo, Ds!Machine
  <2>2. out = ended
    BY <2>1, <1>1, <1>9
  <2>3. kept.subs \subseteq ds.subs /\ kept.subs \subseteq Clients /\ kept.inactive = {}
    BY <1>6 DEF Ds!Machines
  <2>4. CASE Ds!Active(kept) # {}
    <3>1. Ds!sendRsrcRequest(kept, "REQUEST") = "REQUEST"
      BY <2>4 DEF Ds!sendRsrcRequest
    <3> QED
      BY <3>1, <2>2, <2>3, <2>4, <1>5, <1>9
         DEF DsClosed, DsTyped, Ds!Out, Ds!moveTo, Ds!Machines, Ds!Machine, Ds!States, Ds!Active
  <2>5. CASE Ds!Active(kept) = {}
    BY <2>2, <2>3, <2>5, <1>5, <1>9
       DEF DsClosed, DsTyped, Ds!Out, Ds!moveTo, Ds!Machines, Ds!Machine, Ds!States
  <2> QED
    BY <2>4, <2>5
<1> QED
  BY <1>2, <1>7, <1>8, <1>9

AgpsRequests == {"none", "REQUEST", "RELEASE"}
AtlTyped(out) == out.m \in Atl!Machines /\ out.req \in AgpsRequests

(* What the states make of a machine is a machine.                         *)
LEMMA AtlParts ==
    /\ \A told : \A a \in Atl!Machines, req \in AgpsRequests :
          AtlTyped(Atl!Out(a, told, req))
    /\ \A a \in Atl!Machines, st \in Atl!States : Atl!moveTo(a, st) \in Atl!Machines
    /\ \A S : \A a \in Atl!Machines : Atl!dropSubscribers(a, S) \in Atl!Machines
    /\ \A a \in Atl!Machines, c \in Clients : Atl!addSubscriber(a, c) \in Atl!Machines
    /\ \A a \in Atl!Machines, action \in {"REQUEST", "RELEASE"} :
          Atl!sendRsrcRequest(a, action) \in AgpsRequests
  BY DEF AtlTyped, AgpsRequests, Atl!Out, Atl!Machine, Atl!Machines, Atl!moveTo,
         Atl!dropSubscribers, Atl!addSubscriber, Atl!sendRsrcRequest

(* The AGNSS machine stays a machine, whatever it is told; a client that   *)
(* leaves it is deleted with the strays.                                   *)
LEMMA AtlFacts ==
    ASSUME NEW mm \in Atl!Machines, NEW ev \in Atl!Statuses, NEW c, NEW stray,
           ev = "SUBSCRIBE" => c \in Clients,
           ev = "UNSUBSCRIBE" => c \in mm.subs,
           NEW out, out = Atl!onRsrcEvent(mm, ev, c, stray, "Pending")
    PROVE  AtlTyped(out)
<1> DEFINE left == Atl!leaveList(mm, c, stray)
           added == Atl!addSubscriber(mm, c)
<1>1. mm.st \in Atl!States /\ mm.subs \subseteq Clients
  BY DEF Atl!Machines
<1>2. {"Released", "Pending", "Acquired", "Releasing"} = Atl!States
  BY DEF Atl!States
<1>3. ev \in {"SUBSCRIBE", "UNSUBSCRIBE", "GRANTED", "RELEASED", "DENIED"}
  BY DEF Atl!Statuses
<1>4. {"none", "REQUEST", "RELEASE"} = AgpsRequests
  BY DEF AgpsRequests
<1>5. ev = "SUBSCRIBE" => added \in Atl!Machines
  BY AtlParts, Zenon
<1>6. ev = "UNSUBSCRIBE" => AtlTyped(left)
  <2> SUFFICES ASSUME ev = "UNSUBSCRIBE" PROVE AtlTyped(left)
    OBVIOUS
  <2>1. ~ Atl!waitForCloseComplete(c)
    BY <1>1 DEF Atl!waitForCloseComplete
  <2> DEFINE gone == {c} \cup (stray \cap mm.subs)
  <2>2. left = Atl!Out(Atl!dropSubscribers(mm, gone), Atl!Tell(gone, "UNSUBSCRIBE"), "none")
    BY <2>1, Zenon DEF Atl!leaveList
  <2> QED
    BY <2>2, <1>4, AtlParts
<1> HIDE DEF left, added
<1>7. AtlTyped(Atl!Stay(mm))
  BY <1>4, AtlParts DEF Atl!Stay
<1>8. ev = "UNSUBSCRIBE" => AtlTyped(Atl!afterLeaving(left))
  <2> SUFFICES ASSUME ev = "UNSUBSCRIBE" PROVE AtlTyped(Atl!afterLeaving(left))
    OBVIOUS
  <2>1. left.m \in Atl!Machines
    BY <1>6 DEF AtlTyped
  <2>2. \/ \E st \in {"Released", "Releasing"} :
              Atl!afterLeaving(left) = Atl!Out(Atl!moveTo(left.m, st), left.told,
                                               Atl!sendRsrcRequest(left.m, "RELEASE"))
        \/ Atl!afterLeaving(left) = left
    BY Zenon DEF Atl!afterLeaving
  <2> QED
    BY <2>1, <2>2, <1>2, <1>6, AtlParts
<1>9. CASE mm.st = "Released"
  <2>1. out = Atl!AgpsReleasedState(mm, ev, c, "Pending")
    BY <1>9, Zenon DEF Atl!onRsrcEvent
  <2>2. CASE ev = "SUBSCRIBE"
    <3>1. out = Atl!Out(Atl!moveTo(added, "Pending"), Atl!Nobody,
                        Atl!sendRsrcRequest(added, "REQUEST"))
      BY <2>1, <2>2, Zenon DEF Atl!AgpsReleasedState, added
    <3> QED
      BY <3>1, <2>2, <1>2, <1>5, AtlParts
  <2>3. CASE ev = "UNSUBSCRIBE"
    <3>1. out = Atl!Out(mm, Atl!Tell({c}, "UNSUBSCRIBE"), "none")
      BY <2>1, <2>3, Zenon DEF Atl!AgpsReleasedState
    <3> QED
      BY <3>1, <1>4, AtlParts
  <2>4. CASE ev \notin {"SUBSCRIBE", "UNSUBSCRIBE"}
    <3>1. out = Atl!Stay(mm)
      BY <2>1, <2>4, Zenon DEF Atl!AgpsReleasedState
    <3> QED
      BY <3>1, <1>7
  <2> QED
    BY <2>2, <2>3, <2>4
<1>10. CASE mm.st = "Pending"
  <2>1. out = Atl!AgpsPendingState(mm, ev, c, stray)
    BY <1>10, Zenon DEF Atl!onRsrcEvent
  <2>2. CASE ev = "SUBSCRIBE"
    <3>1. out = Atl!Out(added, Atl!Nobody, "none")
      BY <2>1, <2>2, Zenon DEF Atl!AgpsPendingState, added
    <3> QED
      BY <3>1, <2>2, <1>4, <1>5, AtlParts
  <2>3. CASE ev = "UNSUBSCRIBE"
    <3>1. out = Atl!afterLeaving(left)
      BY <2>1, <2>3, Zenon DEF Atl!AgpsPendingState, left
    <3> QED
      BY <3>1, <2>3, <1>8
  <2>4. CASE ev = "GRANTED"
    <3>1. out = Atl!Out(Atl!moveTo(mm, "Acquired"), Atl!Tell(Atl!Active(mm), "GRANTED"), "none")
      BY <2>1, <2>4, Zenon DEF Atl!AgpsPendingState
    <3> QED
      BY <3>1, <1>2, <1>4, AtlParts
  <2>5. CASE ev = "DENIED"
    <3>1. out = Atl!Out(Atl!moveTo(Atl!dropSubscribers(mm, mm.subs), "Released"),
                        Atl!Tell(mm.subs, "DENIED"), "none")
      BY <2>1, <2>5, Zenon DEF Atl!AgpsPendingState
    <3> QED
      BY <3>1, <1>2, <1>4, AtlParts
  <2>6. CASE ev = "RELEASED"
    <3>1. out = Atl!Stay(mm)
      BY <2>1, <2>6, Zenon DEF Atl!AgpsPendingState
    <3> QED
      BY <3>1, <1>7
  <2> QED
    BY <1>3, <2>2, <2>3, <2>4, <2>5, <2>6
<1>11. CASE mm.st = "Acquired"
  <2>1. out = Atl!AgpsAcquiredState(mm, ev, c, stray)
    BY <1>11, Zenon DEF Atl!onRsrcEvent
  <2>2. CASE ev = "SUBSCRIBE"
    <3>1. out = Atl!Out(added, Atl!Tell({c}, "GRANTED"), "none")
      BY <2>1, <2>2, Zenon DEF Atl!AgpsAcquiredState, added
    <3> QED
      BY <3>1, <2>2, <1>4, <1>5, AtlParts
  <2>3. CASE ev = "UNSUBSCRIBE"
    <3>1. out = Atl!afterLeaving(left)
      BY <2>1, <2>3, Zenon DEF Atl!AgpsAcquiredState, left
    <3> QED
      BY <3>1, <2>3, <1>8
  <2>4. CASE ev = "RELEASED"
    <3>1. out = Atl!Out(Atl!moveTo(Atl!dropSubscribers(mm, mm.subs), "Released"),
                        Atl!Tell(mm.subs, "RELEASED"), "none")
      BY <2>1, <2>4, Zenon DEF Atl!AgpsAcquiredState
    <3> QED
      BY <3>1, <1>2, <1>4, AtlParts
  <2>5. CASE ev \in {"GRANTED", "DENIED"}
    <3>1. out = Atl!Stay(mm)
      BY <2>1, <2>5, Zenon DEF Atl!AgpsAcquiredState
    <3> QED
      BY <3>1, <1>7
  <2> QED
    BY <1>3, <2>2, <2>3, <2>4, <2>5
<1>12. CASE mm.st = "Releasing"
  <2>1. out = Atl!AgpsReleasingState(mm, ev, c, stray)
    BY <1>12, Zenon DEF Atl!onRsrcEvent
  <2>2. CASE ev = "SUBSCRIBE"
    <3>1. out = Atl!Out(added, Atl!Nobody, "none")
      BY <2>1, <2>2, Zenon DEF Atl!AgpsReleasingState, added
    <3> QED
      BY <3>1, <2>2, <1>4, <1>5, AtlParts
  <2>3. CASE ev = "UNSUBSCRIBE"
    <3>1. \/ out = Atl!Out(Atl!moveTo(left.m, "Released"), left.told, "none")
          \/ out = left
      BY <2>1, <2>3, Zenon DEF Atl!AgpsReleasingState, left
    <3>2. left.m \in Atl!Machines
      BY <2>3, <1>6 DEF AtlTyped
    <3> QED
      BY <3>1, <3>2, <2>3, <1>2, <1>4, <1>6, AtlParts
  <2>4. CASE ev \in {"DENIED", "RELEASED"}
    <3> DEFINE kept == Atl!dropSubscribers(mm, mm.inactive)
    <3>1. \/ out = Atl!Out(Atl!moveTo(kept, "Pending"), Atl!Tell(mm.inactive, ev),
                           Atl!sendRsrcRequest(kept, "REQUEST"))
          \/ out = Atl!Out(Atl!moveTo(kept, "Released"), Atl!Tell(mm.inactive, ev), "none")
      BY <2>1, <2>4, Zenon DEF Atl!AgpsReleasingState
    <3>2. kept \in Atl!Machines
      BY AtlParts
    <3> QED
      BY <3>1, <3>2, <1>2, <1>4, AtlParts
  <2>5. CASE ev = "GRANTED"
    <3>1. out = Atl!Stay(mm)
      BY <2>1, <2>5, Zenon DEF Atl!AgpsReleasingState
    <3> QED
      BY <3>1, <1>7
  <2> QED
    BY <1>3, <2>2, <2>3, <2>4, <2>5
<1> QED
  BY <1>1, <1>2, <1>9, <1>10, <1>11, <1>12

(***************************************************************************)
(* MsgTask takes the first message; what a handler adds are ATL requests.  *)
(***************************************************************************)
TakesMessage ==
    /\ Len(q') >= Len(q) - 1
    /\ \A i \in 1..Len(q') : IF i < Len(q) THEN q'[i] = q[i + 1] ELSE q'[i].ev = "ATL"

Lists(list, S) == \A c \in S : \E i \in 1..Len(list) : list[i] = c

(* The first active subscriber is a client when there is one.              *)
LEMMA FirstActive ==
    ASSUME NEW mm \in Ds!Machines, Ds!Active(mm) # {},
           NEW list \in Seq(Clients), Lists(list, mm.subs)
    PROVE  firstActive(list, mm) \in Clients
<1> DEFINE sub == Sublist(list, Ds!Active(mm))
<1>1. SublistOutcome(Clients, list, Ds!Active(mm), sub)
  BY SublistFacts
<1>2. PICK c \in Ds!Active(mm) : TRUE
  OBVIOUS
<1>3. c \in mm.subs
  BY <1>2 DEF Ds!Active
<1>4. PICK j \in 1..Len(list) : list[j] = c
  BY <1>3 DEF Lists
<1> HIDE DEF sub
<1>5. \E k \in 1..Len(sub) : sub[k] = c
  BY <1>1, <1>2, <1>4 DEF SublistOutcome
<1>6. sub \in Seq(Clients) /\ Len(sub) \in Nat /\ Len(sub) >= 1
  BY <1>1, <1>5 DEF SublistOutcome
<1>7. sub[1] \in Clients
  BY <1>6
<1> QED
  BY <1>7 DEF firstActive, sub

LEMMA Concatenated ==
    ASSUME NEW S, NEW a \in Seq(S), NEW b \in Seq(S)
    PROVE  /\ a \o b \in Seq(S) /\ Len(a \o b) = Len(a) + Len(b)
           /\ \A i \in 1..Len(a) : (a \o b)[i] = a[i]
           /\ \A i \in (Len(a) + 1)..(Len(a) + Len(b)) : (a \o b)[i] = b[i - Len(a)]
<1>1. a \o b \in Seq(S) /\ Len(a \o b) = Len(a) + Len(b)
  OBVIOUS
<1>2. ASSUME NEW i \in 1..(Len(a) + Len(b))
      PROVE (a \o b)[i] = IF i <= Len(a) THEN a[i] ELSE b[i - Len(a)]
  OBVIOUS
<1> QED
  BY <1>1, <1>2

(* The effects of an event of ds_nif keep the types, and MsgTask has taken *)
(* the message.                                                            *)
LEMMA DsHandled ==
    ASSUME DsTypeOK, q # <<>>, NEW out, DsTyped(out), NEW list \in Seq(Clients),
           Lists(list, out.m.subs), NEW outcome \in StartOutcomes,
           DsHandle(out, list, outcome)
    PROVE  DsTypeOK' /\ TakesMessage
<1> DEFINE starts == out.req = "REQUEST"
           toDeny == {c \in Clients : out.told[c] = "DENIED"}
           fallback == IF starts /\ givesUp(outcome)
                       THEN <<firstActive(list, out.m)>> ELSE Sublist(list, toDeny)
           added == [i \in 1..Len(fallback) |-> Msg("ATL", fallback[i])]
<1>1. /\ q' = Tail(q) \o added
      /\ ds' = out.m /\ order' = Sublist(list, out.m.subs)
      /\ mRetries' = retriesAfter(fallback # <<>>, starts /\ outcome = "BUSY")
      /\ UNCHANGED <<agnss, fwq>>
  BY DEF DsHandle
<1>2. fallback \in Seq(Clients)
  <2>1. starts => firstActive(list, out.m) \in Clients
    BY FirstActive DEF DsTyped
  <2>2. Sublist(list, toDeny) \in Seq(Clients)
    BY SublistFacts DEF SublistOutcome
  <2> QED
    BY <2>1, <2>2
<1>3. starts /\ givesUp(outcome) => fallback # <<>>
  OBVIOUS
<1> HIDE DEF fallback, toDeny
<1>4. Len(fallback) \in Nat /\ \A i \in 1..Len(fallback) : fallback[i] \in Clients
  BY <1>2
<1>5. /\ added \in Seq(Msgs) /\ Len(added) = Len(fallback)
      /\ \A i \in 1..Len(added) : added[i].ev = "ATL"
  <2>1. \A i \in 1..Len(fallback) : Msg("ATL", fallback[i]) \in Msgs
    BY <1>4 DEF Msg, Msgs
  <2>2. \A i \in 1..Len(fallback) : Msg("ATL", fallback[i]).ev = "ATL"
    BY DEF Msg
  <2> QED
    BY <1>4, <2>1, <2>2
<1> HIDE DEF added
<1>6. q \in Seq(Msgs)
  BY DEF DsTypeOK
<1>7. /\ Tail(q) \in Seq(Msgs) /\ Len(Tail(q)) = Len(q) - 1
      /\ \A i \in 1..(Len(q) - 1) : Tail(q)[i] = q[i + 1]
      /\ Len(q) \in Nat \ {0}
  BY <1>6
<1>8. q' \in Seq(Msgs) /\ TakesMessage
  <2> DEFINE rest == Tail(q)
  <2>1. /\ rest \in Seq(Msgs) /\ Len(rest) = Len(q) - 1
        /\ \A i \in 1..(Len(q) - 1) : rest[i] = q[i + 1]
        /\ q' = rest \o added
    BY <1>1, <1>7
  <2> HIDE DEF rest
  <2>2. /\ q' \in Seq(Msgs) /\ Len(q') = Len(rest) + Len(added)
        /\ \A i \in 1..Len(rest) : q'[i] = rest[i]
        /\ \A i \in (Len(rest) + 1)..(Len(rest) + Len(added)) : q'[i] = added[i - Len(rest)]
    <3>1. rest \in Seq(Msgs) /\ added \in Seq(Msgs) /\ q' = rest \o added
      BY <2>1, <1>5
    <3> QED
      BY <3>1, Concatenated, Zenon
  <2>3. Len(added) \in Nat
    BY <1>4, <1>5
  <2>4. ASSUME NEW i \in 1..Len(q')
        PROVE  IF i < Len(q) THEN q'[i] = q[i + 1] ELSE q'[i].ev = "ATL"
    <3>1. CASE i < Len(q)
      BY <3>1, <2>1, <2>2, <2>3, <1>7
    <3>2. CASE ~ (i < Len(q))
      <4>1. i - Len(rest) \in 1..Len(added) /\ q'[i] = added[i - Len(rest)]
        BY <3>2, <2>1, <2>2, <2>3, <1>7
      <4> QED
        BY <4>1, <3>2, <1>5
    <3> QED
      BY <3>1, <3>2
  <2>5. Len(q') >= Len(q) - 1
    BY <2>1, <2>2, <2>3, <1>7
  <2> QED
    BY <2>2, <2>4, <2>5 DEF TakesMessage
<1>9. ds' \in Ds!Machines /\ ds'.inactive \subseteq ds'.subs
  BY <1>1 DEF DsTyped
<1>10. order' \in Seq(Clients) /\ {order'[i] : i \in 1..Len(order')} = ds'.subs
  <2>1. SublistOutcome(Clients, list, out.m.subs, order')
    BY <1>1, SublistFacts
  <2>2. order' \in Seq(Clients) /\ \A k \in 1..Len(order') : order'[k] \in out.m.subs
    BY <2>1 DEF SublistOutcome
  <2>3. ASSUME NEW c \in out.m.subs PROVE \E k \in 1..Len(order') : order'[k] = c
    <3>1. PICK j \in 1..Len(list) : list[j] = c
      BY <2>3 DEF Lists
    <3> QED
      BY <3>1, <2>1 DEF SublistOutcome
  <2>4. {order'[i] : i \in 1..Len(order')} \subseteq out.m.subs
    BY <2>2
  <2>5. out.m.subs \subseteq {order'[i] : i \in 1..Len(order')}
    BY <2>3
  <2> QED
    BY <2>2, <2>4, <2>5, <1>1
<1>11. mRetries' \in 0..MAX_START_DATA_CALL_RETRIES
  <2>1. mRetries \in 0..MAX_START_DATA_CALL_RETRIES
    BY DEF DsTypeOK
  <2>2. fallback # <<>> => mRetries' = 0
    BY <1>1 DEF retriesAfter
  <2>3. fallback = <<>> /\ ~ (starts /\ outcome = "BUSY") => mRetries' = mRetries
    BY <1>1 DEF retriesAfter
  <2>4. fallback = <<>> /\ starts /\ outcome = "BUSY" =>
           /\ mRetries' = mRetries + 1
           /\ ~ (mRetries + 1 > MAX_START_DATA_CALL_RETRIES)
    BY <1>1, <1>3 DEF retriesAfter, givesUp
  <2> QED
    BY <2>1, <2>2, <2>3, <2>4, RetriesAssumption
<1>12. timers' \in Nat
  BY DEF DsHandle, DsTypeOK
<1>13. dataCall' \in {"none", "starting", "up", "stopping"}
  BY DEF DsHandle, DsTypeOK
<1>14. view' \in [Clients -> {"idle", "waiting", "using", "closing", "done"}]
  <2> DEFINE V == {"idle", "waiting", "using", "closing", "done"}
             heard(c) == CASE out.told[c] = "GRANTED" -> opened(view[c])
                           [] out.told[c] = "UNSUBSCRIBE" -> "done"
                           [] OTHER -> view[c]
  <2>1. view' = [c \in Clients |-> heard(c)]
    BY DEF DsHandle
  <2>2. ASSUME NEW c \in Clients PROVE heard(c) \in {view[c], opened(view[c]), "done"}
    BY Zenon
  <2>3. \A c \in Clients : view[c] \in V
    BY DEF DsTypeOK
  <2> HIDE DEF heard
  <2>4. \A c \in Clients : heard(c) \in V
    BY <2>2, <2>3 DEF opened
  <2> QED
    BY <2>1, <2>4
<1> QED
  BY <1>1, <1>8, <1>9, <1>10, <1>11, <1>12, <1>13, <1>14 DEF DsTypeOK

DsReports == /\ NoOrphanCall /\ GrantHasCall
             /\ StopsInReleasing /\ ClosedIsLast /\ OpenedIsBacked

(* No report of the data call is left in the queue.                        *)
Unreported == ~ InQueue("OPENED") /\ ~ InQueue("CLOSED")

LEMMA UnreportedIsInOrder == Unreported' => ClosedIsLast' /\ OpenedIsBacked'
  BY DEF Unreported, InQueue, ClosedIsLast, OpenedIsBacked

(* What taking a message does to the reports of the data call: nothing,    *)
(* but that a report at the head is gone.                                  *)
LEMMA ReportsTaken ==
    ASSUME DsInv, q # <<>>, q' \in Seq(Msgs), TakesMessage
    PROVE  /\ Unreported => Unreported'
           /\ Head(q).ev # "CLOSED" /\ InQueue("CLOSED") => InQueue("CLOSED")'
           /\ Head(q).ev = "CLOSED" => Unreported'
           /\ Head(q).ev = "OPENED" => dataCall \in {"up", "stopping"} \/ InQueue("CLOSED")'
           /\ \/ dataCall' = dataCall
              \/ dataCall' = "stopping" /\ dataCall # "none"
              => ClosedIsLast' /\ OpenedIsBacked'
<1>1. /\ q \in Seq(Msgs) /\ Len(q) \in Nat \ {0} /\ Head(q) = q[1]
      /\ q' \in Seq(Msgs) /\ Len(q') \in Nat
  BY DEF DsInv, DsTypeOK
<1>2. ASSUME NEW i \in 1..Len(q'), q'[i].ev \in {"OPENED", "CLOSED"}
      PROVE  i + 1 \in 1..Len(q) /\ q'[i] = q[i + 1]
  <2>1. i < Len(q) /\ q'[i] = q[i + 1]
    BY <1>2 DEF TakesMessage
  <2> QED
    BY <2>1, <1>1
<1>3. ASSUME NEW j \in 1..Len(q), j # 1
      PROVE  j - 1 \in 1..Len(q') /\ q'[j - 1] = q[j]
  <2>1. j - 1 \in 1..Len(q') /\ j - 1 < Len(q) /\ (j - 1) + 1 = j
    BY <1>1, <1>3 DEF TakesMessage
  <2> QED
    BY <2>1 DEF TakesMessage
<1>4. ClosedIsLast /\ OpenedIsBacked
  BY DEF DsInv
<1>5. Unreported => Unreported'
  BY <1>2 DEF Unreported, InQueue
<1>6. Head(q).ev # "CLOSED" /\ InQueue("CLOSED") => InQueue("CLOSED")'
  BY <1>1, <1>3 DEF InQueue
<1>7. Head(q).ev = "CLOSED" => Unreported'
  <2> SUFFICES ASSUME q[1].ev = "CLOSED", NEW i \in 1..Len(q'),
                      q'[i].ev \in {"OPENED", "CLOSED"}
               PROVE  FALSE
    BY <1>1 DEF Unreported, InQueue
  <2>1. i + 1 \in (1 + 1)..Len(q) /\ q[i + 1].ev \in {"OPENED", "CLOSED"}
    BY <1>1, <1>2
  <2>2. 1 \in 1..Len(q)
    BY <1>1
  <2> QED
    BY <2>1, <2>2, <1>4 DEF ClosedIsLast
<1>8. Head(q).ev = "OPENED" => dataCall \in {"up", "stopping"} \/ InQueue("CLOSED")'
  <2> SUFFICES ASSUME q[1].ev = "OPENED", dataCall \notin {"up", "stopping"}
               PROVE  InQueue("CLOSED")'
    BY <1>1
  <2>1. PICK j \in (1 + 1)..Len(q) : q[j].ev = "CLOSED"
    BY <1>1, <1>4 DEF OpenedIsBacked
  <2>2. j \in 1..Len(q) /\ j # 1
    OBVIOUS
  <2> QED
    BY <2>1, <2>2, <1>3 DEF InQueue
<1>9. ASSUME \/ dataCall' = dataCall
             \/ dataCall' = "stopping" /\ dataCall # "none"
      PROVE  ClosedIsLast' /\ OpenedIsBacked'
  <2>1. ASSUME NEW i \in 1..Len(q'), q'[i].ev = "CLOSED"
        PROVE  /\ dataCall' = "none"
               /\ \A j \in (i + 1)..Len(q') : q'[j].ev \notin {"OPENED", "CLOSED"}
    <3>1. i + 1 \in 1..Len(q) /\ q[i + 1].ev = "CLOSED"
      BY <2>1, <1>2
    <3>2. /\ dataCall = "none"
          /\ \A j \in ((i + 1) + 1)..Len(q) : q[j].ev \notin {"OPENED", "CLOSED"}
      BY <3>1, <1>4 DEF ClosedIsLast
    <3>3. ASSUME NEW j \in (i + 1)..Len(q'), q'[j].ev \in {"OPENED", "CLOSED"}
          PROVE  FALSE
      <4>1. j \in 1..Len(q')
        BY <1>1
      <4>2. j + 1 \in 1..Len(q) /\ q'[j] = q[j + 1]
        BY <4>1, <3>3, <1>2
      <4>3. j + 1 \in ((i + 1) + 1)..Len(q)
        BY <4>2, <1>1
      <4> QED
        BY <4>2, <4>3, <3>2, <3>3
    <3> QED
      BY <3>2, <3>3, <1>9
  <2>2. ASSUME NEW i \in 1..Len(q'), q'[i].ev = "OPENED"
        PROVE  \/ dataCall' \in {"up", "stopping"}
               \/ \E j \in (i + 1)..Len(q') : q'[j].ev = "CLOSED"
    <3>1. i + 1 \in 1..Len(q) /\ q[i + 1].ev = "OPENED"
      BY <2>2, <1>2
    <3>2. CASE dataCall \in {"up", "stopping"}
      BY <3>2, <1>9
    <3>3. CASE \E j \in ((i + 1) + 1)..Len(q) : q[j].ev = "CLOSED"
      <4>1. PICK j \in ((i + 1) + 1)..Len(q) : q[j].ev = "CLOSED"
        BY <3>3
      <4>2. j \in 1..Len(q) /\ j # 1 /\ j - 1 >= i + 1
        BY <1>1, <3>1
      <4>3. j - 1 \in (i + 1)..Len(q') /\ q'[j - 1] = q[j]
        BY <4>2, <1>3, <1>1
      <4> QED
        BY <4>1, <4>3
    <3> QED
      BY <3>1, <3>2, <3>3, <1>4 DEF OpenedIsBacked
  <2> QED
    BY <2>1, <2>2 DEF ClosedIsLast, OpenedIsBacked
<1> QED
  BY <1>5, <1>6, <1>7, <1>8, <1>9

(* A message that is no report of the data call changes nothing for it.    *)
LEMMA OtherAdded ==
    ASSUME DsInv, NEW msg \in Msgs, msg.ev \notin {"OPENED", "CLOSED"},
           q' = Append(q, msg), ds' = ds, dataCall' = dataCall
    PROVE  q' \in Seq(Msgs) /\ DsReports'
<1>1. /\ q \in Seq(Msgs) /\ Len(q) \in Nat /\ q' \in Seq(Msgs) /\ Len(q') = Len(q) + 1
      /\ \A i \in 1..Len(q) : q'[i] = q[i]
      /\ q'[Len(q) + 1] = msg
  BY DEF DsInv, DsTypeOK
<1>2. ASSUME NEW i \in 1..Len(q'), q'[i].ev \in {"OPENED", "CLOSED"}
      PROVE  i \in 1..Len(q) /\ q'[i] = q[i]
  BY <1>1, <1>2
<1>3. 1..Len(q) \subseteq 1..Len(q')
  BY <1>1
<1>4. \A ev \in {"OPENED", "CLOSED"} : InQueue(ev)' <=> InQueue(ev)
  BY <1>1, <1>2, <1>3 DEF InQueue
<1>5. NoOrphanCall' /\ GrantHasCall' /\ StopsInReleasing'
  BY <1>4 DEF DsInv, NoOrphanCall, GrantHasCall, StopsInReleasing
<1>6. ASSUME NEW i \in 1..Len(q'), q'[i].ev = "CLOSED"
      PROVE  /\ dataCall' = "none"
             /\ \A j \in (i + 1)..Len(q') : q'[j].ev \notin {"OPENED", "CLOSED"}
  <2>1. i \in 1..Len(q) /\ q[i].ev = "CLOSED"
    BY <1>2, <1>6
  <2>2. /\ dataCall = "none"
        /\ \A j \in (i + 1)..Len(q) : q[j].ev \notin {"OPENED", "CLOSED"}
    BY <2>1 DEF DsInv, ClosedIsLast
  <2>3. ASSUME NEW j \in (i + 1)..Len(q'), q'[j].ev \in {"OPENED", "CLOSED"}
        PROVE  FALSE
    <3>1. j \in 1..Len(q')
      BY <1>1
    <3>2. j \in (i + 1)..Len(q) /\ q'[j] = q[j]
      BY <3>1, <2>3, <1>1, <1>2
    <3> QED
      BY <3>2, <2>2, <2>3
  <2> QED
    BY <2>2, <2>3
<1>7. ASSUME NEW i \in 1..Len(q'), q'[i].ev = "OPENED"
      PROVE  \/ dataCall' \in {"up", "stopping"}
             \/ \E j \in (i + 1)..Len(q') : q'[j].ev = "CLOSED"
  <2>1. i \in 1..Len(q) /\ q[i].ev = "OPENED"
    BY <1>2, <1>7
  <2>2. \/ dataCall \in {"up", "stopping"}
        \/ \E j \in (i + 1)..Len(q) : q[j].ev = "CLOSED"
    BY <2>1 DEF DsInv, OpenedIsBacked
  <2>3. ASSUME NEW j \in (i + 1)..Len(q), q[j].ev = "CLOSED"
        PROVE  j \in (i + 1)..Len(q') /\ q'[j] = q[j]
    BY <1>1, <2>1
  <2> QED
    BY <2>2, <2>3
<1> QED
  BY <1>1, <1>5, <1>6, <1>7 DEF DsReports, ClosedIsLast, OpenedIsBacked

LEMMA DsInitInv == DsInit => DsInv
<1> SUFFICES ASSUME DsInit PROVE DsInv
  OBVIOUS
<1>1. /\ q = <<>> /\ Len(q) = 0 /\ q \in Seq(Msgs) /\ fwq \in Seq({"REQUEST", "RELEASE"})
      /\ order = <<>> /\ order \in Seq(Clients) /\ Len(order) = 0
  BY DEF DsInit
<1>2. /\ ds \in Ds!Machines /\ ds.st = "Released" /\ ds.subs = {} /\ ds.inactive = {}
  BY DEF DsInit, Ds!NewMachine, Ds!Machine, Ds!Machines, Ds!States
<1>3. agnss \in Atl!Machines
  BY DEF DsInit, Atl!NewMachine, Atl!Machine, Atl!Machines, Atl!States
<1>4. DsTypeOK
  <2>1. {order[i] : i \in 1..Len(order)} = ds.subs
    BY <1>1, <1>2
  <2>2. mRetries \in 0..MAX_START_DATA_CALL_RETRIES
    BY RetriesAssumption DEF DsInit
  <2> QED
    BY <1>1, <1>2, <1>3, <2>1, <2>2 DEF DsTypeOK, DsInit
<1> QED
  BY <1>1, <1>2, <1>4
     DEF DsInv, DsInit, NoOrphanCall, GrantHasCall, StopsInReleasing, ClosedIsLast,
         OpenedIsBacked, InQueue

LEMMA RequestStep ==
    ASSUME NEW c \in Clients, DsInv, Request(c) \/ Release(c) PROVE DsInv'
<1>1. PICK ev \in {"SUPL_ES", "RELEASE_ATL"} : q' = Append(q, Msg(ev, c))
  BY DEF Request, Release
<1>2. Msg(ev, c) \in Msgs /\ Msg(ev, c).ev \notin {"OPENED", "CLOSED"}
  BY DEF Msg, Msgs
<1>3. UNCHANGED <<ds, order, mRetries, timers, dataCall, agnss, fwq>>
  BY DEF Request, Release
<1>4. q' \in Seq(Msgs) /\ DsReports'
  BY <1>1, <1>2, <1>3, OtherAdded
<1>5. view' \in [Clients -> {"idle", "waiting", "using", "closing", "done"}]
  BY DEF Request, Release, DsInv, DsTypeOK
<1>6. DsTypeOK'
  BY <1>3, <1>4, <1>5 DEF DsInv, DsTypeOK
<1> QED
  BY <1>4, <1>6 DEF DsInv, DsReports

(* The list holds what the machine's set of subscribers holds.             *)
LEMMA OrderLists == DsTypeOK => order \in Seq(Clients) /\ Lists(order, ds.subs)
  BY DEF DsTypeOK, Lists

LEMMA RequestSuplEsStep == ASSUME DsInv, RequestSuplEs PROVE DsInv'
<1> DEFINE c == Head(q).c
           list == IF c \in ds.subs THEN order ELSE <<c>> \o order
<1>1. q # <<>> /\ Head(q).ev = "SUPL_ES" /\ q \in Seq(Msgs)
  BY DEF RequestSuplEs, AtHead, DsInv, DsTypeOK
<1>2. c \in Clients
  <2>1. Head(q) \in Msgs
    BY <1>1
  <2> QED
    BY <2>1, <1>1 DEF Msgs
<1>3. DsTypeOK
  BY DEF DsInv
<1> HIDE DEF c
<1>4. list \in Seq(Clients) /\ Lists(list, ds.subs \cup {c})
  <2>1. order \in Seq(Clients) /\ Lists(order, ds.subs)
    BY <1>3, OrderLists
  <2>2. CASE c \in ds.subs
    BY <2>1, <2>2 DEF Lists
  <2>3. CASE c \notin ds.subs
    <3>1. <<c>> \in Seq(Clients) /\ Len(<<c>>) = 1 /\ <<c>>[1] = c
      BY <1>2
    <3>2. list = <<c>> \o order
      BY <2>3
    <3>3. /\ list \in Seq(Clients) /\ Len(list) = 1 + Len(order) /\ list[1] = c
          /\ \A i \in 1..Len(order) : list[i + 1] = order[i]
      <4>1. /\ <<c>> \o order \in Seq(Clients) /\ Len(<<c>> \o order) = 1 + Len(order)
            /\ (<<c>> \o order)[1] = c
        BY <2>1, <3>1
      <4>2. ASSUME NEW i \in 1..Len(order) PROVE (<<c>> \o order)[i + 1] = order[i]
        <5>1. Len(order) \in Nat
          BY <2>1
        <5>2. i + 1 \in 2..(1 + Len(order)) /\ (i + 1) - 1 = i
          BY <5>1
        <5> QED
          BY <5>2, <3>1, <2>1, Concatenated
      <4> QED
        BY <4>1, <4>2, <3>2
    <3>4. Len(order) \in Nat
      BY <2>1
    <3>5. \A i \in 1..Len(order) : i + 1 \in 1..Len(list)
      BY <3>3, <3>4
    <3>6. 1 \in 1..Len(list)
      BY <3>3, <3>4
    <3>7. ASSUME NEW d \in ds.subs PROVE \E k \in 1..Len(list) : list[k] = d
      <4>1. PICK i \in 1..Len(order) : order[i] = d
        BY <2>1 DEF Lists
      <4> QED
        BY <4>1, <3>3, <3>5
    <3> QED
      BY <3>3, <3>6, <3>7 DEF Lists
  <2> QED
    BY <2>2, <2>3
<1>5. PICK outcome \in StartOutcomes :
         DsHandle(Ds!onRsrcEvent(ds, "SUBSCRIBE", c, {}, stateAfterStart(outcome)),
                  list, outcome)
  BY Zenon DEF RequestSuplEs, c
<1> DEFINE next == stateAfterStart(outcome)
           out == Ds!onRsrcEvent(ds, "SUBSCRIBE", c, {}, next)
<1> HIDE DEF list, out
<1>6. next = IF outcome = "SUCCESS" THEN "Pending" ELSE "Released"
  BY DEF stateAfterStart
<1> HIDE DEF next
<1>7. DsHandle(out, list, outcome)
  BY <1>5 DEF out, next
<1>8. DsSubscribed(ds, c, next, out)
  BY <1>2, <1>3, <1>6, DsSubscribeFacts DEF DsTypeOK, out
<1>9. DsTypeOK' /\ TakesMessage
  BY <1>1, <1>3, <1>4, <1>7, <1>8, DsHandled DEF DsSubscribed
<1>10. q' \in Seq(Msgs)
  BY <1>9 DEF DsTypeOK
<1>11. ds' = out.m
  BY <1>7 DEF DsHandle
<1>12. dataCall' = IF out.req = "REQUEST" /\ outcome = "SUCCESS" THEN "starting" ELSE dataCall
  BY <1>7, <1>8 DEF DsHandle, DsSubscribed, Untold
<1>13. CASE ds.st = "Released"
  <2>1. dataCall = "none" /\ Unreported
    BY <1>13 DEF DsInv, NoOrphanCall, Unreported
  <2>2. Unreported'
    BY <2>1, <1>1, <1>9, <1>10, ReportsTaken
  <2>3. ClosedIsLast' /\ OpenedIsBacked'
    BY <2>2, UnreportedIsInOrder
  <2>4. ds'.st = next /\ dataCall' \in {"none", "starting"}
        /\ (next = "Released" => dataCall' = "none")
    BY <2>1, <1>6, <1>8, <1>11, <1>12, <1>13 DEF DsSubscribed
  <2> QED
    BY <2>2, <2>3, <2>4, <1>6, <1>9
       DEF DsInv, NoOrphanCall, GrantHasCall, StopsInReleasing, Unreported
<1>14. CASE ds.st # "Released"
  <2>1. ds'.st = ds.st /\ dataCall' = dataCall
    BY <1>8, <1>11, <1>12, <1>14 DEF DsSubscribed
  <2>2. ClosedIsLast' /\ OpenedIsBacked' /\ (InQueue("CLOSED") => InQueue("CLOSED")')
    BY <2>1, <1>1, <1>9, <1>10, ReportsTaken
  <2> QED
    BY <2>1, <2>2, <1>9, <1>14
       DEF DsInv, NoOrphanCall, GrantHasCall, StopsInReleasing
<1> QED
  BY <1>13, <1>14

LEMMA SuplEsOpenedStep == ASSUME DsInv, SuplEsOpened PROVE DsInv'
<1>1. q # <<>> /\ Head(q).ev = "OPENED" /\ DsTypeOK
  BY DEF SuplEsOpened, AtHead, DsInv
<1>2. PICK outcome \in StartOutcomes : DsHandle(onRsrcEvent("GRANTED"), order, outcome)
  BY DEF SuplEsOpened
<1> DEFINE out == onRsrcEvent("GRANTED")
<1> HIDE DEF out
<1>3. DsHandle(out, order, outcome)
  BY <1>2 DEF out
<1>4. DsGranted(ds, out)
  BY <1>1, DsGrantedFacts DEF DsTypeOK, out
<1>5. order \in Seq(Clients) /\ Lists(order, out.m.subs)
  BY <1>1, <1>4, OrderLists DEF DsGranted
<1>6. DsTypeOK' /\ TakesMessage
  BY <1>1, <1>3, <1>4, <1>5, DsHandled DEF DsGranted
<1>7. q' \in Seq(Msgs)
  BY <1>6 DEF DsTypeOK
<1>8. ds' = out.m /\ dataCall' = dataCall
  BY <1>3, <1>4 DEF DsHandle, DsGranted, Untold
<1>9. /\ ClosedIsLast' /\ OpenedIsBacked'
      /\ InQueue("CLOSED") => InQueue("CLOSED")'
      /\ dataCall \in {"up", "stopping"} \/ InQueue("CLOSED")'
  BY <1>1, <1>6, <1>7, <1>8, ReportsTaken
<1>10. InQueue("OPENED")
  <2>1. q \in Seq(Msgs)
    BY <1>1 DEF DsTypeOK
  <2>2. 1 \in 1..Len(q) /\ q[1].ev = "OPENED"
    BY <2>1, <1>1
  <2> QED
    BY <2>2 DEF InQueue
<1>11. ds.st # "Released"
  BY <1>10 DEF DsInv, NoOrphanCall
<1>12. ds'.st = IF ds.st = "Pending" THEN "Acquired" ELSE ds.st
  BY <1>4, <1>8 DEF DsGranted
<1> QED
  BY <1>6, <1>8, <1>9, <1>11, <1>12
     DEF DsInv, NoOrphanCall, GrantHasCall, StopsInReleasing

LEMMA SuplEsClosedStep == ASSUME DsInv, SuplEsClosed PROVE DsInv'
<1>1. q # <<>> /\ Head(q).ev = "CLOSED" /\ DsTypeOK
  BY DEF SuplEsClosed, AtHead, DsInv
<1>2. PICK outcome \in StartOutcomes : DsHandle(onRsrcEvent("RELEASED"), order, outcome)
  BY DEF SuplEsClosed
<1>3. 1 \in 1..Len(q) /\ q[1].ev = "CLOSED"
  <2>1. q \in Seq(Msgs)
    BY <1>1 DEF DsTypeOK
  <2> QED
    BY <2>1, <1>1
<1>4. dataCall = "none" /\ ds.st # "Released"
  BY <1>3 DEF DsInv, ClosedIsLast, NoOrphanCall, InQueue
<1> DEFINE out == onRsrcEvent("RELEASED")
<1> HIDE DEF out
<1>5. DsHandle(out, order, outcome)
  BY <1>2 DEF out
<1>6. DsClosed(ds, out)
  BY <1>1, <1>4, DsClosedFacts DEF DsTypeOK, out
<1>7. order \in Seq(Clients) /\ Lists(order, out.m.subs)
  BY <1>1, <1>6, OrderLists DEF DsClosed, Lists
<1>8. DsTypeOK' /\ TakesMessage
  BY <1>1, <1>5, <1>6, <1>7, DsHandled DEF DsClosed
<1>9. q' \in Seq(Msgs)
  BY <1>8 DEF DsTypeOK
<1>10. Unreported'
  BY <1>1, <1>8, <1>9, ReportsTaken
<1>11. ClosedIsLast' /\ OpenedIsBacked'
  BY <1>10, UnreportedIsInOrder
<1>12. /\ ds' = out.m
       /\ dataCall' = IF out.req = "REQUEST" /\ outcome = "SUCCESS" THEN "starting" ELSE "none"
  BY <1>4, <1>5, <1>6 DEF DsHandle, DsClosed
<1> QED
  BY <1>6, <1>8, <1>10, <1>11, <1>12
     DEF DsInv, NoOrphanCall, GrantHasCall, StopsInReleasing, Unreported, DsClosed

(* A message for the AGNSS machine is nothing to the data call.            *)
LEMMA AgnssHandled ==
    ASSUME DsInv, q # <<>>, Head(q).ev \notin {"OPENED", "CLOSED"},
           NEW out, AtlTyped(out), AgnssHandle(out)
    PROVE  DsInv'
<1>1. q \in Seq(Msgs) /\ fwq \in Seq({"REQUEST", "RELEASE"})
  BY DEF DsInv, DsTypeOK
<1>2. /\ q' = Tail(q) /\ agnss' = out.m
      /\ fwq' = IF out.req = "none" THEN fwq ELSE Append(fwq, out.req)
      /\ UNCHANGED <<ds, order, mRetries, timers, dataCall>>
  BY DEF AgnssHandle
<1>3. q' \in Seq(Msgs) /\ TakesMessage
  <2>1. /\ Len(q) \in Nat \ {0}
        /\ q' \in Seq(Msgs) /\ Len(q') = Len(q) - 1
        /\ \A i \in 1..Len(q') : q'[i] = q[i + 1]
    BY <1>1, <1>2
  <2> QED
    BY <2>1 DEF TakesMessage
<1>4. fwq' \in Seq({"REQUEST", "RELEASE"})
  <2>1. out.req \in {"none", "REQUEST", "RELEASE"}
    BY DEF AtlTyped, AgpsRequests
  <2> QED
    BY <2>1, <1>1, <1>2
<1>5. view' \in [Clients -> {"idle", "waiting", "using", "closing", "done"}]
  <2> DEFINE V == {"idle", "waiting", "using", "closing", "done"}
             heard(c) == CASE out.told[c] = "none" -> view[c]
                           [] out.told[c] = "GRANTED" -> opened(view[c])
                           [] OTHER -> "done"
  <2>1. view' = [c \in Clients |-> heard(c)]
    BY DEF AgnssHandle
  <2>2. ASSUME NEW c \in Clients PROVE heard(c) \in {view[c], opened(view[c]), "done"}
    BY Zenon
  <2>3. \A c \in Clients : view[c] \in V
    BY DEF DsInv, DsTypeOK
  <2> HIDE DEF heard
  <2>4. \A c \in Clients : heard(c) \in V
    BY <2>2, <2>3 DEF opened
  <2> QED
    BY <2>1, <2>4
<1>6. agnss' \in Atl!Machines
  BY <1>2 DEF AtlTyped
<1>7. DsTypeOK'
  BY <1>2, <1>3, <1>4, <1>5, <1>6 DEF DsInv, DsTypeOK
<1>8. /\ ClosedIsLast' /\ OpenedIsBacked'
      /\ InQueue("CLOSED") => InQueue("CLOSED")'
      /\ Unreported => Unreported'
  BY <1>2, <1>3, ReportsTaken
<1> QED
  BY <1>2, <1>7, <1>8
     DEF DsInv, NoOrphanCall, GrantHasCall, StopsInReleasing, Unreported

LEMMA ReleaseATLStep == ASSUME DsInv, ReleaseATL PROVE DsInv'
<1> DEFINE c == Head(q).c
<1>1. q # <<>> /\ Head(q).ev = "RELEASE_ATL" /\ DsTypeOK
  BY DEF ReleaseATL, AtHead, DsInv
<1>2. agnss \in Atl!Machines
  BY <1>1 DEF DsTypeOK
<1>3. CASE c \in agnss.subs
  <2>1. PICK stray \in SUBSET (agnss.subs \ {c}) :
           AgnssHandle(Atl!onRsrcEvent(agnss, "UNSUBSCRIBE", c, stray, "Pending"))
    BY <1>3, Zenon DEF ReleaseATL
  <2>2. AtlTyped(Atl!onRsrcEvent(agnss, "UNSUBSCRIBE", c, stray, "Pending"))
    <3>1. "UNSUBSCRIBE" \in Atl!Statuses
      BY DEF Atl!Statuses
    <3> HIDE DEF c
    <3> QED
      BY <3>1, <1>2, <1>3, AtlFacts
  <2> QED
    BY <2>1, <2>2, <1>1, AgnssHandled
<1>4. CASE c \notin agnss.subs /\ c \in ds.subs
  <2> DEFINE out == Ds!onRsrcEvent(ds, "UNSUBSCRIBE", c, {}, "Pending")
  <2>1. DsHandle(out, order, "SUCCESS")
    BY <1>4, Zenon DEF ReleaseATL
  <2>2. DsUnsubscribed(ds, out)
    BY <1>1, <1>4, DsUnsubscribeFacts DEF DsTypeOK
  <2> HIDE DEF out
  <2>3. order \in Seq(Clients) /\ Lists(order, out.m.subs)
    BY <2>2, <1>1, OrderLists DEF DsUnsubscribed
  <2>4. "SUCCESS" \in StartOutcomes
    BY DEF StartOutcomes
  <2>5. DsTypeOK' /\ TakesMessage
    BY <2>1, <2>2, <2>3, <2>4, <1>1, DsHandled DEF DsUnsubscribed
  <2>6. q' \in Seq(Msgs)
    BY <2>5 DEF DsTypeOK
  <2>7. /\ ds' = out.m
        /\ dataCall' = IF out.req = "RELEASE" /\ dataCall # "none" THEN "stopping" ELSE dataCall
    BY <2>1, <2>2 DEF DsHandle, DsUnsubscribed, Untold
  <2>8. /\ ClosedIsLast' /\ OpenedIsBacked'
        /\ InQueue("CLOSED") => InQueue("CLOSED")'
        /\ Unreported => Unreported'
    BY <2>5, <2>6, <2>7, <1>1, ReportsTaken
  <2>9. ds.st \in {"Released", "Pending", "Acquired", "Releasing"}
    BY <1>1 DEF DsTypeOK, Ds!Machines, Ds!States
  <2> QED
    BY <2>2, <2>5, <2>7, <2>8, <2>9
       DEF DsInv, NoOrphanCall, GrantHasCall, StopsInReleasing, Unreported, DsUnsubscribed
<1>5. CASE c \notin agnss.subs /\ c \notin ds.subs
  <2> DEFINE out == Atl!Out(agnss, Atl!Tell({c}, "UNSUBSCRIBE"), "none")
  <2>1. AgnssHandle(out)
    BY <1>5, Zenon DEF ReleaseATL
  <2>2. AtlTyped(out)
    BY <1>2 DEF AtlTyped, AgpsRequests, Atl!Out
  <2> QED
    BY <2>1, <2>2, <1>1, AgnssHandled
<1> QED
  BY <1>3, <1>4, <1>5

LEMMA RequestATLStep == ASSUME DsInv, RequestATL PROVE DsInv'
<1> DEFINE c == Head(q).c
           out == Atl!onRsrcEvent(agnss, "SUBSCRIBE", c, {}, "Pending")
<1>1. q # <<>> /\ Head(q).ev = "ATL" /\ q \in Seq(Msgs) /\ agnss \in Atl!Machines
  BY DEF RequestATL, AtHead, DsInv, DsTypeOK
<1>2. AgnssHandle(out)
  BY DEF RequestATL
<1>3. c \in Clients
  <2>1. Head(q) \in Msgs
    BY <1>1
  <2> QED
    BY <2>1, <1>1 DEF Msgs
<1>4. "SUBSCRIBE" \in Atl!Statuses
  BY DEF Atl!Statuses
<1> HIDE DEF c
<1>5. AtlTyped(out)
  BY <1>1, <1>3, <1>4, AtlFacts
<1> QED
  BY <1>1, <1>2, <1>5, AgnssHandled

LEMMA AgnssEventStep ==
    ASSUME NEW ev \in {"GRANTED", "DENIED", "RELEASED"}, DsInv, AgnssEvent(ev) PROVE DsInv'
<1> DEFINE out == Atl!onRsrcEvent(agnss, ev, NoClient, {}, "Pending")
<1>1. q # <<>> /\ Head(q).ev = ev /\ agnss \in Atl!Machines
  BY DEF AgnssEvent, AtHead, DsInv, DsTypeOK
<1>2. AgnssHandle(out)
  BY DEF AgnssEvent
<1>3. ev \in Atl!Statuses
  BY DEF Atl!Statuses
<1>4. AtlTyped(out)
  BY <1>1, <1>3, AtlFacts
<1> QED
  BY <1>1, <1>2, <1>4, AgnssHandled

LEMMA RetryStep == ASSUME DsInv, retryCallback PROVE DsInv'
<1>1. UNCHANGED <<ds, order, mRetries, dataCall, agnss, fwq, view>> /\ timers' \in Nat
  BY DEF retryCallback, DsInv, DsTypeOK
<1>2. CASE Ds!Active(ds) = {}
  <2>1. q' = q
    BY <1>2 DEF retryCallback
  <2> QED
    BY <2>1, <1>1
       DEF DsInv, DsTypeOK, NoOrphanCall, GrantHasCall, StopsInReleasing, ClosedIsLast,
           OpenedIsBacked, InQueue
<1>3. CASE Ds!Active(ds) # {}
  <2> DEFINE c == firstActive(order, ds)
  <2>1. q' = Append(q, Msg("SUPL_ES", c))
    BY <1>3 DEF retryCallback
  <2>2. c \in Clients
    <3>1. order \in Seq(Clients) /\ Lists(order, ds.subs) /\ ds \in Ds!Machines
      BY OrderLists DEF DsInv, DsTypeOK
    <3> QED
      BY <3>1, <1>3, FirstActive
  <2> HIDE DEF c
  <2>3. Msg("SUPL_ES", c) \in Msgs /\ Msg("SUPL_ES", c).ev \notin {"OPENED", "CLOSED"}
    BY <2>2 DEF Msg, Msgs
  <2>4. q' \in Seq(Msgs) /\ DsReports'
    BY <2>1, <2>3, <1>1, OtherAdded
  <2>5. DsTypeOK'
    BY <2>4, <1>1 DEF DsInv, DsTypeOK
  <2> QED
    BY <2>4, <2>5 DEF DsInv, DsReports
<1> QED
  BY <1>2, <1>3

LEMMA FwAgnssStep == ASSUME DsInv, FwAgnss PROVE DsInv'
<1>1. UNCHANGED <<ds, order, mRetries, timers, dataCall, agnss, view>>
  BY DEF FwAgnss
<1>2. PICK ev \in {"GRANTED", "DENIED", "RELEASED"} : q' = Append(q, Msg(ev, NoClient))
  BY DEF FwAgnss
<1>3. Msg(ev, NoClient) \in Msgs /\ Msg(ev, NoClient).ev \notin {"OPENED", "CLOSED"}
  BY DEF Msg, Msgs
<1>4. q' \in Seq(Msgs) /\ DsReports'
  BY <1>1, <1>2, <1>3, OtherAdded
<1>5. fwq' \in Seq({"REQUEST", "RELEASE"})
  <2>1. fwq \in Seq({"REQUEST", "RELEASE"}) /\ fwq # <<>> /\ fwq' = Tail(fwq)
    BY DEF FwAgnss, DsInv, DsTypeOK
  <2> QED
    BY <2>1
<1>6. DsTypeOK'
  BY <1>1, <1>4, <1>5 DEF DsInv, DsTypeOK
<1> QED
  BY <1>4, <1>6 DEF DsInv, DsReports

(* A report of the data call: of one that comes up, or that ends.          *)
LEMMA DsiStep ==
    ASSUME DsInv, Dsi \/ DsiConnectedAgain \/ DsiDropped PROVE DsInv'
<1>1. PICK ev \in {"OPENED", "CLOSED"}, to \in {"up", "none"} :
         /\ DsiEvent(ev, to)
         /\ ev = "OPENED" <=> to = "up"
         /\ dataCall # "none"
         /\ ev = "OPENED" => dataCall # "stopping"
  BY DEF Dsi, DsiConnected, DsiConnectedAgain, DsiFailed, DsiStopped, DsiDropped
<1>2. /\ q' = Append(q, Msg(ev, NoClient)) /\ dataCall' = to
      /\ UNCHANGED <<ds, order, mRetries, timers, agnss, fwq, view>>
  BY <1>1 DEF DsiEvent
<1> DEFINE msg == Msg(ev, NoClient)
<1>3. msg \in Msgs /\ msg.ev = ev
  BY DEF Msg, Msgs
<1> HIDE DEF msg
<1>4. /\ q \in Seq(Msgs) /\ Len(q) \in Nat /\ q' \in Seq(Msgs) /\ Len(q') = Len(q) + 1
      /\ \A i \in 1..Len(q) : q'[i] = q[i]
      /\ q'[Len(q) + 1] = msg
  BY <1>2, <1>3 DEF DsInv, DsTypeOK, msg
<1>5. \A i \in 1..Len(q) : q'[i].ev # "CLOSED"
  BY <1>1, <1>4 DEF DsInv, ClosedIsLast
<1>6. Len(q) + 1 \in 1..Len(q') /\ q'[Len(q) + 1].ev = ev
  BY <1>3, <1>4
<1>7. \A i \in 1..Len(q') : i \in 1..Len(q) \/ i = Len(q) + 1
  BY <1>4
<1>8. ds.st # "Released"
  BY <1>1 DEF DsInv, NoOrphanCall
<1>9. DsTypeOK'
  BY <1>2, <1>4 DEF DsInv, DsTypeOK
<1>10. ClosedIsLast'
  <2> SUFFICES ASSUME NEW i \in 1..Len(q'), q'[i].ev = "CLOSED"
               PROVE  /\ dataCall' = "none"
                      /\ \A j \in (i + 1)..Len(q') : q'[j].ev \notin {"OPENED", "CLOSED"}
    BY DEF ClosedIsLast
  <2>1. i = Len(q) + 1
    BY <1>5, <1>7
  <2>2. (i + 1)..Len(q') = {}
    BY <2>1, <1>4
  <2>3. ev = "CLOSED"
    BY <2>1, <1>6
  <2> QED
    BY <2>2, <2>3, <1>1, <1>2
<1>11. OpenedIsBacked'
  <2> SUFFICES ASSUME NEW i \in 1..Len(q'), q'[i].ev = "OPENED", dataCall' \notin {"up", "stopping"}
               PROVE  \E j \in (i + 1)..Len(q') : q'[j].ev = "CLOSED"
    BY DEF OpenedIsBacked
  <2>1. ev = "CLOSED"
    BY <1>1, <1>2
  <2>2. i # Len(q) + 1
    BY <2>1, <1>6
  <2>3. Len(q) + 1 \in (i + 1)..Len(q')
    BY <2>2, <1>4, <1>7
  <2> QED
    BY <2>1, <2>3, <1>6
<1>12. NoOrphanCall' /\ GrantHasCall' /\ StopsInReleasing'
  <2>1. to = "none" => InQueue("CLOSED")'
    BY <1>1, <1>6 DEF InQueue
  <2> QED
    BY <2>1, <1>1, <1>2, <1>8 DEF NoOrphanCall, GrantHasCall, StopsInReleasing
<1> QED
  BY <1>9, <1>10, <1>11, <1>12 DEF DsInv

LEMMA DsInvStep == DsInv /\ [DsNext]_dsVars => DsInv'
<1> SUFFICES ASSUME DsInv, [DsNext]_dsVars PROVE DsInv'
  OBVIOUS
<1>1. CASE \E c \in Clients : Request(c) \/ Release(c)
  BY <1>1, RequestStep
<1>2. CASE DsMsgTask
  BY <1>2, RequestSuplEsStep, SuplEsOpenedStep, SuplEsClosedStep, RequestATLStep,
     ReleaseATLStep, AgnssEventStep DEF DsMsgTask
<1>3. CASE retryCallback
  BY <1>3, RetryStep
<1>4. CASE FwAgnss
  BY <1>4, FwAgnssStep
<1>5. CASE Dsi \/ DsiConnectedAgain \/ DsiDropped
  BY <1>5, DsiStep
<1>6. CASE UNCHANGED dsVars
  BY <1>6
     DEF dsVars, DsInv, DsTypeOK, NoOrphanCall, GrantHasCall, StopsInReleasing, ClosedIsLast,
         OpenedIsBacked, InQueue
<1> QED
  BY <1>1, <1>2, <1>3, <1>4, <1>5, <1>6 DEF DsNext

(* DsInv is an invariant of the emergency SUPL machine, however the starts *)
(* of its data call end and whenever its timers and reports arrive.        *)
THEOREM DsInvariance == DsSpec => []DsInv
<1>1. DsInit => DsInv
  BY DsInitInv
<1>2. DsInv /\ [DsNext]_dsVars => DsInv'
  BY DsInvStep
<1> QED
  BY <1>1, <1>2, PTL DEF DsSpec

(* The machine, its list, the retry counter (never above the bound) and    *)
(* the messages keep their types: a retry and a fallback are always for a  *)
(* client that exists.                                                     *)
THEOREM DsTypeCorrect == DsSpec => []DsTypeOK
<1>1. DsInv => DsTypeOK
  BY DEF DsInv
<1> QED
  BY <1>1, DsInvariance, PTL

(* The data call follows the state of ds_nif: none is left behind by a     *)
(* machine that rests in Released, and a granted session has its call or   *)
(* the report of its end on the way.                                       *)
THEOREM CallIsOwned == DsSpec => []CallFollowsState
<1>1. DsInv => CallFollowsState
  BY DEF DsInv, CallFollowsState
<1> QED
  BY <1>1, DsInvariance, PTL
=============================================================================
