------------------------------ MODULE LocEngNi ------------------------------
(***************************************************************************)
(* Network-initiated requests (loc_eng_ni.cpp): the modem asks, the user   *)
(* is notified, and a thread of its own waits for the answer of the user   *)
(* or for a time-out and sends the response to the modem.  There is an     *)
(* ordinary session and one for emergencies.                               *)
(*                                                                         *)
(* Three kinds of thread meet here: the engine's MsgTask thread (mt), the  *)
(* thread of the user's answers (user) and one thread for every request.   *)
(* tLock guards resp and respRecvd; rawRequest and reqID are also used     *)
(* without it, and every such use is a step.  A request is named by the    *)
(* number reqIDCounter gives it.  Time is not measured: a wait may end by  *)
(* time-out whenever it is a wait.  The muting of a session whose privacy  *)
(* is overridden belongs to loc_eng.cpp and is left out.                   *)
(***************************************************************************)
EXTENDS Naturals

CONSTANTS MaxRequests,   \* bound: requests that are not ignored
          Answers        \* of the user: ACCEPT, DENY

ASSUME NiAssumption == MaxRequests \in Nat \ {0} /\ Answers \subseteq {"ACCEPT", "DENY"}

Sessions == {"session", "sessionEs"}
Requests == 1..MaxRequests
None == 0               \* NULL, and the reqID of an idle session

VARIABLES rawRequest, reqID, respRecvd, reqIDCounter,
          resp,         \* with the request that it was the answer to
          mt,           \* what the MsgTask thread does, and to which session
          user,         \* the answer being given
          thread,       \* ni_thread_proc of each request
          freed         \* requests whose memory was freed here

nidata == <<rawRequest, reqID, respRecvd, resp, reqIDCounter>>
vars == <<nidata, mt, user, thread, freed>>

Idle == [pc |-> "idle", s |-> "session"]
Silent == [pc |-> "idle", s |-> "session", resp |-> <<"none", None>>]
NoMsg == [payload |-> None, resp |-> <<"none", None>>]
NoThread == [pc |-> "none", s |-> "session", msg |-> NoMsg]

Init == /\ rawRequest = [s \in Sessions |-> None]
        /\ reqID = [s \in Sessions |-> None]
        /\ respRecvd = [s \in Sessions |-> FALSE]
        /\ resp = [s \in Sessions |-> <<"unset", None>>]
        /\ reqIDCounter = 0
        /\ mt = Idle
        /\ user = Silent
        /\ thread = [n \in Requests |-> NoThread]
        /\ freed = {}

(* ni_thread_proc holds the lock of its session while it takes the request.*)
locked(s) == \E n \in Requests : thread[n].s = s /\ thread[n].pc \in {"take", "clear"}

-----------------------------------------------------------------------------
(***************************************************************************)
(* loc_eng_ni_request_handler.  A request that is not admitted is freed at *)
(* once and leaves no trace.                                               *)
(***************************************************************************)
admitsAny(s) == TRUE
admits(s) == /\ rawRequest[s] = None
             /\ s = "session" => rawRequest["sessionEs"] = None

saveRequest(s) ==
    /\ mt.pc = "idle" /\ reqIDCounter < MaxRequests
    /\ admits(s)
    /\ rawRequest' = [rawRequest EXCEPT ![s] = reqIDCounter + 1]
    /\ mt' = [pc |-> "spawn", s |-> s]
    /\ UNCHANGED <<reqID, respRecvd, resp, reqIDCounter, user, thread, freed>>

(* pthread_create may fail, and nothing is done about it.                  *)
spawn ==
    /\ mt.pc = "spawn"
    /\ reqIDCounter' = reqIDCounter + 1
    /\ reqID' = [reqID EXCEPT ![mt.s] = reqIDCounter']
    /\ \E pc \in {"start", "failed"} :
          thread' = [thread EXCEPT ![reqIDCounter'] = [NoThread EXCEPT !.pc = pc, !.s = mt.s]]
    /\ mt' = [mt EXCEPT !.pc = "notify"]
    /\ UNCHANGED <<rawRequest, respRecvd, resp, user, freed>>

ni_notify_cb ==
    /\ mt.pc = "notify"
    /\ mt' = Idle
    /\ UNCHANGED <<nidata, user, thread, freed>>

-----------------------------------------------------------------------------
(***************************************************************************)
(* loc_eng_ni_reset_on_engine_restart: the emergency session, then the     *)
(* other.  rawRequest is tested, freed and nulled without the lock.        *)
(***************************************************************************)
nextSession(s) == IF s = "sessionEs" THEN [pc |-> "check", s |-> "session"] ELSE Idle

engineRestart ==
    /\ mt.pc = "idle"
    /\ mt' = [pc |-> "check", s |-> "sessionEs"]
    /\ UNCHANGED <<nidata, user, thread, freed>>

resetCheck ==
    /\ mt.pc = "check"
    /\ mt' = IF rawRequest[mt.s] # None THEN [mt EXCEPT !.pc = "free"] ELSE nextSession(mt.s)
    /\ UNCHANGED <<nidata, user, thread, freed>>

resetFree ==
    /\ mt.pc = "free"
    /\ freed' = freed \cup ({rawRequest[mt.s]} \ {None})
    /\ mt' = [mt EXCEPT !.pc = "null"]
    /\ UNCHANGED <<nidata, user, thread>>

resetNull ==
    /\ mt.pc = "null"
    /\ rawRequest' = [rawRequest EXCEPT ![mt.s] = None]
    /\ mt' = [mt EXCEPT !.pc = "signal"]
    /\ UNCHANGED <<reqID, respRecvd, resp, reqIDCounter, user, thread, freed>>

resetSignal ==
    /\ mt.pc = "signal" /\ ~locked(mt.s)
    /\ respRecvd' = [respRecvd EXCEPT ![mt.s] = TRUE]
    /\ mt' = nextSession(mt.s)
    /\ UNCHANGED <<rawRequest, reqID, resp, reqIDCounter, user, thread, freed>>

-----------------------------------------------------------------------------
(***************************************************************************)
(* loc_eng_ni_respond.  An emergency that is accepted makes the other      *)
(* session ignored.                                                        *)
(***************************************************************************)
isActive(s, n) == reqID[s] = n /\ rawRequest[s] # None
wasNotified(n) == n <= reqIDCounter /\ ~(mt.pc = "notify" /\ n = reqIDCounter)

respond(n, answer) ==
    /\ user.pc = "idle" /\ wasNotified(n)
    /\ \E s \in Sessions : isActive(s, n)
    /\ LET s == IF isActive("sessionEs", n) THEN "sessionEs" ELSE "session"
           ignores == s = "sessionEs" /\ answer = "ACCEPT" /\ rawRequest["session"] # None
       IN  user' = [pc |-> IF ignores THEN "ignore" ELSE "answer", s |-> s,
                    resp |-> <<answer, n>>]
    /\ UNCHANGED <<nidata, mt, thread, freed>>

sets(s, answer) ==
    /\ ~locked(s)
    /\ resp' = [resp EXCEPT ![s] = answer]
    /\ respRecvd' = [respRecvd EXCEPT ![s] = TRUE]
    /\ UNCHANGED <<rawRequest, reqID, reqIDCounter, mt, thread, freed>>

ignoreOther == /\ user.pc = "ignore" /\ sets("session", <<"IGNORE", None>>)
               /\ user' = [user EXCEPT !.pc = "answer"]
giveAnswer == user.pc = "answer" /\ sets(user.s, user.resp) /\ user' = Silent

-----------------------------------------------------------------------------
(***************************************************************************)
(* ni_thread_proc of request n.  It looks at respRecvd before it waits.    *)
(***************************************************************************)
goes(n, pc) == thread' = [thread EXCEPT ![n].pc = pc]

beginsWait(n) ==
    /\ thread[n].pc = "start" /\ ~locked(thread[n].s)
    /\ ~respRecvd[thread[n].s]
    /\ goes(n, "wait")
    /\ UNCHANGED <<nidata, mt, user, freed>>

(* What follows the loop, up to the test of rawRequest.                    *)
leavesLoop(n) ==
    /\ respRecvd' = [respRecvd EXCEPT ![thread[n].s] = FALSE]
    /\ goes(n, IF rawRequest[thread[n].s] # None THEN "take" ELSE "after")
    /\ UNCHANGED <<rawRequest, reqID, reqIDCounter, mt, user, freed>>

hasAnswer(n) ==
    /\ thread[n].pc \in {"start", "wait"} /\ ~locked(thread[n].s)
    /\ respRecvd[thread[n].s]
    /\ leavesLoop(n)
    /\ UNCHANGED resp

(* The time-out may cross an answer that came meanwhile.                   *)
timesOut(n) ==
    /\ thread[n].pc = "wait" /\ ~locked(thread[n].s)
    /\ resp' = [resp EXCEPT ![thread[n].s] = <<"NORESP", None>>]
    /\ leavesLoop(n)

(* The request, as rawRequest is by now, goes into the message, or it is   *)
(* freed,                                                                  *)
takeRequest(n) ==
    /\ thread[n].pc = "take"
    /\ LET s == thread[n].s
           taken == rawRequest[s]
       IN  IF resp[s][1] # "IGNORE"
           THEN /\ thread' = [thread EXCEPT ![n].pc = "clear", ![n].msg = [payload |-> taken, resp |-> resp[s]]]
                /\ UNCHANGED freed
           ELSE goes(n, "clear") /\ freed' = freed \cup ({taken} \ {None})
    /\ UNCHANGED <<nidata, mt, user>>

(* and the session is free.                                                *)
clearsNothing(n) ==
    /\ thread[n].pc = "clear"
    /\ goes(n, "after")
    /\ UNCHANGED <<nidata, mt, user, freed>>
clearRequest(n) ==
    /\ thread[n].pc = "clear"
    /\ rawRequest' = [rawRequest EXCEPT ![thread[n].s] = None]
    /\ goes(n, "after")
    /\ UNCHANGED <<reqID, respRecvd, resp, reqIDCounter, mt, user, freed>>

(* Without the lock, reqID is reset and the message, if any, is sent.      *)
sendMsg(n) ==
    /\ thread[n].pc = "after"
    /\ reqID' = [reqID EXCEPT ![thread[n].s] = None]
    /\ goes(n, "done")
    /\ UNCHANGED <<rawRequest, respRecvd, resp, reqIDCounter, mt, user, freed>>

ni_thread_proc(n) == \/ beginsWait(n) \/ hasAnswer(n) \/ timesOut(n)
                     \/ takeRequest(n) \/ clearRequest(n) \/ sendMsg(n)

-----------------------------------------------------------------------------
goesOn == \/ spawn \/ ni_notify_cb
          \/ resetCheck \/ resetFree \/ resetNull \/ resetSignal
answers == ignoreOther \/ giveAnswer

Next == \/ \E s \in Sessions : saveRequest(s)
        \/ engineRestart \/ goesOn
        \/ \E n \in Requests, a \in Answers : respond(n, a)
        \/ answers
        \/ \E n \in Requests : ni_thread_proc(n)

(* Threads go on with what they have begun, and the wait of a request's    *)
(* thread ends by its clock.                                               *)
Spec == /\ Init /\ [][Next]_vars
        /\ WF_vars(goesOn) /\ WF_vars(answers)
        /\ \A n \in Requests : WF_vars(ni_thread_proc(n))

-----------------------------------------------------------------------------
(* The sessions and the threads.                                           *)
Numbers == 0..MaxRequests
Responses == ({"none", "unset", "NORESP", "IGNORE"} \cup Answers) \X Numbers
Threads == [pc : {"none", "failed", "start", "wait", "take", "clear", "after", "done"}, s : Sessions,
            msg : [payload : Numbers, resp : Responses]]

TypeOK ==
    /\ rawRequest \in [Sessions -> Numbers] /\ reqID \in [Sessions -> Numbers]
    /\ respRecvd \in [Sessions -> BOOLEAN] /\ resp \in [Sessions -> Responses]
    /\ reqIDCounter \in Numbers
    /\ mt \in [pc : {"idle", "spawn", "notify", "check", "free", "null", "signal"}, s : Sessions]
    /\ user \in [pc : {"idle", "ignore", "answer"}, s : Sessions, resp : Responses]
    /\ thread \in [Requests -> Threads] /\ freed \subseteq Requests

(* No request of the modem is forgotten: each one is in its session, in a  *)
(* response, or freed, however restarts, time-outs and answers cross.      *)
NoRequestLost ==
    \A n \in 1..reqIDCounter : \/ \E s \in Sessions : rawRequest[s] = n
                               \/ \E k \in Requests : thread[k].msg.payload = n
                               \/ n \in freed

(* The modem gets at most one response to a request, although the thread   *)
(* of a request from before a restart may still be there.                  *)
AnsweredOnce ==
    \A k, l \in Requests : thread[k].msg.payload # None /\ thread[k].msg.payload = thread[l].msg.payload => k = l

(* "spawn a thread at this point to timeout to clear up the notification   *)
(* status" (loc_eng_ni.cpp): if there is a thread, its request leaves the  *)
(* session, and the next one can be admitted.                              *)
EveryRequestEnds ==
    \A s \in Sessions, n \in Requests :
        rawRequest[s] = n /\ thread[n].pc \notin {"none", "failed"} ~> rawRequest[s] # n

-----------------------------------------------------------------------------
sent == {thread[n].msg : n \in {k \in Requests : thread[k].pc = "done"}} \ {NoMsg}

(* "ID to check against response" (loc_eng_ni.h): what is sent to the      *)
(* modem is what the user said to this request, or that there was no       *)
(* response.                                                               *)
OwnAnswer ==
    \A m \in sent : m.payload # None => m.resp[1] = "NORESP" \/ m.resp[2] = m.payload

-----------------------------------------------------------------------------
(***************************************************************************)
(* What comments of the code say and the code does not do; see the README. *)
(***************************************************************************)

(* "to support modem restart, in which case, we need the thread to exit    *)
(* without calling sending data" (loc_eng_ni.cpp): a request that was      *)
(* freed by the restart is not sent.                                       *)
RestartIsSilent == \A m \in sent : m.payload \notin freed

(* "not an active session" (loc_eng_ni.cpp) is said to the user about      *)
(* requests that are not: a request whose thread waits for the answer can  *)
(* be answered.                                                            *)
CanBeAnswered ==
    \A s \in Sessions, n \in Requests :
        wasNotified(n) /\ rawRequest[s] = n /\ thread[n].pc = "wait" => reqID[s] = n
=============================================================================
