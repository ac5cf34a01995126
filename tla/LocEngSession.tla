---------------------------- MODULE LocEngSession ----------------------------
(***************************************************************************)
(* A positioning session, from the calls of the framework to the modem.    *)
(* Calls, reports of the modem and its restart are messages to one thread  *)
(* (MsgTask), which handles them in order; the engine (loc_eng.cpp), its   *)
(* adapter and the modem's API (LocApiV02.cpp) each keep an idea of        *)
(* whether there is a session and whether the modem's engine is on.        *)
(*                                                                         *)
(* The modem is external: it runs one fix, turns its engine on for it and  *)
(* off without it, reports to the events that are registered, and may      *)
(* restart at any moment, after which its client has to be opened again.   *)
(*                                                                         *)
(* Names that LocEngNi has too begin with Session: LocEngProofs extends    *)
(* both.                                                                   *)
(***************************************************************************)
EXTENDS Naturals, Sequences, SequencesExt

CONSTANTS MaxCalls,         \* bound: calls of the framework
          MaxCrashes,       \* bound: restarts of the modem
          MaxQueue          \* bound: messages in the queue when a call or a report adds one

ASSUME SessionAssumption == MaxCalls \in Nat /\ MaxCrashes \in Nat /\ MaxQueue \in Nat

VARIABLES
    queue,                              \* the messages of the MsgTask
    wanted, requests,                   \* the framework: its last call was a start; calls made
    recurrence,                         \* of the sessions: single or periodic
    mNavigating, mode,                  \* LocEngAdapter: in session, mFixCriteria.mode
    mInSession, mEngineOn,              \* LocApiV02
    clientHandle,                       \* open, stale (the modem has restarted) or invalid
    engine_status, mute_session_state,  \* loc_eng_data
    aiding_data_for_deletion,
    up, fix, engine, registered,        \* the modem: is there, runs a fix (in which mode),
                                        \* has its engine on; the events of a session
    answer,                             \* what came of the last start of a fix
    failed,                             \* history: the fix that runs was started without its
                                        \* events, or was not stopped, as a request had failed
    errorCb, crashes,                   \* what the error callback still has to send
    overtaken                           \* a stop was handled while a restart was queued

framework == <<wanted, requests, recurrence>>
adapter   == <<mNavigating, mode>>
locApi    == <<mInSession, mEngineOn, clientHandle>>
locEng    == <<engine_status, mute_session_state, aiding_data_for_deletion>>
modem     == <<up, fix, engine, registered, answer, failed>>
errors    == <<errorCb, crashes>>
sessionVars == <<queue, framework, adapter, locApi, locEng, modem, errors, overtaken>>

SessionInit ==
    /\ queue = <<>> /\ wanted = FALSE /\ requests = 0 /\ recurrence \in {"single", "periodic"}
    /\ mNavigating = FALSE /\ mode = "given"
    /\ mInSession = FALSE /\ mEngineOn = FALSE /\ clientHandle = "open"
    /\ engine_status = "none" /\ mute_session_state = "none" /\ aiding_data_for_deletion = FALSE
    /\ up = TRUE /\ fix = "none" /\ engine = FALSE /\ registered = FALSE /\ answer = "none"
    /\ failed = "none"
    /\ errorCb = <<>> /\ crashes = 0 /\ overtaken = FALSE

-----------------------------------------------------------------------------
(* Calls of the framework, on its own threads.                             *)
call(message) ==
    /\ requests < MaxCalls /\ Len(queue) < MaxQueue
    /\ requests' = requests + 1 /\ queue' = Append(queue, message)
    /\ UNCHANGED <<recurrence, adapter, locApi, locEng, modem, errors>>

loc_eng_start == call("start") /\ wanted' = TRUE /\ overtaken' = FALSE
loc_eng_stop  == call("stop") /\ wanted' = FALSE /\ overtaken' = FALSE
loc_eng_set_position_mode  == call("mode") /\ UNCHANGED <<wanted, overtaken>>
loc_eng_delete_aiding_data == call("delete") /\ UNCHANGED <<wanted, overtaken>>

-----------------------------------------------------------------------------
(***************************************************************************)
(* LocApiV02.  A request fails as "offline" on the client of a modem that  *)
(* is gone, and as "invalid" without a client.  A modem that rejects the   *)
(* mode is not sent the start, and startFix reports success; a start whose *)
(* answer is lost may have been carried out.  Every other request to a     *)
(* modem that is there may fail too: whether the events were registered    *)
(* nobody asks, and a stop that failed is logged.                          *)
(***************************************************************************)
reachable == up /\ clientHandle = "open"

Outcomes == IF reachable THEN {"started", "refused", "rejected", "lost"}
            ELSE IF clientHandle = "invalid" THEN {"invalid"} ELSE {"offline"}

(* registerEventMask, with the events of a session or without.             *)
registerEventMask(inSession) ==
    registered' \in IF reachable THEN {registered, inSession} ELSE {registered}

Started(criteria) == IF criteria = "given" THEN "given" ELSE "standalone"

startFix(outcome, criteria) ==
    /\ mInSession' = TRUE
    /\ registerEventMask(TRUE)
    /\ fix' \in CASE outcome = "started" -> {Started(criteria)}
                  [] outcome = "lost"    -> {fix, Started(criteria)}
                  [] OTHER               -> {fix}
    /\ answer' = outcome
    /\ failed' = IF registered' THEN "none" ELSE "register"

(* Without an engine that is on there will be no engine off to wait for.   *)
sendStop == fix' \in IF reachable THEN {"none", fix} ELSE {fix}
stopIfOn ==
    /\ mInSession' = FALSE
    /\ IF mEngineOn THEN sendStop ELSE UNCHANGED fix
    /\ failed' = IF mEngineOn /\ fix' # "none" THEN "stop" ELSE failed
    /\ UNCHANGED registered
stopFix ==
    /\ mInSession' = FALSE
    /\ sendStop
    /\ failed' = IF fix' = "none" THEN "none" ELSE "stop"
    /\ IF mEngineOn THEN UNCHANGED registered ELSE registerEventMask(FALSE)

(* LocEngAdapter::setInSession.                                            *)
setInSession(inSession) ==
    /\ mNavigating' = inSession
    /\ mode' = IF inSession THEN mode ELSE "invalid"

-----------------------------------------------------------------------------
(* The MsgTask handles the first message.                                  *)
handles(message) == queue # <<>> /\ Head(queue) = message

loc_eng_start_handler(outcome) ==
    /\ \E m \in {"start", "restart"} : handles(m)
    /\ ~ mNavigating /\ outcome \in Outcomes
    /\ queue' = Tail(queue)
    /\ startFix(outcome, mode)
    /\ mNavigating' = (outcome \in {"started", "rejected", "lost", "offline"})
    /\ UNCHANGED <<mode, framework, mEngineOn, clientHandle, locEng, up, engine, errors, overtaken>>

startedAlready ==
    /\ \E m \in {"start", "restart"} : handles(m)
    /\ mNavigating
    /\ queue' = Tail(queue)
    /\ UNCHANGED <<framework, adapter, locApi, locEng, modem, errors, overtaken>>

(* The session is left even if the modem could not be told.                *)
endIfStopped == IF reachable THEN setInSession(FALSE) ELSE UNCHANGED adapter
endSession == setInSession(FALSE)

loc_eng_stop_handler ==
    /\ handles("stop") /\ mNavigating
    /\ queue' = Tail(queue)
    /\ stopFix /\ endSession
    /\ overtaken' = Contains(queue, "restart")
    /\ UNCHANGED <<framework, mEngineOn, clientHandle, locEng, up, engine, answer, errors>>

notInSession ==
    /\ handles("stop") /\ ~ mNavigating
    /\ queue' = Tail(queue)
    /\ overtaken' = Contains(queue, "restart")
    /\ UNCHANGED <<framework, adapter, locApi, locEng, modem, errors>>

(* A running session is restarted with the new mode.                       *)
setPositionMode(outcome) ==
    /\ handles("mode") /\ outcome \in Outcomes
    /\ queue' = Tail(queue) /\ mode' = "given"
    /\ IF mNavigating THEN startFix(outcome, "given")
       ELSE UNCHANGED <<mInSession, fix, registered, answer, failed>>
    /\ UNCHANGED <<framework, mNavigating, mEngineOn, clientHandle, locEng, up, engine, errors,
                   overtaken>>

(* Aiding data are deleted when the engine is not on.                      *)
LocEngDelAidData ==
    /\ handles("delete")
    /\ queue' = Tail(queue)
    /\ aiding_data_for_deletion' = (engine_status = "on")
    /\ UNCHANGED <<framework, adapter, locApi, engine_status, mute_session_state, modem, errors,
                   overtaken>>

(***************************************************************************)
(* MsgUpdateEngineState: the events are deregistered when the engine goes  *)
(* off after the session; an engine that goes on after it is not reported. *)
(***************************************************************************)
offDeregisters == registered' = FALSE
deregisterAfterSession ==
    IF mEngineOn /\ ~ mInSession THEN registerEventMask(FALSE) ELSE UNCHANGED registered

engineStateOn ==
    /\ handles("engineOn")
    /\ mEngineOn' = TRUE
    /\ queue' = Tail(queue) \o (IF mInSession THEN <<"on", "begin">> ELSE <<>>)
    /\ UNCHANGED <<framework, adapter, mInSession, clientHandle, locEng, modem, errors, overtaken>>

engineStateOff ==
    /\ handles("engineOff")
    /\ deregisterAfterSession
    /\ mEngineOn' = FALSE
    /\ queue' = Tail(queue) \o <<"end", "off">>
    /\ UNCHANGED <<framework, adapter, mInSession, clientHandle, locEng, up, fix, engine, answer,
                   failed, errors, overtaken>>

(* loc_eng_report_status.                                                  *)
report_status(status) ==
    /\ engine_status' = IF status \in {"on", "off"} THEN status ELSE engine_status
    /\ mute_session_state' =
          IF status \in {"begin", "on"} /\ mute_session_state = "wait" THEN "in_session"
          ELSE IF status \in {"end", "off"} /\ mute_session_state = "in_session" THEN "none"
          ELSE mute_session_state

update_aiding_data_for_deletion ==
    aiding_data_for_deletion' = (aiding_data_for_deletion /\ engine_status' = "on")

LocEngReportStatus(status) ==
    /\ handles(status)
    /\ queue' = Tail(queue)
    /\ report_status(status)
    /\ update_aiding_data_for_deletion
    /\ UNCHANGED <<framework, adapter, locApi, modem, errors, overtaken>>

(***************************************************************************)
(* LocEngReportPosition: a single shot is over with the first report that  *)
(* is passed on, also for the modem if the report is an intermediate one.  *)
(* A muted report is not passed on; a failure always is, a position only   *)
(* if its technology or accuracy will do.  Reports of a periodic session   *)
(* change nothing here.                                                    *)
(***************************************************************************)
LocEngReportPosition(report) ==
    /\ handles(report)
    /\ queue' = Tail(queue)
    /\ \/ /\ mute_session_state = "in_session" \/ report # "failure"
          /\ UNCHANGED <<adapter, mInSession, fix, registered, failed>>
       \/ /\ mute_session_state # "in_session"
          /\ setInSession(FALSE)
          /\ IF report = "intermediate" THEN stopFix 
             ELSE UNCHANGED <<mInSession, fix, registered, failed>>
    /\ UNCHANGED <<framework, mEngineOn, clientHandle, locEng, up, engine, answer, errors,
                   overtaken>>

-----------------------------------------------------------------------------
(* The restart of the modem.  The engine is off.                           *)
loc_eng_handle_engine_down ==
    /\ handles("down")
    /\ queue' = Tail(queue)
    /\ report_status("off")
    /\ UNCHANGED <<framework, adapter, locApi, aiding_data_for_deletion, modem, errors, overtaken>>

(* The client is opened without a session's events, if the modem is back   *)
(* in time.                                                                *)
open == clientHandle' = (IF up THEN "open" ELSE "invalid") /\ registered' = FALSE

(* The client is closed and opened.                                        *)
LocSsrMsg ==
    /\ handles("ssr")
    /\ queue' = Tail(queue)
    /\ open
    /\ UNCHANGED <<framework, adapter, mInSession, mEngineOn, locEng, up, fix, engine, answer,
                   failed, errors, overtaken>>

(* A session is started again, by a message.                               *)
stillInSession == UNCHANGED adapter
leaveSession == setInSession(FALSE)

loc_eng_handle_engine_up ==
    /\ handles("up")
    /\ IF mNavigating
       THEN leaveSession /\ queue' = Append(Tail(queue), "restart")
       ELSE UNCHANGED adapter /\ queue' = Tail(queue)
    /\ UNCHANGED <<framework, locApi, locEng, modem, errors, overtaken>>

-----------------------------------------------------------------------------
(* A network-initiated request that overrides privacy.                     *)
loc_eng_mute_one_session ==
    /\ mute_session_state = "none" /\ requests < MaxCalls
    /\ mute_session_state' = "wait" /\ requests' = requests + 1
    /\ UNCHANGED <<queue, wanted, recurrence, adapter, locApi, engine_status,
                   aiding_data_for_deletion, modem, errors, overtaken>>

-----------------------------------------------------------------------------
(* The modem.  Its events reach the queue if they are registered.          *)
event(message) ==
    /\ Len(queue) < MaxQueue
    /\ queue' = IF registered THEN Append(queue, message) ELSE queue

engineOn ==
    /\ up /\ fix # "none" /\ ~ engine
    /\ event("engineOn") /\ engine' = TRUE
    /\ UNCHANGED <<framework, adapter, locApi, locEng, up, fix, registered, answer,
                   failed, errors, overtaken>>

engineOff ==
    /\ up /\ engine
    /\ event("engineOff") /\ engine' = FALSE
    /\ UNCHANGED <<framework, adapter, locApi, locEng, up, fix, registered, answer,
                   failed, errors, overtaken>>

(* A single fix ends with its final report or a failure.                   *)
position(report) ==
    /\ up /\ engine /\ fix # "none" /\ recurrence = "single" /\ registered
    /\ event(report)
    /\ fix' = IF report = "intermediate" THEN fix ELSE "none"
    /\ UNCHANGED <<framework, adapter, locApi, locEng, up, engine, registered, answer,
                   failed, errors, overtaken>>

crash ==
    /\ up /\ errorCb = <<>> /\ clientHandle = "open" /\ crashes < MaxCrashes
    /\ up' = FALSE /\ fix' = "none" /\ engine' = FALSE /\ registered' = FALSE
    /\ clientHandle' = "stale" /\ crashes' = crashes + 1
    /\ errorCb' = <<"down", "ssr", "up">>
    /\ UNCHANGED <<queue, framework, adapter, mInSession, mEngineOn, locEng, answer, failed,
                   overtaken>>

reboot ==
    /\ ~ up /\ up' = TRUE
    /\ UNCHANGED <<queue, framework, adapter, locApi, locEng, fix, engine, registered, answer,
                   failed, errors, overtaken>>

(* errorCb sends down and, immediately, up.                                *)
sendError ==
    /\ errorCb # <<>>
    /\ queue' = Append(queue, Head(errorCb)) /\ errorCb' = Tail(errorCb)
    /\ UNCHANGED <<framework, adapter, locApi, locEng, modem, crashes, overtaken>>

-----------------------------------------------------------------------------
Reports == {"final", "intermediate", "failure"}

MsgTask ==
    \/ \E outcome \in Outcomes : loc_eng_start_handler(outcome) \/ setPositionMode(outcome)
    \/ startedAlready \/ loc_eng_stop_handler \/ notInSession \/ LocEngDelAidData
    \/ engineStateOn \/ engineStateOff
    \/ \E status \in {"on", "off", "begin", "end"} : LocEngReportStatus(status)
    \/ \E report \in Reports : LocEngReportPosition(report)
    \/ loc_eng_handle_engine_down \/ LocSsrMsg \/ loc_eng_handle_engine_up

Framework == loc_eng_start \/ loc_eng_stop \/ loc_eng_set_position_mode
                \/ loc_eng_delete_aiding_data \/ loc_eng_mute_one_session

Modem == engineOn \/ engineOff \/ (\E report \in Reports : position(report)) \/ crash

SessionNext == MsgTask \/ Framework \/ Modem \/ reboot \/ sendError

(* The MsgTask and the error callback run; a modem that restarts comes up. *)
SessionSpec == /\ SessionInit /\ [][SessionNext]_sessionVars
               /\ WF_sessionVars(MsgTask) /\ WF_sessionVars(sendError) /\ WF_sessionVars(reboot)

-----------------------------------------------------------------------------
(* The messages, and what each part believes.                              *)
SessionTypeOK ==
    /\ queue \in Seq({"start", "restart", "stop", "mode", "delete", "engineOn", "engineOff", "on",
                      "off", "begin", "end", "down", "ssr", "up"} \cup Reports)
    /\ wanted \in BOOLEAN /\ requests \in 0..MaxCalls /\ recurrence \in {"single", "periodic"}
    /\ mNavigating \in BOOLEAN /\ mode \in {"given", "invalid"}
    /\ mInSession \in BOOLEAN /\ mEngineOn \in BOOLEAN
    /\ clientHandle \in {"open", "stale", "invalid"}
    /\ engine_status \in {"none", "on", "off"}
    /\ mute_session_state \in {"none", "wait", "in_session"}
    /\ aiding_data_for_deletion \in BOOLEAN
    /\ up \in BOOLEAN /\ fix \in {"none", "given", "standalone"} /\ engine \in BOOLEAN
    /\ registered \in BOOLEAN /\ overtaken \in BOOLEAN
    /\ answer \in {"none", "started", "refused", "rejected", "lost", "offline", "invalid"}
    /\ failed \in {"none", "register", "stop"}
    /\ errorCb \in Seq({"down", "ssr", "up"}) /\ crashes \in 0..MaxCrashes

(* Nothing is left to handle.                                              *)
Quiet == queue = <<>> /\ errorCb = <<>>

(***************************************************************************)
(* No fix runs on the modem without a session of the engine: whatever the  *)
(* order of stops, mode changes and restarts, a periodic fix is stopped    *)
(* with its session.  The exceptions are a start that was refused and the  *)
(* fix whose own stop request failed: the engine leaves the session all    *)
(* the same, and only the next session ends that fix.                      *)
(***************************************************************************)
NoOrphanFix ==
    Quiet /\ recurrence = "periodic" /\ fix # "none"
        => mNavigating \/ answer = "refused" \/ failed = "stop"

(***************************************************************************)
(* The events of a fix that runs are registered, although they are         *)
(* deregistered for an earlier one in three places, in messages that come  *)
(* late (stopFix, MsgUpdateEngineState, open).  The exceptions are a       *)
(* registration that failed, and a fix whose stop failed and whose events  *)
(* are gone with its session; another start registers them again.          *)
(***************************************************************************)
RunningIsHeard == fix # "none" => registered \/ failed # "none"

(***************************************************************************)
(* A stop is obeyed: with nothing left to handle there is no session,      *)
(* whatever restarts of the modem came before or after it, unless the      *)
(* stop found the restart of the session still queued.                     *)
(***************************************************************************)
StopIsObeyed == Quiet /\ ~ wanted => ~ mNavigating \/ overtaken

(***************************************************************************)
(* A session is a fix on the modem sooner or later, also one that was      *)
(* begun while the modem was away or that its restart has cut off, or it   *)
(* is given up; a modem that rejects the start, or whose answer to it is   *)
(* lost, is the exception.                                                 *)
(***************************************************************************)
SessionRuns ==
    recurrence = "periodic" /\ mNavigating ~>
        fix # "none" \/ ~ mNavigating \/ answer \in {"rejected", "refused", "lost"}

-----------------------------------------------------------------------------
(***************************************************************************)
(* What one would expect and the code does not do.                         *)
(***************************************************************************)
StopAlwaysObeyed == Quiet /\ ~ wanted => ~ mNavigating
ModeKept         == Quiet /\ fix # "none" => fix = "given"
NoOrphanRestart  == Quiet /\ recurrence = "periodic" /\ fix # "none" => mNavigating
StopAlwaysStops  == Quiet /\ recurrence = "periodic" /\ fix # "none"
                        => mNavigating \/ answer = "refused"
AlwaysHeard      == fix # "none" => registered
NoOrphanShot     == Quiet /\ fix # "none" => mNavigating
QuietWithoutFix  == Quiet /\ ~ mNavigating /\ ~ engine => ~ registered
StatusHonest     == Quiet /\ ~ engine /\ fix = "none" => engine_status # "on"
MuteEnds         == Quiet /\ ~ engine /\ fix = "none" => mute_session_state # "in_session"
Reopened         == Quiet => clientHandle = "open"
=============================================================================
