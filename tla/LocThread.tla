------------------------------ MODULE LocThread ------------------------------
(***************************************************************************)
(* The life of a thread made by LocThread.cpp: the client that starts it   *)
(* and ends it, the spawned thread in threadMain, the LocThreadDelegate    *)
(* they share and the runnable the thread runs.  The runnable is a MsgTask *)
(* (MsgTask.cpp) or the poll task of LocTimer.cpp; both own what run()     *)
(* blocks on, the message queue or the epoll descriptor, and both are      *)
(* started from their constructor and ended by destroy().                  *)
(*                                                                         *)
(* The client and the thread meet without a lock except around mRefCount,  *)
(* so an action makes at most one access to a field that the other writes. *)
(*                                                                         *)
(* Names that MsgQ has too begin with Thread: MsgTaskProofs extends both.  *)
(***************************************************************************)
EXTENDS Naturals

CONSTANT MaxQueued       \* bound: messages in the queue, or watched descriptors

ASSUME ThreadAssumption == MaxQueued \in Nat

VARIABLES runnable,      \* what is run: a MsgTask or the poll task; never changes
          client,        \* where the client is
          thread,        \* where the spawned thread is in threadMain
          mThread,       \* the LocThread (and the task) hold a delegate
          mRunnable,     \* of the delegate: not NULL
          mJoinable,
          mRefCount,
          delegate,      \* its memory
          joinable,      \* what the client asked for
          source,        \* the queue or descriptor that run() waits on
          queued,        \* messages in the queue, or descriptors that expired
          deleted        \* how often the runnable has been deleted

threadVars == <<runnable, client, thread, mThread, mRunnable, mJoinable, mRefCount, delegate,
                joinable, source, queued, deleted>>

IsMsgTask == runnable = "MsgTask"

shared == <<mRunnable, mJoinable, mRefCount, delegate>>

(* msg_q_init2 or epoll_create may have failed before the thread starts.   *)
ThreadInit == /\ runnable \in {"MsgTask", "LocTimerPollTask"}
              /\ client = "out" /\ thread = "none" /\ mThread = FALSE
              /\ mRunnable = FALSE /\ mJoinable = FALSE /\ mRefCount = 0
              /\ delegate = "none"
              /\ joinable \in IF IsMsgTask THEN BOOLEAN ELSE {TRUE}
              /\ source \in {"open", "bad"}
              /\ queued = 0 /\ deleted = 0

-----------------------------------------------------------------------------
(***************************************************************************)
(* The constructor of the delegate; pthread_create may fail.               *)
(***************************************************************************)
onlyTheClient == 1
initialRefCount == 2

createThread ==
    /\ client = "out"
    /\ delegate' = "alive"
    /\ client' = "created"
    /\ \/ /\ thread' = "begin"
          /\ mRunnable' = TRUE /\ mJoinable' = joinable
          /\ mRefCount' = initialRefCount
       \/ /\ mRunnable' = FALSE /\ mJoinable' = FALSE /\ mRefCount' = 1
          /\ UNCHANGED thread
    /\ UNCHANGED <<mThread, joinable, source, queued, deleted>>

(* LocThreadDelegate::create looks whether the thread is running.          *)
createReturns ==
    /\ client = "created"
    /\ mThread' = mRunnable
    /\ client' = IF mRunnable THEN "started" ELSE "notStarted"
    /\ UNCHANGED <<thread, joinable, source, queued, deleted>> /\ UNCHANGED shared

(***************************************************************************)
(* LocThreadDelegate::destroy: whoever drops the last reference deletes    *)
(* the delegate.                                                           *)
(***************************************************************************)
destroyDelegate ==
    /\ mRefCount' = IF mRefCount > 0 THEN mRefCount - 1 ELSE 0
    /\ delegate' = IF mRefCount = 1 THEN "freed" ELSE delegate
    /\ UNCHANGED <<mRunnable, mJoinable>>

startFails ==
    /\ client = "notStarted"
    /\ destroyDelegate
    /\ client' = "noThread"
    /\ UNCHANGED <<thread, mThread, joinable, source, queued, deleted>>

(***************************************************************************)
(* destroy() of the runnable: a MsgTask first unblocks its queue.          *)
(***************************************************************************)
destroyBlocked ==
    /\ client \in {"started", "noThread"}
    /\ client' = "destroy"
    /\ UNCHANGED <<thread, mThread, joinable, source, queued, deleted>> /\ UNCHANGED shared
destroy ==
    /\ client \in {"started", "noThread"}
    /\ client' = "destroy"
    /\ source' = IF IsMsgTask /\ source = "open" THEN "unblocked" ELSE source
    /\ UNCHANGED <<thread, mThread, joinable, queued, deleted>> /\ UNCHANGED shared

(* Its destructor flushes the queue.                                       *)
deleteTask == deleted' = deleted + 1 /\ queued' = 0

(* Then it deletes its LocThread, or itself if it has none.                *)
deleteThreadAndThis ==
    /\ client = "destroy"
    /\ mThread' = FALSE /\ client' = IF mThread THEN "bye" ELSE "gone"
    /\ deleteTask
    /\ UNCHANGED <<thread, joinable, source>> /\ UNCHANGED shared
deleteThreadOrThis ==
    /\ client = "destroy"
    /\ IF mThread
       THEN mThread' = FALSE /\ client' = "bye" /\ UNCHANGED <<queued, deleted>>
       ELSE deleteTask /\ client' = "gone" /\ UNCHANGED mThread
    /\ UNCHANGED <<thread, joinable, source>> /\ UNCHANGED shared

(* ~LocThread: a joinable thread is stopped, a detached one let go.        *)
bye ==
    /\ client = "bye"
    /\ client' = IF mJoinable THEN "stop" ELSE "drop"
    /\ UNCHANGED <<thread, mThread, joinable, source, queued, deleted>> /\ UNCHANGED shared

(* LocThreadDelegate::stop.                                                *)
stop ==
    /\ client = "stop"
    /\ mRunnable' = FALSE
    /\ client' = "join"
    /\ UNCHANGED <<thread, mThread, mJoinable, mRefCount, delegate, joinable, source, queued, deleted>>

join ==
    /\ client = "join"
    /\ thread = "exited"
    /\ mJoinable' = FALSE
    /\ client' = "drop"
    /\ UNCHANGED <<thread, mThread, mRunnable, mRefCount, delegate, joinable, source, queued, deleted>>

letGo ==
    /\ client = "drop"
    /\ destroyDelegate
    /\ client' = "gone"
    /\ UNCHANGED <<thread, mThread, joinable, source, queued, deleted>>

-----------------------------------------------------------------------------
(***************************************************************************)
(* threadMain.  It keeps its own copy of mRunnable.                        *)
(***************************************************************************)
enter ==
    /\ thread = "begin"
    /\ thread' = IF mRunnable THEN "loop" ELSE "leave"
    /\ UNCHANGED <<client, mThread, joinable, source, queued, deleted>> /\ UNCHANGED shared

(* while (isRunning() && runnable->run()): the call, which may fail at     *)
(* once or wait,                                                           *)
callRun ==
    /\ thread = "loop"
    /\ thread' = IF mRunnable /\ source = "open" THEN "inRun" ELSE "cleanup"
    /\ UNCHANGED <<client, mThread, joinable, source, queued, deleted>> /\ UNCHANGED shared

(* the return with a message or an event,                                  *)
procMsg ==
    /\ IsMsgTask
    /\ thread = "inRun"
    /\ queued > 0
    /\ queued' = queued - 1
    /\ thread' = "loop"
    /\ UNCHANGED <<client, mThread, joinable, source, deleted>> /\ UNCHANGED shared

pollEvent ==
    /\ ~IsMsgTask
    /\ thread = "inRun"
    /\ queued > 0
    /\ queued' = 0
    /\ thread' = "loop"
    /\ UNCHANGED <<client, mThread, joinable, source, deleted>> /\ UNCHANGED shared

(* and the return because what it waits on is no more.                     *)
runEnds ==
    /\ thread = "inRun"
    /\ source # "open" /\ queued = 0
    /\ thread' = "cleanup"
    /\ UNCHANGED <<client, mThread, joinable, source, queued, deleted>> /\ UNCHANGED shared

cleanup ==
    /\ thread = "cleanup"
    /\ mRunnable' = FALSE
    /\ thread' = "delete"
    /\ UNCHANGED <<client, mThread, mJoinable, mRefCount, delegate, joinable, source, queued, deleted>>

deleteRunnable ==
    /\ thread = "delete"
    /\ deleteTask
    /\ thread' = "leave"
    /\ UNCHANGED <<client, mThread, joinable, source>> /\ UNCHANGED shared

leave ==
    /\ thread = "leave"
    /\ destroyDelegate
    /\ thread' = "exited"
    /\ UNCHANGED <<client, mThread, joinable, source, queued, deleted>>

-----------------------------------------------------------------------------
(* Other threads send messages to a task that is there; one whose queue is *)
(* unblocked refuses them, and sendMsg does not look at the answer.        *)
sendMsg ==
    /\ IsMsgTask
    /\ client = "started"
    /\ source = "open" /\ queued < MaxQueued
    /\ queued' = queued + 1
    /\ UNCHANGED <<client, thread, mThread, joinable, source, deleted>> /\ UNCHANGED shared

(* The descriptors that the poll task watches expire.                      *)
fdExpires ==
    /\ ~IsMsgTask
    /\ deleted = 0 /\ source = "open" /\ queued < MaxQueued
    /\ queued' = queued + 1
    /\ UNCHANGED <<client, thread, mThread, joinable, source, deleted>> /\ UNCHANGED shared

(* What the client does once it has begun to create or to destroy.         *)
Finish == createReturns \/ startFails \/ deleteThreadOrThis \/ bye \/ stop \/ join \/ letGo

Client == (createThread \/ destroy \/ Finish) /\ UNCHANGED runnable

threadMain == (enter \/ callRun \/ procMsg \/ pollEvent \/ runEnds
               \/ cleanup \/ deleteRunnable \/ leave) /\ UNCHANGED runnable

Others == (sendMsg \/ fdExpires) /\ UNCHANGED runnable

ThreadNext == Client \/ threadMain \/ Others

(***************************************************************************)
(* Both go on when they can, and the client finishes what it began; it     *)
(* need not begin.  Nothing makes a message or an event come.              *)
(***************************************************************************)
ThreadSpec == /\ ThreadInit /\ [][ThreadNext]_threadVars
              /\ WF_threadVars(threadMain)
              /\ WF_threadVars(Finish /\ UNCHANGED runnable)

-----------------------------------------------------------------------------
ThreadTypeOK == /\ runnable \in {"MsgTask", "LocTimerPollTask"}
                /\ client \in {"out", "created", "notStarted", "noThread", "started",
                               "destroy", "bye", "stop", "join", "drop", "gone"}
                /\ thread \in {"none", "begin", "loop", "inRun", "cleanup", "delete",
                               "leave", "exited"}
                /\ {mThread, mRunnable, mJoinable, joinable} \subseteq BOOLEAN
                /\ mRefCount \in 0..2
                /\ delegate \in {"none", "alive", "freed"}
                /\ source \in {"open", "bad", "unblocked"}
                /\ queued \in 0..MaxQueued /\ deleted \in 0..2

ClientUsesDelegate == client \in {"created", "notStarted", "bye", "stop", "join", "drop"}
ThreadUsesDelegate == thread \in {"begin", "loop", "inRun", "cleanup", "delete", "leave"}

(***************************************************************************)
(* The delegate is deleted by the last of its two users, whichever that    *)
(* is: neither touches it after the other has deleted it, and when both    *)
(* have let go of it, it has been deleted (LocThreadDelegate::destroy).    *)
(***************************************************************************)
DelegateOutlivesUsers == ClientUsesDelegate \/ ThreadUsesDelegate => delegate = "alive"

DelegateNotLeaked ==
    client \in {"noThread", "gone"} /\ thread \in {"none", "exited"} => delegate # "alive"
DelegateFreedOnce == DelegateOutlivesUsers /\ DelegateNotLeaked

(***************************************************************************)
(* The thread runs no runnable that has been deleted.  A runnable whose    *)
(* queue or descriptor could not be made is left out: its thread can end   *)
(* before start() looks, and start() then gives the deleted runnable back. *)
(* "Else it is client's responsibility to delete the object" (LocThread.h):*)
(* only one of the two deletes the runnable, with the same exception.      *)
(***************************************************************************)
RunsWhatIsAlive ==
    source # "bad" /\ thread \in {"loop", "inRun", "delete"} => deleted = 0
DeletedOnce == source # "bad" => deleted <= 1
RunnableFreedOnce == RunsWhatIsAlive /\ DeletedOnce

(* A MsgTask that is being destroyed is destroyed in the end: the client   *)
(* does not wait for ever for the thread.  The poll task is left out: its  *)
(* destroy() wakes nobody and waits for a timer to expire.                 *)
DestroyEnds == IsMsgTask /\ client = "destroy" ~> client = "gone"

-----------------------------------------------------------------------------
(***************************************************************************)
(* What the comments of the headers say and the code does not do; see the  *)
(* README.                                                                 *)
(***************************************************************************)

(* "The obj will be deleted by LocThread if start() returns true"          *)
(* (LocThread.h): when the client and the thread are gone so is the        *)
(* runnable.                                                               *)
RunnableNotLeaked ==
    client = "gone" /\ thread \in {"none", "exited"} => deleted > 0

(* The same sentence and the next, without the exception of DeletedOnce.   *)
DeletedOnceAlways == deleted <= 1

(* "this obj will be deleted once thread is deleted" (MsgTask.h), not      *)
(* while its own destroy() has yet to read mThread.                        *)
TaskOutlivesDestroy == client = "destroy" => deleted = 0

(* "when fs is closed, epoll_wait() should fail ... and the spawned thread *)
(* should exit" (LocTimer.cpp): the poll task can be destroyed too.        *)
PollDestroyEnds == client = "destroy" ~> client = "gone"
=============================================================================
