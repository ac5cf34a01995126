--------------------------- MODULE LocApiSyncReq ----------------------------
(***************************************************************************)
(* Synchronous requests to the modem (loc_api_sync_req.c): a caller takes  *)
(* a slot, says which indication it waits for, sends its request and       *)
(* sleeps until the thread that receives indications finds its slot, or    *)
(* until it has waited too long.                                           *)
(*                                                                         *)
(* An action is a stretch of code under one lock, or an access to a slot   *)
(* without its lock.  loc_sync_process_ind goes through the slots under    *)
(* the mutex of the array and stops at the first that matches: every       *)
(* caller passes a buffer for the answer.  There is one client handle.     *)
(***************************************************************************)
EXTENDS Naturals, Sequences, FiniteSetsExt

CONSTANTS Callers,
          BufferSize,      \* LOC_SYNC_REQ_BUFFER_SIZE
          Inds,            \* indications that requests wait for
          MaxHax,          \* hax: how often a request is sent again
          MaxInFlight,     \* bound: indications on their way
          NULL

ASSUME SyncAssumption ==
    /\ BufferSize \in Nat \ {0} /\ MaxHax \in Nat /\ MaxInFlight \in Nat
    /\ NULL \notin Callers \cup Inds

Slots == 1..BufferSize

VARIABLES in_use, slot_in_use,
          slots,       \* recv_ind_id, buffer (its owner), waiting, arrived
          pc,          \* where each caller is in loc_sync_send_req
          select_id, ind_id, hax,
          status,      \* what the call will return
          answered,    \* the caller's buffer has been written
          inds         \* indications on their way, oldest first

array == <<in_use, slot_in_use, slots>>
locals == <<select_id, ind_id, hax, status, answered>>
vars == <<array, pc, locals, inds>>

FreeSlot == [recv_ind_id |-> NULL, buffer |-> NULL, waiting |-> FALSE, arrived |-> FALSE]

Init == /\ in_use = FALSE
        /\ slot_in_use = [s \in Slots |-> FALSE]
        /\ slots = [s \in Slots |-> FreeSlot]
        /\ pc = [c \in Callers |-> "out"]
        /\ select_id = [c \in Callers |-> 0]
        /\ ind_id = [c \in Callers |-> NULL]
        /\ hax = [c \in Callers |-> 0]
        /\ status = [c \in Callers |-> "SUCCESS"]
        /\ answered = [c \in Callers |-> FALSE]
        /\ inds = <<>>

goes(c, place) == pc' = [pc EXCEPT ![c] = place]

-----------------------------------------------------------------------------
(* A full buffer ends the call at once; status is still what it was        *)
(* initialised to.                                                         *)
loc_alloc_slot(c, ind) ==
    /\ pc[c] = "out"
    /\ ind_id' = [ind_id EXCEPT ![c] = ind]
    /\ hax' = [hax EXCEPT ![c] = MaxHax]
    /\ status' = [status EXCEPT ![c] = "SUCCESS"]
    /\ answered' = [answered EXCEPT ![c] = FALSE]
    /\ LET free == {s \in Slots : ~slot_in_use[s]}
       IN  IF free = {}
           THEN /\ goes(c, "return")
                /\ select_id' = [select_id EXCEPT ![c] = 0]
                /\ UNCHANGED array
           ELSE /\ select_id' = [select_id EXCEPT ![c] = Min(free)]
                /\ slot_in_use' = [slot_in_use EXCEPT ![Min(free)] = TRUE]
                /\ in_use' = TRUE
                /\ goes(c, "select")
                /\ UNCHANGED slots
    /\ UNCHANGED inds

loc_sync_select_ind(c) ==
    /\ pc[c] = "select"
    /\ slots' = [slots EXCEPT ![select_id[c]] =
                    [FreeSlot EXCEPT !.recv_ind_id = ind_id[c], !.buffer = c]]
    /\ goes(c, "send")
    /\ UNCHANGED <<in_use, slot_in_use, locals, inds>>

(* locClientSendReq: the modem will answer, or the request fails in a way  *)
(* that is worth another try, or it fails.                                 *)
retries(c, result) == result = "INTERNAL" /\ hax[c] > 0

againAndAgain(c, result) ==
    /\ goes(c, IF retries(c, result) THEN "send" ELSE "freeAgain")
    /\ UNCHANGED hax
again(c, result) ==
    IF retries(c, result)
    THEN goes(c, "send") /\ hax' = [hax EXCEPT ![c] = @ - 1]
    ELSE goes(c, "freeAgain") /\ UNCHANGED hax

sendSucceeds(c) ==
    /\ pc[c] = "send"
    /\ \/ Len(inds) < MaxInFlight /\ inds' = Append(inds, ind_id[c])
       \/ UNCHANGED inds
    /\ goes(c, "wait")
    /\ UNCHANGED <<array, locals>>

sendFails(c, result) ==
    /\ pc[c] = "send"
    /\ status' = [status EXCEPT ![c] = result]
    /\ again(c, result)
    /\ UNCHANGED <<array, select_id, ind_id, answered, inds>>

finishWait(c, result) ==
    /\ status' = [status EXCEPT ![c] = result]
    /\ goes(c, "free")

(* loc_sync_wait_for_ind looks at slot_in_use without a lock,              *)
waitInvalid(c) ==
    /\ pc[c] = "wait"
    /\ ~slot_in_use[select_id[c]]
    /\ status' = [status EXCEPT ![c] = "INTERNAL"]
    /\ again(c, "INTERNAL")
    /\ UNCHANGED <<array, select_id, ind_id, answered, inds>>

(* and then at the slot, with its lock.                                    *)
loc_sync_wait_for_ind(c) ==
    /\ pc[c] = "wait"
    /\ slot_in_use[select_id[c]]
    /\ LET slot == slots[select_id[c]]
       IN  \/ slot.arrived /\ finishWait(c, "SUCCESS") /\ UNCHANGED slots
           \/ ~slot.arrived /\ slot.waiting /\ finishWait(c, "INTERNAL") /\ UNCHANGED slots
           \/ /\ ~slot.arrived /\ ~slot.waiting
              /\ slots' = [slots EXCEPT ![select_id[c]].waiting = TRUE]
              /\ goes(c, "sleep")
              /\ UNCHANGED status
    /\ UNCHANGED <<in_use, slot_in_use, select_id, ind_id, hax, answered, inds>>

(* pthread_cond_timedwait returns: after a signal, too late, or for no     *)
(* reason at all.  A time-out may cross the signal.                        *)
leavesWait(c, result) ==
    /\ slots' = [slots EXCEPT ![select_id[c]].waiting = FALSE]
    /\ finishWait(c, result)
    /\ UNCHANGED <<in_use, slot_in_use, select_id, ind_id, hax, answered, inds>>

wakeUp(c) == pc[c] = "woken" /\ leavesWait(c, "SUCCESS")
timedOut(c) == pc[c] \in {"sleep", "woken"} /\ leavesWait(c, "TIMEOUT")
spuriousWakeup(c) == pc[c] = "sleep" /\ leavesWait(c, "SUCCESS")

(* loc_free_slot, without the lock of the slot.                            *)
freeKeepsSlot(s) ==
    /\ slot_in_use' = [slot_in_use EXCEPT ![s] = FALSE]
    /\ in_use' = (in_use /\ \E t \in Slots : slot_in_use'[t])
    /\ UNCHANGED slots
loc_free_slot(s) ==
    /\ slot_in_use' = [slot_in_use EXCEPT ![s] = FALSE]
    /\ slots' = [slots EXCEPT ![s] = FreeSlot]
    /\ in_use' = (in_use /\ \E t \in Slots : slot_in_use'[t])

freeAfterWait(c) ==
    /\ pc[c] = "free"
    /\ loc_free_slot(select_id[c])
    /\ \/ status[c] = "SUCCESS" /\ goes(c, "return") /\ UNCHANGED hax
       \/ status[c] # "SUCCESS" /\ again(c, status[c])
    /\ UNCHANGED <<select_id, ind_id, status, answered, inds>>

(* Whatever has failed, the slot is freed once more at the end.            *)
leaveSlot(c) ==
    /\ pc[c] = "freeAgain"
    /\ goes(c, "return")
    /\ UNCHANGED <<array, locals, inds>>
freeAfterFailure(c) ==
    /\ pc[c] = "freeAgain"
    /\ loc_free_slot(select_id[c])
    /\ goes(c, "return")
    /\ UNCHANGED <<locals, inds>>

return(c) ==
    /\ pc[c] = "return"
    /\ goes(c, "out")
    /\ select_id' = [select_id EXCEPT ![c] = 0]
    /\ ind_id' = [ind_id EXCEPT ![c] = NULL]
    /\ hax' = [hax EXCEPT ![c] = 0]
    /\ status' = [status EXCEPT ![c] = "SUCCESS"]
    /\ answered' = [answered EXCEPT ![c] = FALSE]
    /\ UNCHANGED <<array, inds>>

-----------------------------------------------------------------------------
(***************************************************************************)
(* The thread that receives indications.                                   *)
(***************************************************************************)
matches(s, ind) == slot_in_use[s] /\ slots[s].recv_ind_id = ind /\ ~slots[s].arrived
sleepers(s) == {c \in Callers : pc[c] = "sleep" /\ select_id[c] = s}

(* The caller whose buffer it is gets the answer; a sleeper is signalled,  *)
(* or the arrival is remembered.                                           *)
arrive(s) ==
    /\ answered' = [answered EXCEPT ![slots[s].buffer] = TRUE]
    /\ IF slots[s].waiting
       THEN /\ UNCHANGED slots
            /\ IF sleepers(s) = {} THEN UNCHANGED pc
               ELSE \E c \in sleepers(s) : goes(c, "woken")
       ELSE slots' = [slots EXCEPT ![s].arrived = TRUE] /\ UNCHANGED pc

loc_sync_process_ind ==
    /\ inds # <<>>
    /\ inds' = Tail(inds)
    /\ LET found == {s \in Slots : matches(s, Head(inds))}
       IN  IF in_use /\ found # {} THEN arrive(Min(found))
           ELSE UNCHANGED <<slots, pc, answered>>
    /\ in_use' = (in_use /\ \E s \in Slots : slot_in_use[s])
    /\ UNCHANGED <<slot_in_use, select_id, ind_id, hax, status>>

-----------------------------------------------------------------------------
runs(c) == \/ loc_sync_select_ind(c)
           \/ sendSucceeds(c) \/ \E r \in {"INTERNAL", "OTHER"} : sendFails(c, r)
           \/ waitInvalid(c) \/ loc_sync_wait_for_ind(c)
           \/ wakeUp(c) \/ timedOut(c)
           \/ freeAfterWait(c) \/ freeAfterFailure(c) \/ return(c)

Next == \/ \E c \in Callers : \/ \E ind \in Inds : loc_alloc_slot(c, ind)
                              \/ runs(c) \/ spuriousWakeup(c)
        \/ loc_sync_process_ind

(* A caller goes on once it has begun; the wait ends by its own clock.     *)
Spec == Init /\ [][Next]_vars /\ \A c \in Callers : WF_vars(runs(c))

-----------------------------------------------------------------------------
(* The slots, and where each caller is.                                    *)
Working == {"send", "wait", "sleep", "woken", "free", "freeAgain"}
SlotType == [recv_ind_id : Inds \cup {NULL}, buffer : Callers \cup {NULL},
             waiting : BOOLEAN, arrived : BOOLEAN]
TypeOK ==
    /\ in_use \in BOOLEAN /\ slot_in_use \in [Slots -> BOOLEAN]
    /\ slots \in [Slots -> SlotType]
    /\ pc \in [Callers -> {"out", "select", "return"} \cup Working]
    /\ select_id \in [Callers -> Slots \cup {0}]
    /\ ind_id \in [Callers -> Inds \cup {NULL}] /\ hax \in [Callers -> 0..MaxHax]
    /\ status \in [Callers -> {"SUCCESS", "INTERNAL", "OTHER", "TIMEOUT"}]
    /\ answered \in [Callers -> BOOLEAN] /\ inds \in Seq(Inds)

(* The buffer that a slot points to, on the stack of a caller, is that of  *)
(* a call that has not returned.                                           *)
NoDanglingBuffer ==
    \A s \in Slots : slots[s].buffer # NULL => pc[slots[s].buffer] \notin {"out", "return"}

(* A slot in use belongs to somebody who will free it.                     *)
NoSlotLeaked ==
    \A s \in Slots : slot_in_use[s] =>
        \E c \in Callers : select_id[c] = s /\ pc[c] \notin {"out", "return"}

(* Every call returns.                                                     *)
EveryCallReturns == \A c \in Callers : pc[c] # "out" ~> pc[c] = "out"

-----------------------------------------------------------------------------
(* "Synchronous req call (thread safe)" (loc_api_sync_req.c): no two calls *)
(* share a slot.                                                           *)
OneCallPerSlot ==
    \A c, d \in Callers :
        {pc[c], pc[d]} \subseteq {"select", "wait", "sleep", "woken"} /\ select_id[c] = select_id[d]
        => c = d

-----------------------------------------------------------------------------
(***************************************************************************)
(* What comments of the code say and the code does not do; see the README. *)
(***************************************************************************)

(* "RETURN VALUE Loc API 2.0 status" of a "synchronous req call"           *)
(* (loc_api_sync_req.c): success is reported for a request that was sent.  *)
SuccessWasSent == \A c \in Callers : pc[c] = "return" /\ status[c] = "SUCCESS" => select_id[c] # 0

(* "Wakes up blocked API calls to check if the needed callback has         *)
(* arrived" (loc_api_sync_req.c): a call that took a slot reports success  *)
(* only with an answer.                                                    *)
SuccessIsAnswered ==
    \A c \in Callers :
        pc[c] = "return" /\ status[c] = "SUCCESS" /\ select_id[c] # 0 => answered[c]
=============================================================================
