------------------------ MODULE LocApiSyncReqProofs -------------------------
(***************************************************************************)
(* Proofs about the slots of loc_api_sync_req.c, for any callers, any      *)
(* number of slots, indications and retries: no slot points into a call    *)
(* that has returned, and none is lost, although calls free slots twice    *)
(* and under one another.                                                  *)
(***************************************************************************)
EXTENDS LocApiSyncReq, WellFoundedInduction, TLAPS

(***************************************************************************)
(* What NoDanglingBuffer and NoSlotLeaked rest on: a caller between its    *)
(* allocation and its return has a slot and knows its indication, and a    *)
(* slot that points to a caller is the one the caller works with.          *)
(***************************************************************************)
CallersHaveSlots ==
    \A c \in Callers :
        /\ pc[c] \in {"select"} \cup Working => select_id[c] \in Slots
        /\ pc[c] # "out" => ind_id[c] \in Inds

BufferIsOwned ==
    \A s \in Slots : slots[s].buffer # NULL =>
        select_id[slots[s].buffer] = s /\ pc[slots[s].buffer] \in Working

SyncInv == TypeOK /\ CallersHaveSlots /\ BufferIsOwned /\ NoSlotLeaked

-----------------------------------------------------------------------------
(* A set of natural numbers that is not empty has a least element.         *)
LEMMA LeastElement ==
    ASSUME NEW S \in SUBSET Nat, S # {}
    PROVE  \E x \in S : \A y \in S : x <= y
<1> DEFINE less == OpToRel(<, Nat)
<1>1. IsWellFoundedOn(less, Nat)
  BY NatLessThanWellFounded
<1>2. \A x, y \in Nat : x < y => <<x, y>> \in less
  BY DEF OpToRel
<1> HIDE DEF less
<1>3. PICK x \in S : \A y \in S : ~ (<<y, x>> \in less)
  BY <1>1, WFMin
<1>4. \A y \in S : ~ (y < x)
  BY <1>2, <1>3
<1> QED
  BY <1>4

(* The first slot of a set of slots is one of them.                        *)
LEMMA FirstSlot ==
    ASSUME NEW S \in SUBSET Slots, S # {}
    PROVE  Min(S) \in S
<1>1. S \in SUBSET Nat
  BY SyncAssumption DEF Slots
<1>2. \E x \in S : \A y \in S : x <= y
  BY <1>1, LeastElement
<1> QED
  BY <1>2 DEF Min

(* A slot that is free points to nobody; one that is selected, to its      *)
(* caller.                                                                 *)
LEMMA FreeFacts == FreeSlot \in SlotType /\ FreeSlot.buffer = NULL
  BY DEF FreeSlot, SlotType

selected(ind, c) == [FreeSlot EXCEPT !.recv_ind_id = ind, !.buffer = c]

LEMMA SelectedFacts ==
    ASSUME NEW ind \in Inds, NEW c \in Callers
    PROVE  selected(ind, c) \in SlotType /\ selected(ind, c).buffer = c
  BY DEF selected, FreeSlot, SlotType

LEMMA InitInv == Init => SyncInv
<1> SUFFICES ASSUME Init PROVE SyncInv
  OBVIOUS
<1>1. /\ in_use \in BOOLEAN /\ slot_in_use \in [Slots -> BOOLEAN]
      /\ answered \in [Callers -> BOOLEAN]
  BY Zenon DEF Init
<1>2. /\ slots \in [Slots -> SlotType] /\ inds \in Seq(Inds)
      /\ hax \in [Callers -> 0..MaxHax]
      /\ pc \in [Callers -> {"out", "select", "return"} \cup Working]
      /\ select_id \in [Callers -> Slots \cup {0}]
      /\ ind_id \in [Callers -> Inds \cup {NULL}]
      /\ status \in [Callers -> {"SUCCESS", "INTERNAL", "OTHER", "TIMEOUT"}]
  BY FreeFacts, SyncAssumption DEF Init
<1>3. CallersHaveSlots /\ BufferIsOwned /\ NoSlotLeaked
  BY FreeFacts DEF Init, CallersHaveSlots, BufferIsOwned, NoSlotLeaked, Working
<1> QED
  BY <1>1, <1>2, <1>3 DEF SyncInv, TypeOK
-----------------------------------------------------------------------------
(* A slot points to a caller or to nobody.                                 *)
LEMMA Buffers ==
    ASSUME TypeOK, NEW s \in Slots
    PROVE  slots[s].buffer \in Callers \cup {NULL}
  BY DEF TypeOK, SlotType

(* A flag that is written in a slot leaves the buffer alone.               *)
LEMMA FlagFacts ==
    ASSUME NEW f \in [Slots -> SlotType], NEW s \in Slots, NEW g,
           \/ g = [f EXCEPT ![s].waiting = TRUE]
           \/ g = [f EXCEPT ![s].waiting = FALSE]
           \/ g = [f EXCEPT ![s].arrived = TRUE]
    PROVE  g \in [Slots -> SlotType] /\ \A t \in Slots : g[t].buffer = f[t].buffer
<1>1. CASE g = [f EXCEPT ![s].waiting = TRUE]
  BY <1>1 DEF SlotType
<1>2. CASE g = [f EXCEPT ![s].waiting = FALSE]
  BY <1>2 DEF SlotType
<1>3. CASE g = [f EXCEPT ![s].arrived = TRUE]
  BY <1>3 DEF SlotType
<1> QED
  BY <1>1, <1>2, <1>3

(* What loc_free_slot leaves behind.                                       *)
LEMMA FreeingFacts ==
    ASSUME TypeOK, NEW s \in Slots, loc_free_slot(s)
    PROVE  /\ in_use' \in BOOLEAN /\ slot_in_use' \in [Slots -> BOOLEAN]
           /\ slots' \in [Slots -> SlotType]
           /\ ~ slot_in_use'[s] /\ slots'[s].buffer = NULL
           /\ \A t \in Slots : t # s => slot_in_use'[t] = slot_in_use[t] /\ slots'[t] = slots[t]
<1>1. in_use' \in BOOLEAN
  BY Zenon DEF loc_free_slot
<1>2. slot_in_use' \in [Slots -> BOOLEAN]
  BY Zenon DEF loc_free_slot, TypeOK
<1>3. /\ slots' \in [Slots -> SlotType] /\ slots'[s].buffer = NULL
      /\ ~ slot_in_use'[s]
      /\ \A t \in Slots : t # s => slot_in_use'[t] = slot_in_use[t] /\ slots'[t] = slots[t]
  BY FreeFacts DEF loc_free_slot, TypeOK
<1> QED
  BY <1>1, <1>2, <1>3

(***************************************************************************)
(* A caller that goes on and leaves the slots to whom they belong keeps    *)
(* the rest of the invariant.                                              *)
(***************************************************************************)
SlotsKept ==
    /\ slot_in_use' = slot_in_use /\ select_id' = select_id
    /\ \A s \in Slots : slots'[s].buffer = slots[s].buffer

LEMMA GoingOn ==
    ASSUME SyncInv, SlotsKept, TypeOK',
           NEW c \in Callers, pc[c] \in Working, pc'[c] \in Working,
           \A d \in Callers : d # c => pc'[d] = pc[d],
           ind_id' = ind_id
    PROVE  SyncInv'
<1>1. CallersHaveSlots'
  BY DEF SyncInv, CallersHaveSlots, SlotsKept, Working, TypeOK
<1>2. BufferIsOwned'
  <2> SUFFICES ASSUME NEW s \in Slots, slots'[s].buffer # NULL
               PROVE  /\ select_id'[slots'[s].buffer] = s
                      /\ pc'[slots'[s].buffer] \in Working
    BY DEF BufferIsOwned
  <2>1. slots'[s].buffer = slots[s].buffer
    BY DEF SlotsKept
  <2>2. slots[s].buffer \in Callers
    BY <2>1, Buffers DEF SyncInv
  <2>3. select_id[slots[s].buffer] = s /\ pc[slots[s].buffer] \in Working
    BY <2>1 DEF SyncInv, BufferIsOwned
  <2> QED
    BY <2>1, <2>2, <2>3 DEF SlotsKept
<1>3. NoSlotLeaked'
  BY DEF SyncInv, NoSlotLeaked, SlotsKept, Working, TypeOK
<1> QED
  BY <1>1, <1>2, <1>3 DEF SyncInv

(* A caller that frees its slot may go on with the call or return.         *)
LEMMA Freeing ==
    ASSUME SyncInv, TypeOK',
           NEW c \in Callers, pc[c] \in Working, loc_free_slot(select_id[c]),
           pc'[c] \in Working \cup {"return"},
           \A d \in Callers : d # c => pc'[d] = pc[d],
           ind_id' = ind_id, select_id' = select_id
    PROVE  SyncInv'
<1>0. select_id[c] \in Slots
  BY DEF SyncInv, CallersHaveSlots
<1>f. /\ ~ slot_in_use'[select_id[c]] /\ slots'[select_id[c]].buffer = NULL
      /\ \A t \in Slots : t # select_id[c] =>
            slot_in_use'[t] = slot_in_use[t] /\ slots'[t] = slots[t]
  BY <1>0, FreeingFacts DEF SyncInv
<1>1. CallersHaveSlots'
  BY DEF SyncInv, CallersHaveSlots, Working, TypeOK
<1>2. BufferIsOwned'
  <2> SUFFICES ASSUME NEW s \in Slots, slots'[s].buffer # NULL
               PROVE  /\ select_id'[slots'[s].buffer] = s
                      /\ pc'[slots'[s].buffer] \in Working
    BY DEF BufferIsOwned
  <2>1. s # select_id[c] /\ slots'[s] = slots[s]
    BY <1>f
  <2>2. slots[s].buffer \in Callers
    BY <2>1, Buffers DEF SyncInv
  <2>3. select_id[slots[s].buffer] = s /\ pc[slots[s].buffer] \in Working
    BY <2>1 DEF SyncInv, BufferIsOwned
  <2> QED
    BY <2>1, <2>2, <2>3
<1>3. NoSlotLeaked'
  <2> SUFFICES ASSUME NEW s \in Slots, slot_in_use'[s]
               PROVE  \E d \in Callers : select_id'[d] = s /\ pc'[d] \notin {"out", "return"}
    BY DEF NoSlotLeaked
  <2>1. s # select_id[c] /\ slot_in_use[s]
    BY <1>f
  <2>2. PICK d \in Callers : select_id[d] = s /\ pc[d] \notin {"out", "return"}
    BY <2>1 DEF SyncInv, NoSlotLeaked
  <2> QED
    BY <2>1, <2>2
<1> QED
  BY <1>1, <1>2, <1>3 DEF SyncInv
-----------------------------------------------------------------------------
(* Each step of a caller keeps the types.  again decides whether the       *)
(* request is sent once more.                                              *)
LEMMA AgainFacts ==
    ASSUME TypeOK, NEW c \in Callers, NEW result, again(c, result)
    PROVE  /\ pc' \in [Callers -> {"out", "select", "return"} \cup Working]
           /\ hax' \in [Callers -> 0..MaxHax]
           /\ pc'[c] \in Working
           /\ \A d \in Callers : d # c => pc'[d] = pc[d]
<1>1. CASE retries(c, result)
  <2>1. pc' = [pc EXCEPT ![c] = "send"] /\ hax' = [hax EXCEPT ![c] = hax[c] - 1]
    BY <1>1 DEF again, goes
  <2>2. hax[c] - 1 \in 0..MaxHax
    BY <1>1, SyncAssumption DEF retries, TypeOK
  <2> QED
    BY <2>1, <2>2 DEF TypeOK, Working
<1>2. CASE ~ retries(c, result)
  <2>1. pc' = [pc EXCEPT ![c] = "freeAgain"] /\ hax' = hax
    BY <1>2 DEF again, goes
  <2> QED
    BY <2>1 DEF TypeOK, Working
<1> QED
  BY <1>1, <1>2

LEMMA AllocStep ==
    ASSUME SyncInv, NEW c \in Callers, NEW ind \in Inds, loc_alloc_slot(c, ind)
    PROVE  SyncInv'
<1> DEFINE free == {s \in Slots : ~slot_in_use[s]}
<1>t. /\ ind_id' \in [Callers -> Inds \cup {NULL}] /\ hax' \in [Callers -> 0..MaxHax]
      /\ status' \in [Callers -> {"SUCCESS", "INTERNAL", "OTHER", "TIMEOUT"}]
      /\ inds' \in Seq(Inds) /\ slots' \in [Slots -> SlotType] /\ slots' = slots
      /\ pc[c] = "out" /\ ind_id'[c] = ind /\ \A d \in Callers : d # c => ind_id'[d] = ind_id[d]
  BY SyncAssumption DEF SyncInv, TypeOK, loc_alloc_slot, array
<1>a. answered' \in [Callers -> BOOLEAN]
  BY Zenon DEF SyncInv, TypeOK, loc_alloc_slot
<1>1. CASE free = {}
  <2>1. /\ pc' = [pc EXCEPT ![c] = "return"] /\ select_id' = [select_id EXCEPT ![c] = 0]
        /\ in_use' = in_use /\ slot_in_use' = slot_in_use
    BY <1>1 DEF loc_alloc_slot, goes, array
  <2>2. TypeOK'
    BY <1>t, <1>a, <2>1 DEF SyncInv, TypeOK
  <2>3. CallersHaveSlots'
    BY <1>t, <2>1 DEF SyncInv, CallersHaveSlots, TypeOK, Working
  <2>4. BufferIsOwned'
    BY <1>t, <2>1, Buffers DEF SyncInv, BufferIsOwned, TypeOK, Working
  <2>5. NoSlotLeaked'
    BY <1>t, <2>1 DEF SyncInv, NoSlotLeaked, TypeOK
  <2> QED
    BY <2>2, <2>3, <2>4, <2>5 DEF SyncInv
<1>2. CASE free # {}
  <2>0. Min(free) \in Slots
    BY <1>2, FirstSlot
  <2>1. PICK s \in Slots : /\ pc' = [pc EXCEPT ![c] = "select"]
                           /\ select_id' = [select_id EXCEPT ![c] = s]
                           /\ slot_in_use' = [slot_in_use EXCEPT ![s] = TRUE]
                           /\ in_use' = TRUE
    BY <1>2, <2>0 DEF loc_alloc_slot, goes
  <2>b. in_use' \in BOOLEAN /\ slot_in_use' \in [Slots -> BOOLEAN]
    BY <2>1, Zenon DEF SyncInv, TypeOK
  <2>2. TypeOK'
    BY <1>t, <1>a, <2>1, <2>b DEF SyncInv, TypeOK
  <2>3. CallersHaveSlots'
    BY <1>t, <2>1 DEF SyncInv, CallersHaveSlots, TypeOK, Working
  <2>4. BufferIsOwned'
    BY <1>t, <2>1, Buffers DEF SyncInv, BufferIsOwned, TypeOK, Working
  <2>5. NoSlotLeaked'
    <3> SUFFICES ASSUME NEW t \in Slots, slot_in_use'[t]
                 PROVE  \E d \in Callers : select_id'[d] = t /\ pc'[d] \notin {"out", "return"}
      BY DEF NoSlotLeaked
    <3>1. CASE t = s
      BY <2>1, <3>1 DEF SyncInv, TypeOK
    <3>2. CASE t # s
      <4>1. slot_in_use[t]
        BY <2>1, <3>2 DEF SyncInv, TypeOK
      <4>2. PICK d \in Callers : select_id[d] = t /\ pc[d] \notin {"out", "return"}
        BY <4>1 DEF SyncInv, NoSlotLeaked
      <4> QED
        BY <1>t, <2>1, <4>2 DEF SyncInv, TypeOK
    <3> QED
      BY <3>1, <3>2
  <2> QED
    BY <2>2, <2>3, <2>4, <2>5 DEF SyncInv
<1> QED
  BY <1>1, <1>2

LEMMA SelectStep ==
    ASSUME SyncInv, NEW c \in Callers, loc_sync_select_ind(c)
    PROVE  SyncInv'
<1>1. ind_id[c] \in Inds /\ select_id[c] \in Slots /\ pc[c] = "select"
  BY DEF loc_sync_select_ind, SyncInv, CallersHaveSlots
<1>2. slots' = [slots EXCEPT ![select_id[c]] = selected(ind_id[c], c)]
  BY DEF loc_sync_select_ind, selected
<1>3. /\ slots' \in [Slots -> SlotType] /\ slots'[select_id[c]].buffer = c
      /\ \A t \in Slots : t # select_id[c] => slots'[t] = slots[t]
  BY <1>1, <1>2, SelectedFacts DEF SyncInv, TypeOK
<1>4. /\ pc' = [pc EXCEPT ![c] = "send"] /\ slot_in_use' = slot_in_use /\ in_use' = in_use
      /\ select_id' = select_id /\ ind_id' = ind_id /\ hax' = hax /\ status' = status
      /\ answered' = answered /\ inds' = inds
  BY DEF loc_sync_select_ind, goes, locals
<1>5. TypeOK'
  BY <1>3, <1>4 DEF SyncInv, TypeOK, Working
<1>6. CallersHaveSlots'
  BY <1>1, <1>4 DEF SyncInv, CallersHaveSlots, TypeOK, Working
<1>7. BufferIsOwned'
  <2> SUFFICES ASSUME NEW s \in Slots, slots'[s].buffer # NULL
               PROVE  /\ select_id'[slots'[s].buffer] = s
                      /\ pc'[slots'[s].buffer] \in Working
    BY DEF BufferIsOwned
  <2>1. CASE s = select_id[c]
    BY <1>3, <1>4, <2>1 DEF SyncInv, TypeOK, Working
  <2>2. CASE s # select_id[c]
    <3>1. slots'[s] = slots[s] /\ slots[s].buffer \in Callers
      BY <1>3, <2>2, Buffers DEF SyncInv
    <3>2. select_id[slots[s].buffer] = s /\ pc[slots[s].buffer] \in Working
      BY <3>1 DEF SyncInv, BufferIsOwned
    <3> QED
      BY <1>4, <2>2, <3>1, <3>2 DEF SyncInv, TypeOK
  <2> QED
    BY <2>1, <2>2
<1>8. NoSlotLeaked'
  BY <1>1, <1>4 DEF SyncInv, NoSlotLeaked, TypeOK
<1> QED
  BY <1>5, <1>6, <1>7, <1>8 DEF SyncInv
LEMMA SendStep ==
    ASSUME SyncInv, NEW c \in Callers, sendSucceeds(c)
    PROVE  SyncInv'
<1>1. pc[c] = "send" /\ ind_id[c] \in Inds
  BY DEF sendSucceeds, SyncInv, CallersHaveSlots
<1>i. inds \in Seq(Inds)
  BY DEF SyncInv, TypeOK
<1>a. Append(inds, ind_id[c]) \in Seq(Inds)
  BY <1>1, <1>i
<1>2. /\ pc' = [pc EXCEPT ![c] = "wait"] /\ UNCHANGED <<array, locals>>
      /\ inds' \in Seq(Inds)
  BY <1>i, <1>a DEF sendSucceeds, goes
<1>3. TypeOK'
  BY <1>2 DEF SyncInv, TypeOK, array, locals, Working
<1>4. SlotsKept /\ ind_id' = ind_id
  BY <1>2 DEF SlotsKept, array, locals
<1>5. /\ pc[c] \in Working /\ pc'[c] \in Working
      /\ \A d \in Callers : d # c => pc'[d] = pc[d]
  BY <1>1, <1>2 DEF SyncInv, TypeOK, Working
<1> QED
  BY <1>3, <1>4, <1>5, GoingOn

(* A request or a wait that fails is repeated or given up.                 *)
LEMMA FailStep ==
    ASSUME SyncInv, NEW c \in Callers, NEW result \in {"INTERNAL", "OTHER"},
           pc[c] \in Working, status' = [status EXCEPT ![c] = result], again(c, result),
           UNCHANGED <<array, select_id, ind_id, answered, inds>>
    PROVE  SyncInv'
<1>1. TypeOK
  BY DEF SyncInv
<1>2. /\ pc' \in [Callers -> {"out", "select", "return"} \cup Working]
      /\ hax' \in [Callers -> 0..MaxHax] /\ pc'[c] \in Working
      /\ \A d \in Callers : d # c => pc'[d] = pc[d]
  BY <1>1, AgainFacts
<1>3. TypeOK'
  BY <1>1, <1>2 DEF TypeOK, array
<1>4. SlotsKept
  BY DEF SlotsKept, array
<1> QED
  BY <1>2, <1>3, <1>4, GoingOn

(* A wait begins or ends; the slot may note that somebody waits.           *)
LEMMA WaitStep ==
    ASSUME SyncInv, NEW c \in Callers, pc[c] \in Working,
           NEW place \in Working, pc' = [pc EXCEPT ![c] = place],
           \/ slots' = slots
           \/ slots' = [slots EXCEPT ![select_id[c]].waiting = TRUE]
           \/ slots' = [slots EXCEPT ![select_id[c]].waiting = FALSE],
           status' \in [Callers -> {"SUCCESS", "INTERNAL", "OTHER", "TIMEOUT"}],
           UNCHANGED <<in_use, slot_in_use, select_id, ind_id, hax, answered, inds>>
    PROVE  SyncInv'
<1>1. select_id[c] \in Slots
  BY DEF SyncInv, CallersHaveSlots
<1>2. slots' \in [Slots -> SlotType] /\ \A s \in Slots : slots'[s].buffer = slots[s].buffer
  <2>1. slots \in [Slots -> SlotType]
    BY DEF SyncInv, TypeOK
  <2> QED
    BY <1>1, <2>1, FlagFacts
<1>3. TypeOK'
  BY <1>2 DEF SyncInv, TypeOK
<1>4. SlotsKept
  BY <1>2 DEF SlotsKept
<1>5. pc'[c] \in Working /\ \A d \in Callers : d # c => pc'[d] = pc[d]
  BY DEF SyncInv, TypeOK
<1> QED
  BY <1>3, <1>4, <1>5, GoingOn

LEMMA SleepStep ==
    ASSUME SyncInv, NEW c \in Callers,
           loc_sync_wait_for_ind(c) \/ wakeUp(c) \/ timedOut(c) \/ spuriousWakeup(c)
    PROVE  SyncInv'
<1>1. pc[c] \in Working
  BY DEF loc_sync_wait_for_ind, wakeUp, timedOut, spuriousWakeup, Working
<1>2. /\ \/ slots' = slots
         \/ slots' = [slots EXCEPT ![select_id[c]].waiting = TRUE]
         \/ slots' = [slots EXCEPT ![select_id[c]].waiting = FALSE]
      /\ status' \in [Callers -> {"SUCCESS", "INTERNAL", "OTHER", "TIMEOUT"}]
      /\ UNCHANGED <<in_use, slot_in_use, select_id, ind_id, hax, answered, inds>>
  BY DEF loc_sync_wait_for_ind, wakeUp, timedOut, spuriousWakeup, leavesWait, finishWait,
         SyncInv, TypeOK
<1>3. \E place \in Working : pc' = [pc EXCEPT ![c] = place]
  BY DEF loc_sync_wait_for_ind, wakeUp, timedOut, spuriousWakeup, leavesWait, finishWait,
         goes, Working
<1> QED
  BY <1>1, <1>2, <1>3, WaitStep

LEMMA FreeStep ==
    ASSUME SyncInv, NEW c \in Callers, freeAfterWait(c) \/ freeAfterFailure(c)
    PROVE  SyncInv'
<1>1. /\ pc[c] \in Working /\ loc_free_slot(select_id[c])
      /\ UNCHANGED <<select_id, ind_id, status, answered, inds>>
  BY DEF freeAfterWait, freeAfterFailure, Working, locals
<1>2. select_id[c] \in Slots /\ TypeOK
  BY <1>1 DEF SyncInv, CallersHaveSlots
<1>3. /\ pc' \in [Callers -> {"out", "select", "return"} \cup Working]
      /\ hax' \in [Callers -> 0..MaxHax] /\ pc'[c] \in Working \cup {"return"}
      /\ \A d \in Callers : d # c => pc'[d] = pc[d]
  <2>1. CASE pc' = [pc EXCEPT ![c] = "return"] /\ hax' = hax
    BY <1>2, <2>1 DEF TypeOK
  <2>2. CASE again(c, status[c])
    BY <1>2, <2>2, AgainFacts
  <2> QED
    BY <2>1, <2>2 DEF freeAfterWait, freeAfterFailure, goes, locals
<1>4. /\ in_use' \in BOOLEAN /\ slot_in_use' \in [Slots -> BOOLEAN]
      /\ slots' \in [Slots -> SlotType]
  BY <1>1, <1>2, FreeingFacts
<1>5. TypeOK'
  BY <1>1, <1>2, <1>3, <1>4 DEF TypeOK
<1> QED
  BY <1>1, <1>3, <1>5, Freeing

LEMMA ReturnStep ==
    ASSUME SyncInv, NEW c \in Callers, return(c)
    PROVE  SyncInv'
<1>1. /\ pc[c] = "return" /\ pc' = [pc EXCEPT ![c] = "out"]
      /\ select_id' = [select_id EXCEPT ![c] = 0] /\ ind_id' = [ind_id EXCEPT ![c] = NULL]
      /\ slots' = slots /\ slot_in_use' = slot_in_use /\ in_use' = in_use /\ inds' = inds
  BY DEF return, goes, array
<1>2. /\ hax' \in [Callers -> 0..MaxHax]
      /\ status' \in [Callers -> {"SUCCESS", "INTERNAL", "OTHER", "TIMEOUT"}]
  BY SyncAssumption DEF return, SyncInv, TypeOK
<1>3. answered' \in [Callers -> BOOLEAN]
  BY Zenon DEF return, SyncInv, TypeOK
<1>4. TypeOK'
  BY <1>1, <1>2, <1>3 DEF SyncInv, TypeOK
<1>5. CallersHaveSlots'
  BY <1>1 DEF SyncInv, CallersHaveSlots, TypeOK, Working
<1>6. BufferIsOwned'
  BY <1>1, Buffers DEF SyncInv, BufferIsOwned, TypeOK, Working
<1>7. NoSlotLeaked'
  BY <1>1 DEF SyncInv, NoSlotLeaked, TypeOK
<1> QED
  BY <1>4, <1>5, <1>6, <1>7 DEF SyncInv

(***************************************************************************)
(* An indication wakes one sleeper at most, or is noted in the slot.       *)
(***************************************************************************)
LEMMA IndicationStep ==
    ASSUME SyncInv, loc_sync_process_ind
    PROVE  SyncInv'
<1> DEFINE found == {s \in Slots : matches(s, Head(inds))}
<1>1. /\ inds' \in Seq(Inds)
      /\ UNCHANGED <<slot_in_use, select_id, ind_id, hax, status>>
  BY DEF loc_sync_process_ind, SyncInv, TypeOK
<1>2. in_use' \in BOOLEAN
  BY Zenon DEF loc_sync_process_ind
<1>3. /\ answered' \in [Callers -> BOOLEAN]
      /\ slots' \in [Slots -> SlotType] /\ \A s \in Slots : slots'[s].buffer = slots[s].buffer
      /\ pc' = pc \/ \E c \in Callers : pc[c] = "sleep" /\ pc' = [pc EXCEPT ![c] = "woken"]
  <2>1. CASE in_use /\ found # {}
    <3>1. Min(found) \in Slots
      BY <2>1, FirstSlot
    <3>2. PICK s \in Slots : arrive(s)
      BY <2>1, <3>1 DEF loc_sync_process_ind
    <3>3. answered' \in [Callers -> BOOLEAN]
      BY <3>2, Zenon DEF arrive, SyncInv, TypeOK
    <3>4. slots' \in [Slots -> SlotType] /\ \A t \in Slots : slots'[t].buffer = slots[t].buffer
      <4>1. slots' = slots \/ slots' = [slots EXCEPT ![s].arrived = TRUE]
        BY <3>2 DEF arrive
      <4>2. slots \in [Slots -> SlotType]
        BY DEF SyncInv, TypeOK
      <4> QED
        BY <4>1, <4>2, FlagFacts
    <3>5. pc' = pc \/ \E c \in Callers : pc[c] = "sleep" /\ pc' = [pc EXCEPT ![c] = "woken"]
      BY <3>2 DEF arrive, sleepers, goes
    <3> QED
      BY <3>3, <3>4, <3>5
  <2>2. CASE ~ (in_use /\ found # {})
    BY <2>2 DEF loc_sync_process_ind, SyncInv, TypeOK
  <2> QED
    BY <2>1, <2>2
<1>4. pc' \in [Callers -> {"out", "select", "return"} \cup Working]
  BY <1>3 DEF SyncInv, TypeOK, Working
<1>5. TypeOK'
  BY <1>1, <1>2, <1>3, <1>4 DEF SyncInv, TypeOK
<1>6. SlotsKept
  BY <1>1, <1>3 DEF SlotsKept
<1>7. CASE pc' = pc
  <2>1. CallersHaveSlots' /\ NoSlotLeaked'
    BY <1>1, <1>7 DEF SyncInv, CallersHaveSlots, NoSlotLeaked
  <2>2. BufferIsOwned'
    BY <1>1, <1>3, <1>7 DEF SyncInv, BufferIsOwned
  <2> QED
    BY <1>5, <2>1, <2>2 DEF SyncInv
<1>8. ASSUME NEW c \in Callers, pc[c] = "sleep", pc' = [pc EXCEPT ![c] = "woken"]
      PROVE  SyncInv'
  <2>1. /\ pc[c] \in Working /\ pc'[c] \in Working
        /\ \A d \in Callers : d # c => pc'[d] = pc[d]
    BY <1>8 DEF SyncInv, TypeOK, Working
  <2> QED
    BY <1>1, <1>5, <1>6, <2>1, GoingOn
<1> QED
  BY <1>3, <1>7, <1>8

-----------------------------------------------------------------------------
(* The invariant is inductive.                                             *)
LEMMA StepInv == SyncInv /\ [Next]_vars => SyncInv'
<1> SUFFICES ASSUME SyncInv, [Next]_vars PROVE SyncInv'
  OBVIOUS
<1>1. ASSUME NEW c \in Callers, runs(c) PROVE SyncInv'
  <2>1. CASE \E r \in {"INTERNAL", "OTHER"} : sendFails(c, r)
    <3>1. PICK r \in {"INTERNAL", "OTHER"} : sendFails(c, r)
      BY <2>1
    <3>2. pc[c] \in Working
      BY <3>1 DEF sendFails, Working
    <3> QED
      BY <3>1, <3>2, FailStep DEF sendFails
  <2>2. CASE waitInvalid(c)
    <3>1. pc[c] \in Working
      BY <2>2 DEF waitInvalid, Working
    <3> QED
      BY <2>2, <3>1, FailStep DEF waitInvalid
  <2> QED
    BY <1>1, <2>1, <2>2, SelectStep, SendStep, SleepStep, FreeStep, ReturnStep DEF runs
<1>2. CASE UNCHANGED vars
  <2>1. TypeOK'
    BY <1>2 DEF SyncInv, TypeOK, vars, array, locals
  <2>2. CallersHaveSlots' /\ BufferIsOwned' /\ NoSlotLeaked'
    BY <1>2 DEF SyncInv, CallersHaveSlots, BufferIsOwned, NoSlotLeaked, vars, array, locals
  <2> QED
    BY <2>1, <2>2 DEF SyncInv
<1> QED
  BY <1>1, <1>2, AllocStep, SleepStep, IndicationStep DEF Next

THEOREM Invariance == Spec => []SyncInv
  BY InitInv, StepInv, PTL DEF Spec

(* Every variable keeps its type.                                          *)
THEOREM TypeCorrect == Spec => []TypeOK
<1>1. SyncInv => TypeOK
  BY DEF SyncInv
<1> QED
  BY <1>1, Invariance, PTL

(***************************************************************************)
(* The indication is copied through a pointer into the stack of a caller   *)
(* (loc_sync_process_ind): the caller has not returned.                    *)
(***************************************************************************)
THEOREM BuffersAlive == Spec => []NoDanglingBuffer
<1>1. SyncInv => NoDanglingBuffer
  BY DEF SyncInv, BufferIsOwned, NoDanglingBuffer, Working
<1> QED
  BY <1>1, Invariance, PTL

(***************************************************************************)
(* A slot in use belongs to a call that will free it, whatever other calls *)
(* free it meanwhile (loc_free_slot).                                      *)
(***************************************************************************)
THEOREM SlotsComeBack == Spec => []NoSlotLeaked
<1>1. SyncInv => NoSlotLeaked
  BY DEF SyncInv
<1> QED
  BY <1>1, Invariance, PTL
=============================================================================
