-------------------------- MODULE MCLocApiSyncReq ---------------------------
(***************************************************************************)
(* Instances of LocApiSyncReq: more callers than slots, so that a call can *)
(* find the buffer full and a freed slot is taken by somebody else.        *)
(***************************************************************************)
EXTENDS LocApiSyncReq, TLC

Symmetry == Permutations(Callers) \cup Permutations(Inds)
=============================================================================
