------------------------------ MODULE LocHeap -------------------------------
(***************************************************************************)
(* The heap of LocHeap.cpp: a binary tree sorted from the root down, whose *)
(* nodes keep the size of their subtree.                                   *)
(*                                                                         *)
(* Nodes stay linked where they are while the code swaps their data, so a  *)
(* tree is what is stored at each place: the root is at place 1, and below *)
(* place p are 2p on the left and 2p + 1 on the right.  A call of the heap *)
(* runs down the tree and back up; each level of its recursion is a step   *)
(* here, and its stack is the path from the root to the place it is at.    *)
(* All users of a heap call it on one thread: no call starts before the    *)
(* one before it has returned.                                             *)
(***************************************************************************)
EXTENDS Integers

CONSTANTS Nodes, outRanks(_, _), None

(* ranks() compares integers, with ties.                                   *)
ASSUME RankAssumption ==
    /\ None \notin Nodes
    /\ \A a, b \in Nodes : outRanks(a, b) \in BOOLEAN /\ ~(outRanks(a, b) /\ outRanks(b, a))
    /\ \A a, b, c \in Nodes : outRanks(a, c) => outRanks(a, b) \/ outRanks(b, c)

VARIABLES mData, mSize,  \* what is stored at each place of the tree
          step,          \* what the call does at this level
          at,            \* the level: the place it is at
          node,          \* the data that goes down with it: of the node pushed, or looked for
          from,          \* where remove has found it and pop began
          call           \* the last call answered: its name, its argument, what it returned

tree == DOMAIN mData
left(p) == 2 * p
right(p) == 2 * p + 1
parent(p) == p \div 2
children(p) == {left(p), right(p)} \cap tree
size(p) == IF p \in tree THEN mSize[p] ELSE 0

(* A node is linked at a free place, or detached.                          *)
linked(f, p, x) == [q \in DOMAIN f \cup {p} |-> IF q = p THEN x ELSE f[q]]
detached(f, p) == [q \in DOMAIN f \ {p} |-> f[q]]

peek == IF tree = {} THEN None ELSE mData[1]

getTreeSize == IF tree = {} THEN 0 ELSE mSize[1]

returned == step' = "idle" /\ at' = 0 /\ node' = None /\ from' = 0

HeapInit == /\ mData = [p \in {} |-> None] /\ mSize = [p \in {} |-> 0]
            /\ step = "idle" /\ at = 0 /\ node = None /\ from = 0
            /\ call = <<None, None, None>>

-----------------------------------------------------------------------------
push(n) ==
    /\ step = "idle" /\ \A p \in tree : mData[p] # n
    /\ call' = <<"push", n, None>>
    /\ \/ /\ tree = {}
          /\ mData' = linked(mData, 1, n) /\ mSize' = linked(mSize, 1, 1)
          /\ UNCHANGED <<step, at, node, from>>
       \/ /\ tree # {}
          /\ step' = "push" /\ at' = 1 /\ node' = n
          /\ UNCHANGED <<mData, mSize, from>>

(* The subtree that gets a node that is pushed.                            *)
pushSide(p) ==
    IF left(p) \notin tree \/ (right(p) \in tree /\ mSize[left(p)] <= mSize[right(p)])
    THEN left(p) ELSE right(p)

(* The higher of the two stays, the lower sinks to a free place.           *)
stays == IF outRanks(node, mData[at]) THEN [mData EXCEPT ![at] = node] ELSE mData
sinks == IF outRanks(node, mData[at]) THEN mData[at] ELSE node

pushNode ==
    /\ step = "push"
    /\ LET side == pushSide(at)
       IN  \/ /\ side \in tree
              /\ mData' = stays /\ node' = sinks /\ at' = side
              /\ UNCHANGED <<mSize, step>>
           \/ /\ side \notin tree
              /\ mData' = linked(stays, side, sinks) /\ mSize' = linked(mSize, side, 1)
              /\ step' = "pushed" /\ node' = None /\ UNCHANGED at
    /\ UNCHANGED <<from, call>>

(* On the way back each level counts the node that it got or lost.         *)
countBy(d) ==
    /\ mSize' = [mSize EXCEPT ![at] = @ + d]
    /\ \/ at = 1 /\ returned
       \/ at # 1 /\ at' = parent(at) /\ UNCHANGED <<step, node, from>>
    /\ UNCHANGED <<mData, call>>
pushed == step = "pushed" /\ countBy(1)
uncounted == step = "removed" /\ countBy(0)
removed == step = "removed" /\ countBy(-1)

-----------------------------------------------------------------------------
pop ==
    /\ step = "idle"
    /\ \/ /\ tree = {}
          /\ call' = <<"pop", None, None>>
          /\ UNCHANGED <<mData, mSize, step, at, node, from>>
       \/ /\ tree # {}
          /\ step' = "pop" /\ at' = 1 /\ from' = 1
          /\ UNCHANGED <<mData, mSize, node, call>>

(* The subtree whose top replaces the one that is popped.                  *)
popSide(p) ==
    IF left(p) \in tree /\ (right(p) \in tree => outRanks(mData[left(p)], mData[right(p)]))
    THEN left(p) ELSE right(p)

(* The answer of pop(), or of the remove that popped the node.             *)
answer(d) == IF node = None THEN <<"pop", None, d>> ELSE <<"remove", node, d>>

(* The data goes down to a leaf, whose node is detached with it.           *)
popNode ==
    /\ step = "pop"
    /\ \/ /\ children(at) # {}
          /\ LET sub == popSide(at)
             IN  /\ mData' = [mData EXCEPT ![at] = mData[sub], ![sub] = mData[at]]
                 /\ at' = sub
          /\ mSize' = [mSize EXCEPT ![at] = @ - 1]
          /\ UNCHANGED <<step, node, from, call>>
       \/ /\ children(at) = {}
          /\ mData' = detached(mData, at) /\ mSize' = detached(mSize, at)
          /\ call' = answer(mData[at])
          /\ \/ from = 1 /\ returned
             \/ from # 1 /\ step' = "removed" /\ at' = parent(from) /\ UNCHANGED <<node, from>>

-----------------------------------------------------------------------------
remove(n) ==
    /\ step = "idle"
    /\ \/ /\ tree = {}
          /\ call' = <<"remove", n, None>>
          /\ UNCHANGED <<step, at, node>>
       \/ /\ tree # {}
          /\ step' = "search" /\ at' = 1 /\ node' = n
          /\ UNCHANGED call
    /\ UNCHANGED <<mData, mSize, from>>

(* The node is here, or may be below, unless it outranks what is here.     *)
removeNode ==
    /\ step = "search"
    /\ \/ /\ mData[at] = node
          /\ step' = "pop" /\ from' = at /\ UNCHANGED at
       \/ /\ mData[at] # node /\ ~outRanks(node, mData[at]) /\ children(at) # {}
          /\ at' = IF left(at) \in tree THEN left(at) ELSE right(at)
          /\ UNCHANGED <<step, from>>
       \/ /\ mData[at] # node /\ (outRanks(node, mData[at]) \/ children(at) = {})
          /\ step' = "unfound" /\ UNCHANGED <<at, from>>
    /\ UNCHANGED <<mData, mSize, node, call>>

(* The subtree that is left to search when the node is not under p.        *)
noneLeft(p) == {}
subtreeLeft(p) == {right(parent(p))} \cap (tree \ {p})

unfound ==
    /\ step = "unfound"
    /\ \/ /\ at = 1
          /\ call' = <<"remove", node, None>> /\ returned
       \/ /\ at # 1 /\ subtreeLeft(at) # {}
          /\ at' \in subtreeLeft(at) /\ step' = "search"
          /\ UNCHANGED <<node, from, call>>
       \/ /\ at # 1 /\ subtreeLeft(at) = {}
          /\ at' = parent(at)
          /\ UNCHANGED <<step, node, from, call>>
    /\ UNCHANGED <<mData, mSize>>

-----------------------------------------------------------------------------
heapVars == <<mData, mSize, step, at, node, from, call>>

HeapNext == \/ pop \/ \E n \in Nodes : push(n) \/ remove(n)
            \/ pushNode \/ pushed \/ popNode \/ removeNode \/ unfound \/ removed

HeapSpec == HeapInit /\ [][HeapNext]_heapVars

-----------------------------------------------------------------------------
checkNodes(p) == /\ mSize[p] = 1 + size(left(p)) + size(right(p))
                 /\ \A c \in children(p) : ~outRanks(mData[c], mData[p])

(* checkTree of the code's own test: no node outranks its parent, and each *)
(* mSize counts the nodes of the subtree.                                  *)
checkTree == step = "idle" => \A p \in tree : checkNodes(p)

(* What the heap holds once the call that runs is over, what is then on    *)
(* top of it, and the answer.                                              *)
held == {mData[p] : p \in {q \in tree : step = "pop" => q # at}}
        \cup {x \in {node} : step = "push"}
onTop == IF step = "push" /\ at = 1 /\ outRanks(node, peek) THEN node
         ELSE IF step = "pop" /\ at = 1
         THEN IF children(1) = {} THEN None ELSE mData[popSide(1)]
         ELSE peek
answered == IF step = "pop" THEN answer(mData[at]) ELSE call

(* The tree is a ranked set: nodes are neither lost nor duplicated, peek   *)
(* shows one that no other outranks, pop returns that one, and remove      *)
(* returns the node if and only if the heap held it.                       *)
Ranked == INSTANCE RankedSet WITH NULL <- None, heap <- held, top <- onTop, call <- answered
ImplementsRankedSet == Ranked!Spec
=============================================================================
