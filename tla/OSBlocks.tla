------------------------------ MODULE OSBlocks -------------------------------
(* What the heaps of an arena promise: the memory of the heaps is apart; a    *)
(* block is memory of its heap no other block has, and stays as it is until   *)
(* it is freed or its heap is destroyed; only memory outside blocks leaves a  *)
(* heap.                                                                      *)
EXTENDS Naturals

CONSTANTS Heap, Unit

VARIABLES
  pool,   \* the units of memory of each heap
  blocks  \* the blocks of each heap, as sets of units

vars == <<pool, blocks>>

Used(h) == UNION blocks[h]
Outside == Unit \ UNION {pool[h] : h \in Heap}

Init == pool = [h \in Heap |-> {}] /\ blocks = [h \in Heap |-> {}]

Alloc(h) ==
  /\ \E b \in blocks'[h] :
       /\ b # {} /\ b \subseteq pool[h] \ Used(h)
       /\ blocks' = [blocks EXCEPT ![h] = @ \cup {b}]
  /\ UNCHANGED pool

Free(h) ==
  /\ blocks'[h] \subseteq blocks[h]
  /\ blocks' = [blocks EXCEPT ![h] = blocks'[h]]
  /\ UNCHANGED pool

Add(h) ==
  /\ pool'[h] \subseteq pool[h] \cup Outside /\ pool[h] \subseteq pool'[h]
  /\ pool' = [pool EXCEPT ![h] = pool'[h]]
  /\ UNCHANGED blocks

Fixed ==
  /\ \A h \in Heap : Used(h) \subseteq pool'[h] /\ pool'[h] \subseteq pool[h]
  /\ UNCHANGED blocks

Reset(h) ==
  /\ pool'[h] \subseteq pool[h] \cup Outside
  /\ pool' = [pool EXCEPT ![h] = pool'[h]]
  /\ blocks' = [blocks EXCEPT ![h] = {}]

Restart == Init'

Next == Fixed \/ Restart \/ \E h \in Heap : Alloc(h) \/ Free(h) \/ Add(h) \/ Reset(h)
Spec == Init /\ [][Next]_vars
=============================================================================
