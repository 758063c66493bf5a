------------------------------ MODULE MC_Heap -------------------------------
(***************************************************************************)
(* Instances of the heaps for TLC.  The kernel heap has memory below and   *)
(* above the hole at 640K, a few words of each; the upper region has an    *)
(* odd number of words, as truncew(maxaddr - HOLEEND - NULLSTK) always     *)
(* has.  The kernel heap and the virtual heaps have no memory in common: a *)
(* behaviour uses one or the other.                                        *)
(***************************************************************************)
EXTENDS HeapProps, VHeap

BelowAndAboveHole == <<Block(0, 8), Block(10, 11)>>

VSymmetry == Permutations(VProc)

(* What a stored word reads as: no block, one cell, or one cell that leads *)
(* back to the heap's first.                                               *)
ReadsAs == {Fresh, [len |-> 1, next |-> NULL], [len |-> 1, next |-> VBase]}

MCInit == Init /\ VInit
MCNext == \/ VInit /\ Next /\ UNCHANGED vheap
          \/ Init /\ VNext /\ UNCHANGED vars
MCSpec == MCInit /\ [][MCNext]_<<vars, vheap>>
=============================================================================
