----------------------------- MODULE HeapProps ------------------------------
(***************************************************************************)
(* What the kernel heap promises, for any order of allocations and frees.  *)
(***************************************************************************)
EXTENDS Heap, FiniteSets

Words(b) == b.at..(End(b) - 1)

HeapTypeOK ==
  /\ memlist \in Seq([at : Nat, len : Nat])
  /\ inuse \subseteq [at : Nat, len : Nat, kind : {"mem", "stk"}]

(* getmem, getstk and freemem keep the free list in the order of addresses *)
(* with a gap between neighbours: freed blocks join on both sides, so free *)
(* memory is never split without something in use at the split.            *)
Coalesced ==
  HeapTypeOK /\ \A i, j \in 1..Len(memlist) : i < j => End(memlist[i]) < memlist[j].at

(* No word is both free and in use, or in use twice.                       *)
NoOverlap ==
  /\ \A b \in inuse, i \in 1..Len(memlist) : Words(b) \cap Words(memlist[i]) = {}
  /\ \A b, c \in inuse : b # c => Words(b) \cap Words(c) = {}

(* No word is lost: each is free or in use, whatever was refused.          *)
NothingLost ==
  UNION {Words(Regions[i]) : i \in 1..Len(Regions)} \subseteq
    (UNION {Words(memlist[i]) : i \in 1..Len(memlist)}) \cup (UNION {Words(b) : b \in inuse})
=============================================================================
