-------------------------------- MODULE Heap --------------------------------
(***************************************************************************)
(* The kernel heap (sys/getmem.c, freemem.c, getstk.c, h/mem.h).  Free     *)
(* memory is a list of blocks in the order of their addresses; getmem      *)
(* takes the first that fits, from below, and getstk the last, from above. *)
(* Addresses and lengths are counted in words, so roundew is the identity  *)
(* and roundmb rounds up to the two words of a block's header.             *)
(***************************************************************************)
EXTENDS Integers, Sequences, SequencesExt

CONSTANTS
  Regions,      \* the free blocks at boot, in order
  MemSizes,     \* the sizes asked of getmem
  StackSizes    \* the sizes asked of getstk

ASSUME HeapAssumption ==
  /\ Regions \in Seq([at : Nat, len : Nat \ {0}])
  /\ \A i, j \in 1..Len(Regions) :
       i < j => Regions[i].at + Regions[i].len < Regions[j].at
  /\ MemSizes \subseteq Nat \ {0} /\ StackSizes \subseteq Nat \ {0}

VARIABLES
  memlist,      \* the free blocks, first to last
  inuse         \* the blocks handed out: where, how long, and as what

vars == <<memlist, inuse>>

Block(at, len) == [at |-> at, len |-> len]
End(b) == b.at + b.len

roundmb(n) == n + (n % 2)

(* The least index of the list whose block satisfies Fits, or one past it. *)
FirstIn(I, n) ==
  CHOOSE i \in 1..(n + 1) : /\ i \in I \/ i = n + 1
                            /\ \A j \in 1..(i - 1) : j \notin I

-----------------------------------------------------------------------------
(* getmem(nbytes).  What is left of a block keeps its place in the list.   *)
Getmem(n) ==
  LET nb == roundmb(n)
      i  == FirstIn({k \in 1..Len(memlist) : memlist[k].len >= nb}, Len(memlist))
  IN  /\ i <= Len(memlist)
      /\ memlist' = IF memlist[i].len = nb THEN RemoveAt(memlist, i)
                    ELSE [memlist EXCEPT ![i] = Block(@.at + nb, @.len - nb)]
      /\ inuse' = inuse \cup {[at |-> memlist[i].at, len |-> nb, kind |-> "mem"]}

(* Mutant of Getstk: the stack is taken from the wrong end of its block. *)
Getstk_FromBelow(n) ==
  \E i \in 1..Len(memlist) :
    /\ memlist[i].len >= n
    /\ \A k \in (i + 1)..Len(memlist) : memlist[k].len < n
    /\ memlist' = IF memlist[i].len = n THEN RemoveAt(memlist, i)
                  ELSE [memlist EXCEPT ![i].len = @ - n]
    /\ inuse' = inuse \cup {[at |-> memlist[i].at, len |-> n, kind |-> "stk"]}

(* getstk(nbytes) *)
Getstk(n) ==
  \E i \in 1..Len(memlist) :
    /\ memlist[i].len >= n
    /\ \A k \in (i + 1)..Len(memlist) : memlist[k].len < n
    /\ memlist' = IF memlist[i].len = n THEN RemoveAt(memlist, i)
                  ELSE [memlist EXCEPT ![i].len = @ - n]
    /\ inuse' = inuse \cup {[at |-> End(memlist[i]) - n, len |-> n, kind |-> "stk"]}

(* Mutants of Freemem: blocks are not joined upwards; a block that joins   *)
(* the one below is counted without the one above it.                      *)
Freemem_NoJoinUp(block, size) ==
  LET n == Len(memlist)
      i == FirstIn({k \in 1..n : memlist[k].at >= block}, n)
      joinsQ == i > 1 /\ End(memlist[i - 1]) = block
  IN  memlist' = IF joinsQ THEN [memlist EXCEPT ![i - 1].len = @ + size]
                 ELSE InsertAt(memlist, i, Block(block, size))

Freemem_LosesAbove(block, size) ==
  LET n == Len(memlist)
      i == FirstIn({k \in 1..n : memlist[k].at >= block}, n)
      joinsQ == i > 1 /\ End(memlist[i - 1]) = block
      joinsP == i <= n /\ block + size = memlist[i].at
  IN  memlist' = IF joinsQ /\ joinsP
                 THEN RemoveAt([memlist EXCEPT ![i - 1].len = @ + size], i)
                 ELSE IF joinsQ THEN [memlist EXCEPT ![i - 1].len = @ + size]
                 ELSE IF joinsP THEN [memlist EXCEPT ![i] = Block(block, size + @.len)]
                 ELSE InsertAt(memlist, i, Block(block, size))

(* freemem(block, size): i is the first free block not below the one freed *)
(* and i - 1 the one before.  Memory that overlaps either is refused;      *)
(* otherwise it joins those it touches.                                    *)
Freemem(block, size) ==
  LET n == Len(memlist)
      i == FirstIn({k \in 1..n : memlist[k].at >= block}, n)
      overlaps == \/ i > 1 /\ End(memlist[i - 1]) > block
                  \/ i <= n /\ block + size > memlist[i].at
      joinsQ == i > 1 /\ End(memlist[i - 1]) = block
      joinsP == i <= n /\ block + size = memlist[i].at
      from   == IF joinsQ THEN memlist[i - 1].at ELSE block
      to     == IF joinsP THEN End(memlist[i]) ELSE block + size
  IN  memlist' = IF overlaps THEN memlist
                 ELSE SubSeq(memlist, 1, IF joinsQ THEN i - 2 ELSE i - 1)
                        \o <<Block(from, to - from)>>
                        \o SubSeq(memlist, IF joinsP THEN i + 1 ELSE i, n)

(* A holder frees what it was given.  freestk reckons the start of the     *)
(* stack back from its top, with the length rounded up.                    *)
Free(b) ==
  /\ \/ b.kind = "mem" /\ Freemem(b.at, roundmb(b.len))
     \/ b.kind = "stk" /\ Freemem(End(b) - roundmb(b.len), roundmb(b.len))
  /\ inuse' = inuse \ {b}

-----------------------------------------------------------------------------
Init ==
  /\ memlist = Regions
  /\ inuse   = {}

Next ==
  \/ \E n \in MemSizes : Getmem(n)
  \/ \E n \in StackSizes : Getstk(n)
  \/ \E b \in inuse : Free(b)

Spec == Init /\ [][Next]_vars
=============================================================================
