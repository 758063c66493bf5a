------------------------------- MODULE VHeap --------------------------------
(***************************************************************************)
(* The virtual heaps (paging/vgetmem.c, vfreemem.c, vcreate.c).  A process *)
(* that vcreate starts has its own pages from 4096 on, and its list of     *)
(* free blocks lies in them; but vmemlist, the pointer to the list's head, *)
(* is never set: it is 0, and the head is one word at address 0, in memory *)
(* that all processes share.                                               *)
(*                                                                         *)
(* Those pages are reached through the directory that CR3 holds, and only  *)
(* the fault handler loads CR3: create, resched and kill leave it as it    *)
(* is, and the pages of a process that has ended stay where they are.      *)
(*                                                                         *)
(* Addresses and lengths are counted in headers, two words each, from the  *)
(* first page of the heap.  Bounds: a heap is one page, and no page is     *)
(* replaced.  A member of VProc names a process from vcreate until CR3     *)
(* holds another's directory: nothing reaches its memory after that.       *)
(***************************************************************************)
EXTENDS Heap

CONSTANTS
  VProc,       \* processes that vcreate may start
  HSize,       \* the length of a heap
  VSizes,      \* the sizes asked of vgetmem, as lengths
  StoredWords  \* what memory may read as where a header may be

ASSUME VHeapAssumption ==
  HSize \in Nat \ {0} /\ VSizes \subseteq Nat \ {0}

NULL  == 0
VBase == 1
Cell  == VBase..HSize

VARIABLES
  vhead,       \* the mnext of the head at address 0
  header,      \* per process: what its memory reads as where a header may be
  held,        \* per process: the blocks it was given, with their lengths
  cr3,         \* the process whose directory CR3 holds, or "other"
  resident,    \* the processes in whose directory the heap's page is present
  mixed        \* history: two processes had a heap at once, or one reached for
               \* its heap through another's directory, and not all have ended
vheap == <<vhead, header, held, cr3, resident, mixed>>

Fresh == [len |-> 0, next |-> NULL]

ASSUME StoredWordsAssumption == StoredWords \subseteq [len : Nat, next : Cell \cup {NULL}]

(* Whose memory process p reaches: that of the directory in CR3 if the     *)
(* page is present there, or else p's own, which the fault brings in.      *)
Seen(p) == IF cr3 \in resident THEN cr3 ELSE p

Reaches(p) ==
  /\ cr3' = Seen(p)
  /\ resident' = resident \cup {Seen(p)}
  /\ mixed' = (Seen(p) # p)

(* The list from the shared head through the memory of p.  One that leads  *)
(* back to itself is cut off after HSize links, where the code would walk  *)
(* it for ever.                                                            *)
Chain(p) ==
  LET upto[k \in 0..HSize] ==
        IF k = 0 THEN IF vhead = NULL THEN <<>> ELSE <<vhead>>
        ELSE LET s == upto[k - 1]
             IN  IF s = <<>> \/ header[p][s[Len(s)]].next = NULL THEN s
                 ELSE Append(s, header[p][s[Len(s)]].next)
  IN  upto[HSize]

(* The i-th link of a chain, the head's or a header's, is set to a.        *)
Linked(p, chain, i, a, h) ==
  IF i = 1 THEN vhead' = a /\ header' = [header EXCEPT ![p] = h]
  ELSE UNCHANGED vhead /\ header' = [header EXCEPT ![p] = [h EXCEPT ![chain[i - 1]].next = a]]
-----------------------------------------------------------------------------
VInit ==
  /\ vhead = NULL
  /\ header = [p \in VProc |-> [a \in Cell |-> Fresh]]
  /\ held = [p \in {} |-> {}]
  /\ cr3 = "other"
  /\ resident = {}
  /\ mixed = FALSE

(* vcreate: the head is set for everyone, the first header in p's store;   *)
(* the rest of the store is whatever was there.  CR3 is not loaded.        *)
Vcreate(p) ==
  /\ p \notin DOMAIN held /\ cr3 # p
  /\ mixed' = (DOMAIN held # {})
  /\ vhead' = VBase
  /\ \E rest \in [Cell -> StoredWords] :
       header' = [header EXCEPT ![p] =
                    [rest EXCEPT ![VBase] = [len |-> HSize, next |-> NULL]]]
  /\ resident' = resident \ {p}
  /\ UNCHANGED cr3
  /\ held' = [q \in DOMAIN held \cup {p} |-> IF q = p THEN {} ELSE held[q]]

(* Mutant of Vgetmem: what is left of a block is not put back in its place. *)
Vgetmem_KeepsBlock(p, n) ==
  LET s == Seen(p)
      chain == Chain(s)
      i == FirstIn({k \in 1..Len(chain) : header[s][chain[k]].len >= n}, Len(chain))
      b == chain[i]
      h == header[s][b]
  IN  /\ i <= Len(chain)
      /\ Reaches(p)
      /\ IF h.len = n
           THEN Linked(s, chain, i, h.next, header[s])
           ELSE Linked(s, chain, i, b, [header[s] EXCEPT ![b].len = h.len - n])
      /\ held' = [held EXCEPT ![p] = @ \cup {[at |-> b, len |-> n]}]

(* vgetmem: the first block that fits, from below, if one does.            *)
Vgetmem(p, n) ==
  LET s == Seen(p)
      chain == Chain(s)
      i == FirstIn({k \in 1..Len(chain) : header[s][chain[k]].len >= n}, Len(chain))
      b == chain[i]
      h == header[s][b]
  IN  /\ chain # <<>>
      /\ Reaches(p)
      /\ \/ /\ i > Len(chain) /\ Len(chain) <= HSize
            /\ UNCHANGED <<vhead, header, held>>
         \/ /\ i <= Len(chain)
            /\ IF h.len = n
                 THEN Linked(s, chain, i, h.next, header[s])
                 ELSE Linked(s, chain, i, b + n,
                        [header[s] EXCEPT ![b + n] = [len |-> h.len - n, next |-> h.next]])
            /\ held' = [held EXCEPT ![p] = @ \cup {[at |-> b, len |-> n]}]

(* vfreemem of a block its process was given: as freemem.                  *)
Vfreemem(p, b) ==
  LET s == Seen(p)
      chain == Chain(s)
      n == Len(chain)
      i == FirstIn({k \in 1..n : chain[k] >= b.at}, n)
      top == chain[i - 1] + header[s][chain[i - 1]].len
      joinsQ == i > 1 /\ top = b.at
      joinsP == i <= n /\ b.at + b.len = chain[i]
      after  == IF joinsP THEN header[s][chain[i]]
                ELSE [len |-> 0, next |-> IF i <= n THEN chain[i] ELSE NULL]
      joined == [len |-> b.len + after.len, next |-> after.next]
  IN  /\ i <= n \/ n <= HSize
      /\ Reaches(p)
      /\ IF (i > 1 /\ top > b.at) \/ (i <= n /\ b.at + b.len > chain[i])
           THEN UNCHANGED <<vhead, header>>
         ELSE IF joinsQ
           THEN /\ UNCHANGED vhead
                /\ header' = [header EXCEPT ![s][chain[i - 1]] =
                                [len |-> @.len + joined.len, next |-> joined.next]]
         ELSE Linked(s, chain, i, b.at, [header[s] EXCEPT ![b.at] = joined])
      /\ held' = [held EXCEPT ![p] = @ \ {b}]

(* A process stores in its block; what it stores may read as a header.     *)
Store(p, b) ==
  /\ Reaches(p)
  /\ \E w \in StoredWords : header' = [header EXCEPT ![Seen(p)][b.at] = w]
  /\ UNCHANGED <<vhead, held>>

(* A process, one with a heap or another, faults on a page that is not the *)
(* heap's: the handler loads CR3 with its directory.                       *)
Faults(p) ==
  /\ cr3' = p
  /\ UNCHANGED <<vhead, header, held, resident, mixed>>

(* A process ends.  Its directory, its pages and CR3 stay as they are;     *)
(* which store kill releases, if it does, is modelled in Paging.           *)
Ends(p) ==
  /\ held' = [q \in DOMAIN held \ {p} |-> held[q]]
  /\ mixed' = (mixed /\ DOMAIN held # {p})
  /\ UNCHANGED <<vhead, header, cr3, resident>>

(* Bound: once heaps are mixed their processes only end.                   *)
VNext ==
  \/ /\ ~mixed
     /\ \/ \E p \in VProc : Vcreate(p)
        \/ \E p \in DOMAIN held \cup {"other"} : Faults(p)
        \/ \E p \in DOMAIN held :
             \/ \E n \in VSizes : Vgetmem(p, n)
             \/ \E b \in held[p] : Vfreemem(p, b) \/ Store(p, b)
  \/ \E p \in DOMAIN held : Ends(p)

VSpec == VInit /\ [][VNext]_vheap
-----------------------------------------------------------------------------
(* vgetmem.c's "private heap": a process is not given memory that it has,  *)
(* and its list does not lead into memory that it has, whatever it stores  *)
(* there and whatever was in its store before.  So it is while no other    *)
(* process has a heap, which would share the head, and while each reaches  *)
(* for its heap through its own directory.  A process that runs on under   *)
(* the directory of one that has ended reads the list that one left, where *)
(* a stored word may stand for a header, and may be given one block twice. *)
PrivateHeap ==
  ~mixed => \A p \in DOMAIN held :
    /\ \A b, c \in held[p] :
         b # c => b.at + b.len <= c.at \/ c.at + c.len <= b.at
    /\ \A k \in 1..Len(Chain(p)) : \A b \in held[p] :
         Chain(p)[k] \notin b.at..(b.at + b.len - 1)
=============================================================================
