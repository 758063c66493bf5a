--------------------------- MODULE BackingStores ----------------------------
(***************************************************************************)
(* The backing stores and the map from processes' virtual pages to them    *)
(* (paging/bsm.c, get_bs.c, release_bs.c, xm.c).  A store is BSPAGES pages *)
(* of memory; the stores follow one another, so a page offset that is out  *)
(* of a store's range names a page of a neighbour.                         *)
(*                                                                         *)
(* bs_sem and bs_priv_heap are left out: nothing reads the first, and the  *)
(* second is only ever set to 0.                                           *)
(***************************************************************************)
EXTENDS Integers, FiniteSets

CONSTANTS
  NPROC,        \* number of process table entries
  NBS,          \* number of backing stores (8)
  BSPAGES,      \* pages in a store (256)
  FIRSTV,       \* the first page of virtual memory (4096)
  LimitIndex    \* the stores bsm_lookup's uninitialised index may name

ASSUME StoreAssumption ==
  /\ NPROC \in Nat /\ NPROC > 1
  /\ NBS \in Nat \ {0} /\ BSPAGES \in Nat \ {0} /\ FIRSTV \in Nat
  /\ LimitIndex \subseteq 0..(NBS - 1) /\ LimitIndex # {}

Pid      == 0..(NPROC - 1)
NULLPROC == 0
Store    == 0..(NBS - 1)
Location == 0..(NBS * BSPAGES - 1)    \* the pages of all the stores

VARIABLES
  bsm_tab,    \* for each store: status, pid, vpno, npages
  proctab     \* for each process the fields store and vhpno

storeVars == <<bsm_tab, proctab>>

Unmapped(vpno) == [status |-> "UNMAPPED", pid |-> -1, vpno |-> vpno, npages |-> 0]
Mapped(pid, vpno, npages) ==
  [status |-> "MAPPED", pid |-> pid, vpno |-> vpno, npages |-> npages]

(* read_bs and write_bs address page `page' of store b.                    *)
Loc(b, page) == b * BSPAGES + page

(* bsm_lookup(pid, vaddr): the first entry with this pid decides.  The     *)
(* limit is computed before the index is set, from the entry lim: the page *)
(* is refused if it is past that entry's limit, by more than one.          *)
Entries(pid) == {b \in Store : bsm_tab[b].pid = pid}
FirstEntry(pid) ==
  CHOOSE b \in Entries(pid) : \A c \in Entries(pid) : b <= c

LookupOK(pid, vpno, lim) ==
  /\ Entries(pid) # {}
  /\ vpno <= bsm_tab[lim].vpno + bsm_tab[lim].npages
  /\ vpno >= bsm_tab[FirstEntry(pid)].vpno

LookupLoc(pid, vpno) ==
  Loc(FirstEntry(pid), vpno - bsm_tab[FirstEntry(pid)].vpno)

-----------------------------------------------------------------------------
(* get_bs(bs_id, npages): a free store becomes the caller's; a mapped one  *)
(* loses its window but not its owner (the assignment is a comparison).    *)
GetBs(pid, bs_id, npages) ==
  /\ npages \in 1..BSPAGES
  /\ bsm_tab' = [bsm_tab EXCEPT ![bs_id] =
                   Mapped(IF @.status = "MAPPED" THEN @.pid ELSE pid, 0, npages)]
  /\ UNCHANGED proctab

(* Mutant of ReleasedBs: the owner's id stays. *)
ReleasedBs_KeepsPid(bs_id) ==
  [bsm_tab EXCEPT ![bs_id] = [Unmapped(FIRSTV) EXCEPT !.pid = bsm_tab[bs_id].pid]]

(* release_bs(bs_id) *)
ReleasedBs(bs_id) == [bsm_tab EXCEPT ![bs_id] = Unmapped(FIRSTV)]

ReleaseBs(bs_id) ==
  /\ bsm_tab' = ReleasedBs(bs_id)
  /\ UNCHANGED proctab

(* bsm_map(pid, vpno, source, npages), called by process `caller': the     *)
(* entry is overwritten, and the caller's own fields follow it.            *)
MapStore(pid, vpno, source, npages) ==
  bsm_tab' = [bsm_tab EXCEPT ![source] = Mapped(pid, vpno, npages)]

OwnFields(P, caller, vpno, source) ==
  [P EXCEPT ![caller] = [store |-> source, vhpno |-> vpno]]

(* xmmap(virtpage, source, npages): bsm_map's refusal of a size is lost,   *)
(* xmmap answers OK all the same.                                          *)
Xmmap(pid, virtpage, source, npages) ==
  /\ virtpage > FIRSTV
  /\ npages \in 1..BSPAGES
  /\ MapStore(pid, virtpage, source, npages)
  /\ proctab' = OwnFields(proctab, pid, virtpage, source)

(* xmunmap(virtpage), i.e. bsm_unmap.  The store last mapped by the       *)
(* process is marked free, whichever one virtpage is in.                   *)
Xmunmap(pid, virtpage) ==
  /\ virtpage > FIRSTV
  /\ bsm_tab' = [bsm_tab EXCEPT ![proctab[pid].store] = Unmapped(virtpage)]
  /\ UNCHANGED proctab

(* Before that, once for every frame of the process, bsm_unmap writes      *)
(* memory that is not the frame's (page i + NFRAMES, `junk') over the      *)
(* store's page for virtpage; when the lookup fails, over a page nobody    *)
(* chose, or outside the stores.  The stores' contents, after that:        *)
UnmapWrites(disk, pid, virtpage, junk) ==
  UNION {IF LookupOK(pid, virtpage, lim)
         THEN {[l \in Location |->
                  IF l = LookupLoc(pid, virtpage) THEN junk ELSE disk[l]]}
         ELSE {disk} \cup {[disk EXCEPT ![l] = junk] : l \in Location}
           : lim \in LimitIndex}

(* get_bsm: the first store that is not mapped.                            *)
FreeStores == {b \in Store : bsm_tab[b].status = "UNMAPPED"}
FirstFree  == CHOOSE b \in FreeStores : \A c \in FreeStores : b <= c

(* init_bsm; the proctab fields are zero at boot, and create sets neither. *)
StoreInit ==
  /\ bsm_tab = [b \in Store |-> Unmapped(FIRSTV)]
  /\ proctab = [p \in Pid |-> [store |-> 0, vhpno |-> 0]]
=============================================================================
