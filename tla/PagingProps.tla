----------------------------- MODULE PagingProps ----------------------------
(***************************************************************************)
(* What demand paging promises, and what it does not keep.                 *)
(***************************************************************************)
EXTENDS Paging

Status == {"MAPPED", "UNMAPPED"}

(* Types of the store map, the frame table, the entries and the registers. *)
PagingTypeOK ==
  /\ bsm_tab \in [Store -> [status : Status, pid : Pid \cup {-1},
                            vpno : Nat, npages : 0..BSPAGES]]
  /\ proctab \in [Pid -> [store : Store, vhpno : Nat]]
  /\ ram.frm \in [Frame -> [status : Status, pid : Pid \cup {-1}, vpno : Nat,
                            refcnt : Int, type : {"PAGE", "TBL", "DIR"}]]
  /\ ram.ent \in [Frame -> [Index -> [pres : BOOLEAN, base : Frame \cup {NoFrame}]]]
  /\ ram.pdbr \in [Pid -> Frame \cup {NoFrame}]
  /\ ram.head \in Frame \cup {NoFrame} /\ ram.stray \in Frame \cup {NoFrame}
  /\ live \subseteq Pid /\ currpid \in live
  /\ cr3 \in Frame /\ cr2 \in Nat
  /\ pending \subseteq live

(* The table of page v in p's directory, and the frame of the page.        *)
HasDir(p)     == ram.pdbr[p] # NoFrame
HasTable(p,v) == HasDir(p) /\ Pde(ram, p, v).pres
Pte(p, v)     == ram.ent[Pde(ram, p, v).base][v % PTSIZE]
Resident(p,v) == HasTable(p, v) /\ Pte(p, v).pres

(* The inverted page table agrees with the page tables as long as frames   *)
(* do not run out: the frame of every present page of a live process is    *)
(* recorded as that page's, so no two pages share a frame.                 *)
ResidentRecorded ==
  \A p \in live \cap UserPid, v \in VPages :
    Resident(p, v) =>
      LET e == ram.frm[Pte(p, v).base]
      IN  /\ e.status = "MAPPED" /\ e.type = "PAGE"
          /\ e.pid = p /\ e.vpno = v

(* A table's reference count is the number of its present entries, which   *)
(* is what free_frm decides by when it gives a table's frame back.         *)
RefcntIsPresent ==
  PagingTypeOK /\ \A p \in live \cap UserPid, v \in VPages :
    HasTable(p, v) =>
      LET t == Pde(ram, p, v).base
      IN  ram.frm[t].refcnt = Cardinality({k \in Index : ram.ent[t][k].pres})

(* bsm_lookup goes by the owner's id alone: only a mapped entry has one.   *)
LookupFindsMapped ==
  \A b \in Store : bsm_tab[b].pid # -1 <=> bsm_tab[b].status = "MAPPED"

(* README:147: "page tables are always resident in memory", and neither    *)
(* they nor directories are paged.  Second chance never takes the frame of *)
(* a directory or table in use: what is reachable from a live process's    *)
(* directory is a table of its own.  Of the global tables it takes at most *)
(* the one that the stray word names when the scan runs off the links      *)
(* (frame.c:146): table 0, in memory that was cleared.                     *)
TablesResident ==
  /\ \A f \in 0..(GLOBALS - 1) \ StrayWords :
       ram.frm[f].type = "TBL" /\ ram.frm[f].pid = NULLPROC
  /\ \A p \in live : HasDir(p) =>
       /\ ram.frm[ram.pdbr[p]].type = "DIR"
       /\ \A v \in VPages : HasTable(p, v) =>
            LET e == ram.frm[Pde(ram, p, v).base]
            IN  e.status = "MAPPED" /\ e.type = "TBL" /\ e.pid = p

(* Replacement loses no page: when a frame whose page was read from a      *)
(* store goes to another page, table or directory, what it held is in the  *)
(* place it was read from.                                                 *)
Use(M, f) == <<M.frm[f].pid, M.frm[f].vpno, M.frm[f].type>>

EvictedPageSaved ==
  [][\A f \in Frame :
       LET l == ram.data[f].home
       IN  /\ ram.frm[f].type = "PAGE" /\ l # -1
           /\ Use(ram', f) # Use(ram, f)
           => ram'.disk[l] = ram.data[f].val]_vars

-----------------------------------------------------------------------------
(* README 2.1.2: memory from page 4096 on is "private and visible only to  *)
(* the process which owns it": what the processor shows to the current     *)
(* process is a page of that process.                                      *)
PrivateSpace ==
  currpid # NULLPROC =>
    \A v \in VPages :
      Xlate(v) # NoFrame => ram.frm[Xlate(v)].pid = currpid
=============================================================================
