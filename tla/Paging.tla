------------------------------- MODULE Paging -------------------------------
(***************************************************************************)
(* Demand paging at work: processes touch virtual pages through the        *)
(* directory CR3 names, fault, and are served by pfint (paging/pfint.c,    *)
(* pfintr.S); they map stores, create and kill each other (vcreate.c, and  *)
(* the paging part of sys/create.c and sys/kill.c).                        *)
(*                                                                         *)
(* Which process runs is the business of Kernel.tla: here any live process *)
(* may get the processor whenever interrupts are enabled.  That includes   *)
(* the moment between a fault and pfintr's cli, because set_evec installs  *)
(* pfintr as a trap gate.  Each system call and pfint itself runs with     *)
(* interrupts disabled and is one step.                                    *)
(***************************************************************************)
EXTENDS Frames

CONSTANTS
  Calls,       \* the system calls the processes of the instance issue
  Maps,        \* the xmmap calls they make: <<pid, virtpage, source, npages>>
  Sizes,       \* the sizes given to get_bs and vcreate
  Values,      \* what they write into their pages
  MinFree      \* bound: create and pfint stop when fewer frames are free

ASSUME CallAssumption ==
  /\ Maps \subseteq Pid \X Nat \X Store \X Nat
  /\ MinFree \in Nat

VARIABLES
  live,        \* the processes that exist
  currpid,     \* the one that runs
  cr3,         \* the frame of the directory the processor translates with
  cr2,         \* the page of the last fault
  pending      \* processes that have faulted and not reached pfint

procVars == <<live, currpid, cr3, cr2, pending>>
vars     == <<storeVars, ram, procVars>>

UserPid == Pid \ {NULLPROC}
MainPid == NPROC - 1

(* Bound: every directory maps the kernel's own memory by the global       *)
(* tables.  Once one of their frames is given away nothing that runs is    *)
(* modelled.                                                               *)
KernelMapped ==
  \A f \in 0..(GLOBALS - 1) : ram.frm[f].type = "TBL" /\ ram.frm[f].pid = NULLPROC

MayCall(call) ==
  /\ KernelMapped
  /\ call \in Calls
  /\ currpid \in UserPid \ pending

Roomy == Cardinality(FreeFrames(ram)) >= MinFree

(* The processor's own translation of page v.                              *)
Xlate(v) ==
  LET pde == ram.ent[cr3][v \div PTSIZE]
      pte == ram.ent[pde.base][v % PTSIZE]
  IN  IF ~pde.pres THEN NoFrame
      ELSE IF ~pte.pres THEN NoFrame
      ELSE pte.base

-----------------------------------------------------------------------------
(* resched and ctxsw: CR3 is not among what they switch.                   *)
Switch(p) ==
  /\ KernelMapped
  /\ p \in live \ {currpid}
  /\ currpid' = p
  /\ UNCHANGED <<storeVars, ram, live, cr3, cr2, pending>>

(* create: any free slot here, newpid's order is in Kernel.tla.            *)
Create(pid) ==
  /\ MayCall("create")
  /\ pid \in UserPid \ live
  /\ Roomy
  /\ \E g \in AllocatePd(ram, pid) : ram' = g.M
  /\ live' = live \cup {pid}
  /\ UNCHANGED <<storeVars, currpid, cr3, cr2, pending>>

(* vcreate: the first free store becomes the new process's heap.  bsm_map  *)
(* gives the creator's own fields the same values.  The heap's first block *)
(* header is written into the store.                                       *)
Vcreate(pid, hsize) ==
  /\ MayCall("vcreate")
  /\ pid \in UserPid \ live
  /\ FreeStores # {} /\ hsize \in 1..BSPAGES
  /\ Roomy
  /\ \E g \in AllocatePd(ram, pid) :
       ram' = [g.M EXCEPT !.disk[Loc(FirstFree, 0)] = "header"]
  /\ MapStore(pid, FIRSTV, FirstFree, hsize)
  /\ proctab' = OwnFields(OwnFields(proctab, currpid, FIRSTV, FirstFree),
                          pid, FIRSTV, FirstFree)
  /\ live' = live \cup {pid}
  /\ UNCHANGED <<currpid, cr3, cr2, pending>>

(* kill of another process releases the store last mapped by the killer.   *)
Kill(pid) ==
  /\ MayCall("kill")
  /\ pid \in live \ {currpid, NULLPROC}
  /\ ReleaseBs(proctab[currpid].store)
  /\ live'    = live \ {pid}
  /\ pending' = pending \ {pid}
  /\ UNCHANGED <<ram, currpid, cr3, cr2>>

(* A suicide never returns from resched: nothing is released.              *)
Die ==
  /\ live'    = live \ {currpid}
  /\ pending' = pending \ {currpid}
  /\ currpid' \in live'
  /\ UNCHANGED <<storeVars, cr3, cr2>>

Suicide ==
  /\ MayCall("kill")
  /\ Die
  /\ UNCHANGED ram

(* The calls on the backing stores.                                        *)
StoreCall ==
  /\ \/ \E b \in Store :
          \/ MayCall("get_bs") /\ \E n \in Sizes : GetBs(currpid, b, n)
          \/ MayCall("release_bs") /\ ReleaseBs(b)
     \/ \E m \in Maps :
          MayCall("xmmap") /\ m[1] = currpid /\ Xmmap(m[1], m[2], m[3], m[4])
  /\ UNCHANGED <<ram, procVars>>

Unmap(virtpage) ==
  /\ MayCall("xmunmap")
  /\ Xmunmap(currpid, virtpage)
  /\ \/ /\ \E f \in Frame : ram.frm[f].pid = currpid /\ ram.frm[f].type = "PAGE"
        /\ \E d \in UnmapWrites(ram.disk, currpid, virtpage, "outside") :
             ram' = [ram EXCEPT !.disk = d]
     \/ /\ ~ \E f \in Frame : ram.frm[f].pid = currpid /\ ram.frm[f].type = "PAGE"
        /\ UNCHANGED ram
  /\ UNCHANGED procVars

-----------------------------------------------------------------------------
(* A process writes to page v; the model follows writes into pages only,   *)
(* not those a stale entry leads into a table.                             *)
Write(v, x) ==
  /\ MayCall("write")
  /\ Xlate(v) # NoFrame
  /\ ram.frm[Xlate(v)].type = "PAGE"
  /\ ram' = [ram EXCEPT !.data[Xlate(v)].val = x]
  /\ UNCHANGED <<storeVars, procVars>>

Fault(v) ==
  /\ MayCall("touch")
  /\ Xlate(v) = NoFrame
  /\ cr2'     = v
  /\ pending' = pending \cup {currpid}
  /\ UNCHANGED <<storeVars, ram, live, currpid, cr3>>

(* pfint, after the page's table and frame are there.  A page that is      *)
(* refused by the lookup stays present, its frame holding what it held.    *)
Served(g) ==
  \/ /\ g.f = NoFrame
     /\ ram' = g.M
     /\ cr3' = g.M.pdbr[currpid]
  \/ /\ g.f # NoFrame
     /\ \E lim \in LimitIndex :
          \/ /\ LookupOK(currpid, cr2, lim)
             /\ ram' = Loaded(g.M, g.f, LookupLoc(currpid, cr2))
             /\ cr3' = g.M.pdbr[currpid]
          \/ /\ ~LookupOK(currpid, cr2, lim)
             /\ ram' = g.M
             /\ UNCHANGED cr3

(* pfint.  A process that gets no frame is killed on the spot.             *)
Pfint ==
  /\ KernelMapped
  /\ currpid \in pending
  /\ ram.pdbr[currpid] # NoFrame
  /\ Roomy
  /\ \E t \in WithTable(ram, currpid, cr2) :
       \/ ~t.ok /\ ram' = t.M /\ Die
       \/ /\ t.ok
          /\ \E g \in WithPage(t.M, currpid, cr2) :
               \/ ~g.ok /\ ram' = g.M /\ Die
               \/ /\ g.ok
                  /\ Served(g)
                  /\ pending' = pending \ {currpid}
                  /\ UNCHANGED <<storeVars, live, currpid, cr2>>

-----------------------------------------------------------------------------
(* Boot: the null process's directory is in CR3, and main was created.     *)
Init ==
  /\ StoreInit
  /\ FramesInit([l \in Location |-> "zero"], MainPid)
  /\ live    = {NULLPROC, MainPid}
  /\ currpid = MainPid
  /\ cr3     = ram.pdbr[NULLPROC]
  /\ cr2     = 0
  /\ pending = {}

Next ==
  \/ \E p \in Pid : Switch(p)
  \/ \E pid \in UserPid : Create(pid) \/ Kill(pid)
  \/ \E pid \in UserPid, hsize \in Sizes : Vcreate(pid, hsize)
  \/ Suicide
  \/ StoreCall
  \/ \E v \in VPages : Unmap(v) \/ Fault(v)
  \/ \E v \in VPages, x \in Values : Write(v, x)
  \/ Pfint

Spec == Init /\ [][Next]_vars
=============================================================================
