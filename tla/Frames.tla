------------------------------- MODULE Frames -------------------------------
(***************************************************************************)
(* Physical frames, page directories and tables, and page replacement      *)
(* (paging/frame.c, pfint.c, sys/create.c's allocate_pd).                  *)
(*                                                                         *)
(* get_frm is called twice by a page fault and once by create, and each    *)
(* call may replace a page, so the state these routines share is one       *)
(* record, ram, and a routine is an operator from a record to the set of   *)
(* its outcomes.  There is more than one outcome where the code reads      *)
(* memory it never set.                                                    *)
(*                                                                         *)
(* A directory or a table is an array of entries kept in a frame.  Page v  *)
(* is entry v % PTSIZE of the table in entry v \div PTSIZE of a directory. *)
(***************************************************************************)
EXTENDS BackingStores

CONSTANTS
  NFRAMES,     \* number of frames
  PTSIZE,      \* entries of a page table or directory (1024)
  GLOBALS,     \* global page tables, which map the memory below FIRSTV (4)
  VPages,      \* the virtual pages the processes touch
  Policy,      \* "SC" or "AGING"
  StrayWords   \* what frmq[-1].next_frame, a word outside frmq that nothing
               \* sets, may hold when it is first read: 0 in cleared memory

NoFrame == -1
Frame   == 0..(NFRAMES - 1)
Index   == {v % PTSIZE : v \in VPages} \cup {v \div PTSIZE : v \in VPages}
             \cup {v \div NFRAMES : v \in VPages} \cup 0..(GLOBALS - 1)

ASSUME FrameAssumption ==
  /\ GLOBALS \in Nat \ {0} /\ NFRAMES \in Nat /\ NFRAMES > GLOBALS + 1
  /\ PTSIZE \in Nat \ {0} /\ FIRSTV = GLOBALS * PTSIZE
  /\ VPages \subseteq Nat
  /\ \A v \in VPages : v >= FIRSTV /\ v % PTSIZE < NFRAMES
  /\ Policy \in {"SC", "AGING"}
  /\ StrayWords \subseteq Frame \cup {NoFrame} /\ StrayWords # {}

VARIABLE
  ram   \* frm: the frame table (status, pid, vpno, refcnt, type)
        \* ent: for each frame, the entries of the directory or table in it
        \* data: for each frame, the contents of the page in it, and (for the
        \*   properties only) the store page `home' they were read from
        \* disk: the stores' pages as this routine leaves them
        \* pdbr: for each process, the frame of its directory
        \* head: the frame replacement starts from
        \* stray: frmq[-1].next_frame

Entry(pres, base) == [pres |-> pres, base |-> base]
Absent == Entry(FALSE, NoFrame)

Outcome(ok, f, M) == [ok |-> ok, f |-> f, M |-> M]

-----------------------------------------------------------------------------
(* Mutant of WrittenBack: the page is not written back. *)
WrittenBack_Nothing(M, i) == M

WrittenBack(M, i) ==
  LET e == M.frm[i]
      l == Loc(proctab[e.pid].store, e.vpno - proctab[e.pid].vhpno)
  IN  IF l \in Location THEN [M EXCEPT !.disk[l] = M.data[i].val] ELSE M

(* free_frm(i): only frame 1 is refused.  The page is written back where   *)
(* the fields of its process, as they are now, say; the directory entry is *)
(* looked up with NFRAMES in place of the size of a table, and an entry    *)
(* that was never set leads out of the frames, where nothing is modelled.  *)
FreeFrm(M, i) ==
  IF i = 1 \/ M.frm[i].type # "PAGE" THEN M
  ELSE LET dir == M.pdbr[M.frm[i].pid]
           d   == M.frm[i].vpno \div NFRAMES
           k   == M.frm[i].vpno % PTSIZE
           t   == M.ent[dir][d].base
           W   == WrittenBack(M, i)
       IN  IF t = NoFrame THEN W
           ELSE LET C == [W EXCEPT !.ent[t][k].pres = FALSE,
                                   !.frm[t].refcnt  = @ - 1]
                IN  IF C.frm[t].refcnt # 0 THEN C
                    ELSE [C EXCEPT !.ent[dir][d].pres = FALSE,
                                   !.frm[t] = [status |-> "UNMAPPED", pid |-> -1,
                                               vpno |-> FIRSTV, refcnt |-> 0,
                                               type |-> "PAGE"]]

(* get_SC_frame.  The scan starts at frame 0, not at head, and the links   *)
(* it follows are -1, the only value anything stores in them.  If page 0,  *)
(* the page frame 0's entry is about, was accessed since the last scan,    *)
(* the scan runs off the links: head becomes the word before frmq, and     *)
(* that word -1.  Otherwise head becomes -1.  The victim is the old head.  *)
(* get_AGE_frame starts at an index it never set: at -1 the victim is 0;   *)
(* otherwise that frame, if it has the smaller age, or head.               *)
Victims(M) ==
  IF Policy = "AGING"
  THEN {Outcome(f >= 0, f, M) : f \in Frame \cup {M.head}}
  ELSE {Outcome(M.head >= 0, M.head, N) :
          N \in {[M EXCEPT !.head = NoFrame],
                 [M EXCEPT !.head = M.stray, !.stray = NoFrame]}}

FreeFrames(M) == {f \in Frame : M.frm[f].status = "UNMAPPED"}
Lowest(F) == CHOOSE f \in F : \A g \in F : f <= g

(* get_frm: the lowest free frame, or else the victim, freed.              *)
GetFrm(M) ==
  IF FreeFrames(M) # {} THEN {Outcome(TRUE, Lowest(FreeFrames(M)), M)}
  ELSE {IF v.ok THEN Outcome(TRUE, v.f, FreeFrm(v.M, v.f)) ELSE v : v \in Victims(M)}

-----------------------------------------------------------------------------
(* allocate_pd(pid): a directory of which only the entries of the global   *)
(* tables are present.  When there is no frame nobody is told.             *)
NewDirectory == [k \in Index |-> IF k < GLOBALS THEN Entry(TRUE, k) ELSE Absent]

WithDirectory(M, pid, f) ==
  [M EXCEPT !.pdbr[pid] = f,
            !.frm[f]    = [status |-> "MAPPED", pid |-> pid, vpno |-> 0,
                           refcnt |-> GLOBALS, type |-> "DIR"],
            !.ent[f]    = NewDirectory]

AllocatePd(M, pid) ==
  {IF g.ok THEN Outcome(TRUE, g.f, WithDirectory(g.M, pid, g.f)) ELSE g : g \in GetFrm(M)}

(* pfint, the first half: find or create the table of page v in process    *)
(* pid's directory.  The table's refcnt and vpno are not set.              *)
Pde(M, pid, v) == M.ent[M.pdbr[pid]][v \div PTSIZE]

(* Mutant of WithNewTable: the table's frame joins the pages' queue.       *)
WithNewTable_Queued(M, pid, v, f) ==
  [M EXCEPT !.ent[f] = [k \in Index |-> Absent],
            !.ent[M.pdbr[pid]][v \div PTSIZE] = Entry(TRUE, f),
            !.frm[f] = [@ EXCEPT !.status = "MAPPED", !.pid = pid, !.type = "TBL"],
            !.head = f]

WithNewTable(M, pid, v, f) ==
  [M EXCEPT !.ent[f] = [k \in Index |-> Absent],
            !.ent[M.pdbr[pid]][v \div PTSIZE] = Entry(TRUE, f),
            !.frm[f].status = "MAPPED",
            !.frm[f].pid    = pid,
            !.frm[f].type   = "TBL"]

WithTable(M, pid, v) ==
  IF Pde(M, pid, v).pres THEN {Outcome(TRUE, NoFrame, M)}
  ELSE {IF g.ok THEN Outcome(TRUE, g.f, WithNewTable(g.M, pid, v, g.f)) ELSE g
          : g \in GetFrm(M)}

(* Mutants of PageMapped: the table's count is not kept; the frame does    *)
(* not get its new owner.                                                  *)
PageMapped_NoCount(M, pid, v, t, f) ==
  [M EXCEPT !.ent[t][v % PTSIZE] = Entry(TRUE, f),
            !.frm[f] = [@ EXCEPT !.status = "MAPPED", !.pid = pid,
                                 !.vpno = v, !.type = "PAGE"]]
PageMapped_NoOwner(M, pid, v, t, f) ==
  [M EXCEPT !.ent[t][v % PTSIZE] = Entry(TRUE, f),
            !.frm[f] = [@ EXCEPT !.status = "MAPPED", !.vpno = v, !.type = "PAGE"],
            !.frm[t].refcnt = @ + 1]

PageMapped(M, pid, v, t, f) ==
  [M EXCEPT !.ent[t][v % PTSIZE] = Entry(TRUE, f),
            !.frm[f] = [@ EXCEPT !.status = "MAPPED", !.pid = pid,
                                 !.vpno = v, !.type = "PAGE"],
            !.frm[t].refcnt = @ + 1]

(* pfint, the second half up to the lookup: if the page is not present, a  *)
(* frame for it; ok is FALSE if there is none, f is NoFrame if none was    *)
(* needed.                                                                 *)
WithPage(M, pid, v) ==
  LET t == Pde(M, pid, v).base
  IN  IF M.ent[t][v % PTSIZE].pres THEN {Outcome(TRUE, NoFrame, M)}
      ELSE {IF ~g.ok THEN g
            ELSE Outcome(TRUE, g.f, PageMapped(g.M, pid, v, t, g.f))
              : g \in GetFrm(M)}

(* read_bs and insert_frame: the page's contents come in, and its frame is *)
(* the one replacement starts from next, whatever was in the queue (the    *)
(* test for an empty queue is an assignment).                              *)
Contents(val, home) == [val |-> val, home |-> home]
NoHome == Contents("outside", -1)

Loaded(M, f, l) ==
  [M EXCEPT !.data[f] = IF l \in Location THEN Contents(M.disk[l], l) ELSE NoHome,
            !.head    = f]

-----------------------------------------------------------------------------
(* init_frm, init_queue and the paging part of sysinit: the global tables  *)
(* in the first frames, then the null process's directory.                 *)
FramesInit(disk0, main) ==
  \E w \in StrayWords :
  LET F == [frm  |-> [f \in Frame |->
                        IF f < GLOBALS
                        THEN [status |-> "MAPPED", pid |-> NULLPROC, vpno |-> 0,
                              refcnt |-> 0, type |-> "TBL"]
                        ELSE [status |-> "UNMAPPED", pid |-> -1, vpno |-> 0,
                              refcnt |-> 0, type |-> "PAGE"]],
            ent  |-> [f \in Frame |-> [k \in Index |->
                        IF f < GLOBALS THEN Entry(TRUE, NoFrame) ELSE Absent]],
            data |-> [f \in Frame |-> NoHome],
            disk |-> disk0,
            pdbr |-> [p \in Pid |-> NoFrame],
            head |-> NoFrame,
            stray |-> w]
  IN  \E g \in AllocatePd(F, NULLPROC) : \E h \in AllocatePd(g.M, main) : ram = h.M
=============================================================================
