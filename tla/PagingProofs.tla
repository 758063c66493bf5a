---------------------------- MODULE PagingProofs ----------------------------
(***************************************************************************)
(* Demand paging, for any number of processes, stores, frames and pages.   *)
(***************************************************************************)
EXTENDS PagingProps, FiniteSetTheorems, WellFoundedInduction, TLAPS

(* The two regimes.  Spare: create and pfint find at least two frames      *)
(* free.  SecondChance: frames may run out; the word before frmq reads, at *)
(* first, as no frame or as the frame of a global table, as 0 does; and    *)
(* the pages lie where free_frm's wrong index, vpno / NFRAMES, meets an    *)
(* entry that no page of the process uses.  In the code, 255 frames and    *)
(* tables of 1024, that is so for pages 4096 to 16383, and not for those   *)
(* from 0x40000 on, where the index leaves the directory.                  *)
PagesApart ==
  \A v, w \in VPages : v \div NFRAMES >= GLOBALS /\ v \div NFRAMES # w \div PTSIZE

Spare        == MinFree >= 2
StrayGlobal  == StrayWords \subseteq {NoFrame} \cup 0..(GLOBALS - 1)
SecondChance == Policy = "SC" /\ StrayGlobal /\ PagesApart

-----------------------------------------------------------------------------
(* The record ram.                                                         *)
Value   == Values \cup {"zero", "header", "outside"}
FrmRec  == [status : Status, pid : Pid \cup {-1}, vpno : Nat, refcnt : Int,
            type : {"PAGE", "TBL", "DIR"}]
EntRec  == [pres : BOOLEAN, base : Frame \cup {NoFrame}]
RamType(M) ==
  M \in [frm  : [Frame -> FrmRec],
         ent  : [Frame -> [Index -> EntRec]],
         data : [Frame -> [val : Value, home : Int]],
         disk : [Location -> Value],
         pdbr : [Pid -> Frame \cup {NoFrame}],
         head : Frame \cup {NoFrame},
         stray : Frame \cup {NoFrame}]

TableIndex    == {v \div PTSIZE : v \in VPages}
Present(M, t) == {k \in Index : M.ent[t][k].pres}
HasPd(M, p)   == M.pdbr[p] # NoFrame
Pd(M, p)      == M.ent[M.pdbr[p]]

GlobalsOK(M) ==
  \A f \in 0..(GLOBALS - 1) \ StrayWords :
    M.frm[f].type = "TBL" /\ M.frm[f].pid = NULLPROC

(* A process's directory is a directory; of the entries from GLOBALS on    *)
(* only those of tables are ever set.                                      *)
DirsOK(M) ==
  \A p \in Pid : HasPd(M, p) =>
    /\ M.frm[M.pdbr[p]].type = "DIR" /\ M.frm[M.pdbr[p]].pid = p
    /\ \A k \in Index : k >= GLOBALS /\ (k \notin TableIndex \/ p = NULLPROC)
                          => Pd(M, p)[k] = Absent

IsTable(M, p, t) ==
  t \in Frame /\ M.frm[t].status = "MAPPED" /\ M.frm[t].type = "TBL" /\ M.frm[t].pid = p
TablesOK(M) ==
  \A p \in Pid : HasPd(M, p) => \A k \in TableIndex :
    Pd(M, p)[k].pres => IsTable(M, p, Pd(M, p)[k].base)

(* What is free or holds a page counts nothing; a table its entries.       *)
CountsOK(M) ==
  \A f \in Frame :
    /\ M.frm[f].status = "UNMAPPED" => M.frm[f].type = "PAGE"
    /\ M.frm[f].type = "PAGE" => M.frm[f].refcnt = 0
    /\ M.frm[f].type = "TBL" /\ M.frm[f].pid # NULLPROC =>
         IsFiniteSet(Present(M, f)) /\ M.frm[f].refcnt = Cardinality(Present(M, f))

(* The frame that replacement starts from holds a page of a process that   *)
(* has a directory, or it is the global table that the stray word named;   *)
(* while the stray word names one, that table is in its frame.             *)
UserPage(M, f) ==
  /\ M.frm[f].status = "MAPPED" /\ M.frm[f].type = "PAGE"
  /\ M.frm[f].vpno \in VPages /\ M.frm[f].pid \in Pid /\ HasPd(M, M.frm[f].pid)
StrayTable(M, f) ==
  /\ f \in 0..(GLOBALS - 1) /\ f \in StrayWords
  /\ M.frm[f].status = "MAPPED" /\ M.frm[f].type = "TBL"
  /\ M.frm[f].pid = NULLPROC /\ M.frm[f].refcnt = 0
QueueOK(M) ==
  /\ M.head # NoFrame => UserPage(M, M.head) \/ StrayTable(M, M.head)
  /\ StrayGlobal /\ M.stray # NoFrame => StrayTable(M, M.stray) /\ M.stray # M.head

Shape(M) ==
  RamType(M) /\ GlobalsOK(M) /\ DirsOK(M) /\ TablesOK(M) /\ CountsOK(M) /\ QueueOK(M)

(* A frame that may be given away.                                         *)
Queued(M, f)  == f = M.head \/ (StrayGlobal /\ f = M.stray)
Takable(M, f) ==
  f \in Frame /\ ~ Queued(M, f) /\ (M.frm[f].type = "PAGE" \/ StrayTable(M, f))

(* With frames to spare: tables have one place in their directory, and     *)
(* pages are on record.                                                    *)
Entered(M, p, v) == HasPd(M, p) /\ Pde(M, p, v).pres
InFrame(M, p, v) == Entered(M, p, v) /\ M.ent[Pde(M, p, v).base][v % PTSIZE].pres
OneEntry(M) ==
  \A p \in UserPid : HasPd(M, p) => \A i, k \in TableIndex :
    Pd(M, p)[i].pres /\ Pd(M, p)[k].pres /\ Pd(M, p)[i].base = Pd(M, p)[k].base => i = k
PageFrame(M, p, v) == M.ent[Pde(M, p, v).base][v % PTSIZE].base
OnRecord(M, p, v, f) ==
  /\ f \in Frame /\ M.frm[f].status = "MAPPED" /\ M.frm[f].type = "PAGE"
  /\ M.frm[f].pid = p /\ M.frm[f].vpno = v
Recorded(M) ==
  \A p \in UserPid, v \in VPages :
    InFrame(M, p, v) => OnRecord(M, p, v, PageFrame(M, p, v))

StoreOK ==
  /\ bsm_tab \in [Store -> [status : Status, pid : Pid \cup {-1},
                            vpno : Nat, npages : 0..BSPAGES]]
  /\ proctab \in [Pid -> [store : Store, vhpno : Nat]]
  /\ LookupFindsMapped

ProcOK ==
  /\ live \subseteq Pid /\ NULLPROC \in live /\ currpid \in live
  /\ cr3 \in Frame /\ cr2 \in Nat
  /\ pending \subseteq live \cap UserPid
  /\ pending # {} => cr2 \in VPages

IInv == StoreOK /\ ProcOK /\ Shape(ram)
RInv == IInv /\ OneEntry(ram) /\ Recorded(ram)

-----------------------------------------------------------------------------
(* Arithmetic of pages, tables and entries.                                *)
LEMMA DivFacts ==
  ASSUME NEW v \in Nat, NEW n \in Nat \ {0}
  PROVE  v \div n \in Nat /\ v % n \in Nat /\ v % n < n /\ v = n * (v \div n) + (v % n)
  OBVIOUS

LEMMA TimesMonotone ==
  ASSUME NEW a \in Nat, NEW b \in Nat, NEW n \in Nat, a <= b
  PROVE  a * n <= b * n
  OBVIOUS

LEMMA PageParts ==
  ASSUME NEW v \in VPages
  PROVE  /\ v \in Nat
         /\ v \div PTSIZE \in Nat /\ v % PTSIZE \in Nat /\ v \div NFRAMES \in Nat
         /\ v = PTSIZE * (v \div PTSIZE) + (v % PTSIZE)
         /\ v \div PTSIZE >= GLOBALS
<1>1. v \in Nat /\ PTSIZE \in Nat \ {0} /\ NFRAMES \in Nat \ {0} /\ GLOBALS \in Nat
  BY FrameAssumption
<1>2. v >= GLOBALS * PTSIZE
  BY FrameAssumption
<1>3. /\ v \div PTSIZE \in Nat /\ v % PTSIZE \in Nat /\ v % PTSIZE < PTSIZE
      /\ v = PTSIZE * (v \div PTSIZE) + (v % PTSIZE)
  BY <1>1, DivFacts
<1>4. v \div NFRAMES \in Nat
  BY <1>1, DivFacts
<1>5. v \div PTSIZE >= GLOBALS
  <2> DEFINE q == v \div PTSIZE
             r == v % PTSIZE
  <2> HIDE DEF q, r
  <2>1. q \in Nat /\ r \in Nat /\ r < PTSIZE /\ v = PTSIZE * q + r
    BY <1>3 DEF q, r
  <2>2. SUFFICES ASSUME q + 1 <= GLOBALS PROVE FALSE
    BY <2>1, <1>1 DEF q
  <2>3. (q + 1) * PTSIZE <= GLOBALS * PTSIZE
    BY <2>1, <2>2, <1>1, TimesMonotone
  <2>4. (q + 1) * PTSIZE = PTSIZE * q + PTSIZE
    BY <2>1, <1>1
  <2> QED  BY <2>1, <2>3, <2>4, <1>1, <1>2
<1> QED  BY <1>1, <1>3, <1>4, <1>5

LEMMA IndexParts ==
  /\ Index \subseteq Nat /\ TableIndex \subseteq Index
  /\ \A v \in VPages : /\ v \div PTSIZE \in TableIndex
                       /\ v % PTSIZE \in Index /\ v \div NFRAMES \in Index
  /\ \A k \in TableIndex : k >= GLOBALS /\ k \in Nat
<1>1. \A v \in VPages : /\ v \div PTSIZE \in Nat /\ v % PTSIZE \in Nat
                        /\ v \div NFRAMES \in Nat /\ v \div PTSIZE >= GLOBALS
  BY PageParts
<1>2. 0..(GLOBALS - 1) \subseteq Nat
  OBVIOUS
<1>3. {v % PTSIZE : v \in VPages} \subseteq Nat /\ {v \div PTSIZE : v \in VPages} \subseteq Nat
  BY <1>1
<1>4. {v \div NFRAMES : v \in VPages} \subseteq Nat
  BY <1>1
<1>5. Index \subseteq Nat
  BY <1>2, <1>3, <1>4 DEF Index
<1>6. TableIndex \subseteq Index
  BY DEF TableIndex, Index
<1>7. \A v \in VPages : /\ v \div PTSIZE \in TableIndex
                        /\ v % PTSIZE \in Index /\ v \div NFRAMES \in Index
  BY DEF TableIndex, Index
<1>8. \A k \in TableIndex : k >= GLOBALS /\ k \in Nat
  BY <1>1 DEF TableIndex
<1> QED  BY <1>5, <1>6, <1>7, <1>8

(* A page is determined by its table and its entry.                        *)
LEMMA SamePage ==
  ASSUME NEW v \in VPages, NEW w \in VPages,
         v \div PTSIZE = w \div PTSIZE, v % PTSIZE = w % PTSIZE
  PROVE  v = w
<1>1. v = PTSIZE * (v \div PTSIZE) + (v % PTSIZE) /\ w = PTSIZE * (w \div PTSIZE) + (w % PTSIZE)
  BY PageParts
<1> QED  BY <1>1

LEMMA FrameParts ==
  /\ Frame \subseteq Nat /\ 0..(GLOBALS - 1) \subseteq Frame
  /\ NoFrame \notin Frame /\ NULLPROC \in Pid /\ NULLPROC \notin UserPid
  /\ UserPid \subseteq Pid /\ Pid \subseteq Nat /\ -1 \notin Pid
  BY FrameAssumption, StoreAssumption DEF Frame, NoFrame, NULLPROC, Pid, UserPid

-----------------------------------------------------------------------------
(* What the scans for the first free store and the lowest free frame find. *)
LEMMA Least ==
  ASSUME NEW T, T \subseteq Nat, T # {}
  PROVE  \E d \in T : \A e \in T : d <= e
<1>1. PICK d \in T : \A e \in T : ~ (<<e, d>> \in OpToRel(<, Nat))
  BY NatLessThanWellFounded, WFMin, Zenon
<1>2. ASSUME NEW e \in T PROVE d <= e
  <2>1. ~ (<<e, d>> \in {ss \in Nat \X Nat : ss[1] < ss[2]})
    BY <1>1 DEF OpToRel
  <2> QED  BY <2>1
<1> QED  BY <1>2

LEMMA LowestIsOne ==
  ASSUME NEW F, F \subseteq Frame, F # {}
  PROVE  Lowest(F) \in F
<1>1. F \subseteq Nat
  BY FrameParts
<1>2. \E f \in F : \A g \in F : f <= g
  BY <1>1, Least
<1> QED  BY <1>2, Zenon DEF Lowest

LEMMA FirstFreeIsFree ==
  ASSUME FreeStores # {}
  PROVE  FirstFree \in Store /\ bsm_tab[FirstFree].status = "UNMAPPED"
<1>1. FreeStores \subseteq Nat
  BY StoreAssumption DEF FreeStores, Store
<1>2. \E b \in FreeStores : \A c \in FreeStores : b <= c
  BY <1>1, Least
<1>3. FirstFree \in FreeStores
  BY <1>2, Zenon DEF FirstFree
<1> QED  BY <1>3 DEF FreeStores

-----------------------------------------------------------------------------
(* get_frm.  Asking for a frame changes at most the stores and the place   *)
(* where replacement starts.  The frame it gives is free, held a page or   *)
(* is that of the global table the stray word named: no directory, and no  *)
(* table of a process, is given away.                                      *)
Same(M, N) == N.frm = M.frm /\ N.ent = M.ent /\ N.pdbr = M.pdbr

Taken(M, g) ==
  /\ RamType(g.M) /\ Same(M, g.M) /\ QueueOK(g.M)
  /\ g.ok => Takable(g.M, g.f)
  /\ FreeFrames(M) # {} => g.ok /\ M.frm[g.f].status = "UNMAPPED"

LEMMA RamParts ==
  ASSUME NEW M, RamType(M)
  PROVE  /\ M.frm \in [Frame -> FrmRec] /\ M.ent \in [Frame -> [Index -> EntRec]]
         /\ M.data \in [Frame -> [val : Value, home : Int]]
         /\ M.disk \in [Location -> Value]
         /\ M.pdbr \in [Pid -> Frame \cup {NoFrame}] /\ M.head \in Frame \cup {NoFrame}
         /\ M.stray \in Frame \cup {NoFrame}
  BY DEF RamType

(* What the queue's frames hold does not change.                           *)
LEMMA QueueKept ==
  ASSUME NEW M, RamType(M), QueueOK(M), NEW N, N.head = M.head, N.stray = M.stray,
         \A q \in Pid : HasPd(M, q) => HasPd(N, q),
         \A h \in Frame : Queued(M, h) => N.frm[h] = M.frm[h]
  PROVE  QueueOK(N)
<1>1. M.head \in Frame \cup {NoFrame} /\ M.stray \in Frame \cup {NoFrame}
  BY RamParts
<1>2. ASSUME N.head # NoFrame PROVE UserPage(N, N.head) \/ StrayTable(N, N.head)
  <2>1. N.frm[M.head] = M.frm[M.head]
    BY <1>1, <1>2 DEF Queued
  <2>2. UserPage(M, M.head) \/ StrayTable(M, M.head)
    BY <1>2 DEF QueueOK
  <2> QED  BY <2>1, <2>2 DEF UserPage, StrayTable
<1>3. ASSUME StrayGlobal, N.stray # NoFrame PROVE StrayTable(N, N.stray) /\ N.stray # N.head
  <2>1. N.frm[M.stray] = M.frm[M.stray]
    BY <1>1, <1>3 DEF Queued
  <2>2. StrayTable(M, M.stray) /\ M.stray # M.head
    BY <1>3 DEF QueueOK
  <2> QED  BY <2>1, <2>2 DEF StrayTable
<1> QED  BY <1>2, <1>3 DEF QueueOK

LEMMA QueueSame ==
  ASSUME NEW M, RamType(M), QueueOK(M), NEW N, Same(M, N),
         N.head = M.head, N.stray = M.stray
  PROVE  QueueOK(N)
<1>1. N.frm = M.frm /\ N.pdbr = M.pdbr
  BY DEF Same
<1>2. \A q \in Pid : HasPd(M, q) => HasPd(N, q)
  BY <1>1 DEF HasPd
<1> QED  BY <1>1, <1>2, QueueKept

(* A frame that may be given away is nobody's directory or table, and of   *)
(* the global tables' only the one the stray word named.                   *)
TableHere(M, f, q, k) ==
  HasPd(M, q) /\ Pd(M, q)[k].pres =>
    IsTable(M, q, Pd(M, q)[k].base) /\ Pd(M, q)[k].base # f /\ q # NULLPROC

LEMMA TakableFacts ==
  ASSUME NEW M, Shape(M), NEW f, Takable(M, f)
  PROVE  /\ f \in Frame /\ M.frm[f].refcnt = 0
         /\ \A q \in Pid : HasPd(M, q) => M.pdbr[q] \in Frame \ {f}
         /\ \A q \in Pid, k \in TableIndex : TableHere(M, f, q, k)
         /\ \A h \in 0..(GLOBALS - 1) \ StrayWords : h \in Frame \ {f}
<1>1. f \in Frame /\ (M.frm[f].type = "PAGE" \/ StrayTable(M, f))
  BY DEF Takable
<1>2. M.frm[f].refcnt = 0
  BY <1>1 DEF Shape, CountsOK, StrayTable
<1>3. ASSUME NEW q \in Pid, HasPd(M, q) PROVE M.pdbr[q] \in Frame \ {f}
  <2>1. M.pdbr[q] \in Frame /\ M.frm[M.pdbr[q]].type = "DIR"
    BY <1>3, RamParts DEF Shape, DirsOK, HasPd
  <2> QED  BY <1>1, <2>1 DEF StrayTable
<1>4. ASSUME NEW q \in Pid, NEW k \in TableIndex, HasPd(M, q), Pd(M, q)[k].pres
      PROVE  IsTable(M, q, Pd(M, q)[k].base) /\ Pd(M, q)[k].base # f /\ q # NULLPROC
  <2>1. IsTable(M, q, Pd(M, q)[k].base)
    BY <1>4 DEF Shape, TablesOK
  <2>2. k \in Index /\ k >= GLOBALS
    BY IndexParts
  <2>3. q # NULLPROC
    BY <1>4, <2>2 DEF Shape, DirsOK, Absent, Entry
  <2> QED  BY <1>1, <2>1, <2>3 DEF IsTable, StrayTable
<1>5. ASSUME NEW h \in 0..(GLOBALS - 1) \ StrayWords PROVE h \in Frame \ {f}
  <2>1. h \in Frame /\ M.frm[h].type = "TBL"
    BY FrameParts DEF Shape, GlobalsOK
  <2> QED  BY <1>1, <2>1 DEF StrayTable
<1> QED  BY <1>1, <1>2, <1>3, <1>4, <1>5 DEF TableHere

LEMMA WrittenBackParts ==
  ASSUME NEW M, RamType(M), NEW i \in Frame
  PROVE  /\ RamType(WrittenBack(M, i)) /\ Same(M, WrittenBack(M, i))
         /\ WrittenBack(M, i).head = M.head /\ WrittenBack(M, i).stray = M.stray
<1> DEFINE l == Loc(proctab[M.frm[i].pid].store,
                    M.frm[i].vpno - proctab[M.frm[i].pid].vhpno)
<1>1. CASE l \in Location
  <2> DEFINE W == [M EXCEPT !.disk[l] = M.data[i].val]
  <2>1. WrittenBack(M, i) = W
    BY <1>1 DEF WrittenBack
  <2> HIDE DEF l
  <2>2. M.data[i].val \in Value
    BY RamParts
  <2>3. RamType(W) /\ Same(M, W) /\ W.head = M.head /\ W.stray = M.stray
    BY <1>1, <2>2 DEF RamType, Same
  <2> QED  BY <2>1, <2>3
<1>2. CASE l \notin Location
  <2>1. WrittenBack(M, i) = M
    BY <1>2 DEF WrittenBack
  <2> QED  BY <2>1 DEF Same
<1> QED  BY <1>1, <1>2

(* A victim of second chance: the entry free_frm finds was never set.      *)
LEMMA VictimKeepsTables ==
  ASSUME SecondChance, NEW M, RamType(M), DirsOK(M), NEW i \in Frame,
         M.frm[i].vpno \in VPages, M.frm[i].pid \in Pid, HasPd(M, M.frm[i].pid)
  PROVE  /\ RamType(FreeFrm(M, i)) /\ Same(M, FreeFrm(M, i))
         /\ FreeFrm(M, i).head = M.head /\ FreeFrm(M, i).stray = M.stray
<1> DEFINE p == M.frm[i].pid
           v == M.frm[i].vpno
           d == v \div NFRAMES
<1>1. CASE i = 1 \/ M.frm[i].type # "PAGE"
  BY <1>1 DEF FreeFrm, Same
<1>2. CASE i # 1 /\ M.frm[i].type = "PAGE"
  <2>1. d \in Index /\ d >= GLOBALS
    BY IndexParts DEF SecondChance, PagesApart
  <2>2. d \notin TableIndex
    BY DEF SecondChance, PagesApart, TableIndex
  <2>3. M.ent[M.pdbr[p]][d] = Absent
    BY <2>1, <2>2 DEF DirsOK, Pd
  <2>4. M.ent[M.pdbr[p]][d].base = NoFrame
    BY <2>3 DEF Absent, Entry
  <2>5. FreeFrm(M, i) = WrittenBack(M, i)
    BY <1>2, <2>4 DEF FreeFrm
  <2> QED  BY <2>5, WrittenBackParts
<1> QED  BY <1>1, <1>2

LEMMA FrameTaken ==
  ASSUME NEW M, Shape(M), FreeFrames(M) # {} \/ SecondChance, NEW g \in GetFrm(M)
  PROVE  Taken(M, g)
<1>1. CASE FreeFrames(M) # {}
  <2>1. Lowest(FreeFrames(M)) \in FreeFrames(M)
    BY <1>1, LowestIsOne DEF FreeFrames
  <2>2. g = Outcome(TRUE, Lowest(FreeFrames(M)), M)
    BY <1>1 DEF GetFrm
  <2>3. g.ok /\ g.f = Lowest(FreeFrames(M)) /\ g.M = M
    BY <2>2 DEF Outcome
  <2>4. g.f \in Frame /\ M.frm[g.f].status = "UNMAPPED"
    BY <2>1, <2>3 DEF FreeFrames
  <2>5. M.frm[g.f].type = "PAGE"
    BY <2>4 DEF Shape, CountsOK
  <2>6. ~ Queued(M, g.f)
    BY <2>4, FrameParts DEF Shape, QueueOK, Queued, UserPage, StrayTable
  <2> QED  BY <2>3, <2>4, <2>5, <2>6 DEF Taken, Same, Shape, Takable
<1>2. CASE FreeFrames(M) = {} /\ SecondChance
  <2>1. Policy = "SC" /\ StrayGlobal
    BY <1>2 DEF SecondChance
  <2>2. RamType(M) /\ QueueOK(M) /\ DirsOK(M) /\ M.stray \in Frame \cup {NoFrame}
    BY RamParts DEF Shape
  <2>3. PICK u \in Victims(M) : g = IF u.ok THEN Outcome(TRUE, u.f, FreeFrm(u.M, u.f)) ELSE u
    BY <1>2 DEF GetFrm
  <2>4. PICK N \in {[M EXCEPT !.head = NoFrame], [M EXCEPT !.head = M.stray, !.stray = NoFrame]} :
          u = Outcome(M.head >= 0, M.head, N)
    BY <2>1, <2>3 DEF Victims
  <2>5. u.ok = (M.head >= 0) /\ u.f = M.head /\ u.M = N
    BY <2>4 DEF Outcome
  <2>6. /\ RamType(N) /\ Same(M, N)
        /\ \/ N.head = NoFrame /\ N.stray = M.stray
           \/ N.head = M.stray /\ N.stray = NoFrame
    <3>1. CASE N = [M EXCEPT !.head = NoFrame]
      <4>1. N.head = NoFrame /\ N.stray = M.stray /\ Same(M, N)
        BY <2>2, <3>1 DEF RamType, Same
      <4>2. RamType(N)
        BY <2>2, <3>1 DEF RamType
      <4> QED  BY <4>1, <4>2
    <3>2. CASE N = [M EXCEPT !.head = M.stray, !.stray = NoFrame]
      <4>1. N.head = M.stray /\ N.stray = NoFrame /\ Same(M, N)
        BY <2>2, <3>2 DEF RamType, Same
      <4>2. RamType(N)
        BY <2>2, <3>2 DEF RamType
      <4> QED  BY <4>1, <4>2
    <3> QED  BY <2>4, <3>1, <3>2
  <2>7. M.stray # NoFrame => StrayTable(N, M.stray) /\ M.stray # M.head
    BY <2>1, <2>2, <2>6 DEF QueueOK, Same, StrayTable
  <2>8. QueueOK(N)
    BY <2>6, <2>7, FrameParts DEF QueueOK
  <2>9. CASE M.head >= 0
    <3>1. M.head \in Frame /\ M.head # NoFrame
      BY <2>9, RamParts DEF Shape, NoFrame
    <3>2. g = Outcome(TRUE, M.head, FreeFrm(N, M.head))
      BY <2>3, <2>5, <2>9
    <3>3. g.ok /\ g.f = M.head /\ g.M = FreeFrm(N, M.head)
      BY <3>2 DEF Outcome
    <3>4. ~ Queued(N, M.head)
      BY <2>6, <2>7, <3>1 DEF Queued
    <3>5. UserPage(N, M.head) \/ StrayTable(N, M.head)
      BY <2>2, <2>6, <3>1 DEF QueueOK, Same, UserPage, StrayTable, HasPd
    <3>6. DirsOK(N)
      BY <2>2, <2>6 DEF DirsOK, Same, HasPd, Pd
    <3>7. /\ RamType(g.M) /\ Same(N, g.M) /\ g.M.head = N.head /\ g.M.stray = N.stray
      <4>1. CASE UserPage(N, M.head)
        BY <1>2, <2>6, <3>1, <3>3, <3>6, <4>1, VictimKeepsTables DEF UserPage
      <4>2. CASE StrayTable(N, M.head)
        BY <2>6, <3>3, <4>2 DEF FreeFrm, StrayTable, Same
      <4> QED  BY <3>5, <4>1, <4>2
    <3>8. QueueOK(g.M)
      BY <2>6, <2>8, <3>7, QueueSame
    <3>9. Same(M, g.M)
      BY <2>6, <3>7 DEF Same
    <3>10. Takable(g.M, g.f)
      BY <3>1, <3>3, <3>4, <3>5, <3>7 DEF Takable, Queued, Same, UserPage, StrayTable
    <3> QED  BY <1>2, <3>3, <3>7, <3>8, <3>9, <3>10 DEF Taken
  <2>10. CASE ~ (M.head >= 0)
    <3>1. g = u /\ ~ g.ok /\ g.M = N
      BY <2>3, <2>5, <2>10
    <3> QED  BY <1>2, <2>6, <2>8, <3>1 DEF Taken
  <2> QED  BY <2>9, <2>10
<1> QED  BY <1>1, <1>2

LEMMA SameShape ==
  ASSUME NEW M, Shape(M), NEW N, RamType(N), Same(M, N), QueueOK(N)
  PROVE  /\ Shape(N)
         /\ OneEntry(M) => OneEntry(N)
         /\ Recorded(M) => Recorded(N)
<1>1. GlobalsOK(N)
  BY DEF Shape, GlobalsOK, Same
<1>2. DirsOK(N)
  BY DEF Shape, DirsOK, Same, HasPd, Pd
<1>3. TablesOK(N)
  <2> SUFFICES ASSUME NEW p \in Pid, HasPd(N, p), NEW k \in TableIndex, Pd(N, p)[k].pres
               PROVE  IsTable(N, p, Pd(N, p)[k].base)
    BY DEF TablesOK
  <2>1. HasPd(M, p) /\ Pd(M, p) = Pd(N, p)
    BY DEF Same, HasPd, Pd
  <2> QED  BY <2>1 DEF Shape, TablesOK, IsTable, Same
<1>4. CountsOK(N)
  BY DEF Shape, CountsOK, Same, Present
<1>5. OneEntry(M) => OneEntry(N)
  BY DEF OneEntry, Same, HasPd, Pd
<1>6. Recorded(M) => Recorded(N)
  <2> SUFFICES ASSUME Recorded(M), NEW p \in UserPid, NEW v \in VPages, InFrame(N, p, v)
               PROVE  OnRecord(N, p, v, PageFrame(N, p, v))
    BY DEF Recorded
  <2>1. Pde(M, p, v) = Pde(N, p, v) /\ InFrame(M, p, v)
    BY DEF Same, InFrame, Entered, HasPd, Pde
  <2>2. OnRecord(M, p, v, PageFrame(M, p, v))
    BY <2>1 DEF Recorded
  <2>3. N.ent = M.ent /\ N.frm = M.frm
    BY DEF Same
  <2>4. PageFrame(N, p, v) = PageFrame(M, p, v)
    BY <2>1, <2>3 DEF PageFrame
  <2> QED  BY <2>2, <2>3, <2>4 DEF OnRecord
<1> QED  BY <1>1, <1>2, <1>3, <1>4, <1>5, <1>6 DEF Shape

-----------------------------------------------------------------------------
(* allocate_pd fills a frame with a directory: nobody's tables and pages   *)
(* change.                                                                 *)
LEMMA NewDirectoryType == NewDirectory \in [Index -> EntRec]
<1>1. \A k \in Index : k < GLOBALS => k \in Frame
  BY IndexParts, FrameAssumption DEF Frame
<1> QED  BY <1>1 DEF NewDirectory, EntRec, Entry, Absent

LEMMA DirectoryParts ==
  ASSUME NEW M, RamType(M), NEW pid \in Pid, NEW f \in Frame,
         NEW N, N = WithDirectory(M, pid, f)
  PROVE  /\ RamType(N) /\ N.head = M.head /\ N.stray = M.stray /\ N.data = M.data
         /\ N.pdbr[pid] = f /\ \A q \in Pid \ {pid} : N.pdbr[q] = M.pdbr[q]
         /\ N.frm[f].type = "DIR" /\ N.frm[f].pid = pid /\ N.frm[f].status = "MAPPED"
         /\ N.ent[f] = NewDirectory
         /\ \A h \in Frame \ {f} : N.frm[h] = M.frm[h] /\ N.ent[h] = M.ent[h]
<1> DEFINE r == [status |-> "MAPPED", pid |-> pid, vpno |-> 0,
                 refcnt |-> GLOBALS, type |-> "DIR"]
           D == NewDirectory
<1>1. r \in FrmRec
  BY FrameAssumption DEF FrmRec, Status
<1>2. D \in [Index -> EntRec]
  BY NewDirectoryType
<1>3. r.type = "DIR" /\ r.pid = pid /\ r.status = "MAPPED"
  OBVIOUS
<1>4. N = [M EXCEPT !.pdbr[pid] = f, !.frm[f] = r, !.ent[f] = D]
  BY DEF WithDirectory
<1> HIDE DEF r, D
<1>5. /\ N.pdbr = [M.pdbr EXCEPT ![pid] = f] /\ N.frm = [M.frm EXCEPT ![f] = r]
      /\ N.ent = [M.ent EXCEPT ![f] = D] /\ N.head = M.head /\ N.stray = M.stray /\ N.data = M.data
  BY <1>4 DEF RamType
<1>6. RamType(N)
  <2>1. /\ N.frm \in [Frame -> FrmRec] /\ N.ent \in [Frame -> [Index -> EntRec]]
        /\ N.pdbr \in [Pid -> Frame \cup {NoFrame}]
    BY <1>1, <1>2, <1>5, RamParts
  <2>2. N = [frm |-> N.frm, ent |-> N.ent, data |-> N.data, disk |-> M.disk,
             pdbr |-> N.pdbr, head |-> N.head, stray |-> M.stray]
    BY <1>4 DEF RamType
  <2> QED  BY <1>5, <2>1, <2>2, RamParts DEF RamType
<1> QED  BY <1>3, <1>5, <1>6, RamParts DEF D

LEMMA DirectoryKeepsShape ==
  ASSUME NEW M, Shape(M), NEW pid \in Pid, NEW f \in Frame,
         Takable(M, f), NEW N, N = WithDirectory(M, pid, f)
  PROVE  /\ Shape(N) /\ HasPd(N, pid) /\ N.head = M.head
         /\ \A q \in Pid : HasPd(M, q) => HasPd(N, q)
         /\ \A h \in Frame \ {f} : N.frm[h] = M.frm[h]
         /\ OneEntry(M) => OneEntry(N)
         /\ Recorded(M) /\ M.frm[f].status = "UNMAPPED" => Recorded(N)
<1>0. /\ M.frm[f].refcnt = 0
      /\ \A q \in Pid : HasPd(M, q) => M.pdbr[q] \in Frame \ {f}
      /\ \A q \in Pid, k \in TableIndex : TableHere(M, f, q, k)
      /\ \A h \in 0..(GLOBALS - 1) \ StrayWords : h \in Frame \ {f}
  BY TakableFacts
<1>1. /\ RamType(N) /\ N.head = M.head /\ N.stray = M.stray
      /\ N.pdbr[pid] = f /\ \A q \in Pid \ {pid} : N.pdbr[q] = M.pdbr[q]
      /\ N.frm[f].type = "DIR" /\ N.frm[f].pid = pid /\ N.frm[f].status = "MAPPED"
      /\ N.ent[f] = NewDirectory
      /\ \A h \in Frame \ {f} : N.frm[h] = M.frm[h] /\ N.ent[h] = M.ent[h]
  BY DirectoryParts DEF Shape
<1>2. \A k \in Index : k >= GLOBALS => NewDirectory[k] = Absent
  <2>1. GLOBALS \in Nat /\ \A k \in Index : k \in Nat
    BY IndexParts, FrameAssumption
  <2> QED  BY <2>1 DEF NewDirectory, Entry, Absent
<1>3. \A k \in TableIndex : ~ NewDirectory[k].pres
  BY <1>2, IndexParts DEF Absent, Entry
<1>4. \A q \in Pid \ {pid} : HasPd(N, q) =>
        HasPd(M, q) /\ M.pdbr[q] \in Frame \ {f} /\ Pd(N, q) = Pd(M, q)
  <2> SUFFICES ASSUME NEW q \in Pid \ {pid}, HasPd(N, q)
               PROVE  HasPd(M, q) /\ M.pdbr[q] \in Frame \ {f} /\ Pd(N, q) = Pd(M, q)
    OBVIOUS
  <2>1. HasPd(M, q)
    BY <1>1 DEF HasPd
  <2> QED  BY <1>0, <1>1, <2>1 DEF Pd
<1>5. GlobalsOK(N)
  BY <1>0, <1>1 DEF Shape, GlobalsOK
<1>6. HasPd(N, pid) /\ Pd(N, pid) = NewDirectory
  BY <1>1, FrameParts DEF HasPd, Pd
<1>7. DirsOK(N)
  <2> SUFFICES ASSUME NEW q \in Pid, HasPd(N, q)
               PROVE  /\ N.frm[N.pdbr[q]].type = "DIR" /\ N.frm[N.pdbr[q]].pid = q
                      /\ \A k \in Index : k >= GLOBALS /\ (k \notin TableIndex \/ q = NULLPROC)
                                            => Pd(N, q)[k] = Absent
    BY DEF DirsOK
  <2>1. CASE q = pid
    BY <1>1, <1>2, <1>6, <2>1
  <2>2. CASE q # pid
    BY <1>1, <1>4, <2>2 DEF Shape, DirsOK
  <2> QED  BY <2>1, <2>2
<1>8. TablesOK(N)
  <2> SUFFICES ASSUME NEW q \in Pid, HasPd(N, q), NEW k \in TableIndex, Pd(N, q)[k].pres
               PROVE  IsTable(N, q, Pd(N, q)[k].base)
    BY DEF TablesOK
  <2>1. q # pid
    BY <1>3, <1>6
  <2>2. Pd(N, q) = Pd(M, q) /\ IsTable(M, q, Pd(M, q)[k].base) /\ Pd(M, q)[k].base # f
    BY <1>0, <1>4, <2>1 DEF TableHere
  <2> QED  BY <1>1, <2>2 DEF IsTable
<1>9. CountsOK(N)
  BY <1>1 DEF Shape, CountsOK, Present
<1>10. \A q \in Pid : HasPd(M, q) => HasPd(N, q)
  BY <1>1, <1>6 DEF HasPd
<1>11. QueueOK(N)
  <2>1. \A h \in Frame : Queued(M, h) => N.frm[h] = M.frm[h]
    BY <1>1 DEF Takable
  <2> QED  BY <1>1, <1>10, <2>1, QueueKept DEF Shape
<1>12. ASSUME OneEntry(M) PROVE OneEntry(N)
  <2> SUFFICES ASSUME NEW q \in UserPid, HasPd(N, q), NEW i \in TableIndex, NEW k \in TableIndex,
                      Pd(N, q)[i].pres, Pd(N, q)[k].pres, Pd(N, q)[i].base = Pd(N, q)[k].base
               PROVE  i = k
    BY DEF OneEntry
  <2>1. q # pid /\ q \in Pid
    BY <1>3, <1>6, FrameParts
  <2>2. HasPd(M, q) /\ Pd(N, q) = Pd(M, q)
    BY <1>4, <2>1
  <2> QED  BY <1>12, <2>2 DEF OneEntry
<1>13. ASSUME Recorded(M), M.frm[f].status = "UNMAPPED" PROVE Recorded(N)
  <2> SUFFICES ASSUME NEW q \in UserPid, NEW v \in VPages, InFrame(N, q, v)
               PROVE  OnRecord(N, q, v, PageFrame(N, q, v))
    BY DEF Recorded
  <2> DEFINE i == v \div PTSIZE
             t == Pd(M, q)[i].base
  <2>1. q \in Pid /\ i \in TableIndex
    BY FrameParts, IndexParts
  <2>2. HasPd(N, q) /\ Pd(N, q)[i].pres
    BY DEF InFrame, Entered, Pde, Pd
  <2>3. q # pid
    BY <1>3, <1>6, <2>1, <2>2
  <2>4. HasPd(M, q) /\ Pd(N, q) = Pd(M, q)
    BY <1>4, <2>1, <2>2, <2>3
  <2>5. IsTable(M, q, t)
    BY <2>1, <2>2, <2>4 DEF Shape, TablesOK
  <2>6. N.ent[t] = M.ent[t]
    BY <1>1, <1>13, <2>5 DEF IsTable
  <2>7. Pde(N, q, v) = Pde(M, q, v) /\ Pde(M, q, v).base = t
    BY <2>4 DEF Pde, Pd
  <2>8. InFrame(M, q, v) /\ PageFrame(N, q, v) = PageFrame(M, q, v)
    BY <2>4, <2>6, <2>7 DEF InFrame, Entered, PageFrame
  <2>9. OnRecord(M, q, v, PageFrame(M, q, v))
    BY <1>13, <2>8 DEF Recorded
  <2>10. PageFrame(M, q, v) \in Frame \ {f}
    BY <1>13, <2>9 DEF OnRecord
  <2> QED  BY <1>1, <2>8, <2>9, <2>10 DEF OnRecord
<1> QED  BY <1>1, <1>5, <1>6, <1>7, <1>8, <1>9, <1>10, <1>11, <1>12, <1>13 DEF Shape

-----------------------------------------------------------------------------
(* pfint's first half fills a frame with an empty table and enters it in   *)
(* the directory.                                                          *)
LEMMA TableParts ==
  ASSUME NEW M, RamType(M), NEW pid \in Pid, NEW v \in VPages, NEW f \in Frame,
         M.pdbr[pid] \in Frame \ {f}, NEW N, N = WithNewTable(M, pid, v, f)
  PROVE  /\ RamType(N) /\ N.head = M.head /\ N.stray = M.stray /\ N.pdbr = M.pdbr /\ N.data = M.data
         /\ N.frm[f].type = "TBL" /\ N.frm[f].pid = pid /\ N.frm[f].status = "MAPPED"
         /\ N.frm[f].refcnt = M.frm[f].refcnt
         /\ \A k \in Index : N.ent[f][k] = Absent
         /\ N.ent[M.pdbr[pid]][v \div PTSIZE].pres
         /\ N.ent[M.pdbr[pid]][v \div PTSIZE].base = f
         /\ \A k \in Index \ {v \div PTSIZE} :
              N.ent[M.pdbr[pid]][k] = M.ent[M.pdbr[pid]][k]
         /\ \A h \in Frame \ {f} : N.frm[h] = M.frm[h]
         /\ \A h \in Frame \ {f, M.pdbr[pid]} : N.ent[h] = M.ent[h]
<1> DEFINE r == [M.frm[f] EXCEPT !.status = "MAPPED", !.pid = pid, !.type = "TBL"]
           D == [k \in Index |-> Absent]
           d == M.pdbr[pid]
           i == v \div PTSIZE
           e == Entry(TRUE, f)
           R == [M.ent[d] EXCEPT ![i] = e]
<1>1. /\ M.frm \in [Frame -> FrmRec] /\ M.ent \in [Frame -> [Index -> EntRec]]
      /\ d \in Frame /\ d # f /\ i \in Index
  <2>1. M.frm \in [Frame -> FrmRec] /\ M.ent \in [Frame -> [Index -> EntRec]]
    BY RamParts
  <2>2. i \in Index
    BY IndexParts
  <2> QED  BY <2>1, <2>2
<1>2. r \in FrmRec /\ r.type = "TBL" /\ r.pid = pid /\ r.status = "MAPPED"
  <2>1. M.frm[f] \in FrmRec
    BY <1>1
  <2> HIDE DEF d, i, e, R, D
  <2> QED  BY <2>1 DEF FrmRec, Status
<1>3. r.refcnt = M.frm[f].refcnt
  BY <1>1 DEF FrmRec
<1>4. e \in EntRec /\ e.pres /\ e.base = f /\ D \in [Index -> EntRec]
  BY DEF Entry, EntRec, Absent
<1>5. R \in [Index -> EntRec] /\ R[i] = e /\ \A k \in Index \ {i} : R[k] = M.ent[d][k]
  <2> HIDE DEF e, i, d
  <2> QED  BY <1>1, <1>4
<1>6. N.frm = [M.frm EXCEPT ![f] = r]
  BY <1>1 DEF WithNewTable, RamType
<1>7. /\ N.head = M.head /\ N.stray = M.stray /\ N.pdbr = M.pdbr /\ N.data = M.data /\ N.disk = M.disk
      /\ N.ent = [[M.ent EXCEPT ![f] = D] EXCEPT ![d][i] = e]
      /\ N = [frm |-> N.frm, ent |-> N.ent, data |-> N.data, disk |-> M.disk,
              pdbr |-> N.pdbr, head |-> N.head, stray |-> M.stray]
  BY DEF WithNewTable, RamType
<1> HIDE DEF r, D, d, i, e
<1>8. N.ent = [[M.ent EXCEPT ![f] = D] EXCEPT ![d] = R]
  BY <1>1, <1>7 DEF R
<1> HIDE DEF R
<1>9. N.ent \in [Frame -> [Index -> EntRec]] /\ N.ent[d] = R /\ N.ent[f] = D
  BY <1>1, <1>4, <1>5, <1>8
<1>10. \A h \in Frame \ {f, d} : N.ent[h] = M.ent[h]
  BY <1>1, <1>8
<1>11. N.frm \in [Frame -> FrmRec] /\ N.frm[f] = r /\ \A h \in Frame \ {f} : N.frm[h] = M.frm[h]
  BY <1>1, <1>2, <1>6
<1>12. RamType(N)
  BY <1>7, <1>9, <1>11, RamParts DEF RamType
<1>13. \A k \in Index : N.ent[f][k] = Absent
  BY <1>9 DEF D
<1> QED  BY <1>2, <1>3, <1>4, <1>5, <1>7, <1>9, <1>10, <1>11, <1>12, <1>13 DEF d, i

LEMMA TableKeepsShape ==
  ASSUME NEW M, Shape(M), NEW pid \in UserPid, HasPd(M, pid), NEW v \in VPages,
         ~ Pde(M, pid, v).pres, NEW f \in Frame, Takable(M, f),
         NEW N, N = WithNewTable(M, pid, v, f)
  PROVE  /\ Shape(N) /\ N.head = M.head /\ N.stray = M.stray /\ N.pdbr = M.pdbr
         /\ Pde(N, pid, v).pres
         /\ \A h \in Frame \ {f} : N.frm[h] = M.frm[h]
         /\ OneEntry(M) => OneEntry(N)
         /\ Recorded(M) /\ M.frm[f].status = "UNMAPPED" => Recorded(N)
<1> DEFINE d == M.pdbr[pid]
           i == v \div PTSIZE
<1>0. /\ M.frm[f].refcnt = 0
      /\ \A q \in Pid : HasPd(M, q) => M.pdbr[q] \in Frame \ {f}
      /\ \A q \in Pid, k \in TableIndex : TableHere(M, f, q, k)
      /\ \A h \in 0..(GLOBALS - 1) \ StrayWords : h \in Frame \ {f}
  BY TakableFacts
<1>1. pid \in Pid /\ pid # NULLPROC /\ i \in TableIndex /\ i \in Index
  BY FrameParts, IndexParts
<1>2. d \in Frame /\ M.frm[d].type = "DIR" /\ d # f
  BY <1>0, <1>1 DEF Shape, DirsOK
<1>3. /\ RamType(N) /\ N.head = M.head /\ N.stray = M.stray /\ N.pdbr = M.pdbr
      /\ N.frm[f].type = "TBL" /\ N.frm[f].pid = pid /\ N.frm[f].status = "MAPPED"
      /\ N.frm[f].refcnt = M.frm[f].refcnt
      /\ \A k \in Index : N.ent[f][k] = Absent
      /\ N.ent[d][i].pres /\ N.ent[d][i].base = f
      /\ \A k \in Index \ {i} : N.ent[d][k] = M.ent[d][k]
      /\ \A h \in Frame \ {f} : N.frm[h] = M.frm[h]
      /\ \A h \in Frame \ {f, d} : N.ent[h] = M.ent[h]
  <2>1. RamType(M) /\ pid \in Pid /\ M.pdbr[pid] \in Frame \ {f}
    BY <1>1, <1>2 DEF Shape
  <2> QED  BY <2>1, TableParts
<1>4. \A q \in Pid : HasPd(M, q) => M.pdbr[q] \in Frame \ {f} /\ (M.pdbr[q] = d => q = pid)
  <2> SUFFICES ASSUME NEW q \in Pid, HasPd(M, q)
               PROVE  M.pdbr[q] \in Frame \ {f} /\ (M.pdbr[q] = d => q = pid)
    OBVIOUS
  <2>1. M.pdbr[q] \in Frame \ {f}
    BY <1>0
  <2>2. M.frm[M.pdbr[q]].type = "DIR" /\ M.frm[M.pdbr[q]].pid = q /\ M.frm[d].pid = pid
    BY <1>1 DEF Shape, DirsOK
  <2> QED  BY <2>1, <2>2
<1>5. \A q \in Pid : HasPd(N, q) <=> HasPd(M, q)
  BY <1>3 DEF HasPd
<1>6. \A q \in Pid \ {pid} : HasPd(M, q) => Pd(N, q) = Pd(M, q)
  BY <1>3, <1>4 DEF Pd
<1>7. \A k \in Index \ {i} : Pd(N, pid)[k] = Pd(M, pid)[k]
  BY <1>3 DEF Pd
<1>8. Pd(N, pid)[i].pres /\ Pd(N, pid)[i].base = f
  BY <1>3 DEF Pd
<1>9. \A q \in Pid, k \in Index : HasPd(M, q) /\ ~ (q = pid /\ k = i) => Pd(N, q)[k] = Pd(M, q)[k]
  BY <1>6, <1>7
<1> HIDE DEF i, d
<1>10. GlobalsOK(N)
  BY <1>0, <1>3 DEF Shape, GlobalsOK
<1>11. DirsOK(N)
  <2> SUFFICES ASSUME NEW q \in Pid, HasPd(N, q)
               PROVE  /\ N.frm[N.pdbr[q]].type = "DIR" /\ N.frm[N.pdbr[q]].pid = q
                      /\ \A k \in Index : k >= GLOBALS /\ (k \notin TableIndex \/ q = NULLPROC)
                                            => Pd(N, q)[k] = Absent
    BY DEF DirsOK
  <2>1. HasPd(M, q)
    BY <1>5
  <2>2. N.frm[N.pdbr[q]].type = "DIR" /\ N.frm[N.pdbr[q]].pid = q
    BY <1>3, <1>4, <2>1 DEF Shape, DirsOK
  <2>3. \A k \in Index : k >= GLOBALS /\ (k \notin TableIndex \/ q = NULLPROC)
                           => Pd(N, q)[k] = Absent
    BY <1>1, <1>9, <2>1 DEF Shape, DirsOK
  <2> QED  BY <2>2, <2>3
<1>12. \A q \in Pid, k \in TableIndex :
         HasPd(M, q) /\ ~ (q = pid /\ k = i) /\ Pd(N, q)[k].pres =>
           /\ Pd(M, q)[k].pres /\ Pd(N, q)[k].base = Pd(M, q)[k].base
           /\ IsTable(M, q, Pd(M, q)[k].base) /\ Pd(M, q)[k].base # f
  <2> SUFFICES ASSUME NEW q \in Pid, NEW k \in TableIndex,
                      HasPd(M, q), ~ (q = pid /\ k = i), Pd(N, q)[k].pres
               PROVE  /\ Pd(M, q)[k].pres /\ Pd(N, q)[k].base = Pd(M, q)[k].base
                      /\ IsTable(M, q, Pd(M, q)[k].base) /\ Pd(M, q)[k].base # f
    OBVIOUS
  <2>1. Pd(N, q)[k] = Pd(M, q)[k]
    BY <1>9, IndexParts
  <2> QED  BY <1>0, <2>1 DEF TableHere
<1>13. TablesOK(N)
  <2> SUFFICES ASSUME NEW q \in Pid, HasPd(N, q), NEW k \in TableIndex, Pd(N, q)[k].pres
               PROVE  IsTable(N, q, Pd(N, q)[k].base)
    BY DEF TablesOK
  <2>1. CASE q = pid /\ k = i
    BY <1>3, <1>8, <2>1 DEF IsTable
  <2>2. CASE ~ (q = pid /\ k = i)
    BY <1>3, <1>5, <1>12, <2>2 DEF IsTable
  <2> QED  BY <2>1, <2>2
<1>14. CountsOK(N)
  <2> SUFFICES ASSUME NEW h \in Frame
               PROVE  /\ N.frm[h].status = "UNMAPPED" => N.frm[h].type = "PAGE"
                      /\ N.frm[h].type = "PAGE" => N.frm[h].refcnt = 0
                      /\ N.frm[h].type = "TBL" /\ N.frm[h].pid # NULLPROC =>
                           /\ IsFiniteSet(Present(N, h))
                           /\ N.frm[h].refcnt = Cardinality(Present(N, h))
    BY DEF CountsOK
  <2>1. CASE h = f
    <3>1. Present(N, f) = {}
      BY <1>3 DEF Present, Absent, Entry
    <3>2. IsFiniteSet(Present(N, f)) /\ Cardinality(Present(N, f)) = 0
      BY <3>1, FS_EmptySet
    <3>3. M.frm[f].refcnt = 0
      BY <1>0
    <3> QED  BY <1>3, <2>1, <3>2, <3>3
  <2>2. CASE h # f /\ h # d
    <3>1. Present(N, h) = Present(M, h)
      BY <1>3, <2>2 DEF Present
    <3> QED  BY <1>3, <2>2, <3>1 DEF Shape, CountsOK
  <2>3. CASE h = d
    BY <1>2, <1>3, <2>3 DEF Shape, CountsOK
  <2> QED  BY <2>1, <2>2, <2>3
<1>15. QueueOK(N)
  <2>1. \A h \in Frame : Queued(M, h) => N.frm[h] = M.frm[h]
    BY <1>3 DEF Takable
  <2> QED  BY <1>3, <1>5, <2>1, QueueKept DEF Shape
<1>16. Pde(N, pid, v).pres
  BY <1>8 DEF Pde, Pd, i
<1>17. ASSUME OneEntry(M) PROVE OneEntry(N)
  <2> SUFFICES ASSUME NEW q \in UserPid, HasPd(N, q), NEW j \in TableIndex, NEW k \in TableIndex,
                      Pd(N, q)[j].pres, Pd(N, q)[k].pres, Pd(N, q)[j].base = Pd(N, q)[k].base
               PROVE  j = k
    BY DEF OneEntry
  <2>1. q \in Pid /\ HasPd(M, q)
    BY <1>5, FrameParts
  <2>2. CASE q = pid /\ (j = i \/ k = i)
    BY <1>8, <1>12, <2>1, <2>2
  <2>3. CASE ~ (q = pid /\ (j = i \/ k = i))
    BY <1>12, <1>17, <2>1, <2>3 DEF OneEntry
  <2> QED  BY <2>2, <2>3
<1>18. ASSUME Recorded(M), M.frm[f].status = "UNMAPPED" PROVE Recorded(N)
  <2> SUFFICES ASSUME NEW q \in UserPid, NEW w \in VPages, InFrame(N, q, w)
               PROVE  OnRecord(N, q, w, PageFrame(N, q, w))
    BY DEF Recorded
  <2> DEFINE j == w \div PTSIZE
             t == Pd(M, q)[j].base
  <2>1. q \in Pid /\ j \in TableIndex /\ w % PTSIZE \in Index
    BY FrameParts, IndexParts
  <2>2. HasPd(N, q) /\ Pd(N, q)[j].pres /\ N.ent[Pd(N, q)[j].base][w % PTSIZE].pres
    BY DEF InFrame, Entered, Pde, Pd
  <2>3. ~ (q = pid /\ j = i)
    <3>1. SUFFICES ASSUME q = pid /\ j = i PROVE FALSE
      OBVIOUS
    <3>2. N.ent[f][w % PTSIZE].pres
      BY <1>8, <2>2, <3>1
    <3> QED  BY <1>3, <2>1, <3>2 DEF Absent, Entry
  <2>4. /\ HasPd(M, q) /\ Pd(M, q)[j].pres /\ Pd(N, q)[j].base = t
        /\ IsTable(M, q, t) /\ t # f
    BY <1>5, <1>12, <2>1, <2>2, <2>3
  <2>5. t # d /\ t \in Frame
    BY <1>2, <2>4 DEF IsTable
  <2>6. N.ent[t] = M.ent[t]
    BY <1>3, <2>4, <2>5
  <2>7. Pde(N, q, w).base = t /\ Pde(M, q, w).base = t /\ Pde(M, q, w).pres
    BY <2>4 DEF Pde, Pd
  <2>8. InFrame(M, q, w) /\ PageFrame(N, q, w) = PageFrame(M, q, w)
    BY <2>2, <2>4, <2>6, <2>7 DEF InFrame, Entered, PageFrame
  <2>9. OnRecord(M, q, w, PageFrame(M, q, w))
    BY <1>18, <2>8 DEF Recorded
  <2>10. PageFrame(M, q, w) \in Frame \ {f}
    BY <1>18, <2>9 DEF OnRecord
  <2> QED  BY <1>3, <2>8, <2>9, <2>10 DEF OnRecord
<1>19. Shape(N)
  BY <1>3, <1>10, <1>11, <1>13, <1>14, <1>15 DEF Shape
<1> QED  BY <1>3, <1>16, <1>17, <1>18, <1>19

-----------------------------------------------------------------------------
(* pfint's second half gives the page a frame, enters it in the table and  *)
(* counts the entry.                                                       *)
LEMMA MappedParts ==
  ASSUME NEW M, RamType(M), NEW pid \in Pid, NEW v \in VPages, NEW f \in Frame,
         NEW t \in Frame \ {f}, NEW N, N = PageMapped(M, pid, v, t, f)
  PROVE  /\ RamType(N) /\ N.head = M.head /\ N.stray = M.stray /\ N.pdbr = M.pdbr
         /\ N.frm[f].status = "MAPPED" /\ N.frm[f].pid = pid /\ N.frm[f].vpno = v
         /\ N.frm[f].type = "PAGE" /\ N.frm[f].refcnt = M.frm[f].refcnt
         /\ N.frm[t].refcnt = M.frm[t].refcnt + 1 /\ N.frm[t].status = M.frm[t].status
         /\ N.frm[t].pid = M.frm[t].pid /\ N.frm[t].type = M.frm[t].type
         /\ N.ent[t][v % PTSIZE].pres /\ N.ent[t][v % PTSIZE].base = f
         /\ \A k \in Index \ {v % PTSIZE} : N.ent[t][k] = M.ent[t][k]
         /\ \A h \in Frame \ {f, t} : N.frm[h] = M.frm[h]
         /\ \A h \in Frame \ {t} : N.ent[h] = M.ent[h]
<1> DEFINE r == [M.frm[f] EXCEPT !.status = "MAPPED", !.pid = pid,
                                 !.vpno = v, !.type = "PAGE"]
           c == [M.frm[t] EXCEPT !.refcnt = @ + 1]
           k0 == v % PTSIZE
           e == Entry(TRUE, f)
           R == [M.ent[t] EXCEPT ![k0] = e]
<1>1. /\ M.frm \in [Frame -> FrmRec] /\ M.ent \in [Frame -> [Index -> EntRec]]
      /\ t \in Frame /\ t # f /\ k0 \in Index /\ v \in Nat
  BY RamParts, IndexParts, PageParts
<1>2. M.frm[f] \in FrmRec /\ M.frm[t] \in FrmRec
  BY <1>1
<1>3. /\ r \in FrmRec /\ r.status = "MAPPED" /\ r.pid = pid /\ r.vpno = v
      /\ r.type = "PAGE" /\ r.refcnt = M.frm[f].refcnt
  BY <1>1, <1>2 DEF FrmRec, Status
<1>4. /\ c \in FrmRec /\ c.refcnt = M.frm[t].refcnt + 1 /\ c.status = M.frm[t].status
      /\ c.pid = M.frm[t].pid /\ c.type = M.frm[t].type
  BY <1>2 DEF FrmRec
<1>5. e \in EntRec /\ e.pres /\ e.base = f
  BY DEF Entry, EntRec
<1>6. R \in [Index -> EntRec] /\ R[k0] = e /\ \A k \in Index \ {k0} : R[k] = M.ent[t][k]
  <2> HIDE DEF e, k0
  <2> QED  BY <1>1, <1>5
<1>7. N.frm = [[M.frm EXCEPT ![f] = r] EXCEPT ![t].refcnt = @ + 1]
  BY DEF PageMapped, RamType
<1>8. /\ N.head = M.head /\ N.stray = M.stray /\ N.pdbr = M.pdbr /\ N.data = M.data /\ N.disk = M.disk
      /\ N.ent = [M.ent EXCEPT ![t][k0] = e]
      /\ N = [frm |-> N.frm, ent |-> N.ent, data |-> N.data, disk |-> M.disk,
              pdbr |-> N.pdbr, head |-> N.head, stray |-> M.stray]
  BY DEF PageMapped, RamType
<1> HIDE DEF r, k0, e
<1>9. N.ent = [M.ent EXCEPT ![t] = R]
  BY <1>1, <1>8 DEF R
<1>10. N.frm = [[M.frm EXCEPT ![f] = r] EXCEPT ![t] = c]
  BY <1>1, <1>7 DEF c
<1> HIDE DEF R, c
<1>11. N.ent \in [Frame -> [Index -> EntRec]] /\ N.ent[t] = R
  BY <1>1, <1>6, <1>9
<1>12. \A h \in Frame \ {t} : N.ent[h] = M.ent[h]
  BY <1>1, <1>9
<1>13. /\ N.frm \in [Frame -> FrmRec] /\ N.frm[f] = r /\ N.frm[t] = c
       /\ \A h \in Frame \ {f, t} : N.frm[h] = M.frm[h]
  BY <1>1, <1>3, <1>4, <1>10
<1>14. RamType(N)
  BY <1>8, <1>11, <1>13, RamParts DEF RamType
<1> QED  BY <1>3, <1>4, <1>5, <1>6, <1>8, <1>11, <1>12, <1>13, <1>14 DEF k0

LEMMA PageKeepsShape ==
  ASSUME NEW M, Shape(M), NEW pid \in UserPid, HasPd(M, pid), NEW v \in VPages,
         Pde(M, pid, v).pres, NEW t, t = Pde(M, pid, v).base, ~ M.ent[t][v % PTSIZE].pres,
         NEW f \in Frame, Takable(M, f),
         NEW N, N = PageMapped(M, pid, v, t, f)
  PROVE  /\ Shape(N) /\ N.pdbr = M.pdbr
         /\ OnRecord(N, pid, v, f)
         /\ OneEntry(M) => OneEntry(N)
         /\ OneEntry(M) /\ Recorded(M) /\ M.frm[f].status = "UNMAPPED" => Recorded(N)
<1> DEFINE i  == v \div PTSIZE
           k0 == v % PTSIZE
<1>0. /\ M.frm[f].refcnt = 0
      /\ \A q \in Pid : HasPd(M, q) => M.pdbr[q] \in Frame \ {f}
      /\ \A q \in Pid, k \in TableIndex : TableHere(M, f, q, k)
      /\ \A h \in 0..(GLOBALS - 1) \ StrayWords : h \in Frame \ {f}
  BY TakableFacts
<1>1. pid \in Pid /\ pid # NULLPROC /\ i \in TableIndex /\ i \in Index /\ k0 \in Index
  BY FrameParts, IndexParts
<1>2. Pd(M, pid)[i].pres /\ Pd(M, pid)[i].base = t
  BY DEF Pde, Pd
<1>3. IsTable(M, pid, t) /\ t # f
  BY <1>0, <1>1, <1>2 DEF TableHere
<1>4. t \in Frame \ {f} /\ M.frm[t].type = "TBL" /\ M.frm[t].pid = pid /\ M.frm[t].status = "MAPPED"
  BY <1>3 DEF IsTable
<1>5. /\ RamType(N) /\ N.head = M.head /\ N.stray = M.stray /\ N.pdbr = M.pdbr
      /\ N.frm[f].status = "MAPPED" /\ N.frm[f].pid = pid /\ N.frm[f].vpno = v
      /\ N.frm[f].type = "PAGE" /\ N.frm[f].refcnt = M.frm[f].refcnt
      /\ N.frm[t].refcnt = M.frm[t].refcnt + 1 /\ N.frm[t].status = M.frm[t].status
      /\ N.frm[t].pid = M.frm[t].pid /\ N.frm[t].type = M.frm[t].type
      /\ N.ent[t][k0].pres /\ N.ent[t][k0].base = f
      /\ \A k \in Index \ {k0} : N.ent[t][k] = M.ent[t][k]
      /\ \A h \in Frame \ {f, t} : N.frm[h] = M.frm[h]
      /\ \A h \in Frame \ {t} : N.ent[h] = M.ent[h]
  <2>1. RamType(M) /\ pid \in Pid
    BY <1>1 DEF Shape
  <2>2. /\ RamType(N) /\ N.head = M.head /\ N.stray = M.stray /\ N.pdbr = M.pdbr
        /\ N.frm[f].status = "MAPPED" /\ N.frm[f].pid = pid /\ N.frm[f].vpno = v
        /\ N.frm[f].type = "PAGE" /\ N.frm[f].refcnt = M.frm[f].refcnt
    BY <1>4, <2>1, MappedParts
  <2>3. /\ N.frm[t].refcnt = M.frm[t].refcnt + 1 /\ N.frm[t].status = M.frm[t].status
        /\ N.frm[t].pid = M.frm[t].pid /\ N.frm[t].type = M.frm[t].type
        /\ N.ent[t][k0].pres /\ N.ent[t][k0].base = f
    BY <1>4, <2>1, MappedParts
  <2>4. /\ \A k \in Index \ {k0} : N.ent[t][k] = M.ent[t][k]
        /\ \A h \in Frame \ {f, t} : N.frm[h] = M.frm[h]
        /\ \A h \in Frame \ {t} : N.ent[h] = M.ent[h]
    BY <1>4, <2>1, MappedParts
  <2> QED  BY <2>2, <2>3, <2>4
<1>6. \A q \in Pid : HasPd(N, q) <=> HasPd(M, q)
  BY <1>5 DEF HasPd
<1>7. \A q \in Pid : HasPd(M, q) =>
        /\ M.pdbr[q] \in Frame \ {f, t} /\ N.frm[M.pdbr[q]] = M.frm[M.pdbr[q]]
        /\ Pd(N, q) = Pd(M, q)
  <2> SUFFICES ASSUME NEW q \in Pid, HasPd(M, q)
               PROVE  /\ M.pdbr[q] \in Frame \ {f, t} /\ N.frm[M.pdbr[q]] = M.frm[M.pdbr[q]]
                      /\ Pd(N, q) = Pd(M, q)
    OBVIOUS
  <2>1. M.pdbr[q] \in Frame \ {f} /\ M.frm[M.pdbr[q]].type = "DIR"
    BY <1>0 DEF Shape, DirsOK
  <2>2. M.pdbr[q] \in Frame \ {f, t}
    BY <1>4, <2>1
  <2> QED  BY <1>5, <2>2 DEF Pd
<1> HIDE DEF i, k0
<1>8. GlobalsOK(N)
  <2>1. \A h \in 0..(GLOBALS - 1) \ StrayWords : h \in Frame \ {f, t}
    BY <1>0, <1>1, <1>4 DEF Shape, GlobalsOK
  <2> QED  BY <1>5, <2>1 DEF Shape, GlobalsOK
<1>9. DirsOK(N)
  BY <1>5, <1>6, <1>7 DEF Shape, DirsOK
<1>10. \A q \in Pid, s \in Frame \ {f} : IsTable(M, q, s) => IsTable(N, q, s)
  <2> SUFFICES ASSUME NEW q \in Pid, NEW s \in Frame \ {f}, IsTable(M, q, s)
               PROVE  IsTable(N, q, s)
    OBVIOUS
  <2>1. CASE s = t
    BY <1>5, <2>1 DEF IsTable
  <2>2. CASE s # t
    BY <1>5, <2>2 DEF IsTable
  <2> QED  BY <2>1, <2>2
<1>11. TablesOK(N)
  <2> SUFFICES ASSUME NEW q \in Pid, HasPd(N, q), NEW k \in TableIndex, Pd(N, q)[k].pres
               PROVE  IsTable(N, q, Pd(N, q)[k].base)
    BY DEF TablesOK
  <2>1. Pd(N, q) = Pd(M, q) /\ HasPd(M, q)
    BY <1>6, <1>7
  <2>2. IsTable(M, q, Pd(M, q)[k].base) /\ Pd(M, q)[k].base # f
    BY <1>0, <2>1 DEF TableHere
  <2>3. Pd(M, q)[k].base \in Frame
    BY <2>2 DEF IsTable
  <2> QED  BY <1>10, <2>1, <2>2, <2>3
<1>12. CountsOK(N)
  <2> SUFFICES ASSUME NEW h \in Frame
               PROVE  /\ N.frm[h].status = "UNMAPPED" => N.frm[h].type = "PAGE"
                      /\ N.frm[h].type = "PAGE" => N.frm[h].refcnt = 0
                      /\ N.frm[h].type = "TBL" /\ N.frm[h].pid # NULLPROC =>
                           /\ IsFiniteSet(Present(N, h))
                           /\ N.frm[h].refcnt = Cardinality(Present(N, h))
    BY DEF CountsOK
  <2>1. CASE h = f
    BY <1>0, <1>5, <2>1
  <2>2. CASE h = t
    <3>1. Present(N, t) = Present(M, t) \cup {k0} /\ k0 \notin Present(M, t)
      BY <1>1, <1>5 DEF Present, k0
    <3>2. IsFiniteSet(Present(M, t)) /\ M.frm[t].refcnt = Cardinality(Present(M, t))
      BY <1>1, <1>4 DEF Shape, CountsOK
    <3>3. /\ IsFiniteSet(Present(M, t) \cup {k0})
          /\ Cardinality(Present(M, t) \cup {k0}) = Cardinality(Present(M, t)) + 1
      BY <3>1, <3>2, FS_AddElement
    <3> QED  BY <1>4, <1>5, <2>2, <3>1, <3>2, <3>3
  <2>3. CASE h # f /\ h # t
    <3>1. Present(N, h) = Present(M, h)
      BY <1>5, <2>3 DEF Present
    <3> QED  BY <1>5, <2>3, <3>1 DEF Shape, CountsOK
  <2> QED  BY <2>1, <2>2, <2>3
<1>13. QueueOK(N)
  <2>1. \A h \in Frame : Queued(M, h) => h \notin {f, t}
    <3> SUFFICES ASSUME NEW h \in Frame, Queued(M, h) PROVE h \notin {f, t}
      OBVIOUS
    <3>1. h # f
      BY DEF Takable
    <3>2. UserPage(M, h) \/ StrayTable(M, h)
      BY FrameParts DEF Shape, QueueOK, Queued
    <3>3. h # t
      BY <1>1, <1>4, <3>2 DEF UserPage, StrayTable
    <3> QED  BY <3>1, <3>3
  <2> QED  BY <1>5, <1>6, <2>1, QueueKept DEF Shape
<1>14. OnRecord(N, pid, v, f)
  BY <1>5 DEF OnRecord
<1>15. ASSUME OneEntry(M) PROVE OneEntry(N)
  <2>1. \A q \in UserPid : q \in Pid
    BY FrameParts
  <2> QED  BY <1>6, <1>7, <1>15, <2>1 DEF OneEntry
<1>16. ASSUME OneEntry(M), Recorded(M), M.frm[f].status = "UNMAPPED" PROVE Recorded(N)
  <2> SUFFICES ASSUME NEW q \in UserPid, NEW w \in VPages, InFrame(N, q, w)
               PROVE  OnRecord(N, q, w, PageFrame(N, q, w))
    BY DEF Recorded
  <2> DEFINE j == w \div PTSIZE
             k == w % PTSIZE
             s == Pd(M, q)[j].base
  <2>1. q \in Pid /\ j \in TableIndex /\ k \in Index
    BY FrameParts, IndexParts
  <2>2. HasPd(N, q) /\ Pd(N, q)[j].pres /\ N.ent[Pd(N, q)[j].base][k].pres
    BY DEF InFrame, Entered, Pde, Pd
  <2>3. HasPd(M, q) /\ Pd(N, q) = Pd(M, q) /\ Pd(M, q)[j].pres
    BY <1>6, <1>7, <2>1, <2>2
  <2>4. IsTable(M, q, s)
    BY <2>1, <2>3 DEF Shape, TablesOK
  <2>5. Pde(N, q, w).base = s /\ Pde(M, q, w).base = s /\ Pde(M, q, w).pres
    BY <2>3 DEF Pde, Pd
  <2>6. PageFrame(N, q, w) = N.ent[s][k].base /\ PageFrame(M, q, w) = M.ent[s][k].base
    BY <2>5 DEF PageFrame
  <2>7. CASE s = t /\ k = k0
    <3>1. q = pid
      BY <1>3, <2>4, <2>7 DEF IsTable
    <3>2. j = i
      BY <1>1, <1>2, <1>16, <2>1, <2>3, <2>7, <3>1 DEF OneEntry
    <3>3. w = v
      BY <2>7, <3>2, SamePage DEF i, k0
    <3> QED  BY <1>5, <1>14, <2>6, <2>7, <3>1, <3>3
  <2>8. CASE ~ (s = t /\ k = k0)
    <3>1. N.ent[s][k] = M.ent[s][k]
      BY <1>5, <2>1, <2>4, <2>8 DEF IsTable
    <3>2. InFrame(M, q, w) /\ PageFrame(N, q, w) = PageFrame(M, q, w)
      BY <2>2, <2>3, <2>5, <2>6, <3>1 DEF InFrame, Entered
    <3>3. OnRecord(M, q, w, PageFrame(M, q, w))
      BY <1>16, <3>2 DEF Recorded
    <3>4. PageFrame(M, q, w) \in Frame \ {f, t}
      BY <1>4, <1>16, <3>3 DEF OnRecord
    <3> QED  BY <1>5, <3>2, <3>3, <3>4 DEF OnRecord
  <2> QED  BY <2>7, <2>8
<1>17. Shape(N)
  BY <1>5, <1>8, <1>9, <1>11, <1>12, <1>13 DEF Shape
<1> QED  BY <1>5, <1>14, <1>15, <1>16, <1>17

-----------------------------------------------------------------------------
(* The routines that ask for frames.  With frames to spare they also keep  *)
(* the records; pfint asks twice.                                          *)
TwoFree(M)  == \E a, b \in FreeFrames(M) : a # b
OnFile(M)   == OneEntry(M) /\ Recorded(M)
Later(M, N) == \A q \in Pid : HasPd(M, q) => HasPd(N, q)

LEMMA RoomForTwo ==
  ASSUME Spare, Roomy, RamType(ram)
  PROVE  TwoFree(ram)
<1> DEFINE F == FreeFrames(ram)
<1>1. Cardinality(F) >= MinFree /\ MinFree \in Nat /\ MinFree >= 2
  BY CallAssumption DEF Roomy, Spare
<1>2. IsFiniteSet(F) /\ Cardinality(F) \in Nat
  <2>1. IsFiniteSet(Frame)
    BY FrameAssumption, FS_Interval DEF Frame
  <2>2. F \subseteq Frame
    BY DEF FreeFrames
  <2> HIDE DEF F
  <2> QED  BY <2>1, <2>2, FS_Subset, FS_CardinalityType
<1> SUFFICES ASSUME \A a, b \in F : a = b PROVE FALSE
  BY DEF TwoFree
<1> HIDE DEF F
<1>3. CASE F = {}
  BY <1>1, <1>3, FS_EmptySet
<1>4. CASE F # {}
  <2>1. PICK a \in F : TRUE
    BY <1>4
  <2>2. F = {a}
    BY <2>1
  <2>3. Cardinality(F) = 1
    BY <2>2, FS_Singleton
  <2> QED  BY <1>1, <2>3
<1> QED  BY <1>3, <1>4

LEMMA TakenShape ==
  ASSUME NEW M, Shape(M), NEW g, Taken(M, g)
  PROVE  /\ Shape(g.M) /\ Later(M, g.M) /\ FreeFrames(g.M) = FreeFrames(M)
         /\ OnFile(M) => OnFile(g.M)
         /\ g.ok => g.f \in Frame /\ Takable(g.M, g.f)
         /\ FreeFrames(M) # {} => g.ok /\ g.M.frm[g.f].status = "UNMAPPED"
<1>1. RamType(g.M) /\ Same(M, g.M) /\ QueueOK(g.M)
  BY DEF Taken
<1>2. Shape(g.M) /\ (OnFile(M) => OnFile(g.M))
  BY <1>1, SameShape DEF OnFile
<1>3. Later(M, g.M) /\ FreeFrames(g.M) = FreeFrames(M)
  BY <1>1 DEF Later, HasPd, Same, FreeFrames
<1>4. g.M.frm = M.frm
  BY <1>1 DEF Same
<1> QED  BY <1>2, <1>3, <1>4 DEF Taken, Takable

(* Another frame that was free still is when one of them is used.          *)
LEMMA OneLeft ==
  ASSUME NEW M, TwoFree(M), NEW N, NEW f,
         \A h \in Frame \ {f} : N.frm[h] = M.frm[h]
  PROVE  FreeFrames(N) # {}
<1>1. PICK a \in FreeFrames(M) : a # f
  BY DEF TwoFree
<1>2. a \in FreeFrames(N)
  BY <1>1 DEF FreeFrames
<1> QED  BY <1>2

LEMMA AllocatePdKeeps ==
  ASSUME NEW M, Shape(M), FreeFrames(M) # {} \/ SecondChance, NEW pid \in Pid,
         NEW h \in AllocatePd(M, pid)
  PROVE  /\ Shape(h.M) /\ Later(M, h.M)
         /\ FreeFrames(M) # {} => HasPd(h.M, pid) /\ (OnFile(M) => OnFile(h.M))
         /\ TwoFree(M) => FreeFrames(h.M) # {}
<1>1. PICK g \in GetFrm(M) : h = IF g.ok THEN Outcome(TRUE, g.f, WithDirectory(g.M, pid, g.f))
                                 ELSE g
  BY DEF AllocatePd
<1>2. Taken(M, g)
  BY FrameTaken
<1>3. /\ Shape(g.M) /\ Later(M, g.M) /\ FreeFrames(g.M) = FreeFrames(M)
      /\ OnFile(M) => OnFile(g.M)
      /\ g.ok => g.f \in Frame /\ Takable(g.M, g.f)
      /\ FreeFrames(M) # {} => g.ok /\ g.M.frm[g.f].status = "UNMAPPED"
  BY <1>2, TakenShape
<1>4. TwoFree(M) => FreeFrames(M) # {} /\ TwoFree(g.M)
  BY <1>3 DEF TwoFree
<1>5. CASE ~ g.ok
  BY <1>1, <1>3, <1>4, <1>5
<1>6. CASE g.ok
  <2>1. h.M = WithDirectory(g.M, pid, g.f)
    BY <1>1, <1>6 DEF Outcome
  <2>2. /\ Shape(h.M) /\ HasPd(h.M, pid) /\ Later(g.M, h.M)
        /\ \A x \in Frame \ {g.f} : h.M.frm[x] = g.M.frm[x]
        /\ OneEntry(g.M) => OneEntry(h.M)
        /\ Recorded(g.M) /\ g.M.frm[g.f].status = "UNMAPPED" => Recorded(h.M)
    BY <1>3, <1>6, <2>1, DirectoryKeepsShape DEF Later
  <2>3. TwoFree(M) => FreeFrames(h.M) # {}
    BY <1>4, <2>2, OneLeft
  <2>4. Later(M, h.M)
    BY <1>3, <2>2 DEF Later
  <2> QED  BY <1>3, <2>2, <2>3, <2>4 DEF OnFile
<1> QED  BY <1>5, <1>6

LEMMA WithTableKeeps ==
  ASSUME NEW M, Shape(M), FreeFrames(M) # {} \/ SecondChance, NEW pid \in UserPid,
         HasPd(M, pid), NEW v \in VPages, NEW h \in WithTable(M, pid, v)
  PROVE  /\ Shape(h.M) /\ HasPd(h.M, pid)
         /\ h.ok => Pde(h.M, pid, v).pres
         /\ FreeFrames(M) # {} => (OnFile(M) => OnFile(h.M))
         /\ TwoFree(M) => FreeFrames(h.M) # {}
<1>1. CASE Pde(M, pid, v).pres
  <2>1. h.M = M
    BY <1>1 DEF WithTable, Outcome
  <2>2. TwoFree(M) => FreeFrames(M) # {}
    BY DEF TwoFree
  <2> QED  BY <1>1, <2>1, <2>2
<1>2. CASE ~ Pde(M, pid, v).pres
  <2>1. PICK g \in GetFrm(M) :
          h = IF g.ok THEN Outcome(TRUE, g.f, WithNewTable(g.M, pid, v, g.f)) ELSE g
    BY <1>2 DEF WithTable
  <2>2. Taken(M, g)
    BY FrameTaken
  <2>3. /\ Shape(g.M) /\ Later(M, g.M) /\ FreeFrames(g.M) = FreeFrames(M)
        /\ OnFile(M) => OnFile(g.M)
        /\ g.ok => g.f \in Frame /\ Takable(g.M, g.f)
        /\ FreeFrames(M) # {} => g.ok /\ g.M.frm[g.f].status = "UNMAPPED"
    BY <2>2, TakenShape
  <2>4. TwoFree(M) => FreeFrames(M) # {} /\ TwoFree(g.M)
    BY <2>3 DEF TwoFree
  <2>5. HasPd(g.M, pid) /\ g.M.pdbr = M.pdbr /\ g.M.ent = M.ent
    BY <2>2, <2>3, FrameParts DEF Later, Taken, Same
  <2>6. CASE ~ g.ok
    <3>1. h = g
      BY <2>1, <2>6
    <3> QED  BY <2>3, <2>4, <2>5, <2>6, <3>1
  <2>7. CASE g.ok
    <3>1. h.M = WithNewTable(g.M, pid, v, g.f)
      BY <2>1, <2>7 DEF Outcome
    <3>2. ~ Pde(g.M, pid, v).pres
      BY <1>2, <2>5 DEF Pde
    <3>3. /\ Shape(h.M) /\ h.M.pdbr = g.M.pdbr
          /\ Pde(h.M, pid, v).pres
          /\ \A x \in Frame \ {g.f} : h.M.frm[x] = g.M.frm[x]
          /\ OneEntry(g.M) => OneEntry(h.M)
          /\ Recorded(g.M) /\ g.M.frm[g.f].status = "UNMAPPED" => Recorded(h.M)
      BY <2>3, <2>5, <2>7, <3>1, <3>2, TableKeepsShape
    <3>4. TwoFree(M) => FreeFrames(h.M) # {}
      BY <2>4, <3>3, OneLeft
    <3>5. HasPd(h.M, pid)
      BY <2>5, <3>3 DEF HasPd
    <3> QED  BY <2>3, <3>3, <3>4, <3>5 DEF OnFile
  <2> QED  BY <2>6, <2>7
<1> QED  BY <1>1, <1>2

LEMMA WithPageKeeps ==
  ASSUME NEW M, Shape(M), FreeFrames(M) # {} \/ SecondChance, NEW pid \in UserPid,
         HasPd(M, pid), NEW v \in VPages, Pde(M, pid, v).pres, NEW h \in WithPage(M, pid, v)
  PROVE  /\ Shape(h.M) /\ HasPd(h.M, pid)
         /\ h.ok /\ h.f # NoFrame => OnRecord(h.M, pid, v, h.f)
         /\ FreeFrames(M) # {} => (OnFile(M) => OnFile(h.M))
<1> DEFINE t == Pde(M, pid, v).base
<1>1. CASE M.ent[t][v % PTSIZE].pres
  <2>1. h.M = M /\ h.f = NoFrame
    BY <1>1 DEF WithPage, Outcome
  <2> QED  BY <2>1
<1>2. CASE ~ M.ent[t][v % PTSIZE].pres
  <2>1. PICK g \in GetFrm(M) :
          h = IF ~ g.ok THEN g ELSE Outcome(TRUE, g.f, PageMapped(g.M, pid, v, t, g.f))
    BY <1>2 DEF WithPage
  <2>2. Taken(M, g)
    BY FrameTaken
  <2>3. /\ Shape(g.M) /\ Later(M, g.M)
        /\ OnFile(M) => OnFile(g.M)
        /\ g.ok => g.f \in Frame /\ Takable(g.M, g.f)
        /\ FreeFrames(M) # {} => g.ok /\ g.M.frm[g.f].status = "UNMAPPED"
    BY <2>2, TakenShape
  <2>4. HasPd(g.M, pid) /\ g.M.pdbr = M.pdbr /\ g.M.ent = M.ent
    BY <2>2, <2>3, FrameParts DEF Later, Taken, Same
  <2>5. CASE ~ g.ok
    BY <2>1, <2>3, <2>4, <2>5
  <2>6. CASE g.ok
    <3>1. h.M = PageMapped(g.M, pid, v, t, g.f) /\ h.f = g.f
      BY <2>1, <2>6 DEF Outcome
    <3>2. Pde(g.M, pid, v) = Pde(M, pid, v) /\ ~ g.M.ent[t][v % PTSIZE].pres
      BY <1>2, <2>4 DEF Pde
    <3>3. t = Pde(g.M, pid, v).base /\ Pde(g.M, pid, v).pres
      BY <3>2
    <3> HIDE DEF t
    <3>4. /\ Shape(h.M) /\ h.M.pdbr = g.M.pdbr
          /\ OnRecord(h.M, pid, v, g.f)
          /\ OneEntry(g.M) => OneEntry(h.M)
          /\ OneEntry(g.M) /\ Recorded(g.M) /\ g.M.frm[g.f].status = "UNMAPPED"
               => Recorded(h.M)
      BY <2>3, <2>4, <2>6, <3>1, <3>2, <3>3, PageKeepsShape
    <3>5. HasPd(h.M, pid)
      BY <2>4, <3>4 DEF HasPd
    <3> QED  BY <2>3, <3>1, <3>4, <3>5 DEF OnFile
  <2> QED  BY <2>5, <2>6
<1> QED  BY <1>1, <1>2

LEMMA LoadedKeeps ==
  ASSUME NEW M, Shape(M), NEW pid \in Pid, HasPd(M, pid), NEW v \in VPages, NEW f,
         OnRecord(M, pid, v, f), NEW l, NEW N, N = Loaded(M, f, l)
  PROVE  Shape(N) /\ HasPd(N, pid) /\ (OnFile(M) => OnFile(N))
<1> DEFINE c == IF l \in Location THEN Contents(M.disk[l], l) ELSE NoHome
<1>1. f \in Frame
  BY DEF OnRecord
<1>2. c \in [val : Value, home : Int]
  <2>1. l \in Location => M.disk[l] \in Value
    BY RamParts DEF Shape
  <2>2. l \in Location => l \in Int
    BY StoreAssumption DEF Location
  <2>3. "outside" \in Value /\ -1 \in Int
    BY DEF Value
  <2> QED  BY <2>1, <2>2, <2>3 DEF Contents, NoHome
<1>3. N = [M EXCEPT !.data[f] = c, !.head = f]
  BY DEF Loaded
<1> HIDE DEF c
<1>4. RamType(N) /\ Same(M, N) /\ N.head = f /\ N.stray = M.stray
  <2>1. RamType(M)
    BY DEF Shape
  <2>2. /\ N.data = [M.data EXCEPT ![f] = c] /\ N.head = f /\ Same(M, N)
        /\ N.disk = M.disk /\ N.stray = M.stray
    BY <1>3, <2>1 DEF RamType, Same
  <2>3. N = [frm |-> M.frm, ent |-> M.ent, data |-> N.data, disk |-> M.disk,
             pdbr |-> M.pdbr, head |-> f, stray |-> M.stray]
    BY <1>3, <2>1, <2>2 DEF RamType
  <2>4. N.data \in [Frame -> [val : Value, home : Int]]
    BY <1>1, <1>2, <2>1, <2>2, RamParts
  <2> QED  BY <1>1, <2>1, <2>2, <2>3, <2>4, RamParts DEF RamType
<1>5. HasPd(N, pid)
  BY <1>4 DEF HasPd, Same
<1>6. QueueOK(N)
  <2>1. UserPage(N, f)
    BY <1>4, <1>5 DEF UserPage, OnRecord, Same
  <2>2. ASSUME StrayGlobal, N.stray # NoFrame PROVE StrayTable(N, N.stray) /\ N.stray # f
    BY <1>4, <2>1, <2>2 DEF Shape, QueueOK, StrayTable, UserPage, Same
  <2> QED  BY <1>4, <2>1, <2>2 DEF QueueOK
<1> QED  BY <1>4, <1>5, <1>6, SameShape DEF OnFile

-----------------------------------------------------------------------------
(* Boot: with at least two frames beside the global tables, both           *)
(* directories get one.                                                    *)
BootRam(w) ==
  [frm  |-> [f \in Frame |->
               IF f < GLOBALS
               THEN [status |-> "MAPPED", pid |-> NULLPROC, vpno |-> 0,
                     refcnt |-> 0, type |-> "TBL"]
               ELSE [status |-> "UNMAPPED", pid |-> -1, vpno |-> 0,
                     refcnt |-> 0, type |-> "PAGE"]],
   ent  |-> [f \in Frame |-> [k \in Index |->
               IF f < GLOBALS THEN Entry(TRUE, NoFrame) ELSE Absent]],
   data |-> [f \in Frame |-> NoHome],
   disk |-> [l \in Location |-> "zero"],
   pdbr |-> [p \in Pid |-> NoFrame],
   head |-> NoFrame,
   stray |-> w]

LEMMA BootShape ==
  ASSUME NEW w \in StrayWords
  PROVE  Shape(BootRam(w)) /\ TwoFree(BootRam(w)) /\ OnFile(BootRam(w))
<1> DEFINE B    == BootRam(w)
           tbl  == [status |-> "MAPPED", pid |-> NULLPROC, vpno |-> 0,
                    refcnt |-> 0, type |-> "TBL"]
           page == [status |-> "UNMAPPED", pid |-> -1, vpno |-> 0,
                    refcnt |-> 0, type |-> "PAGE"]
<1>1. \A f \in Frame : B.frm[f] = IF f < GLOBALS THEN tbl ELSE page
  BY DEF BootRam
<1>2. \A p \in Pid : ~ HasPd(B, p)
  BY DEF BootRam, HasPd
<1>3. RamType(B)
  <2>1. B.frm \in [Frame -> FrmRec]
    <3>1. tbl \in FrmRec /\ page \in FrmRec
      BY FrameParts DEF FrmRec, Status
    <3> HIDE DEF tbl, page
    <3> QED  BY <3>1 DEF BootRam, tbl, page
  <2>2. B.ent \in [Frame -> [Index -> EntRec]]
    BY DEF BootRam, Entry, Absent, EntRec
  <2>3. B.data \in [Frame -> [val : Value, home : Int]]
    BY DEF BootRam, NoHome, Contents, Value
  <2>4. B.disk \in [Location -> Value]
    BY DEF BootRam, Value
  <2>5. B.pdbr \in [Pid -> Frame \cup {NoFrame}] /\ B.head = NoFrame
        /\ B.stray = w /\ w \in Frame \cup {NoFrame}
    BY FrameAssumption DEF BootRam
  <2>6. B = [frm |-> B.frm, ent |-> B.ent, data |-> B.data, disk |-> B.disk,
             pdbr |-> B.pdbr, head |-> B.head, stray |-> B.stray]
    BY DEF BootRam
  <2> QED  BY <2>1, <2>2, <2>3, <2>4, <2>5, <2>6 DEF RamType
<1>4. GlobalsOK(B)
  <2>1. \A f \in 0..(GLOBALS - 1) : f \in Frame /\ f < GLOBALS
    BY FrameParts, FrameAssumption
  <2> QED  BY <1>1, <2>1 DEF GlobalsOK
<1>5. DirsOK(B) /\ TablesOK(B)
  BY <1>2 DEF DirsOK, TablesOK
<1>6. CountsOK(B)
  BY <1>1 DEF CountsOK
<1>7. QueueOK(B)
  <2>1. B.head = NoFrame /\ B.stray = w
    BY DEF BootRam
  <2>2. ASSUME StrayGlobal, w # NoFrame PROVE StrayTable(B, w) /\ w # NoFrame
    <3>1. w \in 0..(GLOBALS - 1) /\ w \in Frame /\ w < GLOBALS
      BY <2>2, FrameParts, FrameAssumption DEF StrayGlobal
    <3>2. B.frm[w] = tbl
      BY <1>1, <3>1
    <3> QED  BY <2>2, <3>1, <3>2 DEF StrayTable
  <2> HIDE DEF B
  <2> QED  BY <2>1, <2>2 DEF QueueOK
<1>8. TwoFree(B)
  <2>1. /\ GLOBALS \in Frame /\ GLOBALS + 1 \in Frame
        /\ GLOBALS # GLOBALS + 1 /\ ~ (GLOBALS < GLOBALS) /\ ~ (GLOBALS + 1 < GLOBALS)
    BY FrameAssumption DEF Frame
  <2>2. GLOBALS \in FreeFrames(B) /\ GLOBALS + 1 \in FreeFrames(B)
    BY <1>1, <2>1 DEF FreeFrames
  <2> QED  BY <2>1, <2>2 DEF TwoFree
<1>9. OnFile(B)
  BY <1>2, FrameParts DEF OnFile, OneEntry, Recorded, InFrame, Entered
<1> QED  BY <1>3, <1>4, <1>5, <1>6, <1>7, <1>8, <1>9 DEF Shape

LEMMA InitHolds == Init => RInv
<1> SUFFICES ASSUME Init PROVE RInv
  OBVIOUS
<1>1. StoreOK
  <2>1. /\ NBS \in Nat \ {0} /\ BSPAGES \in Nat /\ FIRSTV \in Nat /\ 0 \in Store
        /\ -1 \notin Pid
    BY StoreAssumption, FrameParts DEF Store
  <2>2. bsm_tab = [b \in Store |-> Unmapped(FIRSTV)]
        /\ proctab = [p \in Pid |-> [store |-> 0, vhpno |-> 0]]
    BY DEF Init, StoreInit
  <2> QED  BY <2>1, <2>2 DEF StoreOK, Unmapped, Status, LookupFindsMapped
<1>0. PICK w \in StrayWords :
        \E g \in AllocatePd(BootRam(w), NULLPROC) : \E h \in AllocatePd(g.M, MainPid) : ram = h.M
  BY DEF Init, FramesInit, BootRam
<1>2. PICK g \in AllocatePd(BootRam(w), NULLPROC) : \E h \in AllocatePd(g.M, MainPid) : ram = h.M
  BY <1>0
<1>3. PICK h \in AllocatePd(g.M, MainPid) : ram = h.M
  BY <1>2
<1>4. FreeFrames(BootRam(w)) # {}
  BY BootShape DEF TwoFree
<1>5. Shape(g.M) /\ HasPd(g.M, NULLPROC) /\ OnFile(g.M) /\ FreeFrames(g.M) # {}
  BY <1>2, <1>4, BootShape, FrameParts, AllocatePdKeeps
<1>6. MainPid \in UserPid /\ MainPid \in Pid /\ NULLPROC \in Pid
  BY StoreAssumption DEF MainPid, Pid, UserPid, NULLPROC
<1>7. Shape(h.M) /\ Later(g.M, h.M) /\ OnFile(h.M)
  BY <1>3, <1>5, <1>6, AllocatePdKeeps
<1>8. HasPd(ram, NULLPROC)
  BY <1>3, <1>5, <1>6, <1>7 DEF Later
<1>9. ram.pdbr[NULLPROC] \in Frame
  BY <1>3, <1>6, <1>7, <1>8, RamParts DEF HasPd, Shape
<1>10. ProcOK
  BY <1>6, <1>9 DEF ProcOK, Init
<1> QED  BY <1>1, <1>3, <1>7, <1>10 DEF RInv, IInv, OnFile

-----------------------------------------------------------------------------
(* The store map, which no fault changes.                                  *)
LEMMA StoreSteps ==
  ASSUME StoreOK, live \subseteq Pid, currpid \in live, [Next]_vars
  PROVE  StoreOK'
<1> DEFINE Rec == [status : Status, pid : Pid \cup {-1}, vpno : Nat, npages : 0..BSPAGES]
           Good(e) == e \in Rec /\ (e.pid # -1 <=> e.status = "MAPPED")
<1>1. /\ bsm_tab \in [Store -> Rec] /\ proctab \in [Pid -> [store : Store, vhpno : Nat]]
      /\ \A b \in Store : bsm_tab[b].pid # -1 <=> bsm_tab[b].status = "MAPPED"
  BY DEF StoreOK, LookupFindsMapped
<1>2. ASSUME NEW b, NEW e, Good(e), bsm_tab' = [bsm_tab EXCEPT ![b] = e], proctab' = proctab
      PROVE  StoreOK'
  BY <1>1, <1>2 DEF StoreOK, LookupFindsMapped
<1>3. \A p \in Pid, v \in Nat, n \in 1..BSPAGES : Good(Mapped(p, v, n))
  BY FrameParts, StoreAssumption DEF Mapped, Status
<1>4. \A v \in Nat : Good(Unmapped(v))
  BY StoreAssumption DEF Unmapped, Status
<1>5. FIRSTV \in Nat /\ currpid \in Pid /\ \A v \in VPages : v \in Nat
  BY StoreAssumption, FrameAssumption
<1>6. ASSUME NEW P, P \in [Pid -> [store : Store, vhpno : Nat]],
             NEW q \in Pid, NEW v \in Nat, NEW b \in Store
      PROVE  OwnFields(P, q, v, b) \in [Pid -> [store : Store, vhpno : Nat]]
  BY <1>6 DEF OwnFields
<1>7. ASSUME NEW b, NEW e, Good(e), bsm_tab' = [bsm_tab EXCEPT ![b] = e],
             proctab' \in [Pid -> [store : Store, vhpno : Nat]]
      PROVE  StoreOK'
  BY <1>1, <1>7 DEF StoreOK, LookupFindsMapped
<1>8. ASSUME NEW b, ReleaseBs(b) PROVE StoreOK'
  BY <1>2, <1>4, <1>5, <1>8 DEF ReleaseBs, ReleasedBs
<1>9. UNCHANGED storeVars => StoreOK'
  BY <1>1 DEF storeVars, StoreOK, LookupFindsMapped
<1>10. CASE UNCHANGED vars
  BY <1>9, <1>10 DEF vars, storeVars
<1>11. ASSUME NEW pid \in UserPid, NEW hsize \in Sizes, Vcreate(pid, hsize) PROVE StoreOK'
  <2>1. FirstFree \in Store /\ hsize \in 1..BSPAGES /\ pid \in Pid
    BY <1>11, FirstFreeIsFree, FrameParts DEF Vcreate
  <2>2. /\ bsm_tab' = [bsm_tab EXCEPT ![FirstFree] = Mapped(pid, FIRSTV, hsize)]
        /\ proctab' = OwnFields(OwnFields(proctab, currpid, FIRSTV, FirstFree),
                                pid, FIRSTV, FirstFree)
    BY <1>11 DEF Vcreate, MapStore
  <2>3. Good(Mapped(pid, FIRSTV, hsize))
    BY <1>3, <1>5, <2>1
  <2>4. OwnFields(proctab, currpid, FIRSTV, FirstFree) \in [Pid -> [store : Store, vhpno : Nat]]
    BY <1>1, <1>5, <1>6, <2>1
  <2>5. proctab' \in [Pid -> [store : Store, vhpno : Nat]]
    BY <1>5, <1>6, <2>1, <2>2, <2>4
  <2> HIDE DEF Good
  <2> QED  BY <1>7, <2>2, <2>3, <2>5
<1>12. ASSUME NEW b \in Store, NEW n \in Sizes, GetBs(currpid, b, n) PROVE StoreOK'
  <2>1. n \in 1..BSPAGES
    BY <1>12 DEF GetBs
  <2> DEFINE p == IF bsm_tab[b].status = "MAPPED" THEN bsm_tab[b].pid ELSE currpid
  <2>2. p \in Pid
    BY <1>1, <1>5
  <2>3. bsm_tab' = [bsm_tab EXCEPT ![b] = Mapped(p, 0, n)] /\ proctab' = proctab
    BY <1>1, <1>12 DEF GetBs
  <2> HIDE DEF p
  <2>4. Good(Mapped(p, 0, n))
    BY <1>3, <2>1, <2>2
  <2> HIDE DEF Good
  <2> QED  BY <1>2, <2>3, <2>4
<1>13. ASSUME NEW m \in Maps, Xmmap(m[1], m[2], m[3], m[4]) PROVE StoreOK'
  <2>1. m[1] \in Pid /\ m[2] \in Nat /\ m[3] \in Store /\ m[4] \in 1..BSPAGES
    BY <1>13, CallAssumption DEF Xmmap
  <2>2. /\ bsm_tab' = [bsm_tab EXCEPT ![m[3]] = Mapped(m[1], m[2], m[4])]
        /\ proctab' = OwnFields(proctab, m[1], m[2], m[3])
    BY <1>13 DEF Xmmap, MapStore
  <2>3. Good(Mapped(m[1], m[2], m[4]))
    BY <1>3, <2>1
  <2>4. proctab' \in [Pid -> [store : Store, vhpno : Nat]]
    BY <1>1, <1>6, <2>1, <2>2
  <2> HIDE DEF Good
  <2> QED  BY <1>7, <2>2, <2>3, <2>4
<1>14. ASSUME NEW v \in VPages, Xmunmap(currpid, v) PROVE StoreOK'
  <2>1. Good(Unmapped(v))
    BY <1>4, <1>5
  <2> HIDE DEF Good
  <2> QED  BY <1>2, <1>14, <2>1 DEF Xmunmap
<1>15. CASE StoreCall
  BY <1>8, <1>12, <1>13, <1>15 DEF StoreCall
<1>16. ASSUME NEW pid \in UserPid, Create(pid) \/ Kill(pid) PROVE StoreOK'
  BY <1>8, <1>9, <1>16 DEF Create, Kill
<1>17. CASE Suicide \/ \E p \in Pid : Switch(p)
  BY <1>9, <1>17 DEF Suicide, Die, Switch
<1>18. ASSUME NEW v \in VPages, Unmap(v) \/ Fault(v) \/ \E x \in Values : Write(v, x)
       PROVE  StoreOK'
  BY <1>9, <1>14, <1>18 DEF Unmap, Fault, Write
<1>19. CASE Pfint
  BY <1>9, <1>19 DEF Pfint, Die
<1> QED  BY <1>10, <1>11, <1>15, <1>16, <1>17, <1>18, <1>19 DEF Next

-----------------------------------------------------------------------------
(* The directories, tables and frames, step by step.  Good is what the     *)
(* steps keep in both regimes, and with frames to spare the records too.   *)
Regime  == Spare \/ SecondChance
Kept(N) == Shape(N) /\ (Spare /\ OnFile(ram) => OnFile(N))

LEMMA NewStores ==
  ASSUME Shape(ram), NEW N, RamType(N), Same(ram, N), N.head = ram.head,
         N.stray = ram.stray
  PROVE  Kept(N)
<1>1. QueueOK(N)
  BY QueueSame DEF Shape
<1> QED  BY <1>1, SameShape DEF Kept, OnFile

LEMMA StoreWord ==
  ASSUME NEW M, RamType(M), NEW l, NEW x \in Value,
         NEW N, N = [M EXCEPT !.disk[l] = x]
  PROVE  RamType(N) /\ Same(M, N) /\ N.head = M.head /\ N.stray = M.stray
<1>1. /\ Same(M, N) /\ N.head = M.head /\ N.stray = M.stray /\ N.data = M.data
      /\ N.disk = [M.disk EXCEPT ![l] = x]
  BY DEF RamType, Same
<1>2. N = [frm |-> M.frm, ent |-> M.ent, data |-> M.data, disk |-> N.disk,
           pdbr |-> M.pdbr, head |-> M.head, stray |-> M.stray]
  BY DEF RamType
<1>3. N.disk \in [Location -> Value]
  <2>1. M.disk \in [Location -> Value]
    BY RamParts
  <2>2. DOMAIN N.disk = Location /\ \A k \in Location : N.disk[k] \in Value
    BY <1>1, <2>1
  <2>3. N.disk = [k \in DOMAIN N.disk |-> N.disk[k]]
    BY <1>1, <2>1
  <2> QED  BY <2>2, <2>3
<1> QED  BY <1>1, <1>2, <1>3, RamParts DEF RamType

LEMMA PageWord ==
  ASSUME NEW M, RamType(M), NEW f, NEW x \in Value,
         NEW D, D = [M.data EXCEPT ![f].val = x]
  PROVE  D \in [Frame -> [val : Value, home : Int]]
<1>1. M.data \in [Frame -> [val : Value, home : Int]]
  BY RamParts
<1>2. DOMAIN D = Frame /\ \A k \in Frame : D[k] \in [val : Value, home : Int]
  BY <1>1
<1>3. D = [k \in DOMAIN D |-> D[k]]
  BY <1>1
<1> QED  BY <1>2, <1>3

LEMMA UnmapWritesStores ==
  ASSUME NEW disk \in [Location -> Value], NEW p, NEW v,
         NEW d \in UnmapWrites(disk, p, v, "outside")
  PROVE  d \in [Location -> Value]
<1>1. "outside" \in Value
  BY DEF Value
<1>2. PICK lim \in LimitIndex :
        d \in IF LookupOK(p, v, lim)
              THEN {[l \in Location |->
                       IF l = LookupLoc(p, v) THEN "outside" ELSE disk[l]]}
              ELSE {disk} \cup {[disk EXCEPT ![l] = "outside"] : l \in Location}
  BY DEF UnmapWrites
<1>3. CASE LookupOK(p, v, lim)
  <2> DEFINE q == LookupLoc(p, v)
  <2>1. d = [l \in Location |-> IF l = q THEN "outside" ELSE disk[l]]
    BY <1>2, <1>3
  <2> HIDE DEF q
  <2> QED  BY <1>1, <2>1
<1>4. CASE ~ LookupOK(p, v, lim)
  BY <1>1, <1>2, <1>4
<1> QED  BY <1>3, <1>4

(* A routine that asks for one frame, by a process that found the room.    *)
LEMMA CreateKeeps ==
  ASSUME Regime, Shape(ram), Roomy, NEW pid \in Pid, NEW g \in AllocatePd(ram, pid)
  PROVE  Kept(g.M)
<1>1. Spare => FreeFrames(ram) # {}
  BY RoomForTwo DEF Shape, TwoFree
<1>2. Shape(g.M) /\ (FreeFrames(ram) # {} => (OnFile(ram) => OnFile(g.M)))
  BY <1>1, AllocatePdKeeps DEF Regime
<1> QED  BY <1>1, <1>2 DEF Kept

LEMMA VcreateKeeps ==
  ASSUME Regime, Shape(ram), NEW pid \in UserPid, NEW hsize, Vcreate(pid, hsize)
  PROVE  Kept(ram')
<1>1. PICK g \in AllocatePd(ram, pid) :
        ram' = [g.M EXCEPT !.disk[Loc(FirstFree, 0)] = "header"]
  BY DEF Vcreate
<1>2. Kept(g.M)
  BY CreateKeeps, FrameParts DEF Vcreate
<1>3. RamType(g.M) /\ Shape(g.M)
  BY <1>2 DEF Kept, Shape
<1>4. "header" \in Value
  BY DEF Value
<1>5. RamType(ram') /\ Same(g.M, ram') /\ ram'.head = g.M.head /\ ram'.stray = g.M.stray
  BY <1>1, <1>3, <1>4, StoreWord
<1>6. QueueOK(ram')
  BY <1>3, <1>5, QueueSame DEF Shape
<1>7. Shape(ram') /\ (OnFile(g.M) => OnFile(ram'))
  BY <1>3, <1>5, <1>6, SameShape DEF OnFile
<1> QED  BY <1>2, <1>7 DEF Kept

LEMMA UnmapKeeps ==
  ASSUME Shape(ram), NEW v \in VPages, Unmap(v)
  PROVE  Kept(ram')
<1>1. CASE UNCHANGED ram
  BY <1>1 DEF Kept
<1>2. ASSUME NEW d \in UnmapWrites(ram.disk, currpid, v, "outside"),
             ram' = [ram EXCEPT !.disk = d]
      PROVE  Kept(ram')
  <2> DEFINE N == [ram EXCEPT !.disk = d]
  <2>1. d \in [Location -> Value]
    BY UnmapWritesStores, RamParts DEF Shape
  <2>2. RamType(ram)
    BY DEF Shape
  <2>3. RamType(N) /\ Same(ram, N) /\ N.head = ram.head /\ N.stray = ram.stray
    BY <2>1, <2>2 DEF RamType, Same
  <2>4. ram' = N
    BY <1>2
  <2> HIDE DEF N
  <2> QED  BY <2>3, <2>4, NewStores
<1> QED  BY <1>1, <1>2 DEF Unmap

LEMMA WriteKeeps ==
  ASSUME Shape(ram), NEW v \in VPages, NEW x \in Values, Write(v, x)
  PROVE  Kept(ram')
<1>1. RamType(ram) /\ x \in Value
  BY DEF Shape, Value
<1>2. ram' = [ram EXCEPT !.data[Xlate(v)].val = x]
  BY DEF Write
<1>3. /\ Same(ram, ram') /\ ram'.head = ram.head /\ ram'.stray = ram.stray
      /\ ram'.data = [ram.data EXCEPT ![Xlate(v)].val = x]
  BY <1>1, <1>2 DEF RamType, Same
<1>4. ram' = [frm |-> ram.frm, ent |-> ram.ent, data |-> ram'.data, disk |-> ram.disk,
              pdbr |-> ram.pdbr, head |-> ram.head, stray |-> ram.stray]
  BY <1>1, <1>2 DEF RamType
<1>5. ram'.data \in [Frame -> [val : Value, home : Int]]
  <2> DEFINE f == Xlate(v)
  <2>1. ram'.data = [ram.data EXCEPT ![f].val = x]
    BY <1>3
  <2> HIDE DEF f
  <2> QED  BY <1>1, <2>1, PageWord
<1>6. RamType(ram')
  BY <1>1, <1>4, <1>5, RamParts DEF RamType
<1> QED  BY <1>3, <1>6, NewStores

(* pfint: the table, then the page, then its contents; in every outcome    *)
(* the process that faulted keeps its directory.                           *)
LEMMA PfintKeeps ==
  ASSUME Regime, Shape(ram), ProcOK, Pfint
  PROVE  /\ Kept(ram')
         /\ Die \/ (/\ cr3' \in Frame /\ pending' = pending \ {currpid}
                    /\ UNCHANGED <<live, currpid, cr2>>)
<1>1. currpid \in UserPid /\ currpid \in Pid /\ cr2 \in VPages /\ HasPd(ram, currpid)
  BY FrameParts DEF Pfint, ProcOK, HasPd
<1>2. Spare => TwoFree(ram) /\ FreeFrames(ram) # {}
  BY RoomForTwo DEF Pfint, Shape, TwoFree
<1>3. PICK t \in WithTable(ram, currpid, cr2) :
        \/ ~ t.ok /\ ram' = t.M /\ Die
        \/ /\ t.ok
           /\ \E g \in WithPage(t.M, currpid, cr2) :
                \/ ~ g.ok /\ ram' = g.M /\ Die
                \/ /\ g.ok /\ Served(g)
                   /\ pending' = pending \ {currpid}
                   /\ UNCHANGED <<storeVars, live, currpid, cr2>>
  BY DEF Pfint
<1>4. /\ Shape(t.M) /\ HasPd(t.M, currpid)
      /\ t.ok => Pde(t.M, currpid, cr2).pres
      /\ FreeFrames(ram) # {} => (OnFile(ram) => OnFile(t.M))
      /\ TwoFree(ram) => FreeFrames(t.M) # {}
  BY <1>1, <1>2, <1>3, WithTableKeeps DEF Regime
<1>5. CASE ~ t.ok /\ ram' = t.M /\ Die
  BY <1>2, <1>4, <1>5 DEF Kept
<1>6. ASSUME t.ok, NEW g \in WithPage(t.M, currpid, cr2),
             \/ ~ g.ok /\ ram' = g.M /\ Die
             \/ /\ g.ok /\ Served(g)
                /\ pending' = pending \ {currpid}
                /\ UNCHANGED <<storeVars, live, currpid, cr2>>
      PROVE  /\ Kept(ram')
             /\ Die \/ (/\ cr3' \in Frame /\ pending' = pending \ {currpid}
                        /\ UNCHANGED <<live, currpid, cr2>>)
  <2>1. /\ Shape(g.M) /\ HasPd(g.M, currpid)
        /\ g.ok /\ g.f # NoFrame => OnRecord(g.M, currpid, cr2, g.f)
        /\ FreeFrames(t.M) # {} => (OnFile(t.M) => OnFile(g.M))
    BY <1>1, <1>2, <1>4, <1>6, WithPageKeeps DEF Regime
  <2>2. Kept(g.M)
    BY <1>2, <1>4, <2>1 DEF Kept
  <2>3. CASE ~ g.ok /\ ram' = g.M /\ Die
    BY <2>2, <2>3
  <2>4. ASSUME g.ok, Served(g), UNCHANGED <<storeVars, live, currpid, cr2>>
        PROVE  Kept(ram') /\ cr3' \in Frame
    <3>1. g.M.pdbr[currpid] \in Frame
      BY <1>1, <2>1, RamParts DEF HasPd, Shape
    <3>2. cr3 \in Frame
      BY DEF ProcOK
    <3>3. cr3' \in Frame
      BY <2>4, <3>1, <3>2 DEF Served
    <3>4. CASE ram' = g.M
      BY <2>2, <3>3, <3>4 DEF Kept
    <3>5. CASE ram' = Loaded(g.M, g.f, LookupLoc(currpid, cr2)) /\ g.f # NoFrame
      <4>1. Shape(ram') /\ (OnFile(g.M) => OnFile(ram'))
        BY <1>1, <2>1, <2>4, <3>5, LoadedKeeps
      <4> QED  BY <2>2, <3>3, <4>1 DEF Kept
    <3> QED  BY <2>4, <3>3, <3>4, <3>5 DEF Served
  <2> QED  BY <1>6, <2>3, <2>4
<1> QED  BY <1>3, <1>5, <1>6

LEMMA RamSteps ==
  ASSUME Regime, Shape(ram), ProcOK, [Next]_vars
  PROVE  Kept(ram')
<1>1. UNCHANGED ram => Kept(ram')
  BY DEF Kept
<1>2. CASE UNCHANGED vars
  BY <1>1, <1>2 DEF vars
<1>3. ASSUME NEW pid \in UserPid, Create(pid) PROVE Kept(ram')
  <2>1. PICK g \in AllocatePd(ram, pid) : ram' = g.M
    BY <1>3 DEF Create
  <2>2. Kept(g.M)
    BY <1>3, <2>1, CreateKeeps, FrameParts DEF Create
  <2> QED  BY <2>1, <2>2
<1>4. ASSUME NEW pid \in UserPid, NEW hsize \in Sizes, Vcreate(pid, hsize) PROVE Kept(ram')
  BY <1>4, VcreateKeeps
<1>5. ASSUME NEW pid \in UserPid, Kill(pid) PROVE Kept(ram')
  BY <1>1, <1>5 DEF Kill
<1>6. CASE Suicide \/ StoreCall \/ \E p \in Pid : Switch(p)
  BY <1>1, <1>6 DEF Suicide, StoreCall, Switch
<1>7. ASSUME NEW v \in VPages, Unmap(v) \/ Fault(v) PROVE Kept(ram')
  BY <1>1, <1>7, UnmapKeeps DEF Fault
<1>8. ASSUME NEW v \in VPages, NEW x \in Values, Write(v, x) PROVE Kept(ram')
  BY <1>8, WriteKeeps
<1>9. CASE Pfint
  BY <1>9, PfintKeeps
<1> QED  BY <1>2, <1>3, <1>4, <1>5, <1>6, <1>7, <1>8, <1>9 DEF Next

LEMMA ProcSteps ==
  ASSUME Regime, Shape(ram), ProcOK, [Next]_vars
  PROVE  ProcOK'
<1>1. /\ live \subseteq Pid /\ NULLPROC \in live /\ currpid \in live
      /\ cr3 \in Frame /\ cr2 \in Nat
      /\ pending \subseteq live \cap UserPid
      /\ pending # {} => cr2 \in VPages
  BY DEF ProcOK
<1>2. NULLPROC \notin UserPid /\ UserPid \subseteq Pid
  BY FrameParts
<1>3. UNCHANGED procVars => ProcOK'
  BY <1>1 DEF procVars, ProcOK
<1>4. CASE UNCHANGED vars
  BY <1>3, <1>4 DEF vars
<1>5. ASSUME NEW p \in Pid, Switch(p) PROVE ProcOK'
  BY <1>1, <1>5 DEF Switch, ProcOK
<1>6. ASSUME NEW pid \in UserPid, Create(pid) PROVE ProcOK'
  BY <1>1, <1>2, <1>6 DEF Create, ProcOK
<1>7. ASSUME NEW pid \in UserPid, NEW hsize \in Sizes, Vcreate(pid, hsize) PROVE ProcOK'
  BY <1>1, <1>2, <1>7 DEF Vcreate, ProcOK
<1>8. ASSUME NEW pid \in UserPid, Kill(pid) PROVE ProcOK'
  BY <1>1, <1>8 DEF Kill, ProcOK
<1>9. ASSUME Die, currpid \in UserPid PROVE ProcOK'
  BY <1>1, <1>2, <1>9 DEF Die, ProcOK
<1>10. CASE Suicide
  BY <1>9, <1>10 DEF Suicide, MayCall
<1>11. CASE StoreCall
  BY <1>3, <1>11 DEF StoreCall
<1>12. ASSUME NEW v \in VPages, Fault(v) PROVE ProcOK'
  <2>1. currpid \in UserPid /\ v \in Nat
    BY <1>12, FrameAssumption DEF Fault, MayCall
  <2> QED  BY <1>1, <1>12, <2>1 DEF Fault, ProcOK
<1>13. ASSUME NEW v \in VPages, Unmap(v) \/ \E x \in Values : Write(v, x) PROVE ProcOK'
  BY <1>3, <1>13 DEF Unmap, Write
<1>14. CASE Pfint
  <2>1. Die \/ (/\ cr3' \in Frame /\ pending' = pending \ {currpid}
                /\ UNCHANGED <<live, currpid, cr2>>)
    BY <1>14, PfintKeeps
  <2>2. currpid \in UserPid
    BY <1>1, <1>14 DEF Pfint
  <2>3. CASE ~ Die
    BY <1>1, <2>1, <2>3 DEF ProcOK
  <2> QED  BY <1>9, <2>2, <2>3
<1> QED  BY <1>4, <1>5, <1>6, <1>7, <1>8, <1>10, <1>11, <1>12, <1>13, <1>14 DEF Next

-----------------------------------------------------------------------------
(* The shape of the tables is kept in both regimes.                        *)
LEMMA ShapeInvariant == Regime => (Spec => []IInv)
<1> SUFFICES ASSUME Regime PROVE Spec => []IInv
  OBVIOUS
<1>1. Init => IInv
  BY InitHolds DEF RInv
<1>2. IInv /\ [Next]_vars => IInv'
  <2> SUFFICES ASSUME IInv, [Next]_vars PROVE IInv'
    OBVIOUS
  <2>1. StoreOK'
    BY StoreSteps DEF IInv, ProcOK
  <2>2. Shape(ram')
    BY RamSteps DEF IInv, Kept
  <2>3. ProcOK'
    BY ProcSteps DEF IInv
  <2> QED  BY <2>1, <2>2, <2>3 DEF IInv
<1> QED  BY <1>1, <1>2, PTL DEF Spec

(* bsm_lookup's search for the owner's id alone finds mapped stores only,  *)
(* for all stores, frames and policies: release and unmap reset the owner. *)
THEOREM StoreMapConsistent == Spec => []LookupFindsMapped
<1> DEFINE J == StoreOK /\ live \subseteq Pid /\ currpid \in live
<1>1. Init => J
  BY InitHolds DEF RInv, IInv, ProcOK
<1>2. J /\ [Next]_vars => J'
  <2> SUFFICES ASSUME J, [Next]_vars PROVE J'
    OBVIOUS
  <2>1. StoreOK'
    BY StoreSteps
  <2>2. (live \subseteq Pid /\ currpid \in live)'
    BY FrameParts DEF Next, vars, procVars, Switch, Create, Vcreate, Kill, Suicide, Die,
                      StoreCall, Unmap, Write, Fault, Pfint
  <2> QED  BY <2>1, <2>2
<1>3. J => LookupFindsMapped
  BY DEF StoreOK
<1> QED  BY <1>1, <1>2, <1>3, PTL DEF Spec

(* A table's reference count is the number of its present entries, so that *)
(* free_frm's test for zero means empty: while frames last (Spare), and,   *)
(* when they run out, with second chance under what SecondChance asks of   *)
(* the stray word and of the pages' numbers.                               *)
THEOREM RefcntCounts == Regime => (Spec => []RefcntIsPresent)
<1> SUFFICES ASSUME Regime PROVE Spec => []RefcntIsPresent
  OBVIOUS
<1>1. IInv => RefcntIsPresent
  <2> SUFFICES ASSUME IInv PROVE RefcntIsPresent
    OBVIOUS
  <2>1. StoreOK /\ ProcOK /\ Shape(ram)
    BY DEF IInv
  <2>2. PagingTypeOK
    <3>1. /\ ram.frm \in [Frame -> [status : Status, pid : Pid \cup {-1}, vpno : Nat,
                                    refcnt : Int, type : {"PAGE", "TBL", "DIR"}]]
          /\ ram.ent \in [Frame -> [Index -> [pres : BOOLEAN, base : Frame \cup {NoFrame}]]]
          /\ ram.pdbr \in [Pid -> Frame \cup {NoFrame}]
          /\ ram.head \in Frame \cup {NoFrame} /\ ram.stray \in Frame \cup {NoFrame}
      BY <2>1, RamParts DEF Shape, FrmRec, EntRec
    <3> QED  BY <2>1, <3>1 DEF PagingTypeOK, StoreOK, ProcOK
  <2>3. ASSUME NEW p \in live \cap UserPid, NEW v \in VPages, HasTable(p, v)
        PROVE  LET t == Pde(ram, p, v).base
               IN  ram.frm[t].refcnt = Cardinality({k \in Index : ram.ent[t][k].pres})
    <3> DEFINE t == Pde(ram, p, v).base
    <3>1. p \in Pid /\ p # NULLPROC /\ HasPd(ram, p) /\ v \div PTSIZE \in TableIndex
      BY <2>3, FrameParts, IndexParts DEF HasTable, HasDir, HasPd
    <3>2. Pd(ram, p)[v \div PTSIZE].pres /\ Pd(ram, p)[v \div PTSIZE].base = t
      BY <2>3 DEF HasTable, Pde, Pd
    <3>3. IsTable(ram, p, t)
      BY <2>1, <3>1, <3>2 DEF Shape, TablesOK
    <3>4. ram.frm[t].refcnt = Cardinality(Present(ram, t))
      BY <2>1, <3>1, <3>3 DEF Shape, CountsOK, IsTable
    <3> QED  BY <3>4 DEF Present
  <2> QED  BY <2>2, <2>3 DEF RefcntIsPresent
<1> QED  BY <1>1, ShapeInvariant, PTL

(* Second chance gives away no directory, and no table a live process's    *)
(* directory leads to; of the global tables, only the one the stray word   *)
(* named.  On the conditions of SecondChance: the word reads as no frame   *)
(* or as a global table's, and no page has a number from which free_frm    *)
(* computes the entry of a table.                                          *)
THEOREM TablesStay == SecondChance => (Spec => []TablesResident)
<1> SUFFICES ASSUME SecondChance PROVE Spec => []TablesResident
  OBVIOUS
<1>1. IInv => TablesResident
  <2> SUFFICES ASSUME IInv PROVE TablesResident
    OBVIOUS
  <2>1. ProcOK /\ Shape(ram)
    BY DEF IInv
  <2>2. \A f \in 0..(GLOBALS - 1) \ StrayWords :
          ram.frm[f].type = "TBL" /\ ram.frm[f].pid = NULLPROC
    BY <2>1 DEF Shape, GlobalsOK
  <2>3. ASSUME NEW p \in live, HasDir(p) PROVE ram.frm[ram.pdbr[p]].type = "DIR"
    BY <2>1, <2>3 DEF Shape, DirsOK, HasDir, HasPd, ProcOK
  <2>4. ASSUME NEW p \in live, HasDir(p), NEW v \in VPages, HasTable(p, v)
        PROVE  LET e == ram.frm[Pde(ram, p, v).base]
               IN  e.status = "MAPPED" /\ e.type = "TBL" /\ e.pid = p
    <3>1. p \in Pid /\ HasPd(ram, p) /\ v \div PTSIZE \in TableIndex
      BY <2>1, <2>4, IndexParts DEF HasDir, HasPd, ProcOK
    <3>2. /\ Pd(ram, p)[v \div PTSIZE].pres
          /\ Pd(ram, p)[v \div PTSIZE].base = Pde(ram, p, v).base
      BY <2>4 DEF HasTable, Pde, Pd
    <3>3. IsTable(ram, p, Pde(ram, p, v).base)
      BY <2>1, <3>1, <3>2 DEF Shape, TablesOK
    <3> QED  BY <3>3 DEF IsTable
  <2> QED  BY <2>2, <2>3, <2>4 DEF TablesResident
<1>2. Regime
  BY DEF Regime
<1> QED  BY <1>1, <1>2, ShapeInvariant, PTL

(* With frames to spare, the inverted page table agrees with the page      *)
(* tables: the frame of every present page of a live process is on record  *)
(* as that page's, so that no two pages share a frame.                     *)
THEOREM InvertedTableAgrees == Spare => (Spec => []ResidentRecorded)
<1> SUFFICES ASSUME Spare PROVE Spec => []ResidentRecorded
  OBVIOUS
<1>1. Init => RInv
  BY InitHolds
<1>2. RInv /\ [Next]_vars => RInv'
  <2> SUFFICES ASSUME RInv, [Next]_vars PROVE RInv'
    OBVIOUS
  <2>1. Regime /\ StoreOK /\ ProcOK /\ Shape(ram) /\ OnFile(ram)
    BY DEF Regime, RInv, IInv, OnFile
  <2>2. StoreOK'
    BY <2>1, StoreSteps DEF ProcOK
  <2>3. Shape(ram') /\ OnFile(ram')
    BY <2>1, RamSteps DEF Kept
  <2>4. ProcOK'
    BY <2>1, ProcSteps
  <2> QED  BY <2>2, <2>3, <2>4 DEF RInv, IInv, OnFile
<1>3. RInv => ResidentRecorded
  <2> SUFFICES ASSUME RInv, NEW p \in live \cap UserPid, NEW v \in VPages, Resident(p, v)
               PROVE  LET e == ram.frm[Pte(p, v).base]
                      IN  /\ e.status = "MAPPED" /\ e.type = "PAGE"
                          /\ e.pid = p /\ e.vpno = v
    BY DEF ResidentRecorded
  <2>1. InFrame(ram, p, v) /\ Pte(p, v).base = PageFrame(ram, p, v)
    BY DEF Resident, HasTable, HasDir, Pte, InFrame, Entered, HasPd, PageFrame
  <2>2. OnRecord(ram, p, v, PageFrame(ram, p, v))
    BY <2>1 DEF RInv, Recorded
  <2> QED  BY <2>1, <2>2 DEF OnRecord
<1> QED  BY <1>1, <1>2, <1>3, PTL DEF Spec
=============================================================================
