------------------------------- MODULE Pools --------------------------------
(***************************************************************************)
(* Buffer pools (sys/mkpool.c, getbuf.c, freebuf.c, poolinit.c).  A pool   *)
(* is a list of free buffers linked through their first words, and a       *)
(* semaphore that counts them.  The first word of a buffer in use is the   *)
(* number of its pool instead.                                             *)
(*                                                                         *)
(* getbuf and freebuf disable interrupts around the list only, so another  *)
(* process can run between their steps; mkpool and nbgetbuf are one step.  *)
(* A semaphore is a count and a queue, as Semaphores.tla implements it;    *)
(* processes of equal priority are scheduled in turn.                      *)
(***************************************************************************)
EXTENDS Integers, Sequences, FiniteSets, SequencesExt

CONSTANTS
  Proc,       \* the processes that use the pools
  NBPOOLS,    \* number of pool table entries (20)
  NumBufs     \* the number of buffers of a pool

ASSUME PoolAssumption ==
  /\ NBPOOLS \in Nat \ {0} /\ NumBufs \in Nat \ {0}
  /\ IsFiniteSet(Proc)

Pool  == 0..(NBPOOLS - 1)
NULL  == 0
MUTEX == -1      \* the semaphore of the queue in Gpq.tla

(* Addresses, none of which is the number of a pool or NULL.               *)
Addr(pool, k)  == NBPOOLS + pool * NumBufs + k
BufsOf(pool)   == {Addr(pool, k) : k \in 1..NumBufs}
Buf            == UNION {BufsOf(pool) : pool \in Pool}

VARIABLES
  nbpools,     \* the pools made so far are 0..nbpools - 1
  bpnext,      \* for each pool, its first free buffer or NULL
  bpmaxused,   \* for each pool, the most buffers it was ever found to lack
  word,        \* the first word of each buffer
  sem,         \* semaphores: count and queue
  pc,          \* where each process is in the code
  reg          \* its variables: the buffer it has, the pool, inuse, the key

poolVars == <<nbpools, bpnext, bpmaxused, word>>

User == <<"user">>
At(p, place) == pc[p] = place /\ \A s \in DOMAIN sem : ~Contains(sem[s].q, p)
GoTo(p, place) == pc' = [pc EXCEPT ![p] = place]

(* wait and signal of processes of one priority.                           *)
Waits(s, p) ==
  sem' = [sem EXCEPT ![s] = [cnt |-> @.cnt - 1,
                             q   |-> IF @.cnt > 0 THEN @.q ELSE Append(@.q, p)]]

(* Mutant of Signals: the process that waits least is let in. *)
Signals_Newest(s) ==
  sem' = [sem EXCEPT ![s] = [cnt |-> @.cnt + 1,
                             q   |-> IF @.cnt < 0 THEN Front(@.q) ELSE @.q]]

Signals(s) ==
  sem' = [sem EXCEPT ![s] = [cnt |-> @.cnt + 1,
                             q   |-> IF @.cnt < 0 THEN Tail(@.q) ELSE @.q]]

-----------------------------------------------------------------------------
(* mkpool: the buffers are linked in the order of their addresses.         *)
Mkpool(p) ==
  /\ At(p, User)
  /\ nbpools < NBPOOLS
  /\ nbpools' = nbpools + 1
  /\ bpnext'  = [bpnext EXCEPT ![nbpools] = Addr(nbpools, 1)]
  /\ word'    = [b \in Buf |->
                   IF b \notin BufsOf(nbpools) THEN word[b]
                   ELSE IF b = Addr(nbpools, NumBufs) THEN NULL ELSE b + 1]
  /\ sem'     = [sem EXCEPT ![nbpools].cnt = NumBufs]
  /\ UNCHANGED <<bpmaxused, pc, reg>>

(* getbuf(poolid): wait for a buffer, ...                                  *)
Getbuf(p, poolid) ==
  /\ At(p, User) /\ reg[p].buf = NULL
  /\ poolid < nbpools
  /\ Waits(poolid, p)
  /\ reg' = [reg EXCEPT ![p].pool = poolid]
  /\ GoTo(p, <<"getbuf", "count">>)
  /\ UNCHANGED poolVars

(* ... note how many are in use, interrupts enabled, ...                   *)
GetbufCount(p) ==
  /\ At(p, <<"getbuf", "count">>)
  /\ reg' = [reg EXCEPT ![p].n = NumBufs - sem[reg[p].pool].cnt]
  /\ GoTo(p, <<"getbuf", "test">>)
  /\ UNCHANGED <<poolVars, sem>>

GetbufTest(p) ==
  /\ At(p, <<"getbuf", "test">>)
  /\ GoTo(p, <<"getbuf", IF reg[p].n > bpmaxused[reg[p].pool] THEN "store" ELSE "take">>)
  /\ UNCHANGED <<poolVars, sem, reg>>

GetbufStore(p) ==
  /\ At(p, <<"getbuf", "store">>)
  /\ bpmaxused' = [bpmaxused EXCEPT ![reg[p].pool] = reg[p].n]
  /\ GoTo(p, <<"getbuf", "take">>)
  /\ UNCHANGED <<nbpools, bpnext, word, sem, reg>>

(* ... and take the first free one.  Its word is written after interrupts  *)
(* are enabled again; nobody else has it by then, so this is one step.     *)
Taken(p, pool) ==
  /\ reg'    = [reg EXCEPT ![p].buf = bpnext[pool], ![p].pool = 0, ![p].n = 0]
  /\ bpnext' = [bpnext EXCEPT ![pool] = IF @ = NULL THEN NULL ELSE word[@]]
  /\ word'   = [b \in Buf |-> IF b = bpnext[pool] THEN pool ELSE word[b]]

GetbufTake(p) ==
  /\ At(p, <<"getbuf", "take">>)
  /\ Taken(p, reg[p].pool)
  /\ GoTo(p, User)
  /\ UNCHANGED <<nbpools, bpmaxused, sem>>

(* Mutant of Nbgetbuf: it does not count the buffer it takes. *)
Nbgetbuf_NoWait(p, poolid) ==
  /\ At(p, User) /\ reg[p].buf = NULL
  /\ poolid < nbpools
  /\ sem[poolid].cnt > 0
  /\ Taken(p, poolid)
  /\ UNCHANGED <<nbpools, bpmaxused, sem, pc>>

(* nbgetbuf(poolid): the wait does not block.                              *)
Nbgetbuf(p, poolid) ==
  /\ At(p, User) /\ reg[p].buf = NULL
  /\ poolid < nbpools
  /\ sem[poolid].cnt > 0
  /\ Waits(poolid, p)
  /\ bpmaxused' = [bpmaxused EXCEPT ![poolid] =
                     LET inuse == NumBufs - sem'[poolid].cnt
                     IN  IF inuse > @ THEN inuse ELSE @]
  /\ Taken(p, poolid)
  /\ UNCHANGED <<nbpools, pc>>

(* freebuf(p): the buffer's own word says which pool it goes to.           *)
Freebuf(p) ==
  /\ At(p, User) /\ reg[p].buf # NULL
  /\ LET b    == reg[p].buf
         pool == word[b]
     IN  \/ /\ pool < nbpools
            /\ word'   = [word EXCEPT ![b] = bpnext[pool]]
            /\ bpnext' = [bpnext EXCEPT ![pool] = b]
            /\ reg'    = [reg EXCEPT ![p].buf = NULL, ![p].pool = pool]
            /\ GoTo(p, <<"freebuf", "signal">>)
         \/ /\ pool >= nbpools
            /\ reg' = [reg EXCEPT ![p].buf = NULL]
            /\ UNCHANGED <<word, bpnext, pc>>
  /\ UNCHANGED <<nbpools, bpmaxused, sem>>

FreebufSignal(p) ==
  /\ At(p, <<"freebuf", "signal">>)
  /\ Signals(reg[p].pool)
  /\ reg' = [reg EXCEPT ![p].pool = 0]
  /\ GoTo(p, User)
  /\ UNCHANGED poolVars

PoolStep(p) ==
  \/ GetbufCount(p) \/ GetbufTest(p) \/ GetbufStore(p) \/ GetbufTake(p)
  \/ FreebufSignal(p)

(* poolinit; the pools' semaphores exist from mkpool on.                   *)
PoolInit ==
  /\ nbpools   = 0
  /\ bpnext    = [pool \in Pool |-> NULL]
  /\ bpmaxused = [pool \in Pool |-> 0]
  /\ word      = [b \in Buf |-> NULL]
  /\ sem       = [s \in Pool \cup {MUTEX} |->
                    [cnt |-> IF s = MUTEX THEN 1 ELSE 0, q |-> <<>>]]
  /\ pc        = [p \in Proc |-> User]
  /\ reg       = [p \in Proc |-> [buf |-> NULL, pool |-> 0, n |-> 0, key |-> 0]]
=============================================================================
