---------------------------- MODULE BufferProps -----------------------------
(* The properties of buffer pools and generic queues.                      *)
EXTENDS Buffers

(* Every variable has its type.  gpq.c:58 says of a negative count "this   *)
(* shouldn't happen, but...": it does not, and the arrays do not overflow, *)
(* though the count is tested before the mutex is taken -- with one        *)
(* receiver, and with room for every buffer.  Two receivers that both pass *)
(* the test on the last element take it twice.                             *)
BuffersTypeOK ==
  /\ nbpools \in 0..NBPOOLS
  /\ bpnext \in [Pool -> Buf \cup {NULL}]
  /\ bpmaxused \in [Pool -> 0..(NumBufs + Cardinality(Proc))]
  /\ word \in [Buf -> Int]
  /\ \A s \in DOMAIN sem : /\ sem[s].cnt \in Int
                           /\ Range(sem[s].q) \subseteq Proc
  /\ \A p \in Proc : reg[p].buf \in Buf \cup {NULL}
  /\ q_count \in 0..QMAX
  /\ q_elt \in [Slot -> Buf \cup {NULL}] /\ q_key \in [Slot -> Nat]

-----------------------------------------------------------------------------
(* The free buffers of a pool, in the order of the links.                  *)
Walk(pool) ==
  LET w[n \in 0..NumBufs] ==
        IF n = 0 THEN <<bpnext[pool]>>
        ELSE LET l == w[n - 1]
             IN  IF Last(l) \in Buf THEN Append(l, word[Last(l)]) ELSE l
  IN  w[NumBufs]
Chain(pool) == Front(Walk(pool))

Queued == {q_elt[i] : i \in 0..(q_count - 1)}
HeldFrom(pool) == {p \in Proc : reg[p].buf \in BufsOf(pool)}

(* Each buffer of a pool is in one place: on its pool's list, which ends,  *)
(* with one process, or once in the queue.  The list that getbuf and       *)
(* freebuf relink and the arrays that enq and deq shift never lose a       *)
(* buffer or hand one out twice, whatever the processes' steps (getbuf.c,  *)
(* freebuf.c, gpq.c).                                                      *)
BuffersConserved ==
  \A pool \in 0..(nbpools - 1) :
    LET chain == Chain(pool)
        held  == {reg[p].buf : p \in HeldFrom(pool)}
    IN  /\ Last(Walk(pool)) = NULL
        /\ Len(chain) + Cardinality(HeldFrom(pool))
             + Cardinality({i \in 0..(q_count - 1) : q_elt[i] \in BufsOf(pool)}) = NumBufs
        /\ Range(chain) \cup held \cup (Queued \cap BufsOf(pool)) = BufsOf(pool)

(* The semaphore and the list, which are updated apart: the buffers on the *)
(* list are those the semaphore grants, those of processes past the wait   *)
(* that have not taken theirs, and those freed whose signal is to come.    *)
(* So a process that passes the wait finds a buffer (getbuf.c:24,29).      *)
TakersFindBuffer ==
  \A pool \in 0..(nbpools - 1) :
    LET takers == {p \in Proc : /\ reg[p].pool = pool
                                /\ pc[p][1] = "getbuf"
                                /\ ~Contains(sem[pool].q, p)}
        freers == {p \in Proc : pc[p] = <<"freebuf", "signal">> /\ reg[p].pool = pool}
    IN  /\ Len(Chain(pool)) = sem[pool].cnt + Len(sem[pool].q)
                                + Cardinality(takers) + Cardinality(freers)
        /\ Len(sem[pool].q) = IF sem[pool].cnt < 0 THEN -sem[pool].cnt ELSE 0

-----------------------------------------------------------------------------
(* The arrays of keys and elements implement a line for each priority:     *)
(* the highest priority goes first, equal ones in their order, and a       *)
(* buffer has one owner at a time.                                         *)
LineOf(k) ==
  SelectSeq([i \in 1..q_count |-> [elt |-> q_elt[i - 1], key |-> q_key[i - 1]]],
            LAMBDA e : e.key = k)
Lines == INSTANCE PriorityLines WITH
  line <- [k \in Keys |-> [i \in 1..Len(LineOf(k)) |-> LineOf(k)[i].elt]],
  held <- [p \in Proc |-> reg[p].buf]
ImplementsPriorityLines == Lines!Spec

(* A process that waits for a buffer gets one: freebuf's signal comes      *)
(* after the buffer is back, and semaphores let processes in in turn.      *)
GetbufEnds == \A p \in Senders : (pc[p][1] = "getbuf") ~> (reg[p].buf # NULL)
=============================================================================
