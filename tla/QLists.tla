------------------------------- MODULE QLists -------------------------------
(***************************************************************************)
(* The lists of the q[] array (h/q.h, sys/queue.c, insert.c, insertd.c,    *)
(* getitem.c).  In the code a list is a doubly linked chain of q entries   *)
(* between a head and a tail entry; here a list is the sequence of its     *)
(* process ids, head first, and the qkey fields are a function from ids to *)
(* integers.  The sentinels' keys (MININT at the head, MAXINT at the tail) *)
(* are what ends a scan: they appear as the "no such entry" cases.         *)
(***************************************************************************)
EXTENDS Integers, Sequences, SequencesExt

(* The list holds exactly the entries of P, each once.                     *)
Holds(list, P) == ToSet(list) = P /\ IsInjective(list)

(* The entries' keys ascend from head to tail.                             *)
Sorted(list, qkey) ==
  \A i, j \in 1..Len(list) : i <= j => qkey[list[i]] <= qkey[list[j]]

(* The least index of `list' whose entry is in `stop', or one past the end *)
(* of the list: where a scan from the head that ends at the tail's MAXINT  *)
(* key comes to rest.                                                      *)
StopsAt(I, n) ==
  CHOOSE i \in 1..(n + 1) : /\ i \in I \/ i = n + 1
                            /\ \A j \in 1..(i - 1) : j \notin I

(* Mutant of InsertPos: an entry passes its equals. *)
InsertPos_PassesEquals(list, qkey, key) ==
  StopsAt({i \in 1..Len(list) : qkey[list[i]] > key}, Len(list))

(* insert(proc, head, key): before the first entry whose key is >= key.    *)
InsertPos(list, qkey, key) ==
  StopsAt({i \in 1..Len(list) : qkey[list[i]] >= key}, Len(list))

Insert(list, proc, qkey, key) ==
  InsertAt(list, InsertPos(list, qkey, key), proc)

(* enqueue(item, tail) *)
Enqueue(list, item) == Append(list, item)

(* dequeue(item): unlink an entry wherever it stands.                      *)
PosOf(list, item) == CHOOSE i \in 1..Len(list) : list[i] = item
Dequeue(list, item) == RemoveAt(list, PosOf(list, item))

(* lastkey(tail): the key of the last entry, the head's MININT when the    *)
(* list is empty.  Keys of the ready list are priorities, hence above -1.  *)
LastKey(list, qkey) == IF list = <<>> THEN -1 ELSE qkey[list[Len(list)]]

(* Along the sleep queue the keys are increments: Elapsed(list, qkey)[i]   *)
(* is the number of ticks until entry i falls due.                         *)
Elapsed(list, qkey) ==
  LET sum[i \in 0..Len(list)] ==
        IF i = 0 THEN 0 ELSE sum[i - 1] + qkey[list[i]]
  IN  sum

(* insertd(pid, head, key): walk on while the entry's increment is less    *)
(* than what is left of key; the new entry takes what is left, and the     *)
(* next entry gives it up.                                                 *)
InsertdPos(list, qkey, key) ==
  StopsAt({i \in 1..Len(list) : Elapsed(list, qkey)[i] >= key}, Len(list))

Insertd(list, pid, qkey, key) ==
  InsertAt(list, InsertdPos(list, qkey, key), pid)

InsertdKeys(list, pid, qkey, key) ==
  LET i    == InsertdPos(list, qkey, key)
      left == key - Elapsed(list, qkey)[i - 1]
  IN  [p \in DOMAIN qkey |->
         IF p = pid THEN left
         ELSE IF i <= Len(list) /\ p = list[i] THEN qkey[p] - left
         ELSE qkey[p]]
=============================================================================
