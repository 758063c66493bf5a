-------------------------------- MODULE Gpq ---------------------------------
(***************************************************************************)
(* A generic priority queue (sys/gpq.c): an array of elements and keys in  *)
(* the order of decreasing keys.  Each operation tests the count first;    *)
(* only then does it take the queue's mutex (QF_WAIT) or disable           *)
(* interrupts (QF_NOWAIT), so another process can run in between in both   *)
(* cases.  The body runs alone in both cases and is one step.              *)
(***************************************************************************)
EXTENDS Pools

CONSTANTS
  QMAX,     \* the size given to newq
  QTypes,   \* the mutex types given to newq
  Keys      \* the priorities given to enq

ASSUME QueueAssumption ==
  /\ QMAX \in Nat \ {0} /\ Keys \subseteq Nat
  /\ QTypes \subseteq {"QF_WAIT", "QF_NOWAIT"}

VARIABLES
  q_type,    \* the queue's mutex type
  q_count,
  q_elt,     \* the arrays, and behind them the memory that a process
  q_key      \*   can reach which passed its test when there was room

queueVars == <<q_type, q_count, q_elt, q_key>>
Slot      == 0..(QMAX + Cardinality(Proc) - 1)
NoWait    == q_type = "QF_NOWAIT"

-----------------------------------------------------------------------------
(* enq(q, elt, key), up to the mutex: a full queue refuses.                *)
Enq(p, key) ==
  /\ At(p, User) /\ reg[p].buf # NULL
  /\ q_count < QMAX
  /\ reg' = [reg EXCEPT ![p].key = key]
  /\ GoTo(p, <<"enq", "enter">>)
  /\ UNCHANGED <<poolVars, sem, queueVars>>

(* Mutant of Deq: an empty queue is not refused. *)
Deq_NoTest(p) ==
  /\ At(p, User) /\ reg[p].buf = NULL
  /\ GoTo(p, <<"deq", "enter">>)
  /\ UNCHANGED <<poolVars, sem, reg, queueVars>>

(* deq(q), up to the mutex: an empty queue answers NULL.                   *)
Deq(p) ==
  /\ At(p, User) /\ reg[p].buf = NULL
  /\ q_count > 0
  /\ GoTo(p, <<"deq", "enter">>)
  /\ UNCHANGED <<poolVars, sem, reg, queueVars>>

Acquire(p, op) ==
  /\ At(p, <<op, "enter">>) /\ ~NoWait
  /\ Waits(MUTEX, p)
  /\ GoTo(p, <<op, "body">>)
  /\ UNCHANGED <<poolVars, reg, queueVars>>

Body(p, op) ==
  /\ At(p, <<op, IF NoWait THEN "enter" ELSE "body">>)
  /\ GoTo(p, IF NoWait THEN User ELSE <<op, "unlock">>)
  /\ UNCHANGED <<poolVars, sem, q_type>>

(* Mutant of Place: a new element goes before those of equal priority. *)
Place_BeforeEquals(key, count) ==
  CHOOSE i \in 0..count : /\ i = 0 \/ key < q_key[i - 1]
                          /\ \A j \in i..(count - 1) : key >= q_key[j]

(* Where an element goes: from the tail, past the smaller keys.            *)
Place(key, count) ==
  CHOOSE i \in 0..count : /\ i = 0 \/ key <= q_key[i - 1]
                          /\ \A j \in i..(count - 1) : key > q_key[j]

Shifted(arr, i, count, x) ==
  [j \in Slot |-> IF j = i THEN x
                  ELSE IF j \in (i + 1)..count THEN arr[j - 1] ELSE arr[j]]

EnqBody(p) ==
  /\ Body(p, "enq")
  /\ LET count == IF q_count < 0 THEN 0 ELSE q_count
         i     == Place(reg[p].key, count)
     IN  /\ q_elt'   = Shifted(q_elt, i, count, reg[p].buf)
         /\ q_key'   = Shifted(q_key, i, count, reg[p].key)
         /\ q_count' = count + 1
  /\ reg' = [reg EXCEPT ![p].buf = NULL, ![p].key = 0]

Closed(arr) ==
  [j \in Slot |-> IF j + 1 < q_count THEN arr[j + 1] ELSE arr[j]]

(* Mutant of DeqBody: the element is returned and stays. *)
DeqBody_Keeps(p) ==
  /\ Body(p, "deq")
  /\ reg' = [reg EXCEPT ![p].buf = q_elt[0]]
  /\ UNCHANGED <<q_elt, q_key, q_count>>

DeqBody(p) ==
  /\ Body(p, "deq")
  /\ reg'     = [reg EXCEPT ![p].buf = q_elt[0]]
  /\ q_elt'   = Closed(q_elt)
  /\ q_key'   = Closed(q_key)
  /\ q_count' = q_count - 1

Release(p, op) ==
  /\ At(p, <<op, "unlock">>)
  /\ Signals(MUTEX)
  /\ GoTo(p, User)
  /\ UNCHANGED <<poolVars, reg, queueVars>>

QueueStep(p) ==
  \/ EnqBody(p) \/ DeqBody(p)
  \/ \E op \in {"enq", "deq"} : Acquire(p, op) \/ Release(p, op)

(* newq(QMAX, mtype)                                                       *)
QueueInit ==
  /\ q_type \in QTypes
  /\ q_count = 0
  /\ q_elt   = [i \in Slot |-> NULL]
  /\ q_key   = [i \in Slot |-> 0]
=============================================================================
