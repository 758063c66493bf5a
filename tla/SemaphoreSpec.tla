--------------------------- MODULE SemaphoreSpec ----------------------------
(***************************************************************************)
(* What the semaphores promise, without counts below zero and without a    *)
(* scheduler: a semaphore holds units; a process takes one or queues up; a *)
(* unit given back goes to the first in the queue if there is one; nobody  *)
(* leaves the queue otherwise, except by dying or because the semaphore is *)
(* deleted or being reset.                                                 *)
(***************************************************************************)
EXTENDS Integers, Sequences, SequencesExt

CONSTANTS Semaphore, Process, Amounts

VARIABLES
  inuse,      \* the semaphores that exist
  resetting,  \* the semaphores being reset
  units,      \* units available
  waiters,    \* queue of waiting processes
  alive       \* the processes that exist

semSpecVars == <<inuse, resetting, units, waiters, alive>>

Init ==
  /\ inuse = {} /\ resetting = {}
  /\ units = [s \in Semaphore |-> 0]
  /\ waiters = [s \in Semaphore |-> <<>>]
  /\ alive \subseteq Process

Waiting == UNION {ToSet(waiters[s]) : s \in Semaphore}

Birth(s, n) ==
  /\ s \notin inuse /\ waiters[s] = <<>>
  /\ inuse' = inuse \cup {s}
  /\ units' = [units EXCEPT ![s] = n]
  /\ UNCHANGED <<resetting, waiters, alive>>

Take(s) ==
  /\ s \in inuse /\ units[s] > 0
  /\ units' = [units EXCEPT ![s] = @ - 1]
  /\ UNCHANGED <<inuse, resetting, waiters, alive>>

Queue(s, p) ==
  /\ s \in inuse /\ units[s] = 0
  /\ p \in alive \ Waiting
  /\ waiters' = [waiters EXCEPT ![s] = Append(@, p)]
  /\ UNCHANGED <<inuse, resetting, units, alive>>

Give(s) ==
  /\ s \in inuse
  /\ IF waiters[s] = <<>>
     THEN units' = [units EXCEPT ![s] = @ + 1] /\ UNCHANGED waiters
     ELSE waiters' = [waiters EXCEPT ![s] = Tail(@)] /\ UNCHANGED units
  /\ UNCHANGED <<inuse, resetting, alive>>

Delete(s) ==
  /\ s \in inuse
  /\ inuse' = inuse \ {s}
  /\ UNCHANGED <<resetting, units, waiters, alive>>

BeginReset(s) ==
  /\ s \in inuse
  /\ resetting' = resetting \cup {s}
  /\ UNCHANGED <<inuse, units, waiters, alive>>

(* The queue of a deleted semaphore, or of one being reset, is let go.     *)
Drain(s) ==
  /\ s \notin inuse \/ s \in resetting
  /\ waiters[s] # <<>>
  /\ waiters' = [waiters EXCEPT ![s] = Tail(@)]
  /\ UNCHANGED <<inuse, resetting, units, alive>>

EndReset(s, n) ==
  /\ s \in resetting /\ waiters[s] = <<>>
  /\ resetting' = resetting \ {s}
  /\ units' = [units EXCEPT ![s] = n]
  /\ UNCHANGED <<inuse, waiters, alive>>

(* A waiting process dies: its place in the queue goes, and no unit does.  *)
DieWaiting(s, p) ==
  /\ \E i \in 1..Len(waiters[s]) :
       waiters[s][i] = p /\ waiters' = [waiters EXCEPT ![s] = RemoveAt(@, i)]
  /\ alive' = alive \ {p}
  /\ UNCHANGED <<inuse, resetting, units>>

(* Other processes come and go.                                            *)
Populate ==
  /\ alive' \in SUBSET Process
  /\ Waiting \subseteq alive'
  /\ UNCHANGED <<inuse, resetting, units, waiters>>

Next ==
  \/ \E s \in Semaphore :
       \/ Take(s) \/ Give(s) \/ Delete(s) \/ BeginReset(s) \/ Drain(s)
       \/ \E n \in Amounts : Birth(s, n) \/ EndReset(s, n)
       \/ \E p \in Process : Queue(s, p) \/ DieWaiting(s, p)
  \/ Populate

Spec == Init /\ [][Next]_semSpecVars
=============================================================================
