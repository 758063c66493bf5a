----------------------------- MODULE Semaphores -----------------------------
(***************************************************************************)
(* Counting semaphores (h/sem.h, sys/screate.c, wait.c, signal.c,          *)
(* signaln.c, sdelete.c, sreset.c) on top of the scheduler.  A negative    *)
(* count is meant to be minus the number of processes on the queue.        *)
(***************************************************************************)
EXTENDS Sched

CONSTANTS
  NSEM,       \* number of semaphore table entries
  Counts,     \* the counts passed to screate and sreset
  MaxCount    \* bound on a semaphore's count

ASSUME SemAssumption ==
  /\ NSEM \in Nat \ {0}
  /\ MaxCount \in Nat \ {0}
  /\ Counts \subseteq 0..MaxCount

Sem == 0..(NSEM - 1)

VARIABLES
  sstate,     \* "SFREE" or "SUSED"
  semcnt,     \* the count
  semq,       \* the processes waiting, first come first
  nextsem,    \* where newsem starts its search
  psem,       \* the semaphore a process waits (or last waited) for
  pwaitret    \* what wait returns to it: "OK" or "DELETED"

semTable == <<sstate, semcnt, semq>>
semVars  == <<sstate, semcnt, semq, nextsem, psem, pwaitret>>

Used(s) == sstate[s] = "SUSED"

(* newsem and newpid: the first free slot at or, cyclically, below `from'  *)
(* in a table of n; the next search starts one below it.                   *)
SlotBelow(from, n, free) ==
  LET at(d) == IF d <= from THEN from - d ELSE from - d + n
  IN  at(CHOOSE d \in 0..(n - 1) : /\ at(d) \in free
                                   /\ \A e \in 0..(d - 1) : at(e) \notin free)

(* Mutant of SlotAfter: the search position does not wrap. *)
SlotAfter_NoWrap(slot, n) == slot - 1
SlotAfter(slot, n) == IF slot = 0 THEN n - 1 ELSE slot - 1

-----------------------------------------------------------------------------
Screate(count) ==
  /\ MayCall("screate")
  /\ \E s \in Sem : ~Used(s)
  /\ LET s == SlotBelow(nextsem, NSEM, {u \in Sem : ~Used(u)})
     IN  /\ sstate'  = [sstate EXCEPT ![s] = "SUSED"]
         /\ semcnt'  = [semcnt EXCEPT ![s] = count]
         /\ nextsem' = SlotAfter(s, NSEM)
  /\ UNCHANGED <<sched, cont, semq, psem, pwaitret>>

Wait(s) ==
  /\ MayCall("wait")
  /\ Used(s)
  /\ semcnt' = [semcnt EXCEPT ![s] = @ - 1]
  /\ \/ /\ semcnt[s] > 0
        /\ UNCHANGED <<sched, semq, psem, pwaitret>>
     \/ /\ semcnt[s] <= 0
        /\ psem'     = [psem EXCEPT ![currpid] = s]
        /\ semq'     = [semq EXCEPT ![s] = Enqueue(@, currpid)]
        /\ pwaitret' = [pwaitret EXCEPT ![currpid] = "OK"]
        /\ sched'    = Block(sched, "PRWAIT")
  /\ UNCHANGED <<cont, sstate, nextsem>>

(* ready(pid, resch) *)
Wake(S, p, resch) == IF resch THEN ReadyNow(S, p) ELSE Ready(S, p)

(* Mutant of SignalOnce: the last to come is the first served. *)
SignalOnce_WakesLast(s, resch) ==
  /\ semcnt[s] < MaxCount
  /\ semcnt' = [semcnt EXCEPT ![s] = @ + 1]
  /\ \/ /\ semcnt[s] < 0 /\ semq[s] # <<>>
        /\ sched' = Wake(sched, semq[s][Len(semq[s])], resch)
        /\ semq'  = [semq EXCEPT ![s] = SubSeq(@, 1, Len(@) - 1)]
     \/ /\ semcnt[s] >= 0 \/ semq[s] = <<>>
        /\ UNCHANGED <<sched, semq>>
  /\ UNCHANGED <<sstate, nextsem, psem, pwaitret>>

(* One V on semaphore s: count up and, if the count was negative, ready    *)
(* getfirst(sqhead); ready refuses the EMPTY an empty queue would give.    *)
SignalOnce(s, resch) ==
  /\ semcnt[s] < MaxCount
  /\ semcnt' = [semcnt EXCEPT ![s] = @ + 1]
  /\ \/ /\ semcnt[s] < 0 /\ semq[s] # <<>>
        /\ sched' = Wake(sched, Head(semq[s]), resch)
        /\ semq'  = [semq EXCEPT ![s] = Tail(@)]
     \/ /\ semcnt[s] >= 0 \/ semq[s] = <<>>
        /\ UNCHANGED <<sched, semq>>
  /\ UNCHANGED <<sstate, nextsem, psem, pwaitret>>

Signal(s) ==
  /\ MayCall("signal")
  /\ Used(s)
  /\ SignalOnce(s, TRUE)
  /\ UNCHANGED cont

(* A device's interrupt handler (comintr.c, ttyiin.c) calls signal on      *)
(* behalf of whatever process it interrupted, the null process included.   *)
DeviceSignal(s) ==
  /\ Interruptible
  /\ "device" \in Calls
  /\ Used(s)
  /\ SignalOnce(s, TRUE)
  /\ UNCHANGED cont

(* signaln(sem, count): count passes of a loop that readies without        *)
(* rescheduling, then resched.                                             *)
Signaln(s, count) ==
  /\ MayCall("signaln")
  /\ Used(s)
  /\ semcnt[s] + count <= MaxCount
  /\ cont' = [cont EXCEPT ![currpid] = Cont("signaln", s, count)]
  /\ UNCHANGED <<sched, semVars>>

(* Mutant of SignalnLoop: no resched after the loop. *)
SignalnLoop_NoResched ==
  /\ cont[currpid].op = "signaln"
  /\ LET s == cont[currpid].x
         n == cont[currpid].n
     IN  \/ /\ n > 0
            /\ SignalOnce(s, FALSE)
            /\ cont' = [cont EXCEPT ![currpid].n = n - 1]
         \/ /\ n = 0
            /\ cont'  = [cont EXCEPT ![currpid] = User]
            /\ UNCHANGED <<sched, semVars>>

SignalnLoop ==
  /\ cont[currpid].op = "signaln"
  /\ LET s == cont[currpid].x
         n == cont[currpid].n
     IN  \/ /\ n > 0
            /\ SignalOnce(s, FALSE)
            /\ cont' = [cont EXCEPT ![currpid].n = n - 1]
         \/ /\ n = 0
            /\ sched' = Resched(sched)
            /\ cont'  = [cont EXCEPT ![currpid] = User]
            /\ UNCHANGED semVars

(* sdelete(sem): the entry is freed first; the waiters are told and        *)
(* readied one by one, and only if there were any is there a resched.      *)
Sdelete(s) ==
  /\ MayCall("sdelete")
  /\ Used(s)
  /\ sstate' = [sstate EXCEPT ![s] = "SFREE"]
  /\ cont'   = IF semq[s] = <<>> THEN cont
               ELSE [cont EXCEPT ![currpid] = Cont("sdelete", s, 0)]
  /\ UNCHANGED <<sched, semcnt, semq, nextsem, psem, pwaitret>>

SdeleteLoop ==
  /\ cont[currpid].op = "sdelete"
  /\ LET s == cont[currpid].x
     IN  \/ /\ semq[s] # <<>>
            /\ pwaitret' = [pwaitret EXCEPT ![Head(semq[s])] = "DELETED"]
            /\ sched'    = Ready(sched, Head(semq[s]))
            /\ semq'     = [semq EXCEPT ![s] = Tail(@)]
            /\ UNCHANGED cont
         \/ /\ semq[s] = <<>>
            /\ sched' = Resched(sched)
            /\ cont'  = [cont EXCEPT ![currpid] = User]
            /\ UNCHANGED <<semq, pwaitret>>
  /\ UNCHANGED <<sstate, semcnt, nextsem, psem>>

(* sreset(sem, count): ready every waiter, then set the count and resched. *)
Sreset(s, count) ==
  /\ MayCall("sreset")
  /\ Used(s)
  /\ cont' = [cont EXCEPT ![currpid] = Cont("sreset", s, count)]
  /\ UNCHANGED <<sched, semVars>>

SresetLoop ==
  /\ cont[currpid].op = "sreset"
  /\ LET s == cont[currpid].x
     IN  \/ /\ semq[s] # <<>>
            /\ sched' = Ready(sched, Head(semq[s]))
            /\ semq'  = [semq EXCEPT ![s] = Tail(@)]
            /\ UNCHANGED <<cont, semcnt>>
         \/ /\ semq[s] = <<>>
            /\ semcnt' = [semcnt EXCEPT ![s] = cont[currpid].n]
            /\ sched'  = Resched(sched)
            /\ cont'   = [cont EXCEPT ![currpid] = User]
            /\ UNCHANGED semq
  /\ UNCHANGED <<sstate, nextsem, psem, pwaitret>>

SemNext ==
  \/ \E count \in Counts : Screate(count)
  \/ \E s \in Sem : \/ Wait(s) \/ Signal(s) \/ DeviceSignal(s) \/ Sdelete(s)
  \/ \E s \in Sem, count \in 1..MaxCount : Signaln(s, count)
  \/ \E s \in Sem, count \in Counts : Sreset(s, count)
  \/ SignalnLoop \/ SdeleteLoop \/ SresetLoop

SemInit ==
  /\ sstate   = [s \in Sem |-> "SFREE"]
  /\ semcnt   = [s \in Sem |-> 0]
  /\ semq     = [s \in Sem |-> <<>>]
  /\ nextsem  = NSEM - 1
  /\ psem     = [p \in Pid |-> 0]
  /\ pwaitret = [p \in Pid |-> "OK"]
=============================================================================
