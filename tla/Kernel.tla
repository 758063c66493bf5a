------------------------------- MODULE Kernel -------------------------------
(***************************************************************************)
(* The process manager: semaphores, messages and the clock on one          *)
(* scheduler, with the calls that create and destroy processes             *)
(* (sys/create.c, kill.c, userret.c, setnok.c).  Memory and paging are     *)
(* left to their own modules: create's stack and page directory and kill's *)
(* release_bs touch none of the state kept here.                           *)
(***************************************************************************)
EXTENDS Semaphores, Messages

BADPID == -1

VARIABLES
  numproc,    \* currently active processes, the null process not counted
  nextproc,   \* where newpid starts its search
  pnxtkin     \* for each process, whom to notify of its death

procVars == <<numproc, nextproc, pnxtkin>>
vars == <<schedVars, semVars, clockVars, mbox, procVars>>

-----------------------------------------------------------------------------
(* create(.., priority, ..): the slot search comes before the check of the *)
(* priority, so a refused priority still moves nextproc.                   *)
FreeSlots == {p \in Pid : pstate[p] = "PRFREE"}

Create(priority) ==
  /\ MayCall("create")
  /\ FreeSlots # {}
  /\ LET pid == SlotBelow(nextproc, NPROC, FreeSlots)
     IN  /\ nextproc' = SlotAfter(pid, NPROC)
         /\ \/ /\ priority < 1
               /\ UNCHANGED <<schedVars, psem, mbox, numproc, pnxtkin>>
            \/ /\ priority >= 1
               /\ numproc' = numproc + 1
               /\ sched'   = [sched EXCEPT !.pstate[pid] = "PRSUSP",
                                           !.pprio[pid]  = priority]
               /\ psem'    = [psem EXCEPT ![pid] = 0]
               /\ mbox'    = [mbox EXCEPT ![pid] = NoMsg]
               /\ pnxtkin' = [pnxtkin EXCEPT ![pid] = BADPID]
               /\ cont'    = [cont EXCEPT ![pid] = User]
  /\ UNCHANGED <<semTable, nextsem, pwaitret, clockVars>>

Setnok(nok, pid) ==
  /\ MayCall("setnok")
  /\ pnxtkin' = [pnxtkin EXCEPT ![pid] = nok]
  /\ UNCHANGED <<schedVars, semVars, clockVars, mbox, numproc, nextproc>>

(* kill(pid), up to and including the message to the next of kin: sending  *)
(* it may switch to another process before anything else is done.          *)
MinNumproc == 0     \* bound: kills that discount a process twice stop here

Kill(pid) ==
  /\ MayCall("kill")
  /\ pstate[pid] # "PRFREE"
  /\ numproc > MinNumproc
  /\ numproc' = numproc - 1
  /\ Send(pnxtkin[pid], pid)
  /\ cont' = [cont EXCEPT ![currpid] = Cont("kill", pid, 0)]
  /\ UNCHANGED <<semVars, nextproc, pnxtkin>>

(* Mutants of KillRest: a waiter's death does not give its place in the    *)
(* count back; a victim the message to the kin has made ready is not       *)
(* unlinked; unsleep is not called for a sleeping victim.                  *)
KillRest_KeepsCount ==
  /\ cont[currpid].op = "kill"
  /\ LET pid == cont[currpid].x
     IN  /\ \/ /\ pstate[pid] = "PRWAIT"
               /\ semq'   = [semq EXCEPT ![psem[pid]] = Dequeue(@, pid)]
               /\ sched'  = [sched EXCEPT !.pstate[pid] = "PRFREE"]
            \/ /\ pstate[pid] \in {"PRSUSP", "PRRECV", "PRFREE"}
               /\ sched' = [sched EXCEPT !.pstate[pid] = "PRFREE"]
               /\ UNCHANGED semq
         /\ cont' = [cont EXCEPT ![currpid] = User, ![pid] = User]
  /\ UNCHANGED <<semcnt, sstate, nextsem, psem, pwaitret, clockVars, mbox, procVars>>

KillRest_NoDequeue ==
  /\ cont[currpid].op = "kill"
  /\ LET pid == cont[currpid].x
     IN  /\ \/ /\ pstate[pid] = "PRCURR"
               /\ sched' = Block(sched, "PRFREE")
            \/ /\ pstate[pid] # "PRCURR"
               /\ sched' = [sched EXCEPT !.pstate[pid] = "PRFREE"]
         /\ cont' = [cont EXCEPT ![currpid] = User, ![pid] = User]
  /\ UNCHANGED <<semVars, clockVars, mbox, procVars>>

(* kill, the switch on the victim's state.                                 *)
KillRest ==
  /\ cont[currpid].op = "kill"
  /\ LET pid == cont[currpid].x
     IN  /\ \/ /\ pstate[pid] = "PRCURR"
               /\ sched' = Block(sched, "PRFREE")
               /\ UNCHANGED <<semcnt, semq, clockVars>>
            \/ /\ pstate[pid] = "PRWAIT"
               /\ semcnt' = [semcnt EXCEPT ![psem[pid]] = @ + 1]
               /\ semq'   = [semq EXCEPT ![psem[pid]] = Dequeue(@, pid)]
               /\ sched'  = [sched EXCEPT !.pstate[pid] = "PRFREE"]
               /\ UNCHANGED clockVars
            \/ /\ pstate[pid] = "PRREADY"
               /\ sched' = Unready(sched, pid, "PRFREE")
               /\ UNCHANGED <<semcnt, semq, clockVars>>
            \/ /\ pstate[pid] \in {"PRSLEEP", "PRTRECV"}
               /\ sched' = [sched EXCEPT !.qkey = UnsleepKeys(pid),
                                         !.pstate[pid] = "PRFREE"]
               /\ Unsleep(pid)
               /\ UNCHANGED <<semcnt, semq>>
            \/ /\ pstate[pid] \in {"PRSUSP", "PRRECV", "PRFREE"}
               /\ sched' = [sched EXCEPT !.pstate[pid] = "PRFREE"]
               /\ UNCHANGED <<semcnt, semq, clockVars>>
         /\ cont' = [cont EXCEPT ![currpid] = User, ![pid] = User]
  /\ UNCHANGED <<sstate, nextsem, psem, pwaitret, mbox, procVars>>

ProcNext ==
  \/ \E priority \in Prios \cup {0} : Create(priority)
  \/ \E nok, pid \in UserPid : Setnok(nok, pid)
  \/ \E pid \in UserPid : Kill(pid)
  \/ KillRest

-----------------------------------------------------------------------------
Init ==
  /\ SchedInit /\ SemInit /\ ClockInit /\ MsgInit
  /\ numproc  = 1
  /\ nextproc = SlotAfter(MainPid, NPROC)
  /\ pnxtkin  = [p \in Pid |-> BADPID]

Next ==
  \/ SchedNext /\ UNCHANGED <<semVars, clockVars, mbox, procVars>>
  \/ SemNext   /\ UNCHANGED <<clockVars, mbox, procVars>>
  \/ ClockNext /\ UNCHANGED <<semVars, mbox, procVars>>
  \/ MsgNext   /\ UNCHANGED <<semVars, procVars>>
  \/ ProcNext

Spec == Init /\ [][Next]_vars

(* The processor executes: a current process finishes the call it is in.   *)
(* The clock's interrupt request stays up while interrupts are disabled,   *)
(* so it is served once they are enabled, again and again: strong fairness. *)
CompleteCall ==
  \/ (SignalnLoop \/ SdeleteLoop \/ SresetLoop)
       /\ UNCHANGED <<clockVars, mbox, procVars>>
  \/ (WakeupLoop \/ ClkintRest) /\ UNCHANGED <<semVars, mbox, procVars>>
  \/ (ReceiveRest \/ RecvtimRest) /\ UNCHANGED <<semVars, procVars>>
  \/ KillRest

Tick == ClockTick /\ UNCHANGED <<semVars, mbox, procVars>>

FairSpec == Spec /\ WF_vars(CompleteCall) /\ SF_vars(Tick)
=============================================================================
