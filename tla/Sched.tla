------------------------------- MODULE Sched --------------------------------
(***************************************************************************)
(* The process table's scheduling fields, the ready list and the scheduler *)
(* (h/proc.h, sys/resched.c, ready.c, resume.c, suspend.c, chprio.c).      *)
(*                                                                         *)
(* The globals these routines share are the fields of one record, sched,   *)
(* so that a routine which calls another (ready calls insert and resched,  *)
(* chprio calls dequeue, insert and resched) is the composition of their   *)
(* operators, in the order of the calls.                                   *)
(*                                                                         *)
(* Every system call runs with interrupts disabled until it returns or     *)
(* reaches resched, so a call is one step.  A call that still has work to  *)
(* do when resched returns to it, or that loops, leaves the rest of its    *)
(* work in cont[p]; process p does that work, before anything else, when   *)
(* it next is the current process.                                         *)
(***************************************************************************)
EXTENDS QLists

CONSTANTS
  NPROC,      \* number of process table entries
  Prios,      \* the priorities processes pass to create and chprio
  QUANTUM,    \* clock ticks until preemption
  Calls       \* the system calls the processes of the instance issue

ASSUME SchedAssumption ==
  /\ NPROC \in Nat /\ NPROC > 1
  /\ Prios \subseteq Nat \ {0}
  /\ QUANTUM \in Nat \ {0}

Pid      == 0..(NPROC - 1)
NULLPROC == 0
UserPid  == Pid \ {NULLPROC}    \* the ids isbadpid lets through

States == {"PRCURR", "PRFREE", "PRREADY", "PRRECV",
           "PRSLEEP", "PRSUSP", "PRWAIT", "PRTRECV"}

VARIABLES
  sched,      \* pstate, pprio, qkey, rdyq, currpid, preempt
  cont        \* for each process, the unfinished part of its last call

schedVars == <<sched, cont>>

currpid == sched.currpid
pstate  == sched.pstate

(* A continuation: the routine, and up to two values it goes on with.      *)
Cont(op, x, n) == [op |-> op, x |-> x, n |-> n]
User == Cont("user", 0, 0)

(* The current process executes its own code: interrupts are enabled.      *)
Interruptible == cont[currpid] = User
(* ... and may make a system call; the null process only loops.            *)
MayCall(call) == Interruptible /\ currpid # NULLPROC /\ call \in Calls

-----------------------------------------------------------------------------
(* ready(pid, RESCHNO).  The key of an entry that is on no ordered list is *)
(* never read again; it is kept at 0.                                      *)
Ready(S, p) ==
  [S EXCEPT !.pstate[p] = "PRREADY",
            !.rdyq      = Insert(@, p, S.qkey, S.pprio[p]),
            !.qkey[p]   = S.pprio[p]]

(* dequeue(pid) of a ready process, which leaves the ready list for state st *)
Unready(S, p, st) ==
  [S EXCEPT !.pstate[p] = st, !.rdyq = Dequeue(@, p), !.qkey[p] = 0]

(* resched: nothing if the current process is still PRCURR and has more    *)
(* priority than every ready one; otherwise it joins the ready list (if    *)
(* still PRCURR) and the last of the list runs, with a new quantum.        *)
KeepsCPU(S) ==
  S.pstate[S.currpid] = "PRCURR" /\ LastKey(S.rdyq, S.qkey) < S.pprio[S.currpid]

Dispatch(S) ==
  LET p == S.rdyq[Len(S.rdyq)]
  IN  [Unready(S, p, "PRCURR") EXCEPT !.currpid = p, !.preempt = QUANTUM]

Resched(S) ==
  IF KeepsCPU(S) THEN S
  ELSE IF S.pstate[S.currpid] = "PRCURR" THEN Dispatch(Ready(S, S.currpid))
  ELSE Dispatch(S)

(* ready(pid, RESCHYES) *)
ReadyNow(S, p) == Resched(Ready(S, p))

(* The current process blocks in state st and gives up the processor.      *)
Block(S, st) == Resched([S EXCEPT !.pstate[S.currpid] = st])

-----------------------------------------------------------------------------
(* System calls.  A call the code refuses with SYSERR changes nothing: it  *)
(* is a stuttering step, and only the accepted call is an action.          *)

(* Mutant of Resume: it does not insist on PRSUSP. *)
Resume_AnyBlocked(p) ==
  /\ MayCall("resume")
  /\ pstate[p] \in {"PRSUSP", "PRRECV"}
  /\ sched' = ReadyNow(sched, p)
  /\ UNCHANGED cont

Resume(p) ==
  /\ MayCall("resume")
  /\ pstate[p] = "PRSUSP"
  /\ sched' = ReadyNow(sched, p)
  /\ UNCHANGED cont

Suspend(p) ==
  /\ MayCall("suspend")
  /\ \/ /\ pstate[p] = "PRREADY"
        /\ sched' = Unready(sched, p, "PRSUSP")
     \/ /\ pstate[p] = "PRCURR"
        /\ sched' = Block(sched, "PRSUSP")
  /\ UNCHANGED cont

(* Mutant of Chprio: the ready case does not fall through to the           *)
(* reschedule.                                                             *)
Chprio_NoResched(p, newprio) ==
  /\ MayCall("chprio")
  /\ pstate[p] # "PRFREE"
  /\ LET S == [sched EXCEPT !.pprio[p] = newprio]
     IN  sched' = CASE pstate[p] = "PRREADY" -> Ready(Unready(S, p, "PRREADY"), p)
                    [] pstate[p] = "PRCURR" -> Resched(S)
                    [] OTHER -> S
  /\ UNCHANGED cont

(* chprio(pid, newprio): a ready process is moved to its new place, and    *)
(* that case falls through to the current process's, which reschedules.    *)
Chprio(p, newprio) ==
  /\ MayCall("chprio")
  /\ pstate[p] # "PRFREE"
  /\ LET S == [sched EXCEPT !.pprio[p] = newprio]
     IN  sched' = CASE pstate[p] = "PRREADY" ->
                         Resched(Ready(Unready(S, p, "PRREADY"), p))
                    [] pstate[p] = "PRCURR" -> Resched(S)
                    [] OTHER -> S
  /\ UNCHANGED cont

(* sleep(0), sleep10(0), sleep100(0), sleep1000(0): end the time slice.    *)
Yield ==
  /\ MayCall("sleep")
  /\ sched' = Resched(sched)
  /\ UNCHANGED cont

SchedNext ==
  \/ \E p \in UserPid : Resume(p) \/ Suspend(p)
  \/ \E p \in UserPid, newprio \in Prios : Chprio(p, newprio)
  \/ Yield

-----------------------------------------------------------------------------
(* Boot: nulluser has initialised the system and resumed the process that  *)
(* runs main, id NPROC-1, which preempted it (sys/initialize.c).           *)
MainPid  == NPROC - 1
CONSTANT InitPrio      \* INITPRIO, the priority of main
ASSUME InitPrioAssumption == InitPrio \in Nat \ {0}

SchedInit ==
  /\ sched = [pstate  |-> [p \in Pid |-> IF p = NULLPROC THEN "PRREADY"
                                         ELSE IF p = MainPid THEN "PRCURR"
                                         ELSE "PRFREE"],
              pprio   |-> [p \in Pid |-> IF p = MainPid THEN InitPrio ELSE 0],
              qkey    |-> [p \in Pid |-> 0],
              rdyq    |-> <<NULLPROC>>,
              currpid |-> MainPid,
              preempt |-> QUANTUM]
  /\ cont = [p \in Pid |-> User]
=============================================================================
