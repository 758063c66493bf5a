----------------------------- MODULE KernelProps ----------------------------
(***************************************************************************)
(* What the process manager promises.                                      *)
(***************************************************************************)
EXTENDS Kernel

LoopOps == {"signaln", "sdelete", "sreset", "wakeup"}
RestOps == {"receive", "recvtim", "clkint", "kill"}

(* Types.  Keys of waiting processes are 0, of ready ones priorities, of   *)
(* sleeping ones increments, which the clock may count down to -1.         *)
TypeOK ==
  /\ sched.pstate \in [Pid -> States]
  /\ sched.pprio \in [Pid -> Nat]
  /\ sched.qkey \in [Pid -> Int]
  /\ sched.rdyq \in Seq(Pid)
  /\ sched.currpid \in Pid
  /\ sched.preempt \in 0..QUANTUM
  /\ cont \in [Pid -> [op : {"user"} \cup LoopOps \cup RestOps, x : Nat, n : Nat]]
  /\ sstate \in [Sem -> {"SFREE", "SUSED"}]
  /\ semcnt \in [Sem -> Int]
  /\ semq \in [Sem -> Seq(Pid)]
  /\ nextsem \in Sem
  /\ psem \in [Pid -> Sem]
  /\ pwaitret \in [Pid -> {"OK", "DELETED"}]
  /\ clockq \in Seq(Pid)
  /\ slnempty \in BOOLEAN
  /\ sltop \in Pid
  /\ mbox \in [Pid -> Int]
  /\ numproc \in Int
  /\ nextproc \in Pid
  /\ pnxtkin \in [Pid -> Int]

(* Each process is on exactly the list its state names, once, and on no    *)
(* other: a process is never lost from, or left behind on, a list by any   *)
(* of the calls that move it, whichever process they are made by.          *)
ListsMatchStates ==
  /\ {p \in Pid : pstate[p] = "PRCURR"} = {currpid}
  /\ Holds(sched.rdyq, {p \in Pid : pstate[p] = "PRREADY"})
  /\ Holds(clockq, {p \in Pid : pstate[p] \in {"PRSLEEP", "PRTRECV"}})
  /\ \A s \in Sem :
       Holds(semq[s], {p \in Pid : pstate[p] = "PRWAIT" /\ psem[p] = s})

(* Outside a loop that has readied processes and not rescheduled yet, no   *)
(* ready process has more priority than the current one: every path that   *)
(* readies, reprioritises or blocks a process reaches resched.             *)
HighestPriorityRuns ==
  cont[currpid].op \notin LoopOps =>
    \A p \in Pid :
      pstate[p] = "PRREADY" => sched.pprio[p] <= sched.pprio[currpid]

(* Only the processor's owner can be inside a loop; and a semaphore in use *)
(* whose count is negative has exactly that many waiters, otherwise none.  *)
(* A semaphore being deleted or reset is excepted until its loop ends, and *)
(* a free semaphore keeps no process waiting.                              *)
SemCountMatchesQueue ==
  \A s \in Sem :
    \/ cont[currpid] \in {Cont("sreset", s, n) : n \in Counts}
    \/ cont[currpid] = Cont("sdelete", s, 0) /\ ~Used(s)
    \/ Used(s) /\ Len(semq[s]) = IF semcnt[s] < 0 THEN -semcnt[s] ELSE 0
    \/ ~Used(s) /\ semq[s] = <<>>

(* receive.c takes pmsg after resched without testing phasmsg again: a     *)
(* process that can reach that line has a message.  A process waiting for  *)
(* a message has none: a send between the test and the wait is not lost.   *)
ReceiveFindsMessage ==
  \A p \in Pid :
    /\ cont[p].op = "receive" /\ pstate[p] # "PRRECV" => phasmsg(p)
    /\ pstate[p] \in {"PRRECV", "PRTRECV"} => ~phasmsg(p)

(* Except while wakeup is at work, slnempty and sltop describe the first   *)
(* entry of clockq, and no entry is overdue: unsleep, insertd and wakeup   *)
(* leave the pointer the clock interrupt counts down through on the entry  *)
(* that is first now.                                                      *)
ClockPointsAtFirst ==
  cont[currpid].op # "wakeup" =>
    /\ slnempty = (clockq # <<>>)
    /\ slnempty => sltop = Head(clockq)
    /\ \A i \in 1..Len(clockq) : sched.qkey[clockq[i]] >= 0

-----------------------------------------------------------------------------
(* A message leaves a mailbox only by its owner's hand: whatever step      *)
(* empties or changes a full mailbox is a step of the process itself, or   *)
(* the slot's reuse.                                                       *)
MessageKept ==
  [][\A p \in Pid : phasmsg(p) /\ mbox'[p] # mbox[p]
                      => p = currpid \/ pstate[p] = "PRFREE"]_vars

(* The semaphores are SemaphoreSpec's: units are max(semcnt, 0).           *)
SemSpec == INSTANCE SemaphoreSpec WITH
  Semaphore <- Sem,
  Process   <- Pid,
  Amounts   <- Counts,
  inuse     <- {s \in Sem : Used(s)},
  resetting <- {s \in Sem : cont[currpid].op = "sreset" /\ cont[currpid].x = s},
  units     <- [s \in Sem |-> IF semcnt[s] > 0 THEN semcnt[s] ELSE 0],
  waiters   <- semq,
  alive     <- {p \in Pid : pstate[p] # "PRFREE"}

(* wait, signal, signaln, sdelete, sreset and kill, however their steps    *)
(* and loops interleave with scheduling, give each unit to the longest     *)
(* waiting process and to no one else, create none and let no one in past  *)
(* the queue.                                                              *)
ImplementsSemaphores == SemSpec!Spec

(* The sleep queue is AlarmSpec's: what is left of a process's delay is    *)
(* the sum of the increments up to it.                                     *)
Alarm == INSTANCE AlarmSpec WITH
  Process <- Pid,
  Waits   <- Delays,
  left    <- [p \in Pid |-> IF p \in ToSet(clockq)
                            THEN Elapsed(clockq, sched.qkey)[PosOf(clockq, p)]
                            ELSE -1000],
  timed   <- {p \in Pid : pstate[p] = "PRTRECV"},
  mail    <- {p \in Pid : phasmsg(p)},
  alive   <- {p \in Pid : pstate[p] # "PRFREE"}

(* insertd, unsleep, wakeup and the interrupt's countdown of one key make  *)
(* every sleep and timed receive last exactly the ticks asked for, or      *)
(* until the message comes.                                                *)
ImplementsAlarm == Alarm!Spec

-----------------------------------------------------------------------------
TopPriority(p) ==
  \A r \in Pid : pstate[r] \in {"PRREADY", "PRCURR"}
                   => sched.pprio[r] <= sched.pprio[p]

(* Round robin: a ready process that no runnable process outranks gets the *)
(* processor, however its equals use theirs.                               *)
RoundRobin ==
  \A p \in UserPid :
    (pstate[p] = "PRREADY" /\ TopPriority(p))
      ~> (pstate[p] # "PRREADY" \/ ~TopPriority(p))

(* A sleeping process leaves the sleep queue.                              *)
SleeperWakes ==
  \A p \in UserPid : (pstate[p] = "PRSLEEP") ~> (pstate[p] # "PRSLEEP")

(* A timed receive ends, by a message or by its timeout.                   *)
TimedReceiveEnds ==
  \A p \in UserPid : (pstate[p] = "PRTRECV") ~> (pstate[p] # "PRTRECV")
=============================================================================
