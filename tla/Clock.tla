------------------------------- MODULE Clock --------------------------------
(***************************************************************************)
(* The real-time clock (sys/clkint.S, sleep*.c, unsleep.c, wakeup.c) on    *)
(* top of the scheduler.  Sleeping processes wait on clockq, whose keys    *)
(* are increments: an entry's key is the ticks between the one before it   *)
(* and itself, and the clock interrupt counts down only the first key,     *)
(* through the pointer sltop, when slnempty says there is one.             *)
(***************************************************************************)
EXTENDS Sched

CONSTANT Delays     \* the delays, in clock ticks, given to sleep and recvtim
ASSUME ClockAssumption == Delays \subseteq Nat

VARIABLES
  clockq,     \* the sleep queue
  slnempty,   \* TRUE iff the clock interrupt must count the first key down
  sltop       \* the process whose key it counts down

clockVars == <<clockq, slnempty, sltop>>

(* The tail shared by sleep10, sleep100, sleep1000 and recvtim: put the    *)
(* current process on clockq, point sltop at the first entry and block.    *)
SleepIn(st, n) ==
  /\ clockq'   = Insertd(clockq, currpid, sched.qkey, n)
  /\ slnempty' = TRUE
  /\ sltop'    = Head(clockq')
  /\ sched'    = Block([sched EXCEPT
                          !.qkey = InsertdKeys(clockq, currpid, @, n)], st)

(* sleep1000(n), and the others with n scaled to ticks; sleep(n) is a      *)
(* sequence of them.  n = 0 is Sched's Yield.                              *)
Sleep(n) ==
  /\ MayCall("sleep")
  /\ n > 0
  /\ SleepIn("PRSLEEP", n)
  /\ UNCHANGED cont

(* Mutant of UnsleepKeys: the next entry does not inherit the key. *)
UnsleepKeys_NoHandover(p) == [sched.qkey EXCEPT ![p] = 0]

(* unsleep(pid): the next entry inherits what was left of pid's key.       *)
UnsleepKeys(p) ==
  LET i == PosOf(clockq, p)
  IN  [r \in Pid |->
         IF r = p THEN 0
         ELSE IF i < Len(clockq) /\ r = clockq[i + 1]
              THEN sched.qkey[r] + sched.qkey[p]
              ELSE sched.qkey[r]]

(* Mutant of Unsleep: sltop is not moved. *)
Unsleep_SltopStays(p) ==
  /\ clockq'   = Dequeue(clockq, p)
  /\ slnempty' = (slnempty /\ clockq' # <<>>)
  /\ UNCHANGED sltop

Unsleep(p) ==
  /\ clockq'   = Dequeue(clockq, p)
  /\ slnempty' = (slnempty /\ clockq' # <<>>)
  /\ sltop'    = IF clockq' # <<>> THEN Head(clockq') ELSE sltop

-----------------------------------------------------------------------------
(* clkint, the part at clpreem: count the quantum down, reschedule when it *)
(* is used up.  preempt is only tested for being positive: once it is not, *)
(* it stays 0 here until a context switch sets it again.                   *)
CountQuantum(S) ==
  LET T == [S EXCEPT !.preempt = IF @ > 0 THEN @ - 1 ELSE 0]
  IN  IF T.preempt > 0 THEN T ELSE Resched(T)

(* clkint up to the call of wakeup.                                        *)
ClockTick ==
  /\ Interruptible
  /\ "clock" \in Calls
  /\ LET S == IF slnempty THEN [sched EXCEPT !.qkey[sltop] = @ - 1] ELSE sched
     IN  \/ /\ slnempty /\ S.qkey[sltop] <= 0
            /\ sched' = S
            /\ cont'  = [cont EXCEPT ![currpid] = Cont("wakeup", 0, 0)]
         \/ /\ slnempty => S.qkey[sltop] > 0
            /\ sched' = CountQuantum(S)
            /\ UNCHANGED cont
  /\ UNCHANGED clockVars

(* Mutant of WakeupLoop: counting stops, whether or not entries are left. *)
WakeupLoop_StopsCounting ==
  /\ cont[currpid].op = "wakeup"
  /\ LET isDue == clockq # <<>> /\ sched.qkey[Head(clockq)] <= 0
     IN  \/ /\ isDue
            /\ sched'  = Ready(sched, Head(clockq))
            /\ clockq' = Tail(clockq)
            /\ UNCHANGED <<cont, slnempty, sltop>>
         \/ /\ ~isDue
            /\ slnempty' = FALSE
            /\ sched'    = Resched(sched)
            /\ cont'     = [cont EXCEPT ![currpid] = Cont("clkint", 0, 0)]
            /\ UNCHANGED <<clockq, sltop>>

(* wakeup: ready every entry that is due, then reschedule.  The interrupt  *)
(* handler continues at clpreem when the process it interrupted is current *)
(* again.                                                                  *)
WakeupLoop ==
  /\ cont[currpid].op = "wakeup"
  /\ LET isDue == clockq # <<>> /\ sched.qkey[Head(clockq)] <= 0
     IN  \/ /\ isDue
            /\ sched'  = Ready(sched, Head(clockq))
            /\ clockq' = Tail(clockq)
            /\ UNCHANGED <<cont, slnempty, sltop>>
         \/ /\ ~isDue
            /\ slnempty' = (clockq # <<>>)
            /\ sltop'    = IF clockq # <<>> THEN Head(clockq) ELSE sltop
            /\ sched'    = Resched(sched)
            /\ cont'     = [cont EXCEPT ![currpid] = Cont("clkint", 0, 0)]
            /\ UNCHANGED clockq

ClkintRest ==
  /\ cont[currpid].op = "clkint"
  /\ sched' = CountQuantum(sched)
  /\ cont'  = [cont EXCEPT ![currpid] = User]
  /\ UNCHANGED clockVars

ClockNext ==
  \/ \E n \in Delays : Sleep(n)
  \/ ClockTick
  \/ WakeupLoop
  \/ ClkintRest

ClockInit ==
  /\ clockq   = <<>>
  /\ slnempty = FALSE
  /\ sltop    = NULLPROC
=============================================================================
