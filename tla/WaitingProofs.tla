--------------------------- MODULE WaitingProofs ----------------------------
(***************************************************************************)
(* What processes wait for, for every number of processes and semaphores   *)
(* and every set of calls: a semaphore's count tells how many wait for it, *)
(* a process that waits for a message has none, and the clock counts down  *)
(* for the process that is due first.                                      *)
(***************************************************************************)
EXTENDS KernelProofs

(* The loops that empty a semaphore's queue.                               *)
Emptying == {"sdelete", "sreset"}

CountMatches(st, cnt, q) ==
  IF st = "SUSED" THEN Len(q) = IF cnt < 0 THEN -cnt ELSE 0 ELSE q = <<>>

(* The loops work on the semaphore they were called for, which is in use   *)
(* while it is reset and free while it is deleted; the other counts match. *)
CountInv ==
  LET c == cont[currpid]
  IN  /\ c.op = "sreset"  => c.n \in Counts /\ c.x \in Sem /\ Used(c.x)
      /\ c.op = "sdelete" => c.n = 0 /\ c.x \in Sem /\ ~Used(c.x)
      /\ \A s \in Sem : CountMatches(sstate[s], semcnt[s], semq[s])
                        \/ (c.op \in Emptying /\ c.x = s)

LEMMA SemTypes ==
  ASSUME IInv
  PROVE  /\ currpid \in Pid /\ sstate \in [Sem -> {"SFREE", "SUSED"}]
         /\ semcnt \in [Sem -> Int] /\ semq \in [Sem -> Seq(Pid)]
         /\ \A p \in Pid : /\ cont[p] \in ContType
                           /\ p # currpid => cont[p].op \notin LoopOps
BY BasicTypes DEF IInv, OthersOK, QueuesOK, ContOK

(* A step of a process that is in no such loop, and enters none.           *)
LEMMA NoneEmptying ==
  ASSUME IInv, IInv', cont[currpid].op \notin Emptying,
         \A p \in Pid : cont'[p] = cont[p] \/ cont'[p].op \notin Emptying
  PROVE  cont'[currpid'].op \notin Emptying
<1>1. currpid' \in Pid
  BY DEF IInv, Consistent, SchedType, currpid
<1>2. \A p \in Pid : cont[p].op \notin Emptying
  BY SemTypes DEF Emptying, LoopOps
<1> QED  BY <1>1, <1>2

LEMMA CountsStay ==
  ASSUME IInv, CountInv, IInv', cont[currpid].op \notin Emptying,
         \A p \in Pid : cont'[p] = cont[p] \/ cont'[p].op \notin Emptying,
         sstate' = sstate, semcnt' = semcnt, semq' = semq
  PROVE  CountInv'
BY NoneEmptying DEF CountInv, Emptying

(* One semaphore changes, and its count matches afterwards.                *)
LEMMA CountSet ==
  ASSUME IInv, CountInv, IInv', cont[currpid].op \notin Emptying,
         \A p \in Pid : cont'[p] = cont[p] \/ cont'[p].op \notin Emptying,
         NEW s \in Sem, CountMatches(sstate'[s], semcnt'[s], semq'[s]),
         \A u \in Sem \ {s} : /\ sstate'[u] = sstate[u] /\ semcnt'[u] = semcnt[u]
                              /\ semq'[u] = semq[u]
  PROVE  CountInv'
<1>1. cont'[currpid'].op \notin Emptying
  BY NoneEmptying
<1>2. \A u \in Sem \ {s} : CountMatches(sstate[u], semcnt[u], semq[u])
  BY DEF CountInv
<1>3. \A u \in Sem : CountMatches(sstate'[u], semcnt'[u], semq'[u])
  <2> SUFFICES ASSUME NEW u \in Sem \ {s}
               PROVE CountMatches(sstate'[u], semcnt'[u], semq'[u])
    OBVIOUS
  <2> QED  BY <1>2
<1> QED  BY <1>1, <1>3 DEF CountInv, Emptying

(* One V.                                                                  *)
LEMMA SignalMatches ==
  ASSUME IInv, NEW s \in Sem, NEW b \in BOOLEAN, SignalOnce(s, b),
         CountMatches(sstate[s], semcnt[s], semq[s])
  PROVE  /\ CountMatches(sstate'[s], semcnt'[s], semq'[s])
         /\ \A u \in Sem \ {s} : /\ sstate'[u] = sstate[u] /\ semcnt'[u] = semcnt[u]
                                 /\ semq'[u] = semq[u]
<1>1. semcnt[s] \in Int /\ semq[s] \in Seq(Pid) /\ Len(semq[s]) \in Nat
  BY SemTypes, LenProperties
<1>2. sstate' = sstate /\ semcnt' = [semcnt EXCEPT ![s] = @ + 1]
  BY DEF SignalOnce
<1>3. semcnt'[s] = semcnt[s] + 1 /\ \A u \in Sem \ {s} : semcnt'[u] = semcnt[u]
  BY <1>2, SemTypes
<1>4. CASE semcnt[s] < 0 /\ semq[s] # <<>> /\ semq' = [semq EXCEPT ![s] = Tail(@)]
  <2>1. semq'[s] = Tail(semq[s]) /\ \A u \in Sem \ {s} : semq'[u] = semq[u]
    BY <1>4, SemTypes
  <2>2. Len(Tail(semq[s])) = Len(semq[s]) - 1
    BY <1>1, <1>4, HeadTailProperties
  <2>3. sstate[s] = "SUSED" => Len(semq[s]) = -semcnt[s]
    BY <1>1, <1>4 DEF CountMatches
  <2>4. sstate[s] = "SUSED"
    BY <1>4 DEF CountMatches
  <2>5. Len(semq'[s]) = IF semcnt'[s] < 0 THEN -semcnt'[s] ELSE 0
    <3>1. Len(semq'[s]) = -semcnt[s] - 1
      BY <2>1, <2>2, <2>3, <2>4
    <3>2. semcnt[s] \in Int /\ semcnt[s] < 0 /\ semcnt'[s] = semcnt[s] + 1
      BY <1>1, <1>3, <1>4
    <3> QED  BY <3>1, <3>2
  <2> QED  BY <1>2, <1>3, <2>1, <2>4, <2>5 DEF CountMatches
<1>5. CASE (semcnt[s] >= 0 \/ semq[s] = <<>>) /\ semq' = semq
  <2>1. semq[s] = <<>> <=> Len(semq[s]) = 0
    BY <1>1, EmptySeq
  <2> QED  BY <1>1, <1>2, <1>3, <1>5, <2>1 DEF CountMatches
<1> QED  BY <1>4, <1>5 DEF SignalOnce

LEMMA WaitMatches ==
  ASSUME IInv, NEW s \in Sem, Wait(s), CountMatches(sstate[s], semcnt[s], semq[s])
  PROVE  /\ CountMatches(sstate'[s], semcnt'[s], semq'[s])
         /\ \A u \in Sem \ {s} : /\ sstate'[u] = sstate[u] /\ semcnt'[u] = semcnt[u]
                                 /\ semq'[u] = semq[u]
<1>1. /\ semcnt[s] \in Int /\ semq[s] \in Seq(Pid) /\ Len(semq[s]) \in Nat
      /\ currpid \in Pid
  BY SemTypes, LenProperties
<1>2. sstate' = sstate /\ semcnt' = [semcnt EXCEPT ![s] = @ - 1] /\ sstate[s] = "SUSED"
  BY DEF Wait, Used
<1>3. semcnt'[s] = semcnt[s] - 1 /\ \A u \in Sem \ {s} : semcnt'[u] = semcnt[u]
  BY <1>2, SemTypes
<1>4. CASE semcnt[s] > 0 /\ semq' = semq
  BY <1>1, <1>2, <1>3, <1>4 DEF CountMatches
<1>5. CASE semcnt[s] <= 0 /\ semq' = [semq EXCEPT ![s] = Enqueue(@, currpid)]
  <2>1. semq'[s] = Append(semq[s], currpid) /\ \A u \in Sem \ {s} : semq'[u] = semq[u]
    BY <1>5, SemTypes DEF Enqueue
  <2>2. Len(Append(semq[s], currpid)) = Len(semq[s]) + 1
    BY <1>1, AppendProperties
  <2> QED  BY <1>1, <1>2, <1>3, <1>5, <2>1, <2>2 DEF CountMatches
<1> QED  BY <1>4, <1>5 DEF Wait

-----------------------------------------------------------------------------
(* Calls of the running process, and continuations in no such loop.        *)
LEMMA CallerEmptiesNone ==
  ASSUME Interruptible
  PROVE  cont[currpid].op \notin Emptying /\ cont[currpid].op = "user"
BY DEF Interruptible, User, Cont, Emptying

LEMMA ContOps ==
  /\ User.op = "user"
  /\ \A op, x, n : Cont(op, x, n).op = op /\ Cont(op, x, n).x = x /\ Cont(op, x, n).n = n
BY DEF User, Cont

-----------------------------------------------------------------------------
(* What no step of the scheduler, the clock, the messages or the process   *)
(* table touches.                                                          *)
LEMMA ContExcept ==
  ASSUME IInv, NEW p \in Pid, NEW c, c.op \notin Emptying, cont' = [cont EXCEPT ![p] = c]
  PROVE  \A q \in Pid : cont'[q] = cont[q] \/ cont'[q].op \notin Emptying
BY DEF IInv, ContOK

Quiet ==
  /\ cont[currpid].op \notin Emptying
  /\ \A q \in Pid : cont'[q] = cont[q] \/ cont'[q].op \notin Emptying
  /\ UNCHANGED semTable

LEMMA RestIsQuiet ==
  ASSUME IInv, cont[currpid].op \notin Emptying, UNCHANGED semTable,
         cont' = cont \/ \E p \in Pid : \E c : c.op \notin Emptying
                             /\ cont' = [cont EXCEPT ![p] = c]
  PROVE  Quiet
<1>1. \A q \in Pid : cont'[q] = cont[q] \/ cont'[q].op \notin Emptying
  <2>1. CASE cont' = cont
    BY <2>1
  <2>2. CASE \E p \in Pid : \E c : c.op \notin Emptying /\ cont' = [cont EXCEPT ![p] = c]
    BY <2>2, ContExcept
  <2> QED  BY <2>1, <2>2
<1> QED  BY <1>1 DEF Quiet

LEMMA QuietKeepsCounts ==
  ASSUME IInv, CountInv, IInv', Quiet
  PROVE  CountInv'
BY CountsStay DEF Quiet, semTable

LEMMA SchedIsQuiet ==
  ASSUME IInv, UNCHANGED semTable, SchedNext
  PROVE  Quiet
<1>1. Interruptible /\ cont' = cont
  BY DEF SchedNext, Resume, Suspend, Chprio, Yield, MayCall
<1> QED  BY <1>1, CallerEmptiesNone, RestIsQuiet

LEMMA ClockIsQuiet ==
  ASSUME IInv, UNCHANGED semTable, ClockNext
  PROVE  Quiet
<1>1. cont[currpid].op \notin Emptying
  BY CallerEmptiesNone
     DEF ClockNext, Sleep, ClockTick, WakeupLoop, ClkintRest, MayCall, Emptying
<1>2. \/ cont' = cont
      \/ \E c : c.op \notin Emptying /\ cont' = [cont EXCEPT ![currpid] = c]
  <2>1. /\ Cont("wakeup", 0, 0).op \notin Emptying /\ Cont("clkint", 0, 0).op \notin Emptying
        /\ User.op \notin Emptying
    BY DEF Cont, User, Emptying
  <2> QED  BY <2>1 DEF ClockNext, Sleep, ClockTick, WakeupLoop, ClkintRest
<1> QED  BY <1>1, <1>2, BasicTypes, RestIsQuiet

LEMMA MsgIsQuiet ==
  ASSUME IInv, UNCHANGED semTable, MsgNext
  PROVE  Quiet
<1>1. cont[currpid].op \notin Emptying
  BY CallerEmptiesNone
     DEF MsgNext, SendCall, Receive, ReceiveRest, Recvclr, Recvtim, RecvtimRest, MayCall,
         Emptying
<1>2. \/ cont' = cont
      \/ \E c : c.op \notin Emptying /\ cont' = [cont EXCEPT ![currpid] = c]
  <2>1. /\ Cont("receive", 0, 0).op \notin Emptying /\ Cont("recvtim", 0, 0).op \notin Emptying
        /\ User.op \notin Emptying
    BY DEF Cont, User, Emptying
  <2> QED  BY <2>1 DEF MsgNext, SendCall, Receive, ReceiveRest, Recvclr, Recvtim, RecvtimRest
<1> QED  BY <1>1, <1>2, BasicTypes, RestIsQuiet

(* create's slot.                                                          *)
LEMMA NewSlot ==
  ASSUME IInv, FreeSlots # {}
  PROVE  SlotBelow(nextproc, NPROC, FreeSlots) \in FreeSlots
<1>1. nextproc \in Pid
  BY DEF IInv, OthersOK
<1>2. /\ NPROC \in Nat \ {0} /\ nextproc \in 0..(NPROC - 1)
      /\ FreeSlots \subseteq 0..(NPROC - 1)
  BY <1>1, SchedAssumption DEF Pid, FreeSlots
<1> QED  BY <1>2, SlotBelowIsFree

(* create, setnok and the first part of kill.                              *)
LEMMA ProcIsQuiet ==
  ASSUME IInv,
         \/ \E priority \in Prios \cup {0} : Create(priority)
         \/ \E nok, pid \in UserPid : Setnok(nok, pid)
         \/ \E pid \in UserPid : Kill(pid)
  PROVE  Quiet
<1>1. cont[currpid].op \notin Emptying
  BY CallerEmptiesNone DEF Create, Setnok, Kill, MayCall
<1>2. User.op \notin Emptying /\ \A pid : Cont("kill", pid, 0).op \notin Emptying
  BY DEF Cont, User, Emptying
<1>3. CASE \E priority \in Prios \cup {0} : Create(priority)
  <2> DEFINE pid == SlotBelow(nextproc, NPROC, FreeSlots)
  <2>1. cont' = cont \/ cont' = [cont EXCEPT ![pid] = User]
    BY <1>3 DEF Create, schedVars
  <2>2. pid \in Pid
    <3>1. FreeSlots # {}
      BY <1>3 DEF Create
    <3>2. pid \in FreeSlots
      BY <3>1, NewSlot
    <3> QED  BY <3>2 DEF FreeSlots
  <2>3. UNCHANGED semTable
    BY <1>3 DEF Create
  <2> HIDE DEF pid
  <2> QED  BY <1>1, <1>2, <2>1, <2>2, <2>3, RestIsQuiet
<1>4. CASE \E nok, pid \in UserPid : Setnok(nok, pid)
  BY <1>1, <1>4, RestIsQuiet DEF Setnok, schedVars, semVars, semTable
<1>5. CASE \E pid \in UserPid : Kill(pid)
  BY <1>1, <1>2, <1>5, BasicTypes, RestIsQuiet DEF Kill, semVars, semTable
<1> QED  BY <1>3, <1>4, <1>5

-----------------------------------------------------------------------------
(* The semaphore calls.                                                    *)
(* screate's entry.                                                        *)
LEMMA NewSem ==
  ASSUME IInv, \E s \in Sem : ~Used(s)
  PROVE  LET s == SlotBelow(nextsem, NSEM, {u \in Sem : ~Used(u)})
         IN  s \in Sem /\ ~Used(s)
<1> DEFINE free == {u \in Sem : ~Used(u)}
<1>1. /\ NSEM \in Nat \ {0} /\ nextsem \in 0..(NSEM - 1) /\ Sem = 0..(NSEM - 1)
  BY SemAssumption DEF IInv, OthersOK, Sem
<1>2. free \subseteq 0..(NSEM - 1) /\ free # {}
  BY <1>1
<1>3. SlotBelow(nextsem, NSEM, free) \in free
  <2> HIDE DEF free
  <2> QED  BY <1>1, <1>2, SlotBelowIsFree
<1> QED  BY <1>3

LEMMA ScreateKeepsCounts ==
  ASSUME IInv, CountInv, IInv', NEW count \in Counts, Screate(count)
  PROVE  CountInv'
<1> DEFINE free == {u \in Sem : ~Used(u)}
           s    == SlotBelow(nextsem, NSEM, free)
<1>1. cont[currpid].op \notin Emptying /\ cont' = cont
  BY CallerEmptiesNone DEF Screate, MayCall
<1>2. s \in Sem /\ ~Used(s)
  BY NewSem DEF Screate
<1>3. /\ sstate' = [sstate EXCEPT ![s] = "SUSED"]
      /\ semcnt' = [semcnt EXCEPT ![s] = count] /\ semq' = semq
  BY DEF Screate
<1> HIDE DEF s
<1>4. semq[s] = <<>>
  BY <1>1, <1>2, SemTypes DEF CountInv, CountMatches, Used
<1>5. CountMatches(sstate'[s], semcnt'[s], semq'[s])
  <2>1. sstate'[s] = "SUSED" /\ semcnt'[s] = count /\ semq'[s] = <<>>
    BY <1>2, <1>3, <1>4, SemTypes
  <2>2. count \in Nat /\ Len(<<>>) = 0
    BY SemAssumption
  <2> QED  BY <2>1, <2>2 DEF CountMatches
<1>6. \A u \in Sem \ {s} : /\ sstate'[u] = sstate[u] /\ semcnt'[u] = semcnt[u]
                           /\ semq'[u] = semq[u]
  BY <1>3, SemTypes
<1> QED  BY <1>1, <1>2, <1>5, <1>6, CountSet

LEMMA WaitKeepsCounts ==
  ASSUME IInv, CountInv, IInv', NEW s \in Sem, Wait(s)
  PROVE  CountInv'
<1>1. cont[currpid].op \notin Emptying /\ cont' = cont
  BY CallerEmptiesNone DEF Wait, MayCall
<1>2. CountMatches(sstate[s], semcnt[s], semq[s])
  BY <1>1 DEF CountInv
<1> QED  BY <1>1, <1>2, WaitMatches, CountSet

LEMMA SignalKeepsCounts ==
  ASSUME IInv, CountInv, IInv', NEW s \in Sem, NEW b \in BOOLEAN, SignalOnce(s, b),
         cont[currpid].op \notin Emptying,
         \A p \in Pid : cont'[p] = cont[p] \/ cont'[p].op \notin Emptying
  PROVE  CountInv'
<1>1. CountMatches(sstate[s], semcnt[s], semq[s])
  BY DEF CountInv
<1> QED  BY <1>1, SignalMatches, CountSet

LEMMA SignalsKeepCounts ==
  ASSUME IInv, CountInv, IInv', NEW s \in Sem, Signal(s) \/ DeviceSignal(s)
  PROVE  CountInv'
<1>1. cont[currpid].op \notin Emptying /\ cont' = cont /\ SignalOnce(s, TRUE)
  BY CallerEmptiesNone DEF Signal, DeviceSignal, MayCall
<1> QED  BY <1>1, SignalKeepsCounts

LEMMA SignalnIsQuiet ==
  ASSUME IInv, NEW s \in Sem, NEW count \in 1..MaxCount, Signaln(s, count)
  PROVE  Quiet
<1>1. cont[currpid].op \notin Emptying
  BY CallerEmptiesNone DEF Signaln, MayCall
<1>2. cont' = [cont EXCEPT ![currpid] = Cont("signaln", s, count)]
      /\ Cont("signaln", s, count).op \notin Emptying
  BY DEF Signaln, Cont, Emptying
<1> QED  BY <1>1, <1>2, BasicTypes, RestIsQuiet DEF Signaln, semVars, semTable

LEMMA SignalnLoopTurns ==
  ASSUME IInv, SignalnLoop
  PROVE  /\ cont[currpid].op \notin Emptying /\ cont[currpid].x \in Sem
         /\ Quiet \/ /\ SignalOnce(cont[currpid].x, FALSE)
                     /\ \A p \in Pid : cont'[p] = cont[p] \/ cont'[p].op \notin Emptying
<1> DEFINE s == cont[currpid].x
           n == cont[currpid].n
<1>1. cont[currpid].op \notin Emptying /\ s \in Sem /\ currpid \in Pid
  BY SemTypes DEF SignalnLoop, Emptying, IInv, ContOK, SemLoops
<1>2. CASE SignalOnce(s, FALSE) /\ cont' = [cont EXCEPT ![currpid].n = n - 1]
  <2>1. \A p \in Pid : cont'[p].op = cont[p].op
    BY <1>1, <1>2, SemTypes DEF IInv, ContOK, ContType
  <2>2. \A p \in Pid : cont'[p] = cont[p] \/ cont'[p].op \notin Emptying
    BY <1>1, <1>2 DEF IInv, ContOK, ContType
  <2> HIDE DEF s, n
  <2> QED  BY <1>1, <1>2, <2>2 DEF s
<1>3. CASE cont' = [cont EXCEPT ![currpid] = User] /\ UNCHANGED semVars
  <2>1. User.op \notin Emptying
    BY ContOps DEF Emptying
  <2> QED  BY <1>1, <1>3, <2>1, RestIsQuiet DEF semVars, semTable
<1> QED  BY <1>1, <1>2, <1>3 DEF SignalnLoop

LEMMA SignalnLoopKeepsCounts ==
  ASSUME IInv, CountInv, IInv', SignalnLoop
  PROVE  CountInv'
BY SignalnLoopTurns, SignalKeepsCounts, QuietKeepsCounts

(* The calls that empty a queue, from the entry to the loop's end.         *)
LEMMA SdeleteKeepsCounts ==
  ASSUME IInv, CountInv, IInv', NEW s \in Sem, Sdelete(s)
  PROVE  CountInv'
<1>1. cont[currpid].op \notin Emptying /\ currpid' = currpid
  BY CallerEmptiesNone DEF Sdelete, MayCall, currpid
<1>2. /\ sstate' = [sstate EXCEPT ![s] = "SFREE"] /\ semcnt' = semcnt /\ semq' = semq
  BY DEF Sdelete
<1>3. sstate'[s] = "SFREE" /\ \A u \in Sem \ {s} : sstate'[u] = sstate[u]
  BY <1>2, SemTypes
<1>4. CASE semq[s] = <<>> /\ cont' = cont
  <2>1. CountMatches(sstate'[s], semcnt'[s], semq'[s])
    BY <1>2, <1>3, <1>4 DEF CountMatches
  <2> QED  BY <1>1, <1>2, <1>3, <1>4, <2>1, CountSet
<1>5. CASE cont' = [cont EXCEPT ![currpid] = Cont("sdelete", s, 0)]
  <2> DEFINE c == Cont("sdelete", s, 0)
  <2>1. c.op = "sdelete" /\ c.x = s /\ c.n = 0 /\ cont'[currpid'] = c
    <3>1. c.op = "sdelete" /\ c.x = s /\ c.n = 0
      BY DEF Cont
    <3> HIDE DEF c
    <3>2. cont'[currpid] = c
      BY <1>5, SemTypes DEF IInv, ContOK, c
    <3> QED  BY <1>1, <3>1, <3>2
  <2> HIDE DEF c
  <2>2. \A u \in Sem \ {s} : CountMatches(sstate[u], semcnt[u], semq[u])
    BY <1>1 DEF CountInv
  <2>3. ~Used(s)'
    BY <1>3 DEF Used
  <2>4. \A u \in Sem : CountMatches(sstate'[u], semcnt'[u], semq'[u]) \/ u = s
    BY <1>2, <1>3, <2>2
  <2> QED  BY <2>1, <2>3, <2>4 DEF CountInv, Emptying, Used
<1> QED  BY <1>4, <1>5 DEF Sdelete

LEMMA SresetKeepsCounts ==
  ASSUME IInv, CountInv, IInv', NEW s \in Sem, NEW count \in Counts, Sreset(s, count)
  PROVE  CountInv'
<1> DEFINE c == Cont("sreset", s, count)
<1>1. cont[currpid].op \notin Emptying /\ currpid' = currpid /\ Used(s)
  BY CallerEmptiesNone DEF Sreset, MayCall, currpid
<1>2. sstate' = sstate /\ semcnt' = semcnt /\ semq' = semq
      /\ cont' = [cont EXCEPT ![currpid] = c]
  BY DEF Sreset, semVars
<1>3. c.op = "sreset" /\ c.x = s /\ c.n = count
  BY DEF Cont
<1> HIDE DEF c
<1>4. cont'[currpid'] = c
  BY <1>1, <1>2, SemTypes DEF IInv, ContOK
<1>5. \A u \in Sem : CountMatches(sstate[u], semcnt[u], semq[u])
  BY <1>1 DEF CountInv
<1> QED  BY <1>1, <1>2, <1>3, <1>4, <1>5 DEF CountInv, Used

(* One turn of such a loop, which stays in it.                             *)
LEMMA TurnKeepsCounts ==
  ASSUME IInv, CountInv, IInv', cont[currpid].op \in Emptying,
         cont' = cont, currpid' = currpid, sstate' = sstate, semcnt' = semcnt,
         semq' = [semq EXCEPT ![cont[currpid].x] = Tail(@)]
  PROVE  CountInv'
<1> DEFINE s == cont[currpid].x
<1>1. \A u \in Sem \ {s} : semq'[u] = semq[u]
  BY SemTypes
<1>2. \A u \in Sem \ {s} : CountMatches(sstate[u], semcnt[u], semq[u])
  BY DEF CountInv
<1>3. \A u \in Sem : CountMatches(sstate'[u], semcnt'[u], semq'[u]) \/ u = s
  BY <1>1, <1>2
<1> QED  BY <1>3 DEF CountInv, Used

(* The end of such a loop: the queue is empty and the count right.         *)
LEMMA EndKeepsCounts ==
  ASSUME IInv, CountInv, IInv', cont[currpid].op \in Emptying,
         cont' = [cont EXCEPT ![currpid] = User],
         NEW s \in Sem, s = cont[currpid].x, sstate' = sstate, semq' = semq,
         \A u \in Sem \ {s} : semcnt'[u] = semcnt[u],
         CountMatches(sstate[s], semcnt'[s], semq[s])
  PROVE  CountInv'
<1>1. \A p \in Pid : cont'[p].op \notin Emptying
  <2>1. \A p \in Pid : p # currpid => cont[p].op \notin Emptying
    BY SemTypes DEF Emptying, LoopOps
  <2> QED  BY <2>1, SemTypes, ContOps DEF IInv, ContOK, Emptying
<1>2. cont'[currpid'].op \notin Emptying
  BY <1>1 DEF IInv, Consistent, SchedType, currpid
<1>3. \A u \in Sem \ {s} : CountMatches(sstate[u], semcnt[u], semq[u])
  BY DEF CountInv
<1>4. \A u \in Sem : CountMatches(sstate'[u], semcnt'[u], semq'[u])
  BY <1>3
<1> QED  BY <1>2, <1>4 DEF CountInv, Emptying

LEMMA SdeleteLoopKeepsCounts ==
  ASSUME IInv, CountInv, IInv', SdeleteLoop, UNCHANGED clockVars
  PROVE  CountInv'
<1> DEFINE s == cont[currpid].x
<1>1. cont[currpid].op \in Emptying /\ cont[currpid].op \in SemLoops
  BY DEF SdeleteLoop, Emptying, SemLoops
<1>2. s \in Sem /\ ~Used(s)
  BY DEF SdeleteLoop, CountInv
<1>3. CASE semq[s] # <<>> /\ sched' = Ready(sched, Head(semq[s]))
           /\ semq' = [semq EXCEPT ![s] = Tail(@)] /\ cont' = cont
  <2>1. currpid' = currpid
    BY <1>3, <1>1, <1>2, FirstReady DEF SdeleteLoop, clockVars
  <2> QED  BY <1>1, <1>3, <2>1, TurnKeepsCounts DEF SdeleteLoop
<1>4. CASE semq[s] = <<>> /\ cont' = [cont EXCEPT ![currpid] = User] /\ semq' = semq
  <2>1. CountMatches(sstate[s], semcnt'[s], semq[s])
    BY <1>2, <1>4 DEF CountMatches, Used
  <2>2. sstate' = sstate /\ semcnt' = semcnt
    BY DEF SdeleteLoop
  <2> QED  BY <1>1, <1>2, <1>4, <2>1, <2>2, EndKeepsCounts
<1> QED  BY <1>3, <1>4 DEF SdeleteLoop

LEMMA SresetLoopKeepsCounts ==
  ASSUME IInv, CountInv, IInv', SresetLoop, UNCHANGED clockVars
  PROVE  CountInv'
<1> DEFINE s == cont[currpid].x
<1>1. cont[currpid].op \in Emptying /\ cont[currpid].op \in SemLoops
  BY DEF SresetLoop, Emptying, SemLoops
<1>2. s \in Sem /\ Used(s) /\ cont[currpid].n \in Nat
  <2>1. s \in Sem /\ Used(s) /\ cont[currpid].n \in Counts
    BY DEF SresetLoop, CountInv
  <2>2. \A n \in Counts : n \in Nat
    BY SemAssumption
  <2> QED  BY <2>1, <2>2
<1>3. CASE semq[s] # <<>> /\ sched' = Ready(sched, Head(semq[s]))
           /\ semq' = [semq EXCEPT ![s] = Tail(@)] /\ UNCHANGED <<cont, semcnt>>
  <2>1. currpid' = currpid
    BY <1>3, <1>1, <1>2, FirstReady DEF SresetLoop, clockVars
  <2> QED  BY <1>1, <1>3, <2>1, TurnKeepsCounts DEF SresetLoop
<1>4. CASE /\ semq[s] = <<>> /\ semcnt' = [semcnt EXCEPT ![s] = cont[currpid].n]
           /\ cont' = [cont EXCEPT ![currpid] = User] /\ semq' = semq
  <2>1. semcnt'[s] \in Nat /\ \A u \in Sem \ {s} : semcnt'[u] = semcnt[u]
    BY <1>2, <1>4, SemTypes
  <2>2. Len(<<>>) = 0
    OBVIOUS
  <2>3. CountMatches(sstate[s], semcnt'[s], semq[s])
    BY <1>2, <1>4, <2>1, <2>2 DEF CountMatches, Used
  <2>4. sstate' = sstate
    BY DEF SresetLoop
  <2> HIDE DEF s
  <2> QED  BY <1>1, <1>2, <1>4, <2>1, <2>3, <2>4, EndKeepsCounts DEF s
<1> QED  BY <1>3, <1>4 DEF SresetLoop

(* kill of a process that waits gives its place in the count back.         *)
LEMMA KillRestKeepsCounts ==
  ASSUME IInv, CountInv, IInv', KillRest
  PROVE  CountInv'
<1> DEFINE pid == cont[currpid].x
           s   == psem[pid]
<1>1. /\ cont[currpid].op \notin Emptying /\ pid \in Pid /\ currpid \in Pid
      /\ s \in Sem
  BY SemTypes, NullprocIsPid DEF KillRest, Emptying, IInv, ContOK, QueuesOK
<1>2. \A p \in Pid : cont'[p] = cont[p] \/ cont'[p].op \notin Emptying
  <2>1. cont' = [cont EXCEPT ![currpid] = User, ![pid] = User]
    BY DEF KillRest
  <2> HIDE DEF pid
  <2>2. \A p \in Pid : cont'[p] = cont[p] \/ cont'[p] = User
    BY <1>1, <2>1 DEF IInv, ContOK
  <2> QED  BY <2>2, ContOps DEF Emptying
<1>3. sstate' = sstate
  BY DEF KillRest
<1>4. CASE UNCHANGED <<semcnt, semq>>
  BY <1>1, <1>2, <1>3, <1>4, CountsStay
<1>5. CASE /\ pstate[pid] = "PRWAIT" /\ semcnt' = [semcnt EXCEPT ![s] = @ + 1]
           /\ semq' = [semq EXCEPT ![s] = Dequeue(@, pid)]
  <2> HIDE DEF pid
  <2>1. View(sched)[pid] = "PRWAIT"
    BY <1>1, <1>5, BasicTypes DEF Runnable
  <2>2. pid \in Waiters(View(sched), psem, s)
        /\ semq[s] \in Seq(Pid) /\ Holds(semq[s], Waiters(View(sched), psem, s))
    BY <1>1, <2>1, SemTypes DEF IInv, QueuesOK, Waiters
  <2> HIDE DEF s
  <2>3. PosOf(semq[s], pid) \in 1..Len(semq[s])
    BY <2>2, HoldsDequeue
  <2>4. Len(Dequeue(semq[s], pid)) = Len(semq[s]) - 1 /\ Len(semq[s]) \in Nat \ {0}
        /\ Dequeue(semq[s], pid) \in Seq(Pid)
    BY <2>2, <2>3, RemoveAtProperties, LenProperties DEF Dequeue
  <2>5. /\ semq'[s] = Dequeue(semq[s], pid) /\ semcnt'[s] = semcnt[s] + 1
        /\ \A u \in Sem \ {s} : semq'[u] = semq[u] /\ semcnt'[u] = semcnt[u]
    BY <1>1, <1>5, SemTypes
  <2>6. CountMatches(sstate[s], semcnt[s], semq[s]) /\ semq[s] # <<>>
    <3>1. CountMatches(sstate[s], semcnt[s], semq[s])
      BY <1>1 DEF CountInv
    <3>2. semq[s] # <<>>
      BY <2>4
    <3> QED  BY <3>1, <3>2
  <2>7. /\ sstate[s] = "SUSED" /\ semcnt[s] \in Int /\ semcnt[s] < 0
        /\ Len(semq[s]) = -semcnt[s]
    BY <1>1, <2>4, <2>6, SemTypes DEF CountMatches
  <2>8. CountMatches(sstate'[s], semcnt'[s], semq'[s])
    <3>1. Len(semq'[s]) = -semcnt[s] - 1
      BY <2>4, <2>5, <2>7
    <3>2. Len(semq'[s]) = IF semcnt'[s] < 0 THEN -semcnt'[s] ELSE 0
      BY <2>5, <2>7, <3>1
    <3> QED  BY <1>3, <2>7, <3>2 DEF CountMatches
  <2> QED  BY <1>1, <1>2, <1>3, <2>5, <2>8, CountSet
<1> QED  BY <1>4, <1>5 DEF KillRest

-----------------------------------------------------------------------------
LEMMA CountInvInit == Init => CountInv
<1> SUFFICES ASSUME Init PROVE CountInv
  OBVIOUS
<1>1. cont[currpid].op \notin Emptying
  <2>1. IInv /\ cont = [p \in Pid |-> User]
    BY IInvInit DEF Init, SchedInit
  <2> QED  BY <2>1, BasicTypes, ContOps DEF Emptying
<1>2. \A s \in Sem : CountMatches(sstate[s], semcnt[s], semq[s])
  BY DEF Init, SemInit, CountMatches
<1> QED  BY <1>1, <1>2 DEF CountInv, Emptying

LEMMA CountInvStep ==
  ASSUME IInv, CountInv, [Next]_vars
  PROVE  CountInv'
<1>0. IInv'
  BY IInvStep
<1>1. CASE SchedNext /\ UNCHANGED <<semVars, clockVars, mbox, procVars>>
  BY <1>0, <1>1, SchedIsQuiet, QuietKeepsCounts DEF semVars, semTable
<1>2. CASE SemNext /\ UNCHANGED <<clockVars, mbox, procVars>>
  BY <1>0, <1>2, ScreateKeepsCounts, WaitKeepsCounts, SignalsKeepCounts,
     SignalnIsQuiet, QuietKeepsCounts, SignalnLoopKeepsCounts, SdeleteKeepsCounts,
     SdeleteLoopKeepsCounts, SresetKeepsCounts, SresetLoopKeepsCounts DEF SemNext
<1>3. CASE ClockNext /\ UNCHANGED <<semVars, mbox, procVars>>
  BY <1>0, <1>3, ClockIsQuiet, QuietKeepsCounts DEF semVars, semTable
<1>4. CASE MsgNext /\ UNCHANGED <<semVars, procVars>>
  BY <1>0, <1>4, MsgIsQuiet, QuietKeepsCounts DEF semVars, semTable
<1>5. CASE ProcNext
  BY <1>0, <1>5, ProcIsQuiet, QuietKeepsCounts, KillRestKeepsCounts DEF ProcNext
<1>6. CASE UNCHANGED vars
  <2>1. CountInv' <=> CountInv
    BY <1>6 DEF CountInv, vars, schedVars, semVars, currpid, Used
  <2> QED  BY <2>1
<1> QED  BY <1>1, <1>2, <1>3, <1>4, <1>5, <1>6 DEF Next

LEMMA CountInvMatches ==
  ASSUME IInv, CountInv
  PROVE  SemCountMatchesQueue
<1> SUFFICES ASSUME NEW s \in Sem
             PROVE  \/ cont[currpid] \in {Cont("sreset", s, n) : n \in Counts}
                    \/ cont[currpid] = Cont("sdelete", s, 0) /\ ~Used(s)
                    \/ Used(s) /\ Len(semq[s]) = IF semcnt[s] < 0 THEN -semcnt[s] ELSE 0
                    \/ ~Used(s) /\ semq[s] = <<>>
  BY DEF SemCountMatchesQueue
<1> DEFINE c == cont[currpid]
<1>1. CASE CountMatches(sstate[s], semcnt[s], semq[s])
  BY <1>1 DEF CountMatches, Used
<1>2. CASE c.op \in Emptying /\ c.x = s
  <2>1. c = [op |-> c.op, x |-> c.x, n |-> c.n]
    BY SemTypes DEF ContType
  <2>2. CASE c.op = "sreset"
    BY <1>2, <2>1, <2>2 DEF CountInv, Cont
  <2>3. CASE c.op = "sdelete"
    BY <1>2, <2>1, <2>3 DEF CountInv, Cont
  <2> QED  BY <1>2, <2>2, <2>3 DEF Emptying
<1> QED  BY <1>1, <1>2 DEF CountInv

(* A semaphore in use whose count is negative has that many processes      *)
(* waiting, otherwise none, and a free one keeps none waiting, whatever    *)
(* wait, signal, signaln, screate, sdelete, sreset, a device's signal and  *)
(* kill do in any order.                                                   *)
THEOREM CountsAlwaysMatch == Spec => []SemCountMatchesQueue
<1>1. Init => IInv /\ CountInv
  BY IInvInit, CountInvInit
<1>2. (IInv /\ CountInv) /\ [Next]_vars => (IInv /\ CountInv)'
  BY IInvStep, CountInvStep
<1>3. IInv /\ CountInv => SemCountMatchesQueue
  BY CountInvMatches
<1> QED
  BY <1>1, <1>2, <1>3, PTL DEF Spec

-----------------------------------------------------------------------------
(* Messages.  The condition is inductive together with IInv, over the view *)
(* of the states that takes ready and current processes for one.           *)
Receiving == {"PRRECV", "PRTRECV"}

MsgOK(v, mb, ct) ==
  \A p \in Pid : /\ ct[p].op = "receive" /\ v[p] # "PRRECV" => mb[p] # NoMsg
                 /\ v[p] \in Receiving => mb[p] = NoMsg

MsgInv == MsgOK(View(sched), mbox, cont)

(* Steps after which no process is in a call of receive that was not.      *)
EntersNone(ct1, ct2) == \A q \in Pid : ct2[q] = ct1[q] \/ ct2[q].op # "receive"

(* A process other than one that waits in receive changes state, and does  *)
(* not come to wait for a message.                                         *)
LEMMA MoveKeepsMessages ==
  ASSUME NEW v \in Views, NEW mb, NEW ct1, NEW ct2, MsgOK(v, mb, ct1),
         EntersNone(ct1, ct2), NEW p \in Pid, NEW st \in States \ Receiving,
         v[p] # "PRRECV" \/ ct2[p].op # "receive"
  PROVE  MsgOK([v EXCEPT ![p] = st], mb, ct2)
BY DEF MsgOK, EntersNone, Views, Receiving

LEMMA StayKeepsMessages ==
  ASSUME NEW v, NEW mb, NEW ct1, NEW ct2, MsgOK(v, mb, ct1), EntersNone(ct1, ct2)
  PROVE  MsgOK(v, mb, ct2)
BY DEF MsgOK, EntersNone

LEMMA StatesNamed ==
  /\ "PRREADY" \in States \ Receiving /\ "PRREADY" \in States \ Queued
  /\ {"PRSUSP", "PRWAIT", "PRSLEEP", "PRFREE"} \subseteq States \ (Receiving \cup Runnable)
  /\ {"PRRECV", "PRTRECV"} \subseteq States \ Runnable
  /\ "PRRECV" # "PRREADY" /\ "PRWAIT" # "PRRECV"
BY DEF States, Receiving, Queued, Runnable

(* The continuations the calls set.                                        *)
LEMMA ContEntersNone ==
  ASSUME IInv, NEW p \in Pid, NEW c, c.op # "receive" \/ c = cont[p],
         cont' = cont \/ cont' = [cont EXCEPT ![p] = c]
  PROVE  EntersNone(cont, cont')
BY DEF IInv, ContOK, EntersNone

LEMMA SchedKeepsMessages ==
  ASSUME IInv, MsgInv, SchedNext, mbox' = mbox
  PROVE  MsgInv'
<1>1. /\ Consistent(sched) /\ Running(sched) /\ Highest(sched) /\ View(sched) \in Views
      /\ EntersNone(cont, cont')
  <2>1. Interruptible /\ cont' = cont
    BY DEF SchedNext, Resume, Suspend, Chprio, Yield, MayCall
  <2> QED  BY <2>1, Caller, BasicTypes DEF IInv, EntersNone
<1>2. ASSUME NEW p \in UserPid, Resume(p) PROVE MsgInv'
  <2>1. p \in Pid /\ View(sched)[p] = "PRSUSP"
    BY <1>2, BasicTypes, NullprocIsPid DEF Resume, Runnable
  <2>2. View(sched') = [View(sched) EXCEPT ![p] = "PRREADY"]
    BY <1>1, <1>2, <2>1, ReadyNowStep DEF Resume
  <2>3. MsgOK([View(sched) EXCEPT ![p] = "PRREADY"], mbox, cont')
    BY <1>1, <2>1, StatesNamed, MoveKeepsMessages DEF MsgInv
  <2> QED  BY <2>2, <2>3 DEF MsgInv
<1>3. ASSUME NEW p \in UserPid, Suspend(p) PROVE MsgInv'
  <2>1. p \in Pid /\ View(sched)[p] = "PRREADY"
    BY <1>3, BasicTypes, NullprocIsPid DEF Suspend, Runnable
  <2>2. View(sched') = [View(sched) EXCEPT ![p] = "PRSUSP"]
    <3>1. CASE pstate[p] = "PRREADY" /\ sched' = Unready(sched, p, "PRSUSP")
      <4>1. sched.pstate[p] = "PRREADY"
        BY <3>1 DEF pstate
      <4> QED  BY <1>1, <3>1, <4>1, StatesNamed, UnreadyStep
    <3>2. CASE pstate[p] = "PRCURR" /\ sched' = Block(sched, "PRSUSP")
      <4>1. p = sched.currpid
        BY <1>1, <2>1, <3>2 DEF Consistent, pstate
      <4> QED  BY <1>1, <3>2, <4>1, StatesNamed, BlockStep
    <3> QED  BY <1>3, <3>1, <3>2 DEF Suspend
  <2>3. MsgOK([View(sched) EXCEPT ![p] = "PRSUSP"], mbox, cont')
    BY <1>1, <2>1, StatesNamed, MoveKeepsMessages DEF MsgInv
  <2> QED  BY <2>2, <2>3 DEF MsgInv
<1>4. ASSUME View(sched') = View(sched) PROVE MsgInv'
  BY <1>1, <1>4, StayKeepsMessages DEF MsgInv
<1>5. ASSUME NEW p \in UserPid, NEW newprio \in Prios, Chprio(p, newprio) PROVE MsgInv'
  <2>1. newprio \in Nat
    BY SchedAssumption
  <2>2. View(sched') = View(sched)
    BY <1>1, <1>5, <2>1, ChprioStep DEF Chprio, pstate
  <2> QED  BY <1>4, <2>2
<1>6. ASSUME Yield PROVE MsgInv'
  <2>1. View(sched') = View(sched)
    BY <1>1, <1>6, ReschedStep DEF Yield
  <2> QED  BY <1>4, <2>1
<1> QED  BY <1>2, <1>3, <1>5, <1>6 DEF SchedNext

-----------------------------------------------------------------------------
(* The first process waiting at a semaphore is readied, or nothing moves.  *)
LEMMA FirstKeepsMessages ==
  ASSUME IInv, MsgInv, mbox' = mbox, EntersNone(cont, cont'), NEW s \in Sem,
         \/ sched' = sched \/ sched' = Resched(sched)
         \/ semq[s] # <<>> /\ \/ sched' = Ready(sched, Head(semq[s]))
                              \/ sched' = ReadyNow(sched, Head(semq[s]))
  PROVE  MsgInv'
<1>1. Consistent(sched) /\ Running(sched) /\ View(sched) \in Views
  BY BasicTypes DEF IInv
<1>2. CASE sched' = sched \/ sched' = Resched(sched)
  <2>1. View(sched') = View(sched)
    BY <1>1, <1>2, ReschedStep
  <2> QED  BY <2>1, StayKeepsMessages DEF MsgInv
<1>3. CASE semq[s] # <<>> /\ \/ sched' = Ready(sched, Head(semq[s]))
                             \/ sched' = ReadyNow(sched, Head(semq[s]))
  <2> DEFINE p == Head(semq[s])
  <2>1. p \in Pid /\ View(sched)[p] = "PRWAIT"
    BY <1>3, BasicTypes, StatesNamed, QueuesFirst DEF IInv
  <2> HIDE DEF p
  <2>2. View(sched') = [View(sched) EXCEPT ![p] = "PRREADY"]
    BY <1>1, <1>3, <2>1, ReadyStep, ReadyNowStep DEF p
  <2>3. MsgOK([View(sched) EXCEPT ![p] = "PRREADY"], mbox, cont')
    BY <1>1, <2>1, StatesNamed, MoveKeepsMessages DEF MsgInv
  <2> QED  BY <2>2, <2>3 DEF MsgInv
<1> QED  BY <1>2, <1>3

LEMMA SemKeepsMessages ==
  ASSUME IInv, MsgInv, SemNext, mbox' = mbox
  PROVE  MsgInv'
<1>1. EntersNone(cont, cont')
  <2>1. /\ \A s, n : /\ Cont("signaln", s, n).op # "receive"
                     /\ Cont("sdelete", s, n).op # "receive"
                     /\ Cont("sreset", s, n).op # "receive"
        /\ User.op # "receive"
    BY DEF Cont, User
  <2>2. CASE SignalnLoop
    <3>1. cont[currpid].op = "signaln" /\ currpid \in Pid
      BY <2>2, BasicTypes DEF SignalnLoop
    <3>2. \/ cont' = [cont EXCEPT ![currpid] = User]
          \/ \E n : cont' = [cont EXCEPT ![currpid].n = n]
      BY <2>2 DEF SignalnLoop
    <3>3. \A p \in Pid : cont'[p] = cont[p] \/ cont'[p].op # "receive"
      BY <2>1, <3>1, <3>2, SemTypes DEF IInv, ContOK, ContType
    <3> QED  BY <3>3 DEF EntersNone
  <2>3. CASE ~SignalnLoop
    <3>1. \/ cont' = cont
          \/ \E c : c.op # "receive" /\ cont' = [cont EXCEPT ![currpid] = c]
      BY <2>1, <2>3 DEF SemNext, Screate, Wait, Signal, DeviceSignal, Signaln, Sdelete,
                        SdeleteLoop, Sreset, SresetLoop
    <3> QED  BY <3>1, BasicTypes, ContEntersNone
  <2> QED  BY <2>2, <2>3
<1>2. ASSUME NEW s \in Sem, Wait(s) PROVE MsgInv'
  <2>1. /\ Consistent(sched) /\ Running(sched) /\ View(sched) \in Views
        /\ sched.currpid \in UserPid /\ sched.currpid \in Pid
        /\ View(sched)[sched.currpid] = "PRREADY"
    BY <1>2, BasicTypes, NullprocIsPid DEF IInv, Wait, MayCall, UserPid, currpid
  <2>2. CASE sched' = sched
    BY <1>1, <2>2, StayKeepsMessages DEF MsgInv
  <2>3. CASE sched' = Block(sched, "PRWAIT")
    <3>1. View(sched') = [View(sched) EXCEPT ![sched.currpid] = "PRWAIT"]
      BY <2>1, <2>3, StatesNamed, BlockStep
    <3>2. MsgOK([View(sched) EXCEPT ![sched.currpid] = "PRWAIT"], mbox, cont')
      BY <1>1, <2>1, StatesNamed, MoveKeepsMessages DEF MsgInv
    <3> QED  BY <3>1, <3>2 DEF MsgInv
  <2> QED  BY <1>2, <2>2, <2>3 DEF Wait
<1>3. ASSUME NEW s \in Sem, NEW b \in BOOLEAN, SignalOnce(s, b) PROVE MsgInv'
  BY <1>1, <1>3, FirstKeepsMessages DEF SignalOnce, Wake
<1>4. ASSUME cont[currpid].op \in SemLoops, SignalnLoop \/ SdeleteLoop \/ SresetLoop
      PROVE  MsgInv'
  <2>1. cont[currpid].x \in Sem
    BY <1>4, InSemLoop
  <2> QED  BY <1>1, <1>3, <1>4, <2>1, FirstKeepsMessages
              DEF SignalnLoop, SdeleteLoop, SresetLoop
<1>5. SignalnLoop \/ SdeleteLoop \/ SresetLoop => cont[currpid].op \in SemLoops
  BY DEF SignalnLoop, SdeleteLoop, SresetLoop, SemLoops
<1>6. ASSUME sched' = sched PROVE MsgInv'
  BY <1>1, <1>6, StayKeepsMessages DEF MsgInv
<1> QED
  BY <1>2, <1>3, <1>4, <1>5, <1>6
     DEF SemNext, Screate, Signal, DeviceSignal, Signaln, Sdelete, Sreset

-----------------------------------------------------------------------------
(* sleep and recvtim, from the insertion on: what View becomes.            *)
LEMMA SleepInView ==
  ASSUME IInv, currpid \in UserPid, NEW n \in Nat,
         NEW st \in {"PRSLEEP", "PRTRECV"}, SleepIn(st, n)
  PROVE  View(sched') = [View(sched) EXCEPT ![currpid] = st]
<1> DEFINE key == InsertdKeys(clockq, currpid, sched.qkey, n)
           U   == [sched EXCEPT !.qkey = key]
           V   == View(sched)
           k   == sched.qkey
<1>1. st \in States \ Runnable /\ "PRREADY" \notin Queued
  BY DEF States, Runnable, Queued
<1>2. /\ sched \in SchedType /\ currpid \in Pid /\ V \in Views
      /\ V[currpid] = "PRREADY" /\ k \in [Pid -> Int] /\ n \in Int
      /\ QueuesOK(V, psem, semq, clockq) /\ Consistent(sched) /\ Running(sched)
  BY BasicTypes DEF SchedType, IInv
<1>3. sched' = Block(U, st)
  BY DEF SleepIn
<1>4. ASSUME NEW r \in ReadySet(sched) PROVE key[r] = sched.qkey[r]
  <2>1. r \in Pid /\ r # currpid /\ V[r] = "PRREADY"
    BY <1>2 DEF ReadySet, View, Runnable, Running, currpid
  <2> QED
    BY <2>1, <1>1, <1>2, QueuesSleepKeys
<1>5. key \in [Pid -> Int]
  <2>1. V[currpid] \notin Queued
    BY <1>1, <1>2
  <2> HIDE DEF V, k
  <2>2. InsertdKeys(clockq, currpid, k, n) \in [Pid -> Int]
    BY <1>2, <2>1, QueuesSleep
  <2> QED  BY <2>2 DEF k
<1> HIDE DEF key
<1>6. /\ Consistent(U) /\ Running(U) /\ View(U) = View(sched)
      /\ U.currpid = sched.currpid
  BY <1>2, <1>4, <1>5, SetKeysStep
<1> HIDE DEF U
<1> QED  BY <1>1, <1>3, <1>6, BlockStep DEF currpid

LEMMA ClockKeepsMessages ==
  ASSUME IInv, MsgInv, ClockNext, mbox' = mbox
  PROVE  MsgInv'
<1>1. EntersNone(cont, cont')
  <2>1. /\ Cont("wakeup", 0, 0).op # "receive" /\ Cont("clkint", 0, 0).op # "receive"
        /\ User.op # "receive"
    BY DEF Cont, User
  <2>2. \/ cont' = cont
        \/ \E c : c.op # "receive" /\ cont' = [cont EXCEPT ![currpid] = c]
    BY <2>1 DEF ClockNext, Sleep, ClockTick, WakeupLoop, ClkintRest
  <2> QED  BY <2>2, BasicTypes, ContEntersNone
<1>2. /\ Consistent(sched) /\ Running(sched) /\ View(sched) \in Views /\ currpid \in Pid
      /\ View(sched)[currpid] = "PRREADY"
  BY BasicTypes DEF IInv
<1>3. ASSUME View(sched') = View(sched) PROVE MsgInv'
  BY <1>1, <1>3, StayKeepsMessages DEF MsgInv
<1>4. ASSUME NEW n \in Delays, Sleep(n) PROVE MsgInv'
  <2>1. n \in Nat /\ currpid \in UserPid /\ SleepIn("PRSLEEP", n)
    BY <1>2, <1>4, ClockAssumption DEF Sleep, MayCall, UserPid
  <2>2. View(sched') = [View(sched) EXCEPT ![currpid] = "PRSLEEP"]
    BY <2>1, SleepInView
  <2>3. MsgOK([View(sched) EXCEPT ![currpid] = "PRSLEEP"], mbox, cont')
    BY <1>1, <1>2, StatesNamed, MoveKeepsMessages DEF MsgInv
  <2> QED  BY <2>2, <2>3 DEF MsgInv
<1>5. ASSUME ClockTick PROVE MsgInv'
  <2> DEFINE S == IF slnempty THEN [sched EXCEPT !.qkey[sltop] = @ - 1] ELSE sched
  <2>1. cont[currpid].op # "wakeup" /\ Highest(sched)
    BY <1>5, Caller DEF ClockTick
  <2>2. Consistent(S) /\ Running(S) /\ Highest(S) /\ View(S) = View(sched)
    <3>1. CASE slnempty
      <4> DEFINE key == [sched.qkey EXCEPT ![sltop] = @ - 1]
      <4>1. S = [sched EXCEPT !.qkey = key]
        BY <3>1
      <4>2. sched.qkey \in [Pid -> Int] /\ sltop \in Pid
        BY BasicTypes DEF SchedType, IInv, OthersOK
      <4>3. sltop \in Sleepers(View(sched))
        <5>1. clockq # <<>> /\ sltop = Head(clockq)
          BY <2>1, <3>1 DEF IInv, SltopOK
        <5>2. "PRSUSP" \in States \ Queued
          BY DEF States, Queued
        <5> QED  BY <5>1, <5>2, BasicTypes, QueuesDue DEF IInv
      <4>4. \A r \in ReadySet(sched) : key[r] = sched.qkey[r]
        BY <4>2, <4>3 DEF ReadySet, Sleepers, View, Runnable
      <4>5. key \in [Pid -> Int]
        BY <4>2
      <4> HIDE DEF key, S
      <4> QED  BY <1>2, <2>1, <4>1, <4>4, <4>5, SetKeysStep
    <3>2. CASE ~ slnempty
      BY <1>2, <2>1, <3>2
    <3> QED  BY <3>1, <3>2
  <2>3. sched' = S \/ sched' = CountQuantum(S)
    BY <1>5 DEF ClockTick
  <2> HIDE DEF S
  <2>4. View(sched') = View(sched)
    BY <2>2, <2>3, CountQuantumStep
  <2> QED  BY <1>3, <2>4
<1>6. ASSUME WakeupLoop PROVE MsgInv'
  <2>1. CASE clockq # <<>> /\ sched' = Ready(sched, Head(clockq))
    <3> DEFINE p == Head(clockq)
    <3>1. p \in Sleepers(View(sched))
      BY <2>1, BasicTypes, StatesNamed, QueuesDue DEF IInv
    <3> HIDE DEF p
    <3>2. p \in Pid /\ View(sched)[p] # "PRREADY" /\ View(sched)[p] # "PRRECV"
      BY <3>1 DEF Sleepers
    <3>3. View(sched') = [View(sched) EXCEPT ![p] = "PRREADY"]
      BY <1>2, <2>1, <3>2, ReadyStep DEF p
    <3>4. MsgOK([View(sched) EXCEPT ![p] = "PRREADY"], mbox, cont')
      BY <1>1, <1>2, <3>2, StatesNamed, MoveKeepsMessages DEF MsgInv
    <3> QED  BY <3>3, <3>4 DEF MsgInv
  <2>2. CASE sched' = Resched(sched)
    BY <1>2, <1>3, <2>2, ReschedStep
  <2> QED  BY <1>6, <2>1, <2>2 DEF WakeupLoop
<1>7. ASSUME ClkintRest PROVE MsgInv'
  <2>1. sched' = CountQuantum(sched) /\ Highest(sched)
    BY <1>7 DEF ClkintRest, IInv, LoopOps
  <2> QED  BY <1>2, <1>3, <2>1, CountQuantumStep
<1> QED  BY <1>4, <1>5, <1>6, <1>7 DEF ClockNext

-----------------------------------------------------------------------------
(* send: the receiver gets a message as it stops waiting for one.          *)
LEMMA SendKeepsMessages ==
  ASSUME IInv, MsgInv, cont[currpid].op \notin LoopOps, NEW p, NEW msg, msg # NoMsg,
         Send(p, msg), EntersNone(cont, cont')
  PROVE  MsgInv'
<1>1. /\ Consistent(sched) /\ Running(sched) /\ View(sched) \in Views
      /\ mbox \in [Pid -> Int]
  BY BasicTypes DEF IInv, OthersOK
<1>2. CASE p \notin UserPid \/ pstate[p] = "PRFREE" \/ phasmsg(p)
  <2>1. sched' = sched /\ mbox' = mbox
    BY <1>2 DEF Send
  <2> QED  BY <2>1, StayKeepsMessages DEF MsgInv
<1>3. CASE ~(p \notin UserPid \/ pstate[p] = "PRFREE" \/ phasmsg(p))
  <2>1. p \in UserPid /\ p \in Pid /\ mbox' = [mbox EXCEPT ![p] = msg]
    BY <1>3, NullprocIsPid DEF Send
  <2>2. \A q \in Pid : IF q = p THEN mbox'[q] # NoMsg ELSE mbox'[q] = mbox[q]
    BY <1>1, <2>1
  <2>3. CASE pstate[p] \in Receiving
    <3>1. View(sched') = [View(sched) EXCEPT ![p] = "PRREADY"]
      <4>1. CASE pstate[p] = "PRRECV" /\ sched' = ReadyNow(sched, p)
        <5>1. View(sched)[p] = "PRRECV"
          BY <2>1, <4>1, BasicTypes DEF Runnable
        <5> QED  BY <1>1, <2>1, <4>1, <5>1, ReadyNowStep
      <4>2. CASE /\ pstate[p] = "PRTRECV"
                 /\ sched' = ReadyNow([sched EXCEPT !.qkey = UnsleepKeys(p)], p)
        <5> DEFINE T == [sched EXCEPT !.qkey = UnsleepKeys(p)]
        <5>1. View(sched)[p] = "PRTRECV" /\ p \in Sleepers(View(sched))
          BY <2>1, <4>2, BasicTypes DEF Runnable, Sleepers
        <5>2. Consistent(T) /\ Running(T) /\ View(T) = View(sched)
          BY <5>1, UnsleepKeysStep
        <5>3. sched' = ReadyNow(T, p)
          BY <4>2
        <5> HIDE DEF T
        <5> QED  BY <2>1, <5>1, <5>2, <5>3, ReadyNowStep
      <4>3. pstate[p] = "PRRECV" \/ pstate[p] = "PRTRECV"
        BY <2>3 DEF Receiving
      <4> QED  BY <1>3, <2>1, <4>1, <4>2, <4>3 DEF Send
    <3>2. View(sched')[p] = "PRREADY"
          /\ \A q \in Pid \ {p} : View(sched')[q] = View(sched)[q]
      BY <1>1, <2>1, <3>1 DEF Views
    <3> QED  BY <2>2, <3>2, StatesNamed DEF MsgInv, MsgOK, EntersNone
  <2>4. CASE pstate[p] \notin Receiving
    <3>1. sched' = sched
      BY <1>3, <2>4 DEF Send, Receiving
    <3>2. View(sched)[p] \notin Receiving
      BY <2>1, <2>4, BasicTypes, StatesNamed DEF Receiving
    <3> QED  BY <2>2, <3>1, <3>2 DEF MsgInv, MsgOK, EntersNone
  <2> QED  BY <2>3, <2>4
<1> QED  BY <1>2, <1>3

(* A current process takes its message and is in no call of receive then.  *)
LEMMA TakeKeepsMessages ==
  ASSUME IInv, MsgInv, TakeMessage, sched' = sched, EntersNone(cont, cont'),
         cont'[currpid].op # "receive"
  PROVE  MsgInv'
<1>1. currpid \in Pid /\ View(sched)[currpid] = "PRREADY" /\ mbox \in [Pid -> Int]
  BY BasicTypes DEF IInv, OthersOK
<1>2. mbox' = [mbox EXCEPT ![currpid] = NoMsg]
  BY DEF TakeMessage
<1>3. mbox'[currpid] = NoMsg /\ \A q \in Pid \ {currpid} : mbox'[q] = mbox[q]
  BY <1>1, <1>2
<1> QED  BY <1>1, <1>3 DEF MsgInv, MsgOK, EntersNone

LEMMA MsgKeepsMessages ==
  ASSUME IInv, MsgInv, MsgNext
  PROVE  MsgInv'
<1>1. /\ Consistent(sched) /\ Running(sched) /\ View(sched) \in Views
      /\ currpid \in Pid /\ View(sched)[currpid] = "PRREADY" /\ cont \in [Pid -> ContType]
  BY BasicTypes DEF IInv, ContOK
<1>2. ASSUME NEW p \in UserPid, NEW msg \in Msgs, SendCall(p, msg) PROVE MsgInv'
  <2>1. /\ cont[currpid].op \notin LoopOps /\ cont' = cont /\ Send(p, msg)
        /\ EntersNone(cont, cont')
    BY <1>2, Caller DEF SendCall, MayCall, EntersNone
  <2>2. msg # NoMsg
    BY MsgAssumption DEF NoMsg
  <2> QED  BY <2>1, <2>2, SendKeepsMessages
<1>3. ASSUME TakeMessage, sched' = sched,
             \/ cont' = cont /\ cont[currpid] = User
             \/ cont' = [cont EXCEPT ![currpid] = User]
      PROVE  MsgInv'
  <2>1. User.op # "receive"
    BY DEF User, Cont
  <2>2. cont'[currpid] = User /\ EntersNone(cont, cont')
    BY <1>1, <1>3, <2>1, ContEntersNone
  <2> QED  BY <1>3, <2>1, <2>2, TakeKeepsMessages
<1>4. Interruptible => cont[currpid] = User
  BY Caller
<1>5. ASSUME Receive PROVE MsgInv'
  <2>1. CASE TakeMessage /\ UNCHANGED <<sched, cont>>
    BY <1>3, <1>4, <1>5, <2>1 DEF Receive, MayCall
  <2>2. CASE /\ ~phasmsg(currpid) /\ sched' = Block(sched, "PRRECV")
             /\ cont' = [cont EXCEPT ![currpid] = Cont("receive", 0, 0)] /\ mbox' = mbox
    <3>1. currpid = sched.currpid /\ currpid \in UserPid
      BY <1>1, <1>5 DEF Receive, MayCall, UserPid, currpid
    <3>2. View(sched') = [View(sched) EXCEPT ![currpid] = "PRRECV"]
      BY <1>1, <2>2, <3>1, StatesNamed, BlockStep
    <3>3. /\ View(sched')[currpid] = "PRRECV"
          /\ \A q \in Pid \ {currpid} : /\ View(sched')[q] = View(sched)[q]
                                        /\ cont'[q] = cont[q]
      BY <1>1, <2>2, <3>2 DEF Views
    <3>4. mbox[currpid] = NoMsg
      BY <2>2 DEF phasmsg
    <3> QED  BY <1>1, <2>2, <3>3, <3>4 DEF MsgInv, MsgOK
  <2> QED  BY <1>5, <2>1, <2>2 DEF Receive
<1>6. ASSUME NEW n \in Delays, Recvtim(n) PROVE MsgInv'
  <2>1. CASE TakeMessage /\ UNCHANGED <<sched, cont>>
    BY <1>3, <1>4, <1>6, <2>1 DEF Recvtim, MayCall
  <2>2. CASE /\ ~phasmsg(currpid) /\ SleepIn("PRTRECV", n) /\ mbox' = mbox
             /\ cont' = [cont EXCEPT ![currpid] = Cont("recvtim", 0, 0)]
    <3>1. n \in Nat /\ currpid \in UserPid
      BY <1>1, <1>6, ClockAssumption DEF Recvtim, MayCall, UserPid
    <3>2. View(sched') = [View(sched) EXCEPT ![currpid] = "PRTRECV"]
      BY <2>2, <3>1, SleepInView
    <3>3. /\ View(sched')[currpid] = "PRTRECV" /\ cont'[currpid] = Cont("recvtim", 0, 0)
          /\ \A q \in Pid \ {currpid} : /\ View(sched')[q] = View(sched)[q]
                                        /\ cont'[q] = cont[q]
      BY <1>1, <2>2, <3>2 DEF Views
    <3>4. mbox[currpid] = NoMsg /\ Cont("recvtim", 0, 0).op # "receive"
      BY <2>2 DEF phasmsg, Cont
    <3> QED  BY <1>1, <2>2, <3>3, <3>4 DEF MsgInv, MsgOK
  <2> QED  BY <1>6, <2>1, <2>2 DEF Recvtim
<1>7. ASSUME ReceiveRest \/ Recvclr \/ RecvtimRest PROVE MsgInv'
  BY <1>3, <1>4, <1>7 DEF ReceiveRest, Recvclr, RecvtimRest, MayCall
<1> QED  BY <1>2, <1>5, <1>6, <1>7 DEF MsgNext

-----------------------------------------------------------------------------
(* create and kill.                                                        *)
LEMMA CreateKeepsMessages ==
  ASSUME IInv, MsgInv, NEW priority \in Prios \cup {0}, Create(priority)
  PROVE  MsgInv'
<1> DEFINE pid == SlotBelow(nextproc, NPROC, FreeSlots)
<1>1. pid \in Pid /\ pstate[pid] = "PRFREE"
  <2>1. FreeSlots # {}
    BY DEF Create
  <2>2. pid \in FreeSlots
    BY <2>1, NewSlot
  <2> QED  BY <2>2 DEF FreeSlots
<1>2. /\ Consistent(sched) /\ Running(sched) /\ Highest(sched) /\ View(sched) \in Views
      /\ cont \in [Pid -> ContType] /\ mbox \in [Pid -> Int]
  BY Caller, BasicTypes DEF Create, MayCall, IInv, ContOK, OthersOK
<1>3. CASE UNCHANGED <<schedVars, mbox>>
  <2>1. EntersNone(cont, cont') /\ sched' = sched /\ mbox' = mbox
    BY <1>3 DEF schedVars, EntersNone
  <2> QED  BY <2>1, StayKeepsMessages DEF MsgInv
<1>4. CASE /\ priority >= 1
           /\ sched' = [sched EXCEPT !.pstate[pid] = "PRSUSP", !.pprio[pid] = priority]
           /\ mbox' = [mbox EXCEPT ![pid] = NoMsg]
           /\ cont' = [cont EXCEPT ![pid] = User]
  <2> HIDE DEF pid
  <2>1. pid \in UserPid /\ priority \in Nat /\ sched.pstate[pid] = "PRFREE"
    BY <1>1, <1>2, SchedAssumption DEF Consistent, UserPid, Runnable, pstate
  <2>2. View(sched') = [View(sched) EXCEPT ![pid] = "PRSUSP"]
    BY <1>2, <1>4, <2>1, CreateStep
  <2>3. /\ View(sched')[pid] = "PRSUSP" /\ cont'[pid] = User
        /\ \A q \in Pid \ {pid} : /\ View(sched')[q] = View(sched)[q]
                                  /\ cont'[q] = cont[q] /\ mbox'[q] = mbox[q]
    BY <1>1, <1>2, <1>4, <2>2 DEF Views
  <2>4. User.op # "receive" /\ "PRSUSP" \notin Receiving
    BY DEF User, Cont, Receiving
  <2> QED  BY <2>3, <2>4 DEF MsgInv, MsgOK
<1> QED  BY <1>3, <1>4 DEF Create, schedVars

LEMMA KillKeepsMessages ==
  ASSUME IInv, MsgInv, NEW pid \in UserPid, Kill(pid)
  PROVE  MsgInv'
<1>1. /\ cont[currpid].op \notin LoopOps /\ Send(pnxtkin[pid], pid) /\ pid \in Nat
      /\ cont' = [cont EXCEPT ![currpid] = Cont("kill", pid, 0)]
  BY Caller, SchedAssumption DEF Kill, MayCall, UserPid, Pid
<1>2. pid # NoMsg /\ Cont("kill", pid, 0).op # "receive"
  BY <1>1 DEF NoMsg, Cont
<1>3. EntersNone(cont, cont')
  BY <1>1, <1>2, BasicTypes, ContEntersNone
<1> QED  BY <1>1, <1>2, <1>3, SendKeepsMessages

LEMMA KillRestView ==
  ASSUME IInv, KillRest
  PROVE  View(sched') = [View(sched) EXCEPT ![cont[currpid].x] = "PRFREE"]
<1> DEFINE pid == cont[currpid].x
<1>1. /\ Consistent(sched) /\ Running(sched) /\ pid \in UserPid /\ pid \in Pid
      /\ "PRFREE" \in States \ Runnable
  BY BasicTypes, NullprocIsPid, StatesNamed DEF KillRest, IInv, ContOK
<1> HIDE DEF pid
<1>2. CASE pstate[pid] = "PRCURR" /\ sched' = Block(sched, "PRFREE")
  <2>1. pid = sched.currpid
    BY <1>1, <1>2 DEF Consistent, pstate
  <2> QED  BY <1>1, <1>2, <2>1, BlockStep DEF pid
<1>3. CASE pstate[pid] = "PRREADY" /\ sched' = Unready(sched, pid, "PRFREE")
  <2>1. sched.pstate[pid] = "PRREADY"
    BY <1>3 DEF pstate
  <2> QED  BY <1>1, <1>3, <2>1, UnreadyStep DEF pid
<1>4. CASE /\ pstate[pid] \in {"PRSLEEP", "PRTRECV"}
           /\ sched' = [sched EXCEPT !.qkey = UnsleepKeys(pid), !.pstate[pid] = "PRFREE"]
  <2> DEFINE T == [sched EXCEPT !.qkey = UnsleepKeys(pid)]
  <2>1. View(sched)[pid] # "PRREADY" /\ pid \in Sleepers(View(sched))
    BY <1>1, <1>4, BasicTypes DEF Runnable, Sleepers
  <2>2. Consistent(T) /\ Running(T) /\ View(T) = View(sched)
    BY <2>1, UnsleepKeysStep
  <2>3. sched' = [T EXCEPT !.pstate[pid] = "PRFREE"]
    BY <1>1, <1>4 DEF Consistent, SchedType
  <2> HIDE DEF T
  <2> QED  BY <1>1, <2>1, <2>2, <2>3, SetStateStep DEF pid
<1>5. CASE /\ pstate[pid] \in {"PRWAIT", "PRSUSP", "PRRECV", "PRFREE"}
           /\ sched' = [sched EXCEPT !.pstate[pid] = "PRFREE"]
  <2>1. View(sched)[pid] # "PRREADY"
    BY <1>1, <1>5, BasicTypes DEF Runnable
  <2> QED  BY <1>1, <1>5, <2>1, SetStateStep DEF pid
<1> QED  BY <1>2, <1>3, <1>4, <1>5 DEF KillRest, pid

LEMMA KillRestKeepsMessages ==
  ASSUME IInv, MsgInv, KillRest
  PROVE  MsgInv'
<1> DEFINE pid == cont[currpid].x
<1>1. pid \in Pid /\ currpid \in Pid /\ cont \in [Pid -> ContType] /\ View(sched) \in Views
  BY BasicTypes, NullprocIsPid DEF KillRest, IInv, ContOK
<1>2. mbox' = mbox /\ cont' = [cont EXCEPT ![currpid] = User, ![pid] = User]
  BY DEF KillRest
<1> HIDE DEF pid
<1>3. cont'[pid] = User /\ \A q \in Pid : cont'[q] = cont[q] \/ cont'[q] = User
  BY <1>1, <1>2
<1>4. User.op # "receive" /\ "PRFREE" \in States \ Receiving
  BY StatesNamed DEF User, Cont
<1>5. EntersNone(cont, cont') /\ cont'[pid].op # "receive"
  BY <1>3, <1>4 DEF EntersNone
<1>6. MsgOK([View(sched) EXCEPT ![pid] = "PRFREE"], mbox, cont')
  BY <1>1, <1>4, <1>5, MoveKeepsMessages DEF MsgInv
<1> QED  BY <1>2, <1>6, KillRestView DEF MsgInv, pid

-----------------------------------------------------------------------------
LEMMA MsgInvInit == Init => MsgInv
<1> SUFFICES ASSUME Init PROVE MsgInv
  OBVIOUS
<1>1. /\ mbox = [p \in Pid |-> NoMsg] /\ cont = [p \in Pid |-> User]
      /\ sched.pstate = [p \in Pid |-> IF p = NULLPROC THEN "PRREADY"
                                       ELSE IF p = MainPid THEN "PRCURR"
                                       ELSE "PRFREE"]
  BY DEF Init, MsgInit, SchedInit
<1>2. User.op # "receive"
  BY DEF User, Cont
<1> QED  BY <1>1, <1>2 DEF MsgInv, MsgOK

LEMMA MsgInvStep ==
  ASSUME IInv, MsgInv, [Next]_vars
  PROVE  MsgInv'
<1>1. CASE SchedNext /\ UNCHANGED <<semVars, clockVars, mbox, procVars>>
  BY <1>1, SchedKeepsMessages
<1>2. CASE SemNext /\ UNCHANGED <<clockVars, mbox, procVars>>
  BY <1>2, SemKeepsMessages
<1>3. CASE ClockNext /\ UNCHANGED <<semVars, mbox, procVars>>
  BY <1>3, ClockKeepsMessages
<1>4. CASE MsgNext /\ UNCHANGED <<semVars, procVars>>
  BY <1>4, MsgKeepsMessages
<1>5. CASE ProcNext
  <2>1. ASSUME UNCHANGED <<schedVars, mbox>> PROVE MsgInv'
    BY <2>1 DEF MsgInv, schedVars
  <2> QED  BY <1>5, <2>1, CreateKeepsMessages, KillKeepsMessages, KillRestKeepsMessages
              DEF ProcNext, Setnok
<1>6. CASE UNCHANGED vars
  BY <1>6 DEF MsgInv, vars, schedVars
<1> QED  BY <1>1, <1>2, <1>3, <1>4, <1>5, <1>6 DEF Next

(* A process that comes back from the wait in receive has a message, and   *)
(* one that waits for a message, with a timeout or without, has none,      *)
(* however send, kill's message to the next of kin, the clock and other    *)
(* processes' kills come between.                                          *)
THEOREM ReceiversAlwaysFind == Spec => []ReceiveFindsMessage
<1>1. Init => IInv /\ MsgInv
  BY IInvInit, MsgInvInit
<1>2. (IInv /\ MsgInv) /\ [Next]_vars => (IInv /\ MsgInv)'
  BY IInvStep, MsgInvStep
<1>3. IInv /\ MsgInv => ReceiveFindsMessage
  <2> SUFFICES ASSUME IInv, MsgInv PROVE ReceiveFindsMessage
    OBVIOUS
  <2>1. \A p \in Pid : /\ pstate[p] # "PRRECV" => View(sched)[p] # "PRRECV"
                       /\ pstate[p] \in Receiving => View(sched)[p] \in Receiving
    BY BasicTypes DEF Receiving, Runnable
  <2> QED  BY <2>1 DEF MsgInv, MsgOK, ReceiveFindsMessage, phasmsg, Receiving
<1> QED
  BY <1>1, <1>2, <1>3, PTL DEF Spec

-----------------------------------------------------------------------------
(* send does not touch a full mailbox.                                     *)
LEMMA SendKeepsFull ==
  ASSUME IInv, NEW p, NEW msg, Send(p, msg), NEW q \in Pid, phasmsg(q)
  PROVE  mbox'[q] = mbox[q]
<1>1. mbox \in [Pid -> Int]
  BY DEF IInv, OthersOK
<1>2. mbox' = mbox \/ (p \in UserPid /\ ~phasmsg(p) /\ mbox' = [mbox EXCEPT ![p] = msg])
  BY DEF Send
<1> QED  BY <1>1, <1>2, NullprocIsPid

(* Only its owner, or the reuse of its slot, empties or changes a full     *)
(* mailbox.                                                                *)
THEOREM MessagesKept == Spec => MessageKept
<1> DEFINE Kept == \A p \in Pid : phasmsg(p) /\ mbox'[p] # mbox[p]
                                    => p = currpid \/ pstate[p] = "PRFREE"
<1>1. ASSUME IInv, [Next]_vars PROVE [Kept]_vars
  <2> SUFFICES ASSUME NEW p \in Pid, phasmsg(p), mbox'[p] # mbox[p], p # currpid,
                      pstate[p] # "PRFREE"
               PROVE  FALSE
    OBVIOUS
  <2>1. mbox \in [Pid -> Int]
    BY <1>1 DEF IInv, OthersOK
  <2>2. mbox' # mbox
    OBVIOUS
  <2>3. CASE MsgNext
    <3>1. ~TakeMessage
      BY <2>1 DEF TakeMessage
    <3> QED  BY <1>1, <2>2, <2>3, <3>1, SendKeepsFull
                DEF MsgNext, SendCall, Receive, ReceiveRest, Recvclr, Recvtim, RecvtimRest
  <2>4. CASE ProcNext
    <3>1. ASSUME NEW priority \in Prios \cup {0}, Create(priority) PROVE FALSE
      <4> DEFINE pid == SlotBelow(nextproc, NPROC, FreeSlots)
      <4>1. FreeSlots # {}
        BY <3>1 DEF Create
      <4>2. pid \in FreeSlots
        BY <1>1, <4>1, NewSlot
      <4>3. mbox' = mbox \/ mbox' = [mbox EXCEPT ![pid] = NoMsg]
        BY <3>1 DEF Create
      <4> HIDE DEF pid
      <4>4. pid # p
        BY <4>2 DEF FreeSlots
      <4> QED  BY <2>1, <4>3, <4>4
    <3> QED  BY <1>1, <2>2, <2>4, <3>1, SendKeepsFull DEF ProcNext, Setnok, Kill, KillRest
  <2>5. CASE UNCHANGED vars
    BY <2>2, <2>5 DEF vars
  <2> QED  BY <1>1, <2>2, <2>3, <2>4, <2>5 DEF Next
<1>2. IInv /\ [Next]_vars => IInv'
  BY IInvStep
<1> QED
  BY <1>1, <1>2, IInvInit, PTL DEF Spec, MessageKept

-----------------------------------------------------------------------------
(* The clock.  The increments on the sleep queue are natural numbers, but  *)
(* for the first one while wakeup is at work.                              *)
NatKeys(key, cq) == \A i \in 1..Len(cq) : key[cq[i]] >= 0

KeysInv ==
  /\ cont[currpid].op # "wakeup" => NatKeys(sched.qkey, clockq)
  /\ \A i \in 2..Len(clockq) : sched.qkey[clockq[i]] >= 0

(* insertd splits one increment in two, or appends what is left.           *)
LEMMA InsertdNatKeys ==
  ASSUME NEW S, NEW s \in Seq(S), NEW P, Holds(s, P), NEW e \in S, e \notin P,
         NEW key \in [S -> Int], NEW k \in Nat, NatKeys(key, s)
  PROVE  NatKeys(InsertdKeys(s, e, key, k), Insertd(s, e, key, k))
<1> DEFINE I == {i \in 1..Len(s) : Elapsed(s, key)[i] >= k}
           m == InsertdPos(s, key, k)
           E == Elapsed(s, key)
           left == k - E[m - 1]
           t == InsertAt(s, m, e)
           new == InsertdKeys(s, e, key, k)
<1>1. /\ Len(s) \in Nat /\ \A i \in 1..Len(s) : s[i] \in P /\ s[i] \in S
      /\ \A i, j \in 1..Len(s) : s[i] = s[j] => i = j
  BY LenProperties, HoldsByIndex, ElementOfSeq
<1>2. /\ m \in 1..(Len(s) + 1) /\ (m \in I \/ m = Len(s) + 1)
      /\ \A j \in 1..(m - 1) : j \notin I
  <2>1. m = StopsAt(I, Len(s))
    BY DEF InsertdPos
  <2> HIDE DEF m, I
  <2> QED  BY <1>1, <2>1, StopsAtIsLeast
<1>3. /\ E \in [0..Len(s) -> Int] /\ E[0] = 0
      /\ \A i \in 1..Len(s) : E[i] = E[i - 1] + key[s[i]]
  BY ElapsedIsSum
<1>4. new = [p \in S |-> IF p = e THEN left
                         ELSE IF m <= Len(s) /\ p = s[m] THEN key[p] - left
                         ELSE key[p]]
  BY DEF InsertdKeys
<1>5. /\ t \in Seq(S) /\ Len(t) = Len(s) + 1 /\ Insertd(s, e, key, k) = t
      /\ \A j \in 1..(Len(s) + 1) :
           t[j] = IF j < m THEN s[j] ELSE IF j = m THEN e ELSE s[j - 1]
  <2>1. Insertd(s, e, key, k) = t
    BY DEF Insertd
  <2>2. m \in 1..(Len(s) + 1)
    BY <1>2
  <2> HIDE DEF m
  <2> QED  BY <2>1, <2>2, InsertAtProperties
<1>6. \A i \in 1..Len(s) : key[s[i]] \in Int /\ key[s[i]] >= 0
  BY <1>1 DEF NatKeys
<1>7. left \in Nat /\ (m <= Len(s) => key[s[m]] - left >= 0)
  <2>0. m \in 1..(Len(s) + 1)
    BY <1>2
  <2> HIDE DEF E, m
  <2>1. CASE m = 1
    <3>1. left = k
      BY <1>3, <2>1
    <3>2. m <= Len(s) => E[m] = E[0] + key[s[m]] /\ E[m] >= k
      BY <1>1, <1>2, <1>3, <2>1 DEF E
    <3> QED  BY <1>2, <1>3, <1>6, <3>1, <3>2
  <2>2. CASE m > 1
    <3>0. m - 1 \in 1..Len(s) /\ m - 1 \in 1..(m - 1) /\ m - 1 \in 0..Len(s)
      BY <1>1, <2>0, <2>2
    <3>1. m - 1 \in 1..Len(s) /\ m - 1 \in 1..(m - 1) /\ E[m - 1] \in Int
      BY <1>3, <3>0
    <3>2. E[m - 1] < k
      BY <1>2, <3>1 DEF E
    <3>3. m <= Len(s) => E[m] = E[m - 1] + key[s[m]] /\ E[m] >= k
      BY <1>1, <1>2, <1>3, <2>2 DEF E
    <3>4. m <= Len(s) => key[s[m]] \in Int
      BY <1>6, <2>0
    <3>5. left \in Nat
      BY <3>1, <3>2
    <3>6. m <= Len(s) => key[s[m]] - left >= 0
      BY <3>1, <3>3, <3>4
    <3> QED  BY <3>5, <3>6
  <2> QED  BY <2>0, <2>1, <2>2
<1> HIDE DEF I, m, left, t, new, E
<1>8. ASSUME NEW j \in 1..(Len(s) + 1) PROVE new[t[j]] >= 0
  <2>1. CASE j = m
    BY <1>4, <1>5, <1>7, <2>1
  <2>2. CASE j < m
    <3>1. j \in 1..Len(s) /\ t[j] = s[j] /\ s[j] # e /\ s[j] \in S
      BY <1>1, <1>2, <1>5, <2>2
    <3>2. m <= Len(s) => s[j] # s[m]
      BY <1>1, <1>2, <2>2, <3>1
    <3> QED  BY <1>4, <1>6, <3>1, <3>2
  <2>3. CASE j > m
    <3>0. j - 1 \in 1..Len(s) /\ ~(j < m) /\ j # m
      BY <1>1, <1>2, <2>3
    <3>1. t[j] = s[j - 1] /\ s[j - 1] # e /\ s[j - 1] \in S
      BY <1>1, <1>5, <3>0
    <3>2. new[t[j]] = IF m <= Len(s) /\ s[j - 1] = s[m] THEN key[s[m]] - left
                      ELSE key[s[j - 1]]
      BY <1>4, <3>1
    <3> QED  BY <1>6, <1>7, <3>0, <3>2
  <2> QED  BY <1>1, <1>2, <2>1, <2>2, <2>3
<1> QED  BY <1>5, <1>8 DEF NatKeys, new

(* unsleep hands an increment over to the next entry.                      *)
LEMMA UnsleepNatKeys ==
  ASSUME IInv, NEW p \in Sleepers(View(sched)), NatKeys(sched.qkey, clockq)
  PROVE  /\ NatKeys(UnsleepKeys(p), Dequeue(clockq, p))
         /\ UnsleepKeys(p) \in [Pid -> Int]
<1> DEFINE P == Sleepers(View(sched))
           i == PosOf(clockq, p)
           key == UnsleepKeys(p)
<1>1. /\ sched.qkey \in [Pid -> Int] /\ P \subseteq Pid
      /\ clockq \in Seq(Pid) /\ Holds(clockq, P) /\ p \in P
  BY BasicTypes DEF SchedType, Sleepers, QueuesOK, IInv
<1> HIDE DEF P
<1>2. /\ i \in 1..Len(clockq) /\ Len(clockq) \in Nat /\ P = {clockq[j] : j \in 1..Len(clockq)}
      /\ Dequeue(clockq, p) \in Seq(Pid) /\ Holds(Dequeue(clockq, p), P \ {p})
  BY <1>1, HoldsDequeue, HoldsByIndex, LenProperties
<1>3. key = [r \in Pid |->
               IF r = p THEN 0
               ELSE IF i < Len(clockq) /\ r = clockq[i + 1]
                    THEN sched.qkey[r] + sched.qkey[p]
                    ELSE sched.qkey[r]]
  BY DEF UnsleepKeys
<1> HIDE DEF i, key
<1>4. \A r \in P : sched.qkey[r] \in Int /\ sched.qkey[r] >= 0
  BY <1>1, <1>2 DEF NatKeys
<1>5. \A r \in P : key[r] >= 0
  BY <1>1, <1>3, <1>4
<1>6. key \in [Pid -> Int]
  BY <1>1, <1>3
<1>7. \A j \in 1..Len(Dequeue(clockq, p)) : Dequeue(clockq, p)[j] \in P
  <2> DEFINE d == Dequeue(clockq, p)
             Q == P \ {p}
  <2>1. d \in Seq(Pid) /\ Holds(d, Q)
    BY <1>2
  <2> HIDE DEF d, Q
  <2>2. \A j \in 1..Len(d) : d[j] \in Q
    BY <2>1, HoldsByIndex
  <2> QED  BY <2>2 DEF d, Q
<1> QED  BY <1>5, <1>6, <1>7 DEF NatKeys, key

(* The scheduler leaves the keys of the other blocked processes alone.     *)
LEMMA ReadyKeepsSleepers ==
  ASSUME NEW S, Consistent(S), NEW p \in Pid, S.pstate[p] # "PRREADY"
  PROVE  /\ \A r \in Pid \ {p} : S.pstate[r] \notin Runnable
                                   => ReadyNow(S, p).qkey[r] = S.qkey[r]
         /\ \A r \in Pid \ {p} : Ready(S, p).qkey[r] = S.qkey[r]
<1> DEFINE T == Ready(S, p)
<1>1. /\ Consistent(T) /\ T.pstate = [S.pstate EXCEPT ![p] = "PRREADY"]
      /\ \A r \in Pid \ {p} : T.qkey[r] = S.qkey[r]
  BY ReadyConsistent
<1> HIDE DEF T
<1>2. SameBlocked(T, Resched(T))
  BY <1>1, ReschedHighest
<1>3. \A r \in Pid \ {p} : T.pstate[r] = S.pstate[r]
  BY <1>1 DEF Consistent, SchedType
<1> QED  BY <1>1, <1>2, <1>3 DEF SameBlocked, ReadyNow, T

LEMMA ReschedKeepsSleepers ==
  ASSUME NEW S, Consistent(S)
  PROVE  \A r \in Pid : S.pstate[r] \notin Runnable => Resched(S).qkey[r] = S.qkey[r]
BY ReschedHighest DEF SameBlocked

LEMMA BlockKeepsSleepers ==
  ASSUME NEW S, Consistent(S), Running(S), S.currpid \in UserPid, NEW st \in States \ Runnable
  PROVE  \A r \in Pid : r = S.currpid \/ S.pstate[r] \notin Runnable
                        => Block(S, st).qkey[r] = S.qkey[r]
<1> DEFINE U == [S EXCEPT !.pstate[S.currpid] = st]
<1>1. S \in SchedType /\ S.currpid \notin ReadySet(S) /\ Consistent(U)
  <2>1. S.currpid \notin ReadySet(S)
    BY DEF Running, ReadySet
  <2> QED  BY <2>1, SetBlockedState DEF Consistent
<1>2. U.qkey = S.qkey /\ U.pstate = [S.pstate EXCEPT ![S.currpid] = st]
  BY <1>1 DEF SchedType
<1> HIDE DEF U
<1>3. \A r \in Pid : U.pstate[r] = IF r = S.currpid THEN st ELSE S.pstate[r]
  BY <1>1, <1>2 DEF SchedType
<1>4. \A r \in Pid : U.pstate[r] \notin Runnable => Resched(U).qkey[r] = U.qkey[r]
  BY <1>1, ReschedKeepsSleepers
<1> QED  BY <1>2, <1>3, <1>4 DEF Block, U

(* Steps that leave the sleep queue, and the keys of the processes on it.  *)
LEMMA NatIsEnough ==
  ASSUME NatKeys(sched'.qkey, clockq')
  PROVE  KeysInv'
BY DEF KeysInv, NatKeys

LEMMA KeysStay ==
  ASSUME IInv, NatKeys(sched.qkey, clockq), clockq' = clockq,
         \A r \in Sleepers(View(sched)) : sched'.qkey[r] = sched.qkey[r]
  PROVE  KeysInv'
<1> DEFINE P == Sleepers(View(sched))
<1>1. clockq \in Seq(Pid) /\ Holds(clockq, P)
  BY DEF IInv, QueuesOK
<1>2. \A r \in P : sched'.qkey[r] = sched.qkey[r]
  OBVIOUS
<1> HIDE DEF P
<1>3. \A i \in 1..Len(clockq) : clockq[i] \in P
  BY <1>1, HoldsByIndex
<1>4. NatKeys(sched'.qkey, clockq')
  BY <1>2, <1>3 DEF NatKeys
<1> QED  BY <1>4, NatIsEnough

LEMMA SleeperStates ==
  ASSUME IInv, NEW r \in Sleepers(View(sched))
  PROVE  r \in Pid /\ pstate[r] \in {"PRSLEEP", "PRTRECV"} /\ pstate[r] \notin Runnable
         /\ sched.pstate[r] = pstate[r] /\ r # currpid
BY BasicTypes DEF Sleepers, Runnable, pstate

LEMMA SchedKeepsKeys ==
  ASSUME IInv, KeysInv, SchedNext, clockq' = clockq
  PROVE  KeysInv'
<1>1. /\ Consistent(sched) /\ Running(sched) /\ Highest(sched) /\ sched \in SchedType
      /\ NatKeys(sched.qkey, clockq)
  <2>1. Interruptible
    BY DEF SchedNext, Resume, Suspend, Chprio, Yield, MayCall
  <2> QED  BY <2>1, Caller, BasicTypes DEF IInv, KeysInv
<1>2. SUFFICES ASSUME NEW r \in Sleepers(View(sched)) PROVE sched'.qkey[r] = sched.qkey[r]
  BY <1>1, KeysStay
<1>3. r \in Pid /\ sched.pstate[r] \in {"PRSLEEP", "PRTRECV"} /\ sched.pstate[r] \notin Runnable
      /\ r # sched.currpid
  BY SleeperStates DEF currpid
<1>4. ASSUME NEW p \in UserPid, Resume(p) PROVE sched'.qkey[r] = sched.qkey[r]
  BY <1>1, <1>3, <1>4, NullprocIsPid, ReadyKeepsSleepers DEF Resume, pstate
<1>5. ASSUME NEW p \in UserPid, Suspend(p) PROVE sched'.qkey[r] = sched.qkey[r]
  <2>1. p \in Pid
    BY NullprocIsPid
  <2>2. CASE pstate[p] = "PRREADY" /\ sched' = Unready(sched, p, "PRSUSP")
    BY <1>1, <1>3, <2>1, <2>2, UnreadyKeys DEF pstate
  <2>3. CASE pstate[p] = "PRCURR" /\ sched' = Block(sched, "PRSUSP")
    <3>1. p = sched.currpid
      BY <1>1, <2>1, <2>3 DEF Consistent, pstate
    <3> QED  BY <1>1, <1>3, <2>3, <3>1, StatesNamed, BlockKeepsSleepers
  <2> QED  BY <1>5, <2>2, <2>3 DEF Suspend
<1>6. ASSUME NEW p \in UserPid, NEW newprio \in Prios, Chprio(p, newprio)
      PROVE  sched'.qkey[r] = sched.qkey[r]
  <2>1. newprio \in Nat
    BY SchedAssumption
  <2> QED  BY <1>1, <1>3, <1>6, <2>1, ChprioStep DEF Chprio, pstate
<1>7. ASSUME Yield PROVE sched'.qkey[r] = sched.qkey[r]
  BY <1>1, <1>3, <1>7, ReschedKeepsSleepers DEF Yield
<1> QED  BY <1>4, <1>5, <1>6, <1>7 DEF SchedNext

LEMMA SemKeepsKeys ==
  ASSUME IInv, KeysInv, SemNext, clockq' = clockq
  PROVE  KeysInv'
<1>1. /\ Consistent(sched) /\ Running(sched) /\ sched \in SchedType
      /\ NatKeys(sched.qkey, clockq)
  <2>1. Interruptible => cont[currpid].op # "wakeup"
    BY Caller
  <2>2. cont[currpid].op # "wakeup"
    BY <2>1 DEF SemNext, Screate, Wait, Signal, DeviceSignal, Signaln, SignalnLoop, Sdelete,
                SdeleteLoop, Sreset, SresetLoop, MayCall
  <2> QED  BY <2>2, BasicTypes DEF IInv, KeysInv
<1>2. SUFFICES ASSUME NEW r \in Sleepers(View(sched)) PROVE sched'.qkey[r] = sched.qkey[r]
  BY <1>1, KeysStay
<1>3. r \in Pid /\ sched.pstate[r] \in {"PRSLEEP", "PRTRECV"} /\ sched.pstate[r] \notin Runnable
      /\ r # sched.currpid
  BY SleeperStates DEF currpid
<1>4. ASSUME NEW s \in Sem, semq[s] # <<>>,
             \/ sched' = Ready(sched, Head(semq[s]))
             \/ sched' = ReadyNow(sched, Head(semq[s]))
      PROVE  sched'.qkey[r] = sched.qkey[r]
  <2> DEFINE p == Head(semq[s])
  <2>1. p \in Pid /\ View(sched)[p] = "PRWAIT"
    BY <1>4, BasicTypes, StatesNamed, QueuesFirst DEF IInv
  <2> HIDE DEF p
  <2>2. sched.pstate[p] = "PRWAIT"
    BY <2>1 DEF View, Runnable
  <2>3. r # p /\ sched.pstate[p] # "PRREADY"
    BY <1>3, <2>2
  <2> QED  BY <1>1, <1>3, <1>4, <2>1, <2>3, ReadyKeepsSleepers DEF p
<1>5. ASSUME sched' = sched \/ sched' = Resched(sched) PROVE sched'.qkey[r] = sched.qkey[r]
  BY <1>1, <1>3, <1>5, ReschedKeepsSleepers
<1>6. ASSUME NEW s \in Sem, Wait(s) PROVE sched'.qkey[r] = sched.qkey[r]
  <2>1. sched.currpid \in UserPid
    BY <1>6, BasicTypes DEF Wait, MayCall, UserPid, currpid
  <2> QED  BY <1>1, <1>3, <1>5, <1>6, <2>1, StatesNamed, BlockKeepsSleepers DEF Wait
<1>7. ASSUME NEW s \in Sem, NEW b \in BOOLEAN, SignalOnce(s, b)
      PROVE  sched'.qkey[r] = sched.qkey[r]
  BY <1>4, <1>5, <1>7 DEF SignalOnce, Wake
<1>8. ASSUME SignalnLoop \/ SdeleteLoop \/ SresetLoop PROVE sched'.qkey[r] = sched.qkey[r]
  <2>1. cont[currpid].x \in Sem
    BY <1>8, InSemLoop DEF SignalnLoop, SdeleteLoop, SresetLoop, SemLoops
  <2> QED  BY <1>4, <1>5, <1>7, <1>8, <2>1 DEF SignalnLoop, SdeleteLoop, SresetLoop
<1> QED  BY <1>5, <1>6, <1>7, <1>8
            DEF SemNext, Screate, Signal, DeviceSignal, Signaln, Sdelete, Sreset

(* A process falls asleep.                                                 *)
LEMMA SleepInKeys ==
  ASSUME IInv, NatKeys(sched.qkey, clockq), currpid \in UserPid, NEW n \in Nat,
         NEW st \in {"PRSLEEP", "PRTRECV"}, SleepIn(st, n)
  PROVE  KeysInv'
<1> DEFINE k   == sched.qkey
           key == InsertdKeys(clockq, currpid, k, n)
           U   == [sched EXCEPT !.qkey = key]
           V   == View(sched)
           P   == Sleepers(V)
           W   == [V EXCEPT ![currpid] = st]
<1>1. st \in States \ Runnable /\ "PRREADY" \notin Queued
  BY DEF States, Runnable, Queued
<1>2. /\ sched \in SchedType /\ currpid \in Pid /\ V \in Views
      /\ V[currpid] = "PRREADY" /\ k \in [Pid -> Int] /\ n \in Int
      /\ QueuesOK(V, psem, semq, clockq) /\ Consistent(sched) /\ Running(sched)
  BY BasicTypes DEF SchedType, IInv
<1>3. sched' = Block(U, st) /\ clockq' = Insertd(clockq, currpid, k, n)
  BY DEF SleepIn
<1>4. clockq \in Seq(Pid) /\ Holds(clockq, P) /\ currpid \notin P
  BY <1>2 DEF QueuesOK, Sleepers
<1>5. key \in [Pid -> Int] /\ Holds(clockq', Sleepers(W)) /\ clockq' \in Seq(Pid)
  <2>1. V[currpid] \notin Queued
    BY <1>1, <1>2
  <2> HIDE DEF V, k
  <2>2. /\ InsertdKeys(clockq, currpid, k, n) \in [Pid -> Int]
        /\ QueuesOK([V EXCEPT ![currpid] = st], psem, semq, Insertd(clockq, currpid, k, n))
    BY <1>2, <2>1, QueuesSleep
  <2> QED  BY <1>3, <2>2 DEF QueuesOK
<1>6. \A r \in ReadySet(sched) : key[r] = sched.qkey[r]
  <2> SUFFICES ASSUME NEW r \in ReadySet(sched) PROVE key[r] = sched.qkey[r]
    OBVIOUS
  <2>1. r \in Pid /\ r # currpid /\ V[r] = "PRREADY"
    BY <1>2 DEF ReadySet, View, Runnable, Running, currpid
  <2> QED
    BY <2>1, <1>1, <1>2, QueuesSleepKeys
<1>7. NatKeys(key, clockq')
  <2> HIDE DEF V, P, k
  <2>1. NatKeys(k, clockq)
    BY DEF k
  <2> QED  BY <1>2, <1>3, <1>4, <2>1, InsertdNatKeys
<1> HIDE DEF key
<1>8. Consistent(U) /\ Running(U) /\ U.currpid = sched.currpid
  BY <1>2, <1>5, <1>6, SetKeysStep
<1>9. U.qkey = key /\ U.pstate = sched.pstate
  BY <1>2 DEF SchedType
<1>10. \A r \in Sleepers(W) : r \in Pid /\ (r = currpid \/ sched.pstate[r] \notin Runnable)
  <2>1. \A r \in Sleepers(W) : r \in Pid /\ (r = currpid \/ r \in P)
    BY <1>2 DEF Sleepers, Views
  <2> QED  BY <2>1, SleeperStates
<1> HIDE DEF U, W, P, V
<1>11. \A r \in Sleepers(W) : sched'.qkey[r] = key[r]
  <2>1. U.currpid \in UserPid /\ U.currpid = currpid
    BY <1>8 DEF currpid
  <2>2. \A r \in Pid : r = U.currpid \/ U.pstate[r] \notin Runnable
                         => Block(U, st).qkey[r] = U.qkey[r]
    BY <1>1, <1>8, <2>1, BlockKeepsSleepers
  <2> QED  BY <1>3, <1>9, <1>10, <2>1, <2>2
<1>12. \A i \in 1..Len(clockq') : clockq'[i] \in Sleepers(W)
  <2> DEFINE Q == Sleepers(W)
  <2>1. Holds(clockq', Q) /\ clockq' \in Seq(Pid)
    BY <1>5
  <2> HIDE DEF Q
  <2>2. \A i \in 1..Len(clockq') : clockq'[i] \in Q
    BY <2>1, HoldsByIndex
  <2> QED  BY <2>2 DEF Q
<1>13. NatKeys(sched'.qkey, clockq')
  BY <1>7, <1>11, <1>12 DEF NatKeys
<1> QED  BY <1>13, NatIsEnough

(* A process leaves the sleep queue before its time.                       *)
LEMMA UnsleepInKeys ==
  ASSUME IInv, NatKeys(sched.qkey, clockq), NEW p \in Sleepers(View(sched)),
         clockq' = Dequeue(clockq, p),
         \A r \in Sleepers(View(sched)) \ {p} : sched'.qkey[r] = UnsleepKeys(p)[r]
  PROVE  KeysInv'
<1> DEFINE P == Sleepers(View(sched))
           Q == P \ {p}
           d == Dequeue(clockq, p)
<1>1. clockq \in Seq(Pid) /\ Holds(clockq, P) /\ p \in P
  BY DEF IInv, QueuesOK
<1>2. NatKeys(UnsleepKeys(p), d)
  BY UnsleepNatKeys
<1>3. \A r \in Q : sched'.qkey[r] = UnsleepKeys(p)[r]
  OBVIOUS
<1> HIDE DEF P
<1>4. d \in Seq(Pid) /\ Holds(d, Q)
  BY <1>1, HoldsDequeue
<1>5. clockq' = d
  OBVIOUS
<1> HIDE DEF Q, d
<1>6. \A i \in 1..Len(d) : d[i] \in Q
  BY <1>4, HoldsByIndex
<1>7. NatKeys(sched'.qkey, clockq')
  BY <1>2, <1>3, <1>5, <1>6 DEF NatKeys
<1> QED  BY <1>7, NatIsEnough

(* The clock interrupt.  wakeup runs only while the first increment may be *)
(* used up; it stops when it finds it positive.                            *)
LEMMA CountQuantumKeys ==
  ASSUME NEW S, Consistent(S)
  PROVE  \A r \in Pid : S.pstate[r] \notin Runnable => CountQuantum(S).qkey[r] = S.qkey[r]
<1> DEFINE n == IF S.preempt > 0 THEN S.preempt - 1 ELSE 0
           T == [S EXCEPT !.preempt = n]
<1>0. n \in 0..QUANTUM /\ T = [S EXCEPT !.preempt = IF @ > 0 THEN @ - 1 ELSE 0]
  BY SchedAssumption DEF Consistent, SchedType
<1>1. T.qkey = S.qkey /\ T.pstate = S.pstate /\ Consistent(T)
  <2>1. T.qkey = S.qkey /\ T.pstate = S.pstate
    BY DEF Consistent, SchedType
  <2> HIDE DEF n
  <2> QED  BY <1>0, <2>1, SetPreemptStep
<1>2. CountQuantum(S) = T \/ CountQuantum(S) = Resched(T)
  BY <1>0 DEF CountQuantum
<1> HIDE DEF T
<1> QED  BY <1>1, <1>2, ReschedKeepsSleepers

LEMMA ClockKeepsKeys ==
  ASSUME IInv, KeysInv, ClockNext
  PROVE  KeysInv'
<1> DEFINE P == Sleepers(View(sched))
<1>1. /\ Consistent(sched) /\ Running(sched) /\ sched \in SchedType
      /\ currpid \in Pid /\ sched.qkey \in [Pid -> Int]
      /\ clockq \in Seq(Pid) /\ Holds(clockq, P) /\ Len(clockq) \in Nat
  BY BasicTypes, LenProperties DEF IInv, QueuesOK, SchedType
<1>2. \A r \in P : /\ r \in Pid /\ sched.pstate[r] \in {"PRSLEEP", "PRTRECV"}
                   /\ sched.pstate[r] \notin Runnable
  BY SleeperStates
<1> HIDE DEF P
<1>3. /\ \A i \in 1..Len(clockq) : clockq[i] \in P
      /\ \A i, j \in 1..Len(clockq) : clockq[i] = clockq[j] => i = j
  BY <1>1, HoldsByIndex
<1>4. clockq # <<>> => 1 \in 1..Len(clockq) /\ Head(clockq) = clockq[1] /\ Head(clockq) \in P
  BY <1>1, HoldsTail
<1>5. ASSUME NEW n \in Delays, Sleep(n) PROVE KeysInv'
  <2>1. n \in Nat /\ currpid \in UserPid /\ SleepIn("PRSLEEP", n)
    BY <1>1, <1>5, ClockAssumption DEF Sleep, MayCall, UserPid
  <2>2. NatKeys(sched.qkey, clockq)
    BY <1>5, Caller DEF Sleep, MayCall, KeysInv
  <2> QED  BY <2>1, <2>2, SleepInKeys
<1>6. ASSUME ClockTick PROVE KeysInv'
  <2> DEFINE S == IF slnempty THEN [sched EXCEPT !.qkey[sltop] = @ - 1] ELSE sched
  <2>1. /\ cont[currpid].op # "wakeup" /\ NatKeys(sched.qkey, clockq)
        /\ slnempty = (clockq # <<>>) /\ (slnempty => sltop = Head(clockq))
    BY <1>6, Caller DEF ClockTick, KeysInv, IInv, SltopOK
  <2>2. S.pstate = sched.pstate /\ \A r \in Pid : /\ S.qkey[r] \in Int
          /\ S.qkey[r] = IF slnempty /\ r = sltop THEN sched.qkey[r] - 1 ELSE sched.qkey[r]
    BY <1>1 DEF SchedType
  <2>3. \A i \in 2..Len(clockq) : S.qkey[clockq[i]] >= 0
    <3> SUFFICES ASSUME NEW i \in 2..Len(clockq) PROVE S.qkey[clockq[i]] >= 0
      OBVIOUS
    <3>1. i \in 1..Len(clockq) /\ 1 \in 1..Len(clockq) /\ i # 1 /\ clockq # <<>>
      BY <1>1
    <3>2. clockq[i] # clockq[1] /\ clockq[i] \in Pid
      BY <1>2, <1>3, <3>1
    <3> QED  BY <1>4, <2>1, <2>2, <3>1, <3>2 DEF NatKeys
  <2>4. clockq' = clockq
    BY <1>6 DEF ClockTick, clockVars
  <2>5. CASE slnempty /\ sched' = S /\ cont' = [cont EXCEPT ![currpid] = Cont("wakeup", 0, 0)]
    <3>1. cont'[currpid'].op = "wakeup"
      <4>1. S.currpid = sched.currpid
        OBVIOUS
      <4>2. cont \in [Pid -> ContType]
        BY DEF IInv, ContOK
      <4> QED  BY <1>1, <2>5, <4>1, <4>2, ContOps DEF currpid
    <3> QED  BY <2>3, <2>4, <2>5, <3>1 DEF KeysInv
  <2>6. CASE (slnempty => S.qkey[sltop] > 0) /\ sched' = CountQuantum(S)
    <3>1. \A i \in 1..Len(clockq) : S.qkey[clockq[i]] >= 0
      <4> SUFFICES ASSUME NEW i \in 1..Len(clockq) PROVE S.qkey[clockq[i]] >= 0
        OBVIOUS
      <4>1. CASE i = 1
        <5>1. slnempty /\ sltop = clockq[1] /\ clockq[1] \in Pid
          <6>1. clockq # <<>> /\ 1 \in 1..Len(clockq)
            BY <1>1, <4>1
          <6> QED  BY <1>2, <1>3, <1>4, <2>1, <6>1
        <5> QED  BY <2>2, <2>6, <4>1, <5>1
      <4>2. CASE i # 1
        <5>1. i \in 2..Len(clockq)
          BY <1>1, <4>2
        <5> QED  BY <2>3, <5>1
      <4> QED  BY <4>1, <4>2
    <3>2. Consistent(S)
      <4>1. CASE slnempty
        <5> DEFINE key == [sched.qkey EXCEPT ![sltop] = @ - 1]
        <5>1. S = [sched EXCEPT !.qkey = key]
          BY <4>1
        <5>2. sltop \in P /\ sltop \in Pid /\ sched.pstate[sltop] \notin Runnable
          BY <1>2, <1>4, <2>1, <4>1
        <5>3. key \in [Pid -> Int]
          BY <1>1, <5>2
        <5>4. \A r \in ReadySet(sched) : key[r] = sched.qkey[r]
          BY <1>1, <5>2 DEF ReadySet, Runnable
        <5> HIDE DEF key, S
        <5> QED  BY <1>1, <5>1, <5>3, <5>4, SetKeysStep
      <4>2. CASE ~slnempty
        BY <1>1, <4>2
      <4> QED  BY <4>1, <4>2
    <3> HIDE DEF S
    <3>3. \A r \in P : sched'.qkey[r] = S.qkey[r]
      BY <1>2, <2>2, <2>6, <3>2, CountQuantumKeys
    <3>4. NatKeys(sched'.qkey, clockq')
      BY <1>3, <2>4, <3>1, <3>3 DEF NatKeys
    <3> QED  BY <3>4, NatIsEnough
  <2> QED  BY <1>6, <2>5, <2>6 DEF ClockTick
<1>7. ASSUME WakeupLoop PROVE KeysInv'
  <2>1. CASE /\ clockq # <<>> /\ sched' = Ready(sched, Head(clockq))
             /\ clockq' = Tail(clockq)
    <3> DEFINE p == Head(clockq)
               t == Tail(clockq)
    <3>1. p \in P /\ p = clockq[1] /\ p \in Pid /\ sched.pstate[p] # "PRREADY"
      BY <1>2, <1>4, <2>1
    <3>2. \A r \in Pid \ {p} : sched'.qkey[r] = sched.qkey[r]
      <4> HIDE DEF p
      <4> QED  BY <1>1, <2>1, <3>1, ReadyKeepsSleepers DEF p
    <3>3. /\ Len(t) = Len(clockq) - 1
          /\ \A i \in 1..Len(t) : t[i] = clockq[i + 1]
      BY <1>1, <2>1
    <3> HIDE DEF p, t
    <3>4. ASSUME NEW i \in 1..Len(t) PROVE sched'.qkey[t[i]] >= 0
      <4>1. i + 1 \in 2..Len(clockq) /\ i + 1 \in 1..Len(clockq) /\ 1 \in 1..Len(clockq)
            /\ i + 1 # 1
        BY <1>1, <3>3
      <4>2. clockq[i + 1] \in Pid /\ clockq[i + 1] # p
        BY <1>2, <1>3, <3>1, <4>1
      <4> QED  BY <3>2, <3>3, <4>1, <4>2 DEF KeysInv
    <3>5. NatKeys(sched'.qkey, clockq')
      BY <2>1, <3>4 DEF NatKeys, t
    <3> QED  BY <3>5, NatIsEnough
  <2>2. CASE /\ ~(clockq # <<>> /\ sched.qkey[Head(clockq)] <= 0)
             /\ sched' = Resched(sched) /\ clockq' = clockq
    <3>1. ASSUME NEW i \in 1..Len(clockq) PROVE sched.qkey[clockq[i]] >= 0
      <4>1. CASE i = 1
        <5>1. clockq # <<>> /\ clockq[1] \in Pid
          BY <1>1, <1>2, <1>3, <4>1, <3>1
        <5>2. sched.qkey[clockq[1]] \in Int
          BY <1>1, <5>1
        <5> QED  BY <1>4, <2>2, <4>1, <5>1, <5>2
      <4>2. CASE i # 1
        <5>1. i \in 2..Len(clockq)
          BY <1>1, <3>1, <4>2
        <5> QED  BY <5>1 DEF KeysInv
      <4> QED  BY <4>1, <4>2
    <3>2. \A r \in P : sched'.qkey[r] = sched.qkey[r]
      BY <1>1, <1>2, <2>2, ReschedKeepsSleepers
    <3>3. NatKeys(sched'.qkey, clockq')
      BY <1>3, <2>2, <3>1, <3>2 DEF NatKeys
    <3> QED  BY <3>3, NatIsEnough
  <2> QED  BY <1>7, <2>1, <2>2 DEF WakeupLoop
<1>8. ASSUME ClkintRest PROVE KeysInv'
  <2>1. /\ NatKeys(sched.qkey, clockq) /\ clockq' = clockq
        /\ sched' = CountQuantum(sched)
    BY <1>8 DEF ClkintRest, KeysInv, clockVars
  <2>2. \A r \in P : sched'.qkey[r] = sched.qkey[r]
    BY <1>1, <1>2, <2>1, CountQuantumKeys
  <2> QED  BY <2>1, <2>2, KeysStay DEF P
<1> QED  BY <1>5, <1>6, <1>7, <1>8 DEF ClockNext

-----------------------------------------------------------------------------
LEMMA SendKeepsKeys ==
  ASSUME IInv, NatKeys(sched.qkey, clockq), NEW p, NEW msg, Send(p, msg)
  PROVE  KeysInv'
<1> DEFINE P == Sleepers(View(sched))
<1>1. /\ Consistent(sched) /\ sched \in SchedType
      /\ \A r \in P : r \in Pid /\ sched.pstate[r] \in {"PRSLEEP", "PRTRECV"}
                                /\ sched.pstate[r] \notin Runnable
  BY BasicTypes, SleeperStates DEF IInv
<1> HIDE DEF P
<1>2. CASE UNCHANGED <<sched, clockVars>>
  BY <1>2, KeysStay DEF clockVars
<1>3. CASE /\ p \in UserPid /\ pstate[p] = "PRRECV" /\ sched' = ReadyNow(sched, p)
           /\ UNCHANGED clockVars
  <2>1. p \in Pid /\ sched.pstate[p] = "PRRECV"
    BY <1>3, NullprocIsPid DEF pstate
  <2>2. \A r \in P : sched'.qkey[r] = sched.qkey[r]
    BY <1>1, <1>3, <2>1, ReadyKeepsSleepers
  <2> QED  BY <1>3, <2>2, KeysStay DEF clockVars, P
<1>4. CASE /\ p \in UserPid /\ pstate[p] = "PRTRECV" /\ Unsleep(p)
           /\ sched' = ReadyNow([sched EXCEPT !.qkey = UnsleepKeys(p)], p)
  <2> DEFINE T == [sched EXCEPT !.qkey = UnsleepKeys(p)]
  <2>1. p \in Pid /\ sched.pstate[p] = "PRTRECV" /\ p \in P
    BY <1>4, NullprocIsPid, BasicTypes DEF pstate, P, Sleepers, Runnable
  <2>2. Consistent(T) /\ T.pstate = sched.pstate
    BY <2>1, UnsleepKeysStep DEF P
  <2>3. T.qkey = UnsleepKeys(p) /\ sched' = ReadyNow(T, p)
    BY <1>1, <1>4 DEF SchedType
  <2> HIDE DEF T
  <2>4. \A r \in P \ {p} : sched'.qkey[r] = UnsleepKeys(p)[r]
    BY <1>1, <2>1, <2>2, <2>3, ReadyKeepsSleepers
  <2>5. clockq' = Dequeue(clockq, p)
    BY <1>4 DEF Unsleep
  <2> QED  BY <2>1, <2>4, <2>5, UnsleepInKeys DEF P
<1> QED  BY <1>2, <1>3, <1>4 DEF Send

LEMMA MsgKeepsKeys ==
  ASSUME IInv, KeysInv, MsgNext
  PROVE  KeysInv'
<1>1. Interruptible => NatKeys(sched.qkey, clockq)
  BY Caller DEF KeysInv
<1>2. ASSUME sched' = sched, clockq' = clockq, cont[currpid].op # "wakeup" PROVE KeysInv'
  BY <1>2, KeysStay DEF KeysInv
<1>3. Interruptible => cont[currpid].op # "wakeup"
  BY Caller
<1>4. ASSUME NEW p \in UserPid, NEW msg \in Msgs, SendCall(p, msg) PROVE KeysInv'
  BY <1>1, <1>4, SendKeepsKeys DEF SendCall, MayCall
<1>5. ASSUME Receive PROVE KeysInv'
  <2>1. CASE sched' = sched
    BY <1>2, <1>3, <1>5, <2>1 DEF Receive, MayCall, clockVars
  <2>2. CASE sched' = Block(sched, "PRRECV")
    <3>1. /\ Consistent(sched) /\ Running(sched) /\ sched.currpid \in UserPid
          /\ NatKeys(sched.qkey, clockq) /\ clockq' = clockq
      BY <1>1, <1>5, BasicTypes DEF Receive, MayCall, UserPid, currpid, IInv, clockVars
    <3>2. \A r \in Sleepers(View(sched)) : r \in Pid /\ sched.pstate[r] \notin Runnable
      BY SleeperStates
    <3>3. \A r \in Sleepers(View(sched)) : sched'.qkey[r] = sched.qkey[r]
      BY <2>2, <3>1, <3>2, StatesNamed, BlockKeepsSleepers
    <3> QED  BY <3>1, <3>3, KeysStay
  <2> QED  BY <1>5, <2>1, <2>2 DEF Receive
<1>6. ASSUME NEW n \in Delays, Recvtim(n) PROVE KeysInv'
  <2>1. CASE sched' = sched /\ clockq' = clockq
    BY <1>2, <1>3, <1>6, <2>1 DEF Recvtim, MayCall
  <2>2. CASE SleepIn("PRTRECV", n)
    <3>1. n \in Nat /\ currpid \in UserPid
      BY <1>6, BasicTypes, ClockAssumption DEF Recvtim, MayCall, UserPid
    <3> QED  BY <1>1, <1>6, <2>2, <3>1, SleepInKeys DEF Recvtim, MayCall
  <2> QED  BY <1>6, <2>1, <2>2 DEF Recvtim, clockVars
<1>7. ASSUME Recvclr PROVE KeysInv'
  BY <1>2, <1>3, <1>7 DEF Recvclr, MayCall, clockVars
<1>8. ASSUME ReceiveRest \/ RecvtimRest PROVE KeysInv'
  BY <1>2, <1>8 DEF ReceiveRest, RecvtimRest, clockVars
<1> QED  BY <1>4, <1>5, <1>6, <1>7, <1>8 DEF MsgNext

LEMMA ProcKeepsKeys ==
  ASSUME IInv, KeysInv, ProcNext
  PROVE  KeysInv'
<1> DEFINE P == Sleepers(View(sched))
<1>1. /\ Consistent(sched) /\ Running(sched) /\ sched \in SchedType
      /\ \A r \in P : r \in Pid /\ sched.pstate[r] \in {"PRSLEEP", "PRTRECV"}
                                /\ sched.pstate[r] \notin Runnable
  BY BasicTypes, SleeperStates DEF IInv
<1> HIDE DEF P
<1>2. NatKeys(sched.qkey, clockq)
  <2>1. Interruptible => cont[currpid].op # "wakeup"
    BY Caller
  <2> QED  BY <2>1 DEF KeysInv, ProcNext, Create, Setnok, Kill, KillRest, MayCall
<1>3. ASSUME NEW priority \in Prios \cup {0}, Create(priority) PROVE KeysInv'
  <2>1. clockq' = clockq /\ sched'.qkey = sched.qkey
    BY <1>1, <1>3 DEF Create, clockVars, schedVars, SchedType
  <2> QED  BY <1>2, <2>1, KeysStay
<1>4. ASSUME NEW nok \in UserPid, NEW pid \in UserPid, Setnok(nok, pid) PROVE KeysInv'
  BY <1>2, <1>4, KeysStay DEF Setnok, clockVars, schedVars
<1>5. ASSUME NEW pid \in UserPid, Kill(pid) PROVE KeysInv'
  BY <1>2, <1>5, SendKeepsKeys DEF Kill
<1>6. ASSUME KillRest PROVE KeysInv'
  <2> DEFINE pid == cont[currpid].x
  <2>1. pid \in UserPid /\ pid \in Pid
    BY <1>6, BasicTypes, NullprocIsPid DEF KillRest, IInv, ContOK
  <2> HIDE DEF pid
  <2>2. CASE pstate[pid] = "PRCURR" /\ sched' = Block(sched, "PRFREE") /\ UNCHANGED clockVars
    <3>1. pid = sched.currpid
      BY <1>1, <2>1, <2>2 DEF Consistent, pstate
    <3>2. \A r \in P : sched'.qkey[r] = sched.qkey[r]
      BY <1>1, <2>1, <2>2, <3>1, StatesNamed, BlockKeepsSleepers
    <3> QED  BY <1>2, <2>2, <3>2, KeysStay DEF clockVars, P
  <2>3. CASE pstate[pid] = "PRREADY" /\ sched' = Unready(sched, pid, "PRFREE")
             /\ UNCHANGED clockVars
    <3>1. \A r \in P : r # pid
      BY <1>1, <2>3 DEF pstate
    <3>2. \A r \in P : sched'.qkey[r] = sched.qkey[r]
      BY <1>1, <2>1, <2>3, <3>1, UnreadyKeys
    <3> QED  BY <1>2, <2>3, <3>2, KeysStay DEF clockVars, P
  <2>4. CASE /\ pstate[pid] \in {"PRSLEEP", "PRTRECV"} /\ Unsleep(pid)
             /\ sched' = [sched EXCEPT !.qkey = UnsleepKeys(pid), !.pstate[pid] = "PRFREE"]
    <3>1. pid \in P
      BY <2>1, <2>4, BasicTypes DEF P, Sleepers, Runnable
    <3>2. clockq' = Dequeue(clockq, pid) /\ sched'.qkey = UnsleepKeys(pid)
      BY <1>1, <2>4 DEF Unsleep, SchedType
    <3> QED  BY <1>2, <3>1, <3>2, UnsleepInKeys DEF P
  <2>5. CASE sched' = [sched EXCEPT !.pstate[pid] = "PRFREE"] /\ UNCHANGED clockVars
    <3>1. clockq' = clockq /\ sched'.qkey = sched.qkey
      BY <1>1, <2>5 DEF clockVars, SchedType
    <3> QED  BY <1>2, <3>1, KeysStay
  <2> QED  BY <1>6, <2>2, <2>3, <2>4, <2>5 DEF KillRest, pid
<1> QED  BY <1>3, <1>4, <1>5, <1>6 DEF ProcNext

-----------------------------------------------------------------------------
LEMMA KeysInvStep ==
  ASSUME IInv, KeysInv, [Next]_vars
  PROVE  KeysInv'
<1>1. CASE SchedNext /\ UNCHANGED <<semVars, clockVars, mbox, procVars>>
  BY <1>1, SchedKeepsKeys DEF clockVars
<1>2. CASE SemNext /\ UNCHANGED <<clockVars, mbox, procVars>>
  BY <1>2, SemKeepsKeys DEF clockVars
<1>3. CASE UNCHANGED vars
  BY <1>3 DEF vars, schedVars, clockVars, KeysInv, NatKeys, currpid
<1> QED
  BY <1>1, <1>2, <1>3, ClockKeepsKeys, MsgKeepsKeys, ProcKeepsKeys DEF Next

(* The clock interrupt always counts down the process due first, and no    *)
(* sleeper is overdue but while wakeup is at work: insertd, unsleep and    *)
(* wakeup keep every increment a natural number.                           *)
THEOREM ClockAlwaysPoints == Spec => []ClockPointsAtFirst
<1>1. Init => KeysInv
  <2> SUFFICES ASSUME Init PROVE KeysInv
    OBVIOUS
  <2>1. Len(clockq) = 0
    BY DEF Init, ClockInit
  <2> QED  BY <2>1 DEF KeysInv, NatKeys
<1>2. IInv /\ KeysInv /\ [Next]_vars => IInv' /\ KeysInv'
  BY IInvStep, KeysInvStep
<1>3. IInv /\ KeysInv => ClockPointsAtFirst
  BY DEF IInv, SltopOK, KeysInv, NatKeys, ClockPointsAtFirst
<1> QED
  BY <1>1, <1>2, <1>3, IInvInit, PTL DEF Spec
-----------------------------------------------------------------------------
(* The semaphores implement SemaphoreSpec.  What its variables stand for:  *)
InUse      == {s \in Sem : Used(s)}
BeingReset == {s \in Sem : cont[currpid].op = "sreset" /\ cont[currpid].x = s}
Units      == [s \in Sem |-> IF semcnt[s] > 0 THEN semcnt[s] ELSE 0]
Alive      == {p \in Pid : pstate[p] # "PRFREE"}

AliveIsViewed == Alive = {p \in Pid : View(sched)[p] # "PRFREE"}

LEMMA AliveByView == IInv => AliveIsViewed
BY BasicTypes DEF AliveIsViewed, Alive, Runnable, View, pstate

(* Whoever waits is alive.                                                 *)
WaitersAlive == \A s \in Sem : ToSet(semq[s]) \subseteq Alive

LEMMA WaitersLive == IInv => WaitersAlive
<1> SUFFICES ASSUME IInv, NEW s \in Sem PROVE ToSet(semq[s]) \subseteq Alive
  BY DEF WaitersAlive
<1>1. ToSet(semq[s]) = Waiters(View(sched), psem, s)
  BY DEF IInv, QueuesOK, Holds
<1> QED  BY <1>1, AliveByView DEF Waiters, AliveIsViewed

(* Outside the loops nothing is being reset, and other processes may come  *)
(* and go.                                                                 *)
LEMMA NothingReset ==
  ASSUME cont[currpid].op \notin Emptying
  PROVE  BeingReset = {}
BY DEF BeingReset, Emptying

LEMMA QuietPopulates ==
  ASSUME IInv, IInv', Quiet
  PROVE  SemSpec!Populate
<1>1. BeingReset = {} /\ BeingReset' = {}
  <2>1. cont'[currpid'].op \notin Emptying
    BY NoneEmptying DEF Quiet
  <2> QED  BY <2>1, NothingReset DEF Quiet, BeingReset, Emptying
<1>2. InUse' = InUse /\ Units' = Units /\ semq' = semq
  BY DEF Quiet, semTable, InUse, Units, Used
<1>3. WaitersAlive'
  BY WaitersLive, PTL
<1>4. UNION {ToSet(semq[s]) : s \in Sem} \subseteq Alive'
  BY <1>2, <1>3 DEF WaitersAlive
<1>5. Alive' \in SUBSET Pid
  BY DEF Alive
<1> QED
  BY <1>1, <1>2, <1>4, <1>5 DEF SemSpec!Populate, SemSpec!Waiting, SemSpec!ToSet, ToSet, InUse, BeingReset, Units, Alive
-----------------------------------------------------------------------------
(* signaln works on a semaphore that is in use.                            *)
SignalnInv ==
  \A p \in Pid : cont[p].op = "signaln" => cont[p].x \in InUse

SetsNoSignaln ==
  \/ cont' = cont
  \/ \E p \in Pid : \E c : c.op # "signaln" /\ cont' = [cont EXCEPT ![p] = c]

LEMMA SignalnStays ==
  ASSUME IInv, SignalnInv, SetsNoSignaln, InUse \subseteq InUse'
  PROVE  SignalnInv'
BY DEF IInv, ContOK, SignalnInv, SetsNoSignaln

LEMMA NoSignalnOps ==
  /\ User.op # "signaln"
  /\ \A op, x, n : op # "signaln" => Cont(op, x, n).op # "signaln"
BY DEF User, Cont

LEMMA SignalnStep ==
  ASSUME IInv, SignalnInv, [Next]_vars
  PROVE  SignalnInv'
<1>1. currpid \in Pid /\ sstate \in [Sem -> {"SFREE", "SUSED"}]
  BY SemTypes
<1>2. ASSUME UNCHANGED sstate PROVE InUse' = InUse
  BY <1>2 DEF InUse, Used
<1>3. CASE SchedNext /\ UNCHANGED <<semVars, clockVars, mbox, procVars>>
  <2>1. cont' = cont
    BY <1>3 DEF SchedNext, Resume, Suspend, Chprio, Yield
  <2> QED  BY <1>2, <1>3, <2>1, SignalnStays DEF SetsNoSignaln, semVars
<1>4. CASE ClockNext /\ UNCHANGED <<semVars, mbox, procVars>>
  <2>1. SetsNoSignaln
    BY <1>1, <1>4, NoSignalnOps
       DEF SetsNoSignaln, ClockNext, Sleep, ClockTick, WakeupLoop, ClkintRest
  <2> QED  BY <1>2, <1>4, <2>1, SignalnStays DEF semVars
<1>5. CASE MsgNext /\ UNCHANGED <<semVars, procVars>>
  <2>1. SetsNoSignaln
    BY <1>1, <1>5, NoSignalnOps DEF SetsNoSignaln, MsgNext, SendCall, Receive, ReceiveRest,
       Recvclr, Recvtim, RecvtimRest
  <2> QED  BY <1>2, <1>5, <2>1, SignalnStays DEF semVars
<1>6. CASE ProcNext
  <2>1. sstate' = sstate
    BY <1>6 DEF ProcNext, Create, Setnok, Kill, KillRest, semVars, semTable
  <2>2. CASE KillRest
    <3>1. cont' = [cont EXCEPT ![currpid] = User, ![cont[currpid].x] = User]
      BY <2>2 DEF KillRest
    <3>2. \A p \in Pid : cont'[p] = cont[p] \/ cont'[p] = User
      BY <3>1 DEF IInv, ContOK
    <3> QED  BY <1>2, <2>1, <3>2, NoSignalnOps DEF SignalnInv
  <2>3. CASE \E priority \in Prios \cup {0} : Create(priority)
    <3> DEFINE pid == SlotBelow(nextproc, NPROC, FreeSlots)
    <3>1. pid \in Pid
      BY <2>3, NewSlot DEF Create, FreeSlots
    <3>2. cont' = cont \/ cont' = [cont EXCEPT ![pid] = User]
      BY <2>3 DEF Create, schedVars
    <3> HIDE DEF pid
    <3> QED  BY <1>2, <2>1, <3>1, <3>2, NoSignalnOps, SignalnStays DEF SetsNoSignaln
  <2>4. CASE ~KillRest /\ ~ \E priority \in Prios \cup {0} : Create(priority)
    <3>1. SetsNoSignaln
      BY <1>1, <1>6, <2>4, NoSignalnOps DEF SetsNoSignaln, ProcNext, Setnok, Kill, schedVars
    <3> QED  BY <1>2, <2>1, <3>1, SignalnStays
  <2> QED  BY <2>2, <2>3, <2>4
<1>7. CASE SemNext
  <2>1. ASSUME NEW s \in Sem, NEW count \in 1..MaxCount, Signaln(s, count) PROVE SignalnInv'
    <3> DEFINE c == Cont("signaln", s, count)
    <3>1. s \in InUse /\ InUse' = InUse
      BY <1>2, <2>1 DEF Signaln, InUse, semVars
    <3>2. c.x = s
      BY DEF Cont
    <3>3. cont' = [cont EXCEPT ![currpid] = c]
      BY <2>1 DEF Signaln
    <3> HIDE DEF c
    <3> QED  BY <1>1, <3>1, <3>2, <3>3 DEF IInv, ContOK, SignalnInv
  <2>2. CASE SignalnLoop
    <3>1. InUse' = InUse
      BY <1>2, <2>2 DEF SignalnLoop, SignalOnce, semVars
    <3>2. \A p \in Pid : \/ cont'[p] = User
                         \/ cont'[p].op = cont[p].op /\ cont'[p].x = cont[p].x
      <4>1. \/ cont' = [cont EXCEPT ![currpid] = User]
            \/ cont' = [cont EXCEPT ![currpid].n = cont[currpid].n - 1]
        BY <2>2 DEF SignalnLoop
      <4>2. cont \in [Pid -> ContType]
        BY DEF IInv, ContOK
      <4>3. CASE cont' = [cont EXCEPT ![currpid] = User]
        BY <1>1, <4>2, <4>3
      <4>4. CASE cont' = [cont EXCEPT ![currpid].n = cont[currpid].n - 1]
        BY <1>1, <4>2, <4>4 DEF ContType
      <4> QED  BY <4>1, <4>3, <4>4
    <3> QED  BY <3>1, <3>2, NoSignalnOps DEF SignalnInv
  <2>3. ASSUME NEW count \in Counts, Screate(count) PROVE SignalnInv'
    <3>1. cont' = cont /\ InUse \subseteq InUse'
      BY <1>1, <2>3 DEF Screate, InUse, Used
    <3> QED  BY <3>1, SignalnStays DEF SetsNoSignaln
  <2>4. ASSUME NEW s \in Sem, Sdelete(s) PROVE SignalnInv'
    <3>1. \A p \in Pid : cont[p].op # "signaln"
      BY <2>4, CallerEmptiesNone, SemTypes DEF Sdelete, MayCall, LoopOps
    <3>2. \A p \in Pid : cont'[p] = cont[p] \/ cont'[p] = Cont("sdelete", s, 0)
      BY <2>4 DEF Sdelete, IInv, ContOK
    <3> QED  BY <3>1, <3>2, NoSignalnOps DEF SignalnInv
  <2>5. ASSUME NEW s \in Sem, Wait(s) \/ Signal(s) \/ DeviceSignal(s) PROVE SignalnInv'
    <3>1. cont' = cont /\ sstate' = sstate
      BY <2>5 DEF Wait, Signal, DeviceSignal, SignalOnce
    <3> QED  BY <1>2, <3>1, SignalnStays DEF SetsNoSignaln
  <2>6. CASE SdeleteLoop \/ SresetLoop \/ \E s \in Sem, count \in Counts : Sreset(s, count)
    <3>1. SetsNoSignaln /\ sstate' = sstate
      BY <1>1, <2>6, NoSignalnOps DEF SetsNoSignaln, SdeleteLoop, SresetLoop, Sreset, semVars
    <3> QED  BY <1>2, <3>1, SignalnStays
  <2> QED  BY <1>7, <2>1, <2>2, <2>3, <2>4, <2>5, <2>6 DEF SemNext
<1>8. CASE UNCHANGED vars
  BY <1>2, <1>8, SignalnStays DEF vars, schedVars, semVars, SetsNoSignaln
<1> QED  BY <1>3, <1>4, <1>5, <1>6, <1>7, <1>8 DEF Next
-----------------------------------------------------------------------------
UnitsTyped ==
  Units \in [Sem -> Nat] /\ \A s \in Sem : Units[s] = IF semcnt[s] > 0 THEN semcnt[s] ELSE 0

LEMMA UnitsAreTyped == IInv => UnitsTyped
BY SemTypes DEF UnitsTyped, Units

(* One count is set.                                                       *)
LEMMA CountIsSet ==
  ASSUME IInv, IInv', NEW s \in Sem, \A u \in Sem \ {s} : semcnt'[u] = semcnt[u]
  PROVE  /\ Units \in [Sem -> Nat] /\ Units' \in [Sem -> Nat]
         /\ Units[s] = IF semcnt[s] > 0 THEN semcnt[s] ELSE 0
         /\ Units'[s] = IF semcnt'[s] > 0 THEN semcnt'[s] ELSE 0
         /\ \A u \in Sem \ {s} : Units'[u] = Units[u]
<1>1. UnitsTyped /\ UnitsTyped'
  BY UnitsAreTyped, PTL
<1> QED  BY <1>1 DEF UnitsTyped

(* A step in which a state changes and no one dies.                        *)
LEMMA NoDeath ==
  ASSUME IInv, IInv',
         \/ View(sched') = View(sched)
         \/ \E p \in Pid : \E st : /\ st # "PRFREE" /\ View(sched)[p] # "PRFREE"
                                   /\ View(sched') = [View(sched) EXCEPT ![p] = st]
  PROVE  Alive' = Alive
<1>1. AliveIsViewed /\ AliveIsViewed'
  BY AliveByView, PTL
<1>2. View(sched) \in Views
  BY BasicTypes
<1> QED  BY <1>1, <1>2 DEF AliveIsViewed, Views

(* The first of a queue is readied, with or without a reschedule.          *)
LEMMA FirstLives ==
  ASSUME IInv, IInv', NEW s \in Sem, semq[s] # <<>>,
         \/ sched' = Ready(sched, Head(semq[s]))
         \/ sched' = ReadyNow(sched, Head(semq[s]))
  PROVE  Alive' = Alive
<1> DEFINE p == Head(semq[s])
<1>1. p \in Pid /\ View(sched)[p] = "PRWAIT"
  BY BasicTypes, StatesNamed, QueuesFirst DEF IInv
<1> HIDE DEF p
<1>2. View(sched') = [View(sched) EXCEPT ![p] = "PRREADY"]
  BY <1>1, ReadyStep, ReadyNowStep DEF p, IInv
<1> QED  BY <1>1, <1>2, NoDeath

LEMMA ReschedLives ==
  ASSUME IInv, IInv', sched' = sched \/ sched' = Resched(sched)
  PROVE  Alive' = Alive
BY ReschedStep, NoDeath DEF IInv

LEMMA NoneResetNext ==
  ASSUME IInv, IInv', cont[currpid].op \notin Emptying,
         \A p \in Pid : cont'[p] = cont[p] \/ cont'[p].op \notin Emptying
  PROVE  BeingReset = {} /\ BeingReset' = {}
<1>1. cont'[currpid'].op \notin Emptying
  BY NoneEmptying
<1> QED  BY <1>1, NothingReset DEF BeingReset, Emptying

LEMMA InUseStays ==
  ASSUME sstate' = sstate
  PROVE  InUse' = InUse
BY DEF InUse, Used

(* signal, one turn of signaln, or a device's signal: a unit goes to the   *)
(* first in the queue.                                                     *)
LEMMA SignalGives ==
  ASSUME IInv, CountInv, IInv', NEW s \in InUse, NEW b \in BOOLEAN, SignalOnce(s, b),
         cont[currpid].op \notin Emptying,
         \A p \in Pid : cont'[p] = cont[p] \/ cont'[p].op \notin Emptying
  PROVE  SemSpec!Give(s)
<1>1. /\ s \in Sem /\ sstate[s] = "SUSED" /\ semcnt[s] \in Int
      /\ semq[s] \in Seq(Pid)
  BY SemTypes DEF InUse, Used
<1>2. Len(semq[s]) = IF semcnt[s] < 0 THEN -semcnt[s] ELSE 0
  BY <1>1 DEF CountInv, CountMatches
<1>3. semq[s] = <<>> <=> semcnt[s] >= 0
  BY <1>1, <1>2, EmptySeq
<1>4. semcnt' = [semcnt EXCEPT ![s] = semcnt[s] + 1] /\ InUse' = InUse
  BY InUseStays DEF SignalOnce
<1>5. BeingReset' = BeingReset
  BY NoneResetNext
<1>8. semcnt'[s] = semcnt[s] + 1 /\ \A u \in Sem \ {s} : semcnt'[u] = semcnt[u]
  BY <1>1, <1>4, SemTypes
<1>6. CASE semq[s] = <<>>
  <2>1. sched' = sched /\ semq' = semq
    BY <1>6 DEF SignalOnce
  <2>2. Units' = [Units EXCEPT ![s] = Units[s] + 1]
    BY <1>1, <1>3, <1>4, <1>6, <1>8, CountIsSet
  <2>3. Alive' = Alive
    BY <2>1, ReschedLives
  <2> QED
    BY <1>4, <1>5, <1>6, <2>1, <2>2, <2>3
       DEF SemSpec!Give, InUse, BeingReset, Units, Alive
<1>7. CASE semq[s] # <<>>
  <2>1. /\ semq' = [semq EXCEPT ![s] = Tail(@)]
        /\ sched' = Ready(sched, Head(semq[s])) \/ sched' = ReadyNow(sched, Head(semq[s]))
    BY <1>1, <1>3, <1>7 DEF SignalOnce, Wake
  <2>2. Units' = Units
    BY <1>1, <1>3, <1>4, <1>7, <1>8, CountIsSet
  <2>3. Alive' = Alive
    BY <1>1, <1>7, <2>1, FirstLives
  <2> QED
    BY <1>4, <1>5, <1>7, <2>1, <2>2, <2>3
       DEF SemSpec!Give, InUse, BeingReset, Units, Alive
<1> QED  BY <1>6, <1>7

LEMMA WaitTakes ==
  ASSUME IInv, CountInv, IInv', NEW s \in Sem, Wait(s)
  PROVE  SemSpec!Take(s) \/ SemSpec!Queue(s, currpid)
<1>1. cont[currpid].op \notin Emptying /\ cont' = cont
  BY CallerEmptiesNone DEF Wait, MayCall
<1>2. /\ s \in InUse /\ InUse' = InUse /\ semcnt[s] \in Int
      /\ semcnt' = [semcnt EXCEPT ![s] = semcnt[s] - 1]
  BY SemTypes, InUseStays DEF Wait, InUse
<1>3. BeingReset' = BeingReset
  BY <1>1, NoneResetNext
<1>6. semcnt'[s] = semcnt[s] - 1 /\ \A u \in Sem \ {s} : semcnt'[u] = semcnt[u]
  BY <1>2, SemTypes
<1>4. CASE semcnt[s] > 0
  <2>1. sched' = sched /\ semq' = semq
    BY <1>2, <1>4 DEF Wait
  <2>2. Alive' = Alive
    BY <2>1, ReschedLives
  <2>3. Units[s] > 0 /\ Units' = [Units EXCEPT ![s] = Units[s] - 1]
    BY <1>2, <1>4, <1>6, CountIsSet
  <2> QED
    BY <1>2, <1>3, <2>1, <2>2, <2>3 DEF SemSpec!Take, InUse, BeingReset, Units, Alive
<1>5. CASE semcnt[s] <= 0
  <2>1. /\ sched' = Block(sched, "PRWAIT")
        /\ semq' = [semq EXCEPT ![s] = Append(@, currpid)]
    BY <1>2, <1>5 DEF Wait, Enqueue
  <2>2. currpid \in UserPid /\ currpid \in Pid /\ View(sched)[currpid] = "PRREADY"
    BY BasicTypes, NullprocIsPid DEF Wait, MayCall, UserPid
  <2>3. View(sched') = [View(sched) EXCEPT ![currpid] = "PRWAIT"]
    BY <2>1, <2>2, StatesNamed, BlockStep DEF IInv, currpid
  <2>4. Alive' = Alive
    BY <2>2, <2>3, NoDeath
  <2>5. Units[s] = 0 /\ Units' = Units
    BY <1>2, <1>5, <1>6, CountIsSet
  <2>6. currpid \in Alive
    BY <2>2, AliveByView DEF AliveIsViewed
  <2>7. currpid \notin UNION {ToSet(semq[u]) : u \in Sem}
    <3> SUFFICES ASSUME NEW u \in Sem PROVE currpid \notin ToSet(semq[u])
      OBVIOUS
    <3> QED  BY <2>2 DEF IInv, QueuesOK, Holds, Waiters
  <2> QED
    BY <1>2, <1>3, <2>1, <2>4, <2>5, <2>6, <2>7
       DEF SemSpec!Queue, SemSpec!Waiting, SemSpec!ToSet, ToSet, InUse, BeingReset, Units, Alive
<1> QED  BY <1>2, <1>4, <1>5

LEMMA ScreateBears ==
  ASSUME IInv, CountInv, IInv', NEW count \in Counts, Screate(count)
  PROVE  \E s \in Sem : SemSpec!Birth(s, count)
<1> DEFINE free == {u \in Sem : ~Used(u)}
           s    == SlotBelow(nextsem, NSEM, free)
<1>1. cont[currpid].op \notin Emptying /\ cont' = cont /\ sched' = sched
  BY CallerEmptiesNone DEF Screate, MayCall
<1>2. s \in Sem /\ ~Used(s)
  BY NewSem DEF Screate
<1>3. /\ sstate' = [sstate EXCEPT ![s] = "SUSED"]
      /\ semcnt' = [semcnt EXCEPT ![s] = count] /\ semq' = semq
  BY DEF Screate
<1> HIDE DEF s
<1>4. semq[s] = <<>>
  BY <1>1, <1>2, SemTypes DEF CountInv, CountMatches, Used
<1>5. s \notin InUse /\ InUse' = InUse \cup {s}
  BY <1>2, <1>3, SemTypes DEF InUse, Used
<1>6. Units' = [Units EXCEPT ![s] = count]
  <2>1. count \in Nat
    BY SemAssumption
  <2>2. semcnt'[s] = count /\ \A u \in Sem \ {s} : semcnt'[u] = semcnt[u]
    BY <1>2, <1>3, SemTypes
  <2> QED  BY <1>2, <2>1, <2>2, CountIsSet
<1>7. Alive' = Alive /\ BeingReset' = BeingReset
  BY <1>1, ReschedLives, NoneResetNext
<1>8. SemSpec!Birth(s, count)
  BY <1>3, <1>4, <1>5, <1>6, <1>7 DEF SemSpec!Birth, InUse, BeingReset, Units, Alive
<1> QED  BY <1>2, <1>8

(* sdelete and sreset enter their loops ...                                *)
LEMMA SdeleteDeletes ==
  ASSUME IInv, IInv', NEW s \in Sem, Sdelete(s)
  PROVE  SemSpec!Delete(s)
<1>1. cont[currpid].op \notin Emptying
  BY CallerEmptiesNone DEF Sdelete, MayCall
<1>2. /\ sstate' = [sstate EXCEPT ![s] = "SFREE"] /\ sched' = sched
      /\ UNCHANGED <<semcnt, semq>> /\ s \in InUse
  BY DEF Sdelete, InUse
<1>3. InUse' = InUse \ {s}
  BY <1>2, SemTypes DEF InUse, Used
<1>4. Units' = Units /\ Alive' = Alive
  BY <1>2 DEF Units, Alive, pstate
<1>5. BeingReset = {} /\ BeingReset' = {}
  <2>1. BeingReset = {}
    BY <1>1, NothingReset
  <2>2. cont'[currpid'].op # "sreset"
    <3>1. cont'[currpid] = cont[currpid] \/ cont'[currpid] = Cont("sdelete", s, 0)
      BY BasicTypes DEF Sdelete, IInv, ContOK
    <3>2. Cont("sdelete", s, 0).op # "sreset" /\ currpid' = currpid
      BY <1>2, ContOps DEF currpid
    <3> QED  BY <1>1, <3>1, <3>2 DEF Emptying
  <2> QED  BY <2>1, <2>2 DEF BeingReset
<1> QED
  BY <1>2, <1>3, <1>4, <1>5 DEF SemSpec!Delete, InUse, BeingReset, Units, Alive

LEMMA SresetBegins ==
  ASSUME IInv, NEW s \in Sem, NEW count \in Counts, Sreset(s, count)
  PROVE  SemSpec!BeginReset(s)
<1> DEFINE c == Cont("sreset", s, count)
<1>1. cont[currpid].op \notin Emptying /\ s \in InUse
  BY CallerEmptiesNone DEF Sreset, MayCall, InUse
<1>2. cont' = [cont EXCEPT ![currpid] = c] /\ UNCHANGED <<sched, sstate, semcnt, semq>>
  BY DEF Sreset, semVars
<1>3. c.op = "sreset" /\ c.x = s
  BY DEF Cont
<1> HIDE DEF c
<1>4. cont'[currpid'] = c
  BY <1>2, BasicTypes DEF IInv, ContOK, currpid
<1>5. BeingReset = {} /\ BeingReset' = {s}
  BY <1>1, <1>3, <1>4, NothingReset DEF BeingReset
<1>6. InUse' = InUse /\ Units' = Units /\ Alive' = Alive
  BY <1>2 DEF InUse, Used, Units, Alive, pstate
<1> QED
  BY <1>1, <1>2, <1>5, <1>6 DEF SemSpec!BeginReset, InUse, BeingReset, Units, Alive

(* ... in which each turn lets the first waiter go ...                     *)
LEMMA TurnDrains ==
  ASSUME IInv, IInv', cont[currpid].op \in Emptying,
         NEW s \in Sem, s = cont[currpid].x, s \notin InUse \/ s \in BeingReset,
         semq[s] # <<>>, semq' = [semq EXCEPT ![s] = Tail(@)],
         sched' = Ready(sched, Head(semq[s])),
         UNCHANGED <<cont, sstate, semcnt, psem, clockq>>
  PROVE  SemSpec!Drain(s)
<1>1. currpid' = currpid
  BY FirstReady
<1>2. InUse' = InUse /\ Units' = Units /\ BeingReset' = BeingReset
  BY <1>1 DEF InUse, Used, Units, BeingReset
<1>3. Alive' = Alive
  BY FirstLives
<1> QED
  BY <1>2, <1>3 DEF SemSpec!Drain, InUse, BeingReset, Units, Alive

(* ... and in the end nothing is being reset.                              *)
LEMMA EndResetsNone ==
  ASSUME IInv, IInv', cont[currpid].op \in Emptying,
         cont' = [cont EXCEPT ![currpid] = User], sched' = Resched(sched)
  PROVE  BeingReset' = {} /\ Alive' = Alive
<1>1. \A p \in Pid : cont'[p].op \notin Emptying
  BY SemTypes, ContOps DEF IInv, ContOK, Emptying, LoopOps
<1>2. currpid' \in Pid
  BY DEF IInv, Consistent, SchedType, currpid
<1>3. BeingReset' = {}
  BY <1>1, <1>2 DEF BeingReset, Emptying
<1> QED  BY <1>3, ReschedLives

LEMMA SdeleteLoopDrains ==
  ASSUME IInv, CountInv, IInv', SdeleteLoop, UNCHANGED clockVars
  PROVE  \/ \E s \in Sem : SemSpec!Drain(s)
         \/ UNCHANGED <<InUse, BeingReset, Units, semq, Alive>>
<1> DEFINE s == cont[currpid].x
<1>1. cont[currpid].op = "sdelete" /\ cont[currpid].op \in Emptying
  BY DEF SdeleteLoop, Emptying
<1>2. s \in Sem /\ s \notin InUse
  BY <1>1 DEF CountInv, InUse
<1>3. CASE semq[s] # <<>>
  <2>1. SemSpec!Drain(s)
    BY <1>1, <1>2, <1>3, TurnDrains DEF SdeleteLoop, clockVars
  <2> QED  BY <1>2, <2>1
<1>4. CASE semq[s] = <<>>
  <2>1. /\ sched' = Resched(sched) /\ cont' = [cont EXCEPT ![currpid] = User]
        /\ UNCHANGED <<sstate, semcnt, semq>>
    BY <1>4 DEF SdeleteLoop
  <2>2. BeingReset = {} /\ BeingReset' = {} /\ Alive' = Alive
    BY <1>1, <2>1, EndResetsNone DEF BeingReset
  <2> QED  BY <2>1, <2>2 DEF InUse, Used, Units
<1> QED  BY <1>3, <1>4

LEMMA SresetLoopDrains ==
  ASSUME IInv, CountInv, IInv', SresetLoop, UNCHANGED clockVars
  PROVE  \E s \in Sem : \/ SemSpec!Drain(s)
                        \/ \E n \in Counts : SemSpec!EndReset(s, n)
<1>1. cont[currpid].op = "sreset" /\ cont[currpid].op \in Emptying
  BY DEF SresetLoop, Emptying
<1>0. PICK s \in Sem, n \in Counts :
        s = cont[currpid].x /\ n = cont[currpid].n /\ Used(s)
  BY <1>1 DEF CountInv
<1>2. s \in InUse /\ s \in BeingReset /\ BeingReset = {s}
  BY <1>0, <1>1 DEF InUse, BeingReset
<1>3. CASE semq[s] # <<>>
  <2>1. SemSpec!Drain(s)
    BY <1>0, <1>1, <1>2, <1>3, TurnDrains DEF SresetLoop, clockVars
  <2> QED  BY <2>1
<1>4. CASE semq[s] = <<>>
  <2>1. /\ sched' = Resched(sched) /\ cont' = [cont EXCEPT ![currpid] = User]
        /\ semcnt' = [semcnt EXCEPT ![s] = n]
        /\ UNCHANGED <<sstate, semq>>
    BY <1>0, <1>4 DEF SresetLoop
  <2>2. BeingReset' = {} /\ Alive' = Alive
    BY <1>1, <2>1, EndResetsNone
  <2>3. n \in Nat
    BY SemAssumption
  <2>4. semcnt'[s] = n /\ \A u \in Sem \ {s} : semcnt'[u] = semcnt[u]
    BY <2>1, SemTypes
  <2>5. Units' = [Units EXCEPT ![s] = n]
    BY <2>3, <2>4, CountIsSet
  <2>6. SemSpec!EndReset(s, n)
    BY <1>2, <1>4, <2>1, <2>2, <2>5, InUseStays
       DEF SemSpec!EndReset, InUse, BeingReset, Units, Alive
  <2> QED  BY <2>6
<1> QED  BY <1>3, <1>4

(* A process that dies while it waits: its place goes.                     *)
LEMMA KillRestDies ==
  ASSUME IInv, CountInv, IInv', KillRest
  PROVE  Quiet \/ \E s \in Sem, p \in Pid : SemSpec!DieWaiting(s, p)
<1>1. /\ cont[currpid].op \notin Emptying /\ cont[currpid].x \in UserPid
      /\ cont[currpid].x \in Pid /\ currpid \in Pid
  BY SemTypes, NullprocIsPid DEF KillRest, Emptying, IInv, ContOK
<1>2. PICK p \in UserPid : p = cont[currpid].x
  BY <1>1
<1>3. PICK s \in Sem : s = psem[p]
  BY <1>1, <1>2 DEF IInv, QueuesOK
<1>4. \A q \in Pid : cont'[q] = cont[q] \/ cont'[q].op \notin Emptying
  <2>1. cont' = [cont EXCEPT ![currpid] = User, ![p] = User]
    BY <1>2 DEF KillRest
  <2>2. \A q \in Pid : cont'[q] = cont[q] \/ cont'[q] = User
    BY <1>1, <1>2, <2>1 DEF IInv, ContOK
  <2> QED  BY <2>2, ContOps DEF Emptying
<1>5. sstate' = sstate
  BY DEF KillRest
<1>6. CASE UNCHANGED <<semcnt, semq>>
  BY <1>1, <1>4, <1>5, <1>6 DEF Quiet, semTable
<1>7. CASE /\ pstate[p] = "PRWAIT" /\ semcnt' = [semcnt EXCEPT ![s] = @ + 1]
           /\ semq' = [semq EXCEPT ![s] = Dequeue(@, p)]
           /\ sched' = [sched EXCEPT !.pstate[p] = "PRFREE"]
  <2>1. p \in Pid /\ View(sched)[p] = "PRWAIT"
    BY <1>1, <1>2, <1>7, BasicTypes DEF Runnable
  <2>2. p \in Waiters(View(sched), psem, s)
        /\ semq[s] \in Seq(Pid) /\ Holds(semq[s], Waiters(View(sched), psem, s))
    BY <1>3, <2>1, SemTypes DEF IInv, QueuesOK, Waiters
  <2>3. PosOf(semq[s], p) \in 1..Len(semq[s]) /\ semq[s][PosOf(semq[s], p)] = p
    BY <2>2, HoldsDequeue
  <2>4. semcnt[s] \in Int /\ semcnt[s] < 0
    <3>1. semq[s] # <<>> /\ Len(semq[s]) > 0
      BY <2>2, <2>3, LenProperties
    <3>2. CountMatches(sstate[s], semcnt[s], semq[s])
      BY <1>1 DEF CountInv
    <3> QED  BY <3>1, <3>2, SemTypes DEF CountMatches
  <2>5. Units' = Units
    <3>1. semcnt'[s] = semcnt[s] + 1 /\ \A u \in Sem \ {s} : semcnt'[u] = semcnt[u]
      BY <1>7, SemTypes
    <3> QED  BY <2>4, <3>1, CountIsSet
  <2>6. Alive' = Alive \ {p}
    <3>1. pstate' = [pstate EXCEPT ![p] = "PRFREE"] /\ pstate \in [Pid -> States]
      BY <1>7, <2>1, BasicTypes DEF pstate, SchedType
    <3> QED  BY <2>1, <3>1 DEF Alive
  <2>7. InUse' = InUse /\ BeingReset' = BeingReset
    BY <1>1, <1>4, <1>5, InUseStays, NoneResetNext
  <2>8. SemSpec!DieWaiting(s, p)
    <3> DEFINE i == PosOf(semq[s], p)
    <3>1. semq' = [semq EXCEPT ![s] = RemoveAt(@, i)]
      BY <1>7 DEF Dequeue
    <3> HIDE DEF i
    <3>2. \E j \in 1..Len(semq[s]) :
            semq[s][j] = p /\ semq' = [semq EXCEPT ![s] = RemoveAt(@, j)]
      BY <2>3, <3>1 DEF i
    <3> QED
      BY <2>5, <2>6, <2>7, <3>2
         DEF SemSpec!DieWaiting, SemSpec!RemoveAt, RemoveAt, InUse, BeingReset, Units, Alive
  <2> QED  BY <2>1, <2>8
<1> QED  BY <1>2, <1>3, <1>6, <1>7 DEF KillRest

-----------------------------------------------------------------------------
LEMMA SemSpecInit == Init => SemSpec!Init
<1> SUFFICES ASSUME Init PROVE SemSpec!Init
  OBVIOUS
<1>1. InUse = {} /\ Units = [s \in Sem |-> 0] /\ semq = [s \in Sem |-> <<>>]
  BY DEF Init, SemInit, InUse, Used, Units
<1>2. BeingReset = {}
  <2>1. IInv /\ cont = [p \in Pid |-> User]
    BY IInvInit DEF Init, SchedInit
  <2>2. cont[currpid].op \notin Emptying
    BY <2>1, BasicTypes, ContOps DEF Emptying
  <2> QED  BY <2>2, NothingReset
<1>3. Alive \subseteq Pid
  BY DEF Alive
<1> QED  BY <1>1, <1>2, <1>3 DEF SemSpec!Init, InUse, BeingReset, Units, Alive

LEMMA SemSpecStep ==
  ASSUME IInv, CountInv, SignalnInv, IInv', [Next]_vars
  PROVE  SemSpec!Next \/ UNCHANGED <<InUse, BeingReset, Units, semq, Alive>>
<1>1. ASSUME Quiet PROVE SemSpec!Next
  BY <1>1, QuietPopulates DEF SemSpec!Next
<1>2. CASE SchedNext /\ UNCHANGED <<semVars, clockVars, mbox, procVars>>
  BY <1>1, <1>2, SchedIsQuiet DEF semVars, semTable
<1>3. CASE ClockNext /\ UNCHANGED <<semVars, mbox, procVars>>
  BY <1>1, <1>3, ClockIsQuiet DEF semVars, semTable
<1>4. CASE MsgNext /\ UNCHANGED <<semVars, procVars>>
  BY <1>1, <1>4, MsgIsQuiet DEF semVars, semTable
<1>5. CASE ProcNext
  <2>1. CASE KillRest
    BY <1>1, <2>1, KillRestDies DEF SemSpec!Next
  <2> QED  BY <1>1, <1>5, <2>1, ProcIsQuiet DEF ProcNext
<1>6. CASE SemNext /\ UNCHANGED <<clockVars, mbox, procVars>>
  <2>1. ASSUME NEW count \in Counts, Screate(count) PROVE SemSpec!Next
    BY <2>1, ScreateBears DEF SemSpec!Next
  <2>2. ASSUME NEW s \in Sem, Wait(s) PROVE SemSpec!Next
    BY <2>2, WaitTakes, BasicTypes DEF SemSpec!Next
  <2>3. ASSUME NEW s \in InUse, NEW b \in BOOLEAN, SignalOnce(s, b),
               cont[currpid].op \notin Emptying,
               \A p \in Pid : cont'[p] = cont[p] \/ cont'[p].op \notin Emptying
        PROVE SemSpec!Next
    BY <2>3, SignalGives DEF SemSpec!Next, InUse
  <2>4. ASSUME NEW s \in Sem, Signal(s) \/ DeviceSignal(s) PROVE SemSpec!Next
    <3>1. /\ cont[currpid].op \notin Emptying /\ cont' = cont /\ SignalOnce(s, TRUE)
          /\ s \in InUse
      BY <2>4, CallerEmptiesNone DEF Signal, DeviceSignal, MayCall, InUse
    <3> QED  BY <2>3, <3>1
  <2>5. ASSUME NEW s \in Sem, NEW count \in 1..MaxCount, Signaln(s, count)
        PROVE  SemSpec!Next
    BY <1>1, <2>5, SignalnIsQuiet
  <2>6. CASE SignalnLoop
    <3>1. PICK s \in InUse : s = cont[currpid].x
      BY <2>6, BasicTypes DEF SignalnLoop, SignalnInv
    <3> QED  BY <1>1, <2>3, <2>6, <3>1, SignalnLoopTurns
  <2>7. ASSUME NEW s \in Sem, Sdelete(s) PROVE SemSpec!Next
    BY <2>7, SdeleteDeletes DEF SemSpec!Next
  <2>8. ASSUME NEW s \in Sem, NEW count \in Counts, Sreset(s, count) PROVE SemSpec!Next
    BY <2>8, SresetBegins DEF SemSpec!Next
  <2>9. CASE SdeleteLoop
    BY <1>6, <2>9, SdeleteLoopDrains DEF SemSpec!Next
  <2>10. CASE SresetLoop
    BY <1>6, <2>10, SresetLoopDrains DEF SemSpec!Next
  <2> QED
    BY <1>6, <2>1, <2>2, <2>4, <2>5, <2>6, <2>7, <2>8, <2>9, <2>10 DEF SemNext
<1>7. CASE UNCHANGED vars
  BY <1>7 DEF vars, schedVars, semVars, InUse, Used, BeingReset, Units, Alive, pstate, currpid
<1> QED  BY <1>2, <1>3, <1>4, <1>5, <1>6, <1>7 DEF Next

(* wait, signal, signaln, sdelete, sreset, screate and kill implement the  *)
(* semaphores of SemaphoreSpec, whatever else the processes do: units go   *)
(* to the longest waiting, none is made or lost, and nobody passes the     *)
(* queue.                                                                  *)
THEOREM SemaphoresImplemented == Spec => ImplementsSemaphores
<1> DEFINE Inv == IInv /\ CountInv /\ SignalnInv
<1>1. Init => Inv
  <2>1. Init => SignalnInv
    BY ContOps DEF Init, SchedInit, SignalnInv
  <2> QED  BY <2>1, IInvInit, CountInvInit
<1>2. Inv /\ [Next]_vars => Inv'
  BY IInvStep, CountInvStep, SignalnStep
<1>3. ASSUME IInv, CountInv, SignalnInv, [Next]_vars
      PROVE  [SemSpec!Next]_(SemSpec!semSpecVars)
  <2>1. SemSpec!Next \/ UNCHANGED <<InUse, BeingReset, Units, semq, Alive>>
    BY <1>3, IInvStep, SemSpecStep
  <2>2. ASSUME UNCHANGED <<InUse, BeingReset, Units, semq, Alive>>
        PROVE  UNCHANGED SemSpec!semSpecVars
    BY <2>2 DEF SemSpec!semSpecVars, InUse, BeingReset, Units, Alive
  <2> QED  BY <2>1, <2>2
<1>4. Inv /\ [Next]_vars => [SemSpec!Next]_(SemSpec!semSpecVars)
  BY <1>3
<1> HIDE DEF Inv
<1> QED
  BY <1>1, <1>2, <1>4, SemSpecInit, PTL DEF Spec, ImplementsSemaphores, SemSpec!Spec
=============================================================================
