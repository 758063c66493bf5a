------------------------------ MODULE Messages ------------------------------
(***************************************************************************)
(* One-message mailboxes (sys/send.c, receive.c, recvclr.c, recvtim.c) on  *)
(* top of the scheduler and the clock.  pmsg is only meaningful while      *)
(* phasmsg is TRUE: mbox[p] is pmsg then, and NoMsg otherwise.             *)
(***************************************************************************)
EXTENDS Clock

CONSTANT Msgs       \* the messages processes send
ASSUME MsgAssumption == Msgs \subseteq Nat

NoMsg == -1

VARIABLE mbox

phasmsg(p) == mbox[p] # NoMsg

(* Mutants of Send: a full mailbox is overwritten; a timed receiver is     *)
(* readied without unsleep; the receiver is readied without resched.       *)
Send_Overwrites(p, msg) ==
  IF p \notin UserPid \/ pstate[p] = "PRFREE"
  THEN UNCHANGED <<sched, clockVars, mbox>>
  ELSE /\ mbox' = [mbox EXCEPT ![p] = msg]
       /\ UNCHANGED <<sched, clockVars>>

Send_NoUnsleep(p, msg) ==
  IF p \notin UserPid \/ pstate[p] = "PRFREE" \/ phasmsg(p)
  THEN UNCHANGED <<sched, clockVars, mbox>>
  ELSE /\ mbox' = [mbox EXCEPT ![p] = msg]
       /\ IF pstate[p] \in {"PRRECV", "PRTRECV"}
          THEN sched' = ReadyNow(sched, p)
          ELSE UNCHANGED sched
       /\ UNCHANGED clockVars

Send_NoResched(p, msg) ==
  IF p \notin UserPid \/ pstate[p] = "PRFREE" \/ phasmsg(p)
  THEN UNCHANGED <<sched, clockVars, mbox>>
  ELSE /\ mbox' = [mbox EXCEPT ![p] = msg]
       /\ CASE pstate[p] = "PRRECV" ->
                 /\ sched' = Ready(sched, p)
                 /\ UNCHANGED clockVars
            [] pstate[p] = "PRTRECV" ->
                 /\ sched' = Ready([sched EXCEPT !.qkey = UnsleepKeys(p)], p)
                 /\ Unsleep(p)
            [] OTHER -> UNCHANGED <<sched, clockVars>>

(* send(pid, msg), called by user processes and by kill.  SYSERR, and no   *)
(* change, for a bad or free pid and for a full mailbox.                   *)
Send(p, msg) ==
  IF p \notin UserPid \/ pstate[p] = "PRFREE" \/ phasmsg(p)
  THEN UNCHANGED <<sched, clockVars, mbox>>
  ELSE /\ mbox' = [mbox EXCEPT ![p] = msg]
       /\ CASE pstate[p] = "PRRECV" ->
                 /\ sched' = ReadyNow(sched, p)
                 /\ UNCHANGED clockVars
            [] pstate[p] = "PRTRECV" ->
                 /\ sched' = ReadyNow([sched EXCEPT !.qkey = UnsleepKeys(p)], p)
                 /\ Unsleep(p)
            [] OTHER -> UNCHANGED <<sched, clockVars>>

SendCall(p, msg) ==
  /\ MayCall("send")
  /\ Send(p, msg)
  /\ UNCHANGED cont

TakeMessage == mbox' = [mbox EXCEPT ![currpid] = NoMsg]

(* receive: with no message, wait for one; the rest of the call takes      *)
(* pmsg without looking at phasmsg again.                                  *)
Receive ==
  /\ MayCall("receive")
  /\ \/ /\ phasmsg(currpid)
        /\ TakeMessage
        /\ UNCHANGED <<sched, cont>>
     \/ /\ ~phasmsg(currpid)
        /\ sched' = Block(sched, "PRRECV")
        /\ cont'  = [cont EXCEPT ![currpid] = Cont("receive", 0, 0)]
        /\ UNCHANGED mbox
  /\ UNCHANGED clockVars

ReceiveRest ==
  /\ cont[currpid].op = "receive"
  /\ TakeMessage
  /\ cont' = [cont EXCEPT ![currpid] = User]
  /\ UNCHANGED <<sched, clockVars>>

Recvclr ==
  /\ MayCall("recvclr")
  /\ phasmsg(currpid)
  /\ TakeMessage
  /\ UNCHANGED <<sched, cont, clockVars>>

(* recvtim(maxwait): the rest of the call returns the message, or TIMEOUT  *)
(* if there is still none.                                                 *)
Recvtim(n) ==
  /\ MayCall("recvtim")
  /\ \/ /\ phasmsg(currpid)
        /\ TakeMessage
        /\ UNCHANGED <<sched, cont, clockVars>>
     \/ /\ ~phasmsg(currpid)
        /\ SleepIn("PRTRECV", n)
        /\ cont' = [cont EXCEPT ![currpid] = Cont("recvtim", 0, 0)]
        /\ UNCHANGED mbox

RecvtimRest ==
  /\ cont[currpid].op = "recvtim"
  /\ TakeMessage
  /\ cont' = [cont EXCEPT ![currpid] = User]
  /\ UNCHANGED <<sched, clockVars>>

MsgNext ==
  \/ \E p \in UserPid, msg \in Msgs : SendCall(p, msg)
  \/ Receive \/ ReceiveRest \/ Recvclr
  \/ \E n \in Delays : Recvtim(n)
  \/ RecvtimRest

MsgInit == mbox = [p \in Pid |-> NoMsg]
=============================================================================
