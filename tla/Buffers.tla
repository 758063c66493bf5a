------------------------------ MODULE Buffers -------------------------------
(***************************************************************************)
(* Processes that pass buffers of a pool through a generic queue: senders  *)
(* get a buffer and enqueue it, receivers dequeue one and free it.  This   *)
(* is how the network part of XINU uses both (mon/ethwrite.c:46 and        *)
(* mon/ethwstrt.c:81 do it with a copy of gpq.c).  The processes have one  *)
(* priority, so the clock interrupt can switch between them at every step. *)
(***************************************************************************)
EXTENDS Gpq

CONSTANTS Senders, Receivers

ASSUME RoleAssumption == Proc = Senders \cup Receivers

vars == <<poolVars, sem, pc, reg, queueVars>>

Init == PoolInit /\ QueueInit

Send(p) == \E key \in Keys : Enq(p, key)

(* The calls that processes make, and the steps inside them.               *)
Call(p) ==
  \/ Mkpool(p) /\ UNCHANGED queueVars
  \/ /\ p \in Senders
     /\ \/ /\ \E pool \in Pool : Getbuf(p, pool) \/ Nbgetbuf(p, pool)
           /\ UNCHANGED queueVars
        \/ Send(p)
  \/ p \in Receivers /\ Deq(p)
  \/ Freebuf(p) /\ UNCHANGED queueVars

Step(p) ==
  \/ PoolStep(p) /\ UNCHANGED queueVars
  \/ QueueStep(p)

Next == \E p \in Proc : Call(p) \/ Step(p)

Spec == Init /\ [][Next]_vars

(* The processor is shared in turn, senders pass on what they get and      *)
(* receivers keep asking.                                                  *)
FairSpec ==
  /\ Spec
  /\ \A p \in Proc : WF_vars(Step(p))
  /\ \A p \in Senders : WF_vars(Send(p))
  /\ \A p \in Receivers : WF_vars(Deq(p)) /\ WF_vars(Freebuf(p) /\ UNCHANGED queueVars)
=============================================================================
