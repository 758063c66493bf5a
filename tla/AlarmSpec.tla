----------------------------- MODULE AlarmSpec ------------------------------
(***************************************************************************)
(* What the sleep queue promises, without increments: every sleeping       *)
(* process has its own count of ticks; a tick counts all of them down      *)
(* together; a process is let go exactly when its count has reached zero,  *)
(* before the next tick.  Earlier, only the arrival of a message lets go a *)
(* process that is waiting for one with a time limit, at once; and a       *)
(* process that dies needs no alarm.                                       *)
(***************************************************************************)
EXTENDS Integers

CONSTANTS Process, Waits

VARIABLES
  left,       \* ticks left, for each process with an alarm; Off otherwise
  timed,      \* the processes whose alarm limits a wait for a message
  mail,       \* the processes that have a message
  alive       \* the processes that exist

alarmVars == <<left, timed, mail, alive>>

Off == -1000

Armed == {p \in Process : left[p] # Off}

Init ==
  /\ left = [p \in Process |-> Off]
  /\ timed = {} /\ mail = {}
  /\ alive \subseteq Process

Disarm(p) ==
  /\ left'  = [left EXCEPT ![p] = Off]
  /\ timed' = timed \ {p}

Arm(p, n) ==
  /\ p \in alive \ Armed
  /\ left' = [left EXCEPT ![p] = n]
  /\ timed' \in {timed, timed \cup {p}}
  /\ p \in timed' => p \notin mail
  /\ UNCHANGED <<mail, alive>>

Tick ==
  /\ \A p \in Armed : left[p] > 0
  /\ left' = [p \in Process |-> IF p \in Armed THEN left[p] - 1 ELSE Off]
  /\ UNCHANGED <<timed, mail, alive>>

Expire(p) ==
  /\ p \in Armed /\ left[p] = 0
  /\ Disarm(p)
  /\ UNCHANGED <<mail, alive>>

MailArrives(p) ==
  /\ p \in timed
  /\ mail' = mail \cup {p}
  /\ Disarm(p)
  /\ UNCHANGED alive

Die(p) ==
  /\ p \in Armed
  /\ Disarm(p)
  /\ alive' = alive \ {p}
  /\ UNCHANGED mail

(* Messages to others, and the coming and going of others.                 *)
Populate ==
  /\ alive' \in SUBSET Process /\ mail' \in SUBSET Process
  /\ Armed \subseteq alive' /\ timed \cap mail' = {}
  /\ UNCHANGED <<left, timed>>

Next ==
  \/ \E p \in Process : \/ Expire(p) \/ MailArrives(p) \/ Die(p)
                        \/ \E n \in Waits : Arm(p, n)
  \/ Tick
  \/ Populate

Spec == Init /\ [][Next]_alarmVars
=============================================================================
