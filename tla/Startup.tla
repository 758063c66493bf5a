------------------------------ MODULE Startup -------------------------------
(***************************************************************************)
(* What start-up does with the semaphore table (sys/initialize.c,          *)
(* screate.c, startup.S).  start clears the memory, sysinit lets the       *)
(* drivers create their semaphores, and only then marks the table free.    *)
(* The drivers depend on no entry looking free in cleared memory: they all *)
(* get SYSERR and keep it as their semaphore's number.                     *)
(***************************************************************************)
EXTENDS Integers

CONSTANTS
  NSEM,        \* semaphores (100)
  Nserial,     \* serial lines (2): cominit is called for each
  Process      \* processes that create semaphores after start-up

ASSUME StartupAssumption == NSEM \in Nat \ {0} /\ Nserial \in Nat \ {0}

Sem     == 0..(NSEM - 1)
Port    == 1..Nserial
SYSERR  == -1

(* Who creates a semaphore in sysinit, in its order: _mkinit, clkinit, the *)
(* pool of mon_init, and cominit for each line.                            *)
Early   == 1..(3 + Nserial)
Line(p) == 3 + p
Owner   == Early \cup Process

VARIABLES
  stage,       \* the step of sysinit that is next
  sstate,      \* "SFREE", "SUSED", or what cleared memory looks like
  nextsem,
  held         \* the semaphore each owner has, or SYSERR
startVars == <<stage, sstate, nextsem, held>>

MarkStage == 4 + Nserial
Running   == stage = MarkStage + 1

(* Mutant of Cleared: cleared memory looks like free entries. *)
Cleared_Free == "SFREE"

(* The value 0, which is neither SFREE nor SUSED.                          *)
Cleared == "zero"

(* A wait that fails at once: isbadsem, or a free entry.                   *)
WaitFails(s) == s \in Sem => sstate[s] = "SFREE"

StartInit ==
  /\ stage = 1
  /\ sstate = [s \in Sem |-> Cleared]
  /\ nextsem = NSEM - 1
  /\ held = [o \in Owner |-> SYSERR]

(* newsem: downwards from nextsem, once around.                            *)
Distance(s) == IF s <= nextsem THEN nextsem - s ELSE nextsem + NSEM - s
newsem ==
  LET free == {s \in Sem : sstate[s] = "SFREE"}
  IN  IF free = {} THEN SYSERR
      ELSE CHOOSE s \in free : \A t \in free : Distance(s) <= Distance(t)

screate(o) ==
  /\ held' = [held EXCEPT ![o] = newsem]
  /\ IF newsem = SYSERR
       THEN UNCHANGED <<sstate, nextsem>>
       ELSE /\ sstate' = [sstate EXCEPT ![newsem] = "SUSED"]
            /\ nextsem' = IF newsem = 0 THEN NSEM - 1 ELSE newsem - 1

sdelete(o) ==
  /\ held[o] # SYSERR
  /\ sstate' = [sstate EXCEPT ![held[o]] = "SFREE"]
  /\ held' = [held EXCEPT ![o] = SYSERR]
  /\ UNCHANGED nextsem

(* The next driver of sysinit creates its semaphore.                       *)
EarlyCreate == stage \in Early /\ stage' = stage + 1 /\ screate(stage)

MarkTable ==
  /\ stage = MarkStage /\ stage' = stage + 1
  /\ sstate' = [s \in Sem |-> "SFREE"]
  /\ UNCHANGED <<nextsem, held>>

(* The running system: processes create and delete semaphores.             *)
ProcessCall ==
  /\ Running /\ UNCHANGED stage
  /\ \E o \in Process : (held[o] = SYSERR /\ screate(o)) \/ sdelete(o)

(* The monitor's command "r": start clears the memory and runs again.      *)
Restart ==
  /\ Running
  /\ stage' = 1 /\ nextsem' = NSEM - 1
  /\ sstate' = [s \in Sem |-> Cleared]
  /\ held' = [o \in Owner |-> SYSERR]
=============================================================================
