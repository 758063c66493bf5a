------------------------------ MODULE Transfer ------------------------------
(***************************************************************************)
(* What loading a file over the network promises: memory holds the first   *)
(* blocks of the file, in order and once each; the transfer may start over *)
(* any number of times and may be given up and begun again; it succeeds    *)
(* when the last block is in, and nothing touches the memory afterwards.   *)
(***************************************************************************)
EXTENDS Integers, Sequences

CONSTANT FileLen   \* blocks of the file

VARIABLES
  memory,          \* the blocks in memory
  outcome          \* "idle", "loading", "loaded"

Init == memory = <<>> /\ outcome = "idle"

Begin == outcome = "idle" /\ outcome' = "loading" /\ UNCHANGED memory

Receive ==
  /\ outcome = "loading"
  /\ memory' = Append(memory, Len(memory) + 1)
  /\ outcome' = IF Len(memory) + 1 = FileLen THEN "loaded" ELSE "loading"

StartOver == outcome = "loading" /\ memory' = <<>> /\ UNCHANGED outcome

GiveUp == outcome = "loading" /\ outcome' = "idle" /\ UNCHANGED memory

Next == Begin \/ Receive \/ StartOver \/ GiveUp

Spec == Init /\ [][Next]_<<memory, outcome>>
=============================================================================
