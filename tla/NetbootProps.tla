---------------------------- MODULE NetbootProps ----------------------------
(***************************************************************************)
(* Correctness properties of the monitor's boot from the network.          *)
(***************************************************************************)
EXTENDS Netboot

Kinds == {"bootpreq", "rrq", "ack", "arpask",
          "bootprep", "badrep", "data", "error", "arpans", "hostask"}
Packets ==
  {p \in [kind : Kinds, host : Host, ses : 0..Sessions, n : 0..FileLen] :
     p.kind = "data" => p.n >= 1}
Entries == [state : {"FREE", "PENDING", "RESOLVED"}, pra : Host \cup {Nobody},
            pep : Packets \cup {NoPacket}]
Networks == [arp : [Slot -> Entries], wire : SUBSET Packets]
Places == {"monitor", "continue", "panic", "running", "loop", "spin", "bootp_send",
           "bootp_timer", "tftp_send", "tftp_state", "tftp_timer", "tftp_block",
           "tftp_bytes", "tftp_retx"}
States == {"NONE", "BEGIN_BOOTP", "BOOTP_REQ_SENT", "BOOTP_RETX", "BEGIN_TFTP",
           "TFTP_REQ_SENT", "TFTP_RETX", "BOOT_DONE", "BOOT_ERROR"}

NetbootTypeOK ==
  /\ pc \in Places /\ mon_boot_state \in States
  /\ rereads \in BOOLEAN /\ ni_ip \in BOOLEAN /\ silenced \in BOOLEAN
  /\ mon_boot_try \in 0..(MON_MAX_TRY + 1) /\ nbpools \in 0..NBPOOLS
  /\ timer \in {Off} \cup 0..(MON_MAX_TRY + 2)
  /\ mon_tftp_block \in 0..FileLen /\ mon_tftp_bytes \in 0..FileLen
  /\ mon_tftp_retx \in 0..RETX_MAX /\ mon_tftp_server_port \in 0..Sessions
  /\ memory \in Seq(1..FileLen)
  /\ net \in Networks
  /\ session \in [Session -> 0..FileLen]

(* The ARP table is a map: a host is in one entry, a packet waits only in  *)
(* an entry that is not resolved and is for that entry's host - whatever   *)
(* order questions, answers and the reuse of the first entry come in.      *)
Functional(tab) ==
  /\ \A i, j \in Slot :
       tab[i].state # "FREE" /\ tab[j].state # "FREE" /\ tab[i].pra = tab[j].pra => i = j
  /\ \A i \in Slot : tab[i].pep # NoPacket =>
       tab[i].state = "PENDING" /\ tab[i].pep.host = tab[i].pra

ArpFunctional == Functional(net.arp)

(* A monitor that waits for an answer has a timer running, unless a block  *)
(* out of step was the last thing it heard: only then does it depend on    *)
(* the server to speak first.                                              *)
TimerRuns == pc = "loop" /\ Waiting /\ timer = Off => silenced

(* A late or repeated BOOTP reply never takes a boot that has reached its  *)
(* TFTP part back, and a late block never revives one that has failed.     *)
Phase ==
  CASE mon_boot_state \in {"BEGIN_BOOTP", "BOOTP_REQ_SENT", "BOOTP_RETX"} -> 1
    [] mon_boot_state \in {"BEGIN_TFTP", "TFTP_REQ_SENT", "TFTP_RETX"} -> 2
    [] mon_boot_state \in {"BOOT_DONE", "BOOT_ERROR"} -> 3
    [] OTHER -> 0
PhaseForward == [][Booting /\ Booting' => Phase <= Phase']_vars

(* The block that is expected is the one after those in memory, whatever   *)
(* interrupt comes between the stores of a request and however often the   *)
(* transfer starts over; a boot is done when the last block is in.         *)
BlocksInStep ==
  /\ mon_boot_state = "TFTP_REQ_SENT" /\ pc \in {"loop", "spin", "tftp_bytes", "tftp_retx"}
       => mon_tftp_block = Len(memory) + 1
  /\ mon_boot_state = "BOOT_DONE" => mon_tftp_block = FileLen /\ Len(memory) = FileLen

(* The transfer implements its specification: see Transfer.                *)
outcome ==
  IF mon_boot_state = "BOOT_DONE" THEN "loaded" ELSE IF Booting THEN "loading" ELSE "idle"
Abstract == INSTANCE Transfer
ImplementsTransfer == Abstract!Spec

(* With no packet coming in from some time on, a boot ends, unless the     *)
(* last block heard was out of step, or the loop was compiled to read the  *)
(* state once.                                                             *)
BootEnds ==
  <>[][~Interrupt]_vars => (Booting ~> (~Booting \/ silenced \/ ~rereads))
=============================================================================
