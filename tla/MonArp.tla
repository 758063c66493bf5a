------------------------------- MODULE MonArp -------------------------------
(***************************************************************************)
(* The boot monitor's way out to the network: its ARP table and            *)
(* mon_netwrite (mon/monarp.c, monnet.c).  A packet for a host whose       *)
(* hardware address is unknown waits in the host's table entry until the   *)
(* host answers; an entry holds one packet.  Interrupts are disabled       *)
(* around the table, so every operation here is one step.                  *)
(*                                                                         *)
(* The routines are operators on a record N: the table (arp) and the       *)
(* packets on the network (wire).  A host stands for its hardware address, *)
(* which does not change; buffers are not counted here.                    *)
(***************************************************************************)
EXTENDS Integers, FiniteSets

CONSTANTS
  Host,            \* the other machines
  MON_ARP_TSIZE,   \* entries of the table (3)
  MaxWire          \* bound: packets on the network at one time

ASSUME ArpAssumption ==
  MON_ARP_TSIZE \in Nat \ {0} /\ MaxWire \in Nat

Slot    == 1..MON_ARP_TSIZE
NoSlot  == 0
Nobody  == "nobody"

(* A packet: its kind, the host it goes to or comes from, a TFTP session   *)
(* (the server's port) and a block number where the kind has them.         *)
Packet(kind, host, ses, n) ==
  [kind |-> kind, host |-> host, ses |-> ses, n |-> n]
NoPacket == Packet("none", Nobody, 0, 0)

FreeEntry == [state |-> "FREE", pra |-> Nobody, pep |-> NoPacket]

(* ni_write: the network takes the packet, unless it loses it.             *)
Sent(N, p) ==
  IF Cardinality(N.wire \cup {p}) <= MaxWire THEN [N EXCEPT !.wire = @ \cup {p}]
                                             ELSE N

LeastOf(S) == CHOOSE i \in S : \A j \in S : i <= j

mon_arpfind(tab, h) ==
  LET found == {i \in Slot : tab[i].state # "FREE" /\ tab[i].pra = h}
  IN  IF found = {} THEN NoSlot ELSE LeastOf(found)

(* mon_arpalloc: a free entry, or the first one whatever it holds.         *)
mon_arpalloc(tab) ==
  LET free == {i \in Slot : tab[i].state = "FREE"}
  IN  IF free = {} THEN 1 ELSE LeastOf(free)

(* An entry is given to a host; a packet that waited in it is forgotten.   *)
Assigned(N, i, state, h, pep) ==
  [N EXCEPT !.arp[i] = [state |-> state, pra |-> h, pep |-> pep]]

(* mon_arpsend *)
Asked(N, h) == Sent(N, Packet("arpask", h, 0, 0))

(* mon_netwrite: send, or keep the packet in the entry of its host and ask. *)
mon_netwrite(N, p) ==
  LET i == mon_arpfind(N.arp, p.host)
      j == mon_arpalloc(N.arp)
  IN  IF i = NoSlot THEN Asked(Assigned(N, j, "PENDING", p.host, p), p.host)
      ELSE IF N.arp[i].state = "RESOLVED" THEN Sent(N, p)
      ELSE Asked([N EXCEPT !.arp[i].pep = p], p.host)

(* Mutant of mon_arp_in: a new host's entry keeps the packet found in it. *)
mon_arp_in_Keeps(N, h) ==
  LET i == mon_arpfind(N.arp, h)
      j == IF i = NoSlot THEN mon_arpalloc(N.arp) ELSE i
  IN  IF i = NoSlot THEN Assigned(N, j, "RESOLVED", h, N.arp[j].pep)
      ELSE IF N.arp[i].pep = NoPacket THEN Assigned(N, i, "RESOLVED", h, NoPacket)
      ELSE Sent(Assigned(N, i, "RESOLVED", h, NoPacket), N.arp[i].pep)

(* mon_arp_in for a packet from h that is addressed to this machine: the   *)
(* host becomes known and what waited for it is sent; a question is        *)
(* answered, a reply nobody here depends on.                               *)
mon_arp_in(N, h) ==
  LET i == mon_arpfind(N.arp, h)
      K == Assigned(N, i, "RESOLVED", h, NoPacket)
  IN  IF i = NoSlot THEN Assigned(N, mon_arpalloc(N.arp), "RESOLVED", h, NoPacket)
      ELSE IF N.arp[i].state = "RESOLVED" \/ N.arp[i].pep = NoPacket THEN K
      ELSE Sent(K, N.arp[i].pep)

(* mon_arpinit: entries are marked free, with what waits in them.          *)
mon_arpinit(N) == [N EXCEPT !.arp = [i \in Slot |-> FreeEntry]]
=============================================================================
