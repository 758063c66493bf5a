--------------------------- MODULE NetbootProofs ----------------------------
(***************************************************************************)
(* The boot from the network, for every size of file, table and network:   *)
(* the ARP table stays a map, and what is in memory is the beginning of    *)
(* the file whatever the network does and whenever its interrupts come.    *)
(***************************************************************************)
EXTENDS NetbootProps, WellFoundedInduction, TLAPS

LEMMA LeastSlot ==
  ASSUME NEW S, S \subseteq Slot, S # {}
  PROVE  LeastOf(S) \in S
<1>1. S \subseteq Nat
  BY ArpAssumption DEF Slot
<1>2. PICK x \in S : \A y \in S : ~(<<y, x>> \in OpToRel(<, Nat))
  BY <1>1, NatLessThanWellFounded, WFMin, Zenon
<1>3. \A y \in S : x <= y
  <2> SUFFICES ASSUME NEW y \in S PROVE x <= y
    OBVIOUS
  <2>1. x \in Nat /\ y \in Nat
    BY <1>1
  <2>2. ~(y < x)
    BY <1>2, <2>1 DEF OpToRel
  <2> QED  BY <2>1, <2>2
<1> QED  BY <1>3 DEF LeastOf

NetOK(N) == N \in Networks /\ Functional(N.arp)

LEMMA NoPacketIsNone == NoPacket \notin Packets /\ NoPacket.kind = "none"
BY DEF NoPacket, Packet, Packets, Kinds

LEMMA SentKeeps ==
  ASSUME NEW N, NetOK(N), NEW p \in Packets
  PROVE  NetOK(Sent(N, p))
<1>1. CASE Sent(N, p) = N
  BY <1>1
<1>2. CASE Sent(N, p) = [N EXCEPT !.wire = @ \cup {p}]
  BY <1>2 DEF NetOK, Networks
<1> QED  BY <1>1, <1>2 DEF Sent

LEMMA FindSpec ==
  ASSUME NEW tab, NEW h
  PROVE  LET i == mon_arpfind(tab, h)
         IN  \/ i = NoSlot /\ \A j \in Slot : tab[j].state = "FREE" \/ tab[j].pra # h
             \/ i \in Slot /\ tab[i].state # "FREE" /\ tab[i].pra = h
<1> DEFINE found == {i \in Slot : tab[i].state # "FREE" /\ tab[i].pra = h}
<1>1. CASE found = {}
  BY <1>1 DEF mon_arpfind
<1>2. CASE found # {}
  <2> HIDE DEF found
  <2>1. LeastOf(found) \in found
    BY <1>2, LeastSlot, Zenon DEF found
  <2>2. mon_arpfind(tab, h) = LeastOf(found)
    BY <1>2 DEF mon_arpfind, found
  <2> QED  BY <2>1, <2>2 DEF found
<1> QED  BY <1>1, <1>2

LEMMA NoSlotOutside == NoSlot \notin Slot
BY DEF NoSlot, Slot

LEMMA AllocIsSlot ==
  ASSUME NEW tab
  PROVE  mon_arpalloc(tab) \in Slot
<1> DEFINE free == {i \in Slot : tab[i].state = "FREE"}
<1>1. CASE free = {}
  BY <1>1, ArpAssumption DEF mon_arpalloc, Slot
<1>2. CASE free # {}
  <2> HIDE DEF free
  <2>1. LeastOf(free) \in free
    BY <1>2, LeastSlot, Zenon DEF free
  <2>2. mon_arpalloc(tab) = LeastOf(free)
    BY <1>2 DEF mon_arpalloc, free
  <2> QED  BY <2>1, <2>2 DEF free
<1> QED  BY <1>1, <1>2

LEMMA AssignedKeeps ==
  ASSUME NEW N, NetOK(N), NEW i \in Slot, NEW h \in Host,
         NEW state \in {"PENDING", "RESOLVED"}, NEW pep \in Packets \cup {NoPacket},
         pep # NoPacket => state = "PENDING" /\ pep.host = h,
         \A j \in Slot : j # i => N.arp[j].state = "FREE" \/ N.arp[j].pra # h
  PROVE  NetOK(Assigned(N, i, state, h, pep))
<1> DEFINE e == [state |-> state, pra |-> h, pep |-> pep]
           tab == [N.arp EXCEPT ![i] = e]
<1>1. e \in Entries
  BY DEF Entries
<1>2. N.arp \in [Slot -> Entries]
  BY DEF NetOK, Networks
<1>3. Assigned(N, i, state, h, pep).arp = tab
  BY DEF Assigned, NetOK, Networks
<1>4. Assigned(N, i, state, h, pep) \in Networks
  BY <1>1, <1>2 DEF Assigned, NetOK, Networks
<1>5. \A j \in Slot : tab[j] = IF j = i THEN e ELSE N.arp[j]
  BY <1>2
<1>6. e.state = state /\ e.pra = h /\ e.pep = pep
  OBVIOUS
<1>7. Functional(tab)
  <2> HIDE DEF tab, e
  <2> QED  BY <1>5, <1>6 DEF Functional, NetOK
<1> QED  BY <1>3, <1>4, <1>7 DEF NetOK

LEMMA NetwriteKeeps ==
  ASSUME NEW N, NetOK(N), NEW p \in Packets
  PROVE  NetOK(mon_netwrite(N, p))
<1> DEFINE i == mon_arpfind(N.arp, p.host)
           j == mon_arpalloc(N.arp)
<1>1. p.host \in Host /\ p # NoPacket
  BY NoPacketIsNone DEF Packets
<1>2. Packet("arpask", p.host, 0, 0) \in Packets
  BY <1>1, NetbootAssumption DEF Packet, Packets, Kinds
<1>3. CASE i = NoSlot
  <2>1. \A k \in Slot : N.arp[k].state = "FREE" \/ N.arp[k].pra # p.host
    BY <1>3, FindSpec, NoSlotOutside
  <2>2. NetOK(Assigned(N, j, "PENDING", p.host, p))
    BY <1>1, <2>1, AllocIsSlot, AssignedKeeps
  <2> QED  BY <1>2, <1>3, <2>2, SentKeeps DEF mon_netwrite, Asked
<1>4. CASE i # NoSlot /\ N.arp[i].state = "RESOLVED"
  BY <1>4, SentKeeps DEF mon_netwrite
<1>5. CASE i # NoSlot /\ N.arp[i].state # "RESOLVED"
  <2>1. i \in Slot /\ N.arp[i].state = "PENDING" /\ N.arp[i].pra = p.host
    BY <1>5, FindSpec DEF NetOK, Networks, Entries
  <2>2. [N EXCEPT !.arp[i].pep = p] = Assigned(N, i, "PENDING", p.host, p)
    <3>1. N.arp[i] \in Entries /\ N.arp \in [Slot -> Entries]
      BY <2>1 DEF NetOK, Networks
    <3>2. [N.arp[i] EXCEPT !.pep = p] = [state |-> "PENDING", pra |-> p.host, pep |-> p]
      BY <2>1, <3>1 DEF Entries
    <3> QED  BY <3>2 DEF Assigned
  <2>3. \A k \in Slot : k # i => N.arp[k].state = "FREE" \/ N.arp[k].pra # p.host
    BY <2>1 DEF NetOK, Functional
  <2>4. NetOK([N EXCEPT !.arp[i].pep = p])
    BY <1>1, <2>1, <2>2, <2>3, AssignedKeeps
  <2> QED  BY <1>2, <1>5, <2>4, SentKeeps DEF mon_netwrite, Asked
<1> QED  BY <1>3, <1>4, <1>5

LEMMA ArpInKeeps ==
  ASSUME NEW N, NetOK(N), NEW h \in Host
  PROVE  NetOK(mon_arp_in(N, h))
<1> DEFINE i == mon_arpfind(N.arp, h)
           K == Assigned(N, i, "RESOLVED", h, NoPacket)
<1>1. CASE i = NoSlot
  <2>1. \A k \in Slot : N.arp[k].state = "FREE" \/ N.arp[k].pra # h
    BY <1>1, FindSpec, NoSlotOutside
  <2>2. NetOK(Assigned(N, mon_arpalloc(N.arp), "RESOLVED", h, NoPacket))
    BY <2>1, AllocIsSlot, AssignedKeeps
  <2> QED  BY <1>1, <2>2 DEF mon_arp_in
<1>2. CASE i # NoSlot
  <2>1. i \in Slot /\ N.arp[i].state # "FREE" /\ N.arp[i].pra = h
    BY <1>2, FindSpec
  <2>2. \A k \in Slot : k # i => N.arp[k].state = "FREE" \/ N.arp[k].pra # h
    BY <2>1 DEF NetOK, Functional
  <2>3. NetOK(K)
    BY <2>1, <2>2, AssignedKeeps
  <2>4. N.arp[i].pep \in Packets \cup {NoPacket}
    BY <2>1 DEF NetOK, Networks, Entries
  <2> HIDE DEF K
  <2>5. N.arp[i].pep # NoPacket => NetOK(Sent(K, N.arp[i].pep))
    BY <2>3, <2>4, SentKeeps
  <2> QED  BY <1>2, <2>3, <2>5 DEF mon_arp_in, K
<1> QED  BY <1>1, <1>2

LEMMA ArpinitKeeps ==
  ASSUME NEW N, NetOK(N)
  PROVE  NetOK(mon_arpinit(N))
<1>1. FreeEntry \in Entries /\ FreeEntry.state = "FREE" /\ FreeEntry.pep = NoPacket
  BY DEF FreeEntry, Entries
<1>2. mon_arpinit(N).arp = [i \in Slot |-> FreeEntry]
  BY DEF mon_arpinit, NetOK, Networks
<1>3. mon_arpinit(N) \in Networks
  BY <1>1 DEF mon_arpinit, NetOK, Networks
<1>4. Functional(mon_arpinit(N).arp)
  BY <1>1, <1>2 DEF Functional
<1> QED  BY <1>3, <1>4 DEF NetOK
-----------------------------------------------------------------------------
(* The inductive invariant.  A transfer is being set back from the request *)
(* (tftp_send) until its block is set (tftp_block): in these places the    *)
(* block is 0, which no server sends.                                      *)
Setting   == {"tftp_send", "tftp_state", "tftp_timer", "tftp_block"}
Receiving == {"loop", "spin", "tftp_bytes", "tftp_retx"}

Flags == rereads \in BOOLEAN /\ ni_ip \in BOOLEAN /\ silenced \in BOOLEAN

Scalars ==
  /\ pc \in Places /\ mon_boot_state \in States
  /\ mon_boot_try \in 0..(MON_MAX_TRY + 1) /\ nbpools \in 0..NBPOOLS
  /\ timer \in {Off} \cup 0..(MON_MAX_TRY + 2)
  /\ mon_tftp_retx \in 0..RETX_MAX /\ mon_tftp_server_port \in 0..Sessions
  /\ session \in [Session -> 0..FileLen]
  /\ Booting => mon_boot_try <= MON_MAX_TRY

Blocks ==
  /\ mon_tftp_block \in 0..FileLen
  /\ mon_tftp_bytes \in Nat /\ mon_tftp_bytes <= Len(memory)
  /\ memory \in Seq(1..FileLen) /\ Len(memory) <= FileLen
  /\ pc \in Setting => mon_tftp_block = 0 /\ memory = <<>>
  /\ pc \in {"tftp_timer", "tftp_block"} => mon_boot_state \in {"TFTP_REQ_SENT", "TFTP_RETX"}
  /\ pc \in {"tftp_send", "tftp_state"} => mon_boot_state \in {"BEGIN_TFTP", "TFTP_RETX"}
  /\ pc \in {"bootp_send", "bootp_timer"} =>
       mon_boot_state \in {"BEGIN_TFTP", "BOOTP_REQ_SENT", "BOOTP_RETX"}
  /\ mon_boot_state = "TFTP_REQ_SENT" /\ pc \in Receiving =>
       mon_tftp_block = Len(memory) + 1
  /\ mon_boot_state = "BOOT_DONE" => mon_tftp_block = FileLen /\ Len(memory) = FileLen
  /\ pc \in {"monitor", "continue", "panic"} => mon_boot_state # "BOOT_DONE"

NetInv == NetOK(net)
IInv   == Flags /\ Scalars /\ Blocks /\ NetInv

LEMMA IInvInit == Init => IInv
<1> SUFFICES ASSUME Init PROVE IInv
  OBVIOUS
<1>0. Flags
  BY Zenon DEF Init, Flags
<1>1. Scalars
  BY NetbootAssumption DEF Init, Scalars, Places, States, Booting, Off, Session
<1>2. Blocks
  BY NetbootAssumption DEF Init, Blocks, Setting, Receiving
<1>3. NetInv
  <2>1. FreeEntry \in Entries /\ FreeEntry.state = "FREE" /\ FreeEntry.pep = NoPacket
    BY DEF FreeEntry, Entries
  <2>2. net.arp = [i \in Slot |-> FreeEntry] /\ net \in Networks
    BY <2>1 DEF Init, Networks
  <2> QED  BY <2>1, <2>2 DEF NetInv, NetOK, Functional
<1> QED  BY <1>0, <1>1, <1>2, <1>3 DEF IInv

LEMMA FlagsStep == Flags /\ Next => Flags'
<1> SUFFICES ASSUME Flags, Next PROVE Flags'
  OBVIOUS
<1> USE DEF Flags, StartTimer, loopVars
<1>1. CASE Command
  BY <1>1, Zenon DEF Command, BootCommand, ContinueCommand, Break
<1>2. CASE MainStep
  BY <1>2, Zenon DEF MainStep, BeginBootp, BootpRequest, BootpTimer, BeginTftp,
     TftpRequest, TftpState, TftpTimer, TftpBlock, TftpBytes, TftpRetx, Spin, BootEnd
<1>3. CASE mon_timer
  BY <1>3, Zenon DEF mon_timer, TimerPasses, mon_tftp_ack
<1>4. CASE Interrupt
  <2>1. CASE ArpIn \/ BootpIn \/ TftpError
    BY <2>1, Zenon DEF ArpIn, BootpIn, TftpError
  <2>2. CASE TftpIn
    BY <2>2, Zenon DEF TftpIn, ExpectedBlock, OtherBlock, mon_tftp_ack
  <2> QED  BY <1>4, <2>1, <2>2 DEF Interrupt
<1>5. CASE Environment
  BY <1>5, Zenon DEF Environment, here
<1> QED  BY <1>1, <1>2, <1>3, <1>4, <1>5 DEF Next

LEMMA ScalarsStep == Scalars /\ Blocks /\ NetInv /\ Next => Scalars'
<1> SUFFICES ASSUME Scalars, Blocks, NetInv, Next PROVE Scalars'
  OBVIOUS
<1> USE NetbootAssumption DEF Scalars, Places, States, Booting, Off, Goto, StartTimer
<1>1. CASE Command
  BY <1>1 DEF Command, BootCommand, ContinueCommand, Break, transfer, Session
<1>2. CASE MainStep
  <2>1. CASE BeginBootp
    BY <2>1 DEF BeginBootp, loopVars, transfer
  <2>2. CASE BeginTftp
    BY <2>2 DEF BeginTftp, loopVars
  <2>3. CASE BootpRequest \/ BootpTimer \/ TftpRequest \/ TftpState \/ TftpTimer
    BY <2>3 DEF BootpRequest, BootpTimer, TftpRequest, TftpState, TftpTimer, loopVars, transfer
  <2>4. CASE TftpBlock \/ TftpBytes \/ TftpRetx
    BY <2>4 DEF TftpBlock, TftpBytes, TftpRetx, loopVars
  <2>5. CASE Spin \/ BootEnd
    BY <2>5 DEF Spin, BootEnd, loopVars, transfer
  <2> QED  BY <1>2, <2>1, <2>2, <2>3, <2>4, <2>5 DEF MainStep
<1>3. CASE mon_timer
  BY <1>3 DEF mon_timer, TimerPasses, mon_tftp_ack, loopVars, Waiting
<1>4. CASE Interrupt
  <2>1. \A p \in net.wire : p.ses \in 0..Sessions
    BY DEF NetInv, NetOK, Networks, Packets
  <2>2. CASE ArpIn \/ BootpIn
    BY <2>2 DEF ArpIn, BootpIn, loopVars, transfer
  <2>3. CASE TftpIn
    <3>1. PICK p \in Arriving({"data"}) :
            /\ mon_tftp_server_port' = p.ses
            /\ \E N \in Arrived(p) : ExpectedBlock(p, N) \/ OtherBlock(p, N)
      BY <2>3 DEF TftpIn
    <3>2. PICK N \in Arrived(p) : ExpectedBlock(p, N) \/ OtherBlock(p, N)
      BY <3>1
    <3>3. UNCHANGED <<pc, loopVars, mon_boot_try, mon_tftp_retx>>
      BY <2>3 DEF TftpIn
    <3>4. p.ses \in 0..Sessions
      BY <2>1 DEF Arriving
    <3>5. timer' \in {2, Off}
      BY <3>2 DEF ExpectedBlock, OtherBlock, mon_tftp_ack
    <3>6. mon_boot_state' \in {mon_boot_state, "BOOT_DONE"}
      BY <3>2 DEF ExpectedBlock, OtherBlock
    <3> QED  BY <3>1, <3>3, <3>4, <3>5, <3>6 DEF loopVars
  <2>4. CASE TftpError
    BY <2>1, <2>4 DEF TftpError, loopVars, Arriving
  <2> QED  BY <1>4, <2>2, <2>3, <2>4 DEF Interrupt
<1>5. CASE Environment
  <2>1. UNCHANGED here
    BY <1>5 DEF Environment
  <2>2. session' \in [Session -> 0..FileLen]
    <3>1. CASE UNCHANGED session
      BY <3>1
    <3>2. CASE OpenSession
      BY <3>2 DEF OpenSession
    <3>3. CASE Acknowledged
      <4>1. SUFFICES
              ASSUME NEW s \in Session, session[s] < FileLen,
                     session' = [session EXCEPT ![s] = session[s] + 1]
              PROVE  session' \in [Session -> 0..FileLen]
        BY <3>3 DEF Acknowledged
      <4>2. session[s] + 1 \in 0..FileLen
        BY <4>1
      <4> QED  BY <4>1, <4>2
    <3> QED  BY <1>5, <3>1, <3>2, <3>3 DEF Environment
  <2> QED  BY <2>1, <2>2 DEF here, transfer
<1> QED  BY <1>1, <1>2, <1>3, <1>4, <1>5 DEF Next

LEMMA BlocksStep == Scalars /\ Blocks /\ NetInv /\ Next => Blocks'
<1> SUFFICES ASSUME Scalars, Blocks, NetInv, Next PROVE Blocks'
  OBVIOUS
<1> USE NetbootAssumption DEF Blocks, Setting, Receiving, Goto
<1>1. CASE Command
  BY <1>1 DEF Command, BootCommand, ContinueCommand, Break, transfer
<1>2. CASE MainStep
  <2>1. CASE BeginBootp
    BY <2>1 DEF BeginBootp, transfer
  <2>2. CASE BeginTftp
    <3>1. mon_boot_state \in {"TFTP_RETX", "BEGIN_TFTP"} /\ mon_boot_state' = mon_boot_state
      BY <2>2 DEF BeginTftp
    <3>2. \/ /\ pc' = "monitor"
             /\ UNCHANGED <<memory, mon_tftp_block, mon_tftp_bytes>>
          \/ /\ pc' = "tftp_send"
             /\ memory' = <<>> /\ mon_tftp_block' = 0 /\ mon_tftp_bytes' = 0
      BY <2>2 DEF BeginTftp
    <3>3. <<>> \in Seq(1..FileLen) /\ Len(<<>>) = 0
      OBVIOUS
    <3>4. CASE pc' = "monitor" /\ UNCHANGED <<memory, mon_tftp_block, mon_tftp_bytes>>
      BY <3>1, <3>4
    <3>5. CASE /\ pc' = "tftp_send"
               /\ memory' = <<>> /\ mon_tftp_block' = 0 /\ mon_tftp_bytes' = 0
      BY <3>1, <3>3, <3>5
    <3> QED  BY <3>2, <3>4, <3>5
  <2>3. CASE BootpRequest \/ BootpTimer \/ TftpRequest \/ TftpState \/ TftpTimer
    BY <2>3 DEF BootpRequest, BootpTimer, TftpRequest, TftpState, TftpTimer, transfer
  <2>4. CASE TftpBlock \/ TftpBytes \/ TftpRetx
    BY <2>4 DEF TftpBlock, TftpBytes, TftpRetx
  <2>5. CASE Spin \/ BootEnd
    BY <2>5 DEF Spin, BootEnd, transfer
  <2> QED  BY <1>2, <2>1, <2>2, <2>3, <2>4, <2>5 DEF MainStep
<1>3. CASE mon_timer
  BY <1>3 DEF mon_timer, TimerPasses
<1>4. CASE Interrupt
  <2>1. CASE ArpIn \/ BootpIn
    BY <2>1 DEF ArpIn, BootpIn, transfer
  <2>2. CASE TftpError
    BY <2>2 DEF TftpError
  <2>3. CASE TftpIn
    <3>0. PICK p \in Arriving({"data"}) :
            \E N \in Arrived(p) : ExpectedBlock(p, N) \/ OtherBlock(p, N)
      BY <2>3 DEF TftpIn
    <3>1. PICK N \in Arrived(p) : ExpectedBlock(p, N) \/ OtherBlock(p, N)
      BY <3>0
    <3>2. p.n \in 1..FileLen
      BY DEF Arriving, NetInv, NetOK, Networks, Packets
    <3>3. mon_boot_state = "TFTP_REQ_SENT" /\ Booting /\ pc' = pc
      BY <2>3 DEF TftpIn
    <3>4. CASE OtherBlock(p, N)
      BY <3>3, <3>4 DEF OtherBlock
    <3>5. CASE ExpectedBlock(p, N)
      <4>1. pc \in Receiving /\ mon_tftp_block = Len(memory) + 1 /\ p.n = mon_tftp_block
        BY <3>2, <3>3, <3>5 DEF ExpectedBlock, Scalars, Places, Booting
      <4>2. memory' = Append(memory, p.n)
        BY <3>5 DEF ExpectedBlock
      <4>3. memory' \in Seq(1..FileLen) /\ Len(memory') = Len(memory) + 1
        BY <3>2, <4>2
      <4>4. mon_tftp_bytes' = mon_tftp_bytes + 1
        BY <3>5 DEF ExpectedBlock
      <4>5. \/ /\ mon_tftp_block = FileLen /\ mon_tftp_block' = mon_tftp_block
               /\ mon_boot_state' = "BOOT_DONE"
            \/ /\ mon_tftp_block < FileLen /\ mon_tftp_block' = mon_tftp_block + 1
               /\ mon_boot_state' = "TFTP_REQ_SENT"
        BY <3>3, <3>5 DEF ExpectedBlock
      <4> QED  BY <3>3, <4>1, <4>3, <4>4, <4>5
    <3> QED  BY <3>1, <3>4, <3>5
  <2> QED  BY <1>4, <2>1, <2>2, <2>3 DEF Interrupt
<1>5. CASE Environment
  BY <1>5 DEF Environment, here, transfer
<1> QED  BY <1>1, <1>2, <1>3, <1>4, <1>5 DEF Next
LEMMA NetStep == Scalars /\ Blocks /\ NetInv /\ Next => NetInv'
<1> SUFFICES ASSUME Scalars, Blocks, NetInv, Next PROVE NetOK(net')
  BY DEF NetInv
<1>0. NetOK(net) /\ Server \in Host
  BY NetbootAssumption DEF NetInv
<1>1. ASSUME NEW kind \in Kinds, NEW h \in Host, NEW s \in 0..Sessions, NEW n \in 0..FileLen,
             kind = "data" => n >= 1
      PROVE  Packet(kind, h, s, n) \in Packets
  BY <1>1 DEF Packet, Packets
<1>2. 0 \in 0..FileLen /\ 0 \in 0..Sessions
  BY NetbootAssumption
<1>3. \A p \in net.wire : NetOK([net EXCEPT !.wire = @ \ {p}]) /\ p \in Packets
  BY <1>0 DEF NetOK, Networks
<1>4. \A p \in net.wire : \A N \in Arrived(p) : NetOK(N)
  BY <1>0, <1>3, Zenon DEF Arrived
<1>5. \A kinds : \A p \in Arriving(kinds) : p \in net.wire /\ p \in Packets
  BY <1>3 DEF Arriving
<1>6. ASSUME NEW N, NetOK(N), NEW s \in 0..Sessions, NEW n \in 0..FileLen,
             mon_tftp_ack(N, s, n)
      PROVE  NetOK(net')
  <2>1. Packet("ack", Server, s, n) \in Packets
    BY <1>0, <1>1 DEF Kinds
  <2> QED  BY <1>6, <2>1, NetwriteKeeps DEF mon_tftp_ack
<1>7. CASE Command
  BY <1>0, <1>7, ArpinitKeeps DEF Command, BootCommand, ContinueCommand, Break
<1>8. CASE MainStep
  <2>1. Packet("bootpreq", Server, 0, 0) \in Packets /\ Packet("rrq", Server, 0, 0) \in Packets
    BY <1>0, <1>1, <1>2 DEF Kinds
  <2>2. CASE BootpRequest
    BY <1>0, <2>1, <2>2, SentKeeps DEF BootpRequest
  <2>3. CASE TftpRequest
    BY <1>0, <2>1, <2>3, NetwriteKeeps DEF TftpRequest
  <2>4. CASE UNCHANGED net
    BY <1>0, <2>4
  <2> QED
    BY <1>8, <2>2, <2>3, <2>4 DEF MainStep, BeginBootp, BootpTimer, BeginTftp, TftpState,
       TftpTimer, TftpBlock, TftpBytes, TftpRetx, Spin, BootEnd
<1>9. CASE mon_timer
  <2>1. CASE UNCHANGED net
    BY <1>0, <2>1
  <2>2. CASE /\ mon_boot_state = "TFTP_REQ_SENT" /\ mon_tftp_bytes # 0 /\ Booting
             /\ mon_tftp_ack(net, mon_tftp_server_port, mon_tftp_block - 1)
    <3>1. mon_tftp_block - 1 \in 0..FileLen /\ mon_tftp_server_port \in 0..Sessions
      BY <2>2 DEF Scalars, Blocks, Places, Booting, Setting, Receiving
    <3> QED  BY <1>0, <1>6, <2>2, <3>1
  <2> QED  BY <1>9, <2>1, <2>2 DEF mon_timer, TimerPasses
<1>10. CASE Interrupt
  <2>1. CASE ArpIn
    <3>1. PICK p \in Arriving({"arpans", "hostask"}) :
            \E N \in Arrived(p) : net' = mon_arp_in(N, p.host)
      BY <2>1 DEF ArpIn
    <3>2. p.host \in Host
      BY <1>5 DEF Packets
    <3> QED  BY <1>4, <1>5, <3>1, <3>2, ArpInKeeps
  <2>2. CASE BootpIn \/ TftpError
    BY <1>4, <1>5, <2>2 DEF BootpIn, TftpError
  <2>3. CASE TftpIn
    <3>1. PICK p \in Arriving({"data"}) :
            \E N \in Arrived(p) : ExpectedBlock(p, N) \/ OtherBlock(p, N)
      BY <2>3 DEF TftpIn
    <3>2. PICK N \in Arrived(p) : ExpectedBlock(p, N) \/ OtherBlock(p, N)
      BY <3>1
    <3>3. NetOK(N) /\ p.ses \in 0..Sessions /\ p.n \in 0..FileLen
      BY <1>4, <1>5 DEF Packets
    <3>4. mon_tftp_block \in 0..FileLen
      BY DEF Blocks
    <3>5. \/ mon_tftp_ack(N, p.ses, p.n) \/ mon_tftp_ack(N, p.ses, mon_tftp_block)
          \/ net' = N
      BY <3>2 DEF ExpectedBlock, OtherBlock
    <3> QED  BY <1>6, <3>3, <3>4, <3>5
  <2> QED  BY <1>10, <2>1, <2>2, <2>3 DEF Interrupt
<1>11. CASE Environment
  <2>1. CASE Lose
    BY <1>3, <2>1 DEF Lose
  <2>2. CASE Hosts
    <3>1. CASE \E h \in Host : net' = Sent(net, Packet("hostask", h, 0, 0))
      <4>1. \A h \in Host : Packet("hostask", h, 0, 0) \in Packets
        BY <1>1, <1>2 DEF Kinds
      <4> QED  BY <1>0, <3>1, <4>1, SentKeeps
    <3>2. CASE \E p \in Arriving({"arpask"}) : \E N \in Arrived(p) :
                 net' = Sent(N, Packet("arpans", p.host, 0, 0))
      <4>1. PICK p \in Arriving({"arpask"}) : \E N \in Arrived(p) :
              net' = Sent(N, Packet("arpans", p.host, 0, 0))
        BY <3>2
      <4>2. p.host \in Host
        BY <1>5 DEF Packets
      <4>3. Packet("arpans", p.host, 0, 0) \in Packets
        BY <1>1, <1>2, <4>2 DEF Kinds
      <4> QED  BY <1>4, <1>5, <4>1, <4>3, SentKeeps
    <3> QED  BY <2>2, <3>1, <3>2 DEF Hosts
  <2>3. CASE BootpServer
    <3>1. Packet("bootprep", Server, 0, 0) \in Packets /\ Packet("badrep", Server, 0, 0) \in Packets
      BY <1>0, <1>1, <1>2 DEF Kinds
    <3> QED  BY <1>4, <1>5, <2>3, <3>1, SentKeeps DEF BootpServer
  <2>4. ASSUME NEW s \in Session, NEW n \in 1..FileLen
        PROVE  /\ Packet("data", Server, s, n) \in Packets
               /\ Packet("error", Server, s, 0) \in Packets
    <3>1. s \in 0..Sessions /\ n \in 0..FileLen /\ n >= 1
      BY NetbootAssumption DEF Session
    <3> QED  BY <1>0, <1>1, <1>2, <3>1 DEF Kinds
  <2>5. ASSUME NEW N, NetOK(N), NEW s \in Session, NEW n \in 1..FileLen, Answer(N, s, n)
        PROVE  NetOK(net')
    BY <2>4, <2>5, SentKeeps DEF Answer
  <2>6. CASE Resend
    <3>1. PICK s \in Session :
            session[s] # 0 /\ net' = Sent(net, Packet("data", Server, s, session[s]))
      BY <2>6 DEF Resend
    <3>2. session[s] \in 1..FileLen
      BY <3>1 DEF Scalars
    <3> QED  BY <1>0, <2>4, <3>1, <3>2, SentKeeps
  <2>7. CASE OpenSession
    <3>1. 1 \in 1..FileLen
      BY NetbootAssumption
    <3>2. PICK p \in Arriving({"rrq"}), s \in Session : \E N \in Arrived(p) : Answer(N, s, 1)
      BY <2>7 DEF OpenSession
    <3> QED  BY <1>4, <1>5, <2>5, <3>1, <3>2
  <2>8. CASE Acknowledged
    <3>1. PICK p \in Arriving({"ack"}) : \E N \in Arrived(p) :
            /\ p.ses \in Session /\ session[p.ses] = p.n /\ p.n < FileLen
            /\ Answer(N, p.ses, p.n + 1)
      BY <2>8 DEF Acknowledged
    <3>2. p.ses \in Session /\ p.n + 1 \in 1..FileLen
      BY <3>1, NetbootAssumption DEF Scalars
    <3>3. PICK N \in Arrived(p) : Answer(N, p.ses, p.n + 1)
      BY <3>1
    <3> QED  BY <1>4, <1>5, <2>5, <3>2, <3>3
  <2> QED  BY <1>11, <2>1, <2>2, <2>3, <2>6, <2>7, <2>8 DEF Environment
<1> QED  BY <1>7, <1>8, <1>9, <1>10, <1>11 DEF Next

LEMMA IInvStep == IInv /\ [Next]_vars => IInv'
<1> SUFFICES ASSUME IInv, [Next]_vars PROVE IInv'
  OBVIOUS
<1>1. CASE Next
  BY <1>1, FlagsStep, ScalarsStep, BlocksStep, NetStep DEF IInv
<1>2. CASE UNCHANGED vars
  <2>1. Flags'
    BY <1>2, Zenon DEF IInv, Flags, vars
  <2>2. Scalars' /\ Blocks' /\ NetInv'
    BY <1>2 DEF IInv, vars, transfer, Scalars, Blocks, NetInv, Booting
  <2> QED  BY <2>1, <2>2 DEF IInv
<1> QED  BY <1>1, <1>2
-----------------------------------------------------------------------------
(* At most one entry of the table is a host's, and a packet waits only for *)
(* the host of its entry (mon/monarp.c, monnet.c), for every table size.   *)
THEOREM ArpAlwaysFunctional == Spec => []ArpFunctional
<1>1. IInv => ArpFunctional
  BY DEF IInv, NetInv, NetOK, ArpFunctional
<1> QED  BY <1>1, IInvInit, IInvStep, PTL DEF Spec

(* Every variable has its type (the counters of mon/montftp.c stay within  *)
(* the file).                                                              *)
THEOREM BootTyped == Spec => []NetbootTypeOK
<1>1. ASSUME IInv PROVE NetbootTypeOK
  <2>1. Flags
    BY <1>1 DEF IInv
  <2>2. mon_tftp_bytes \in 0..FileLen
    BY <1>1, NetbootAssumption DEF IInv, Blocks
  <2>3. net \in Networks
    BY <1>1 DEF IInv, NetInv, NetOK
  <2>4. Scalars /\ Blocks
    BY <1>1 DEF IInv
  <2> QED  BY <2>1, <2>2, <2>3, <2>4, Zenon DEF NetbootTypeOK, Flags, Scalars, Blocks
<1> QED  BY <1>1, IInvInit, IInvStep, PTL DEF Spec

(* The expected block follows those in memory (mon/montftp.c, monboot.c),  *)
(* for every file that a block number can count.                           *)
THEOREM BlocksAlwaysInStep == Spec => []BlocksInStep
<1>1. IInv => BlocksInStep
  BY DEF IInv, Blocks, BlocksInStep, Receiving
<1> QED  BY <1>1, IInvInit, IInvStep, PTL DEF Spec

LEMMA AbstractInit == Init => Abstract!Init
BY DEF Init, Abstract!Init, outcome, Booting

LEMMA AbstractStep == IInv /\ [Next]_vars => [Abstract!Next]_<<memory, outcome>>
<1> SUFFICES ASSUME IInv, [Next]_vars PROVE Abstract!Next \/ UNCHANGED <<memory, outcome>>
  OBVIOUS
<1> USE DEF outcome, Booting, Goto
<1>1. CASE UNCHANGED vars
  BY <1>1 DEF vars, transfer
<1>2. CASE Command
  <2>1. UNCHANGED memory
    BY <1>2 DEF Command, BootCommand, ContinueCommand, Break, transfer
  <2>2. outcome = "idle" /\ outcome' \in {"idle", "loading"}
    BY <1>2 DEF IInv, Blocks, Command, BootCommand, ContinueCommand, Break
  <2> QED  BY <2>1, <2>2 DEF Abstract!Next, Abstract!Begin
<1>3. CASE MainStep
  <2>1. CASE BeginBootp
    <3>1. memory' = memory /\ outcome = "loading" /\ outcome' \in {"loading", "idle"}
      BY <2>1 DEF BeginBootp, transfer
    <3> QED  BY <3>1 DEF Abstract!Next, Abstract!GiveUp
  <2>2. CASE BeginTftp
    <3>1. \/ memory' = <<>> /\ outcome = "loading" /\ outcome' = "loading"
          \/ UNCHANGED memory /\ outcome = "loading" /\ outcome' = "idle"
      BY <2>2 DEF BeginTftp
    <3> QED  BY <3>1 DEF Abstract!Next, Abstract!StartOver, Abstract!GiveUp
  <2>3. CASE BootEnd
    <3>1. memory' = memory /\ mon_boot_state' = mon_boot_state /\ pc = "loop"
      BY <2>3 DEF BootEnd, transfer
    <3>2. CASE mon_boot_state = "BOOT_DONE"
      BY <3>1, <3>2
    <3>3. CASE mon_boot_state = "BOOT_ERROR"
      <4>1. outcome = "loading" /\ outcome' = "idle"
        BY <2>3, <3>1, <3>3 DEF BootEnd
      <4> QED  BY <3>1, <4>1 DEF Abstract!Next, Abstract!GiveUp
    <3> QED  BY <2>3, <3>2, <3>3 DEF BootEnd
  <2>4. CASE BootpRequest \/ BootpTimer \/ TftpRequest \/ TftpState \/ TftpTimer
    BY <2>4 DEF IInv, Blocks, BootpRequest, BootpTimer, TftpRequest, TftpState, TftpTimer, transfer
  <2>5. CASE TftpBlock \/ TftpBytes \/ TftpRetx \/ Spin
    BY <2>5 DEF TftpBlock, TftpBytes, TftpRetx, Spin, transfer
  <2> QED  BY <1>3, <2>1, <2>2, <2>3, <2>4, <2>5 DEF MainStep
<1>4. CASE mon_timer
  BY <1>4 DEF mon_timer, TimerPasses
<1>5. CASE Interrupt
  <2>1. CASE ArpIn \/ BootpIn
    BY <2>1 DEF ArpIn, BootpIn, transfer
  <2>2. CASE TftpError
    BY <2>2 DEF TftpError
  <2>3. CASE TftpIn
    <3>1. PICK p \in Arriving({"data"}) :
            \E N \in Arrived(p) : ExpectedBlock(p, N) \/ OtherBlock(p, N)
      BY <2>3 DEF TftpIn
    <3>2. PICK N \in Arrived(p) : ExpectedBlock(p, N) \/ OtherBlock(p, N)
      BY <3>1
    <3>3. mon_boot_state = "TFTP_REQ_SENT" /\ Booting /\ pc' = pc
      BY <2>3 DEF TftpIn
    <3>4. CASE OtherBlock(p, N)
      BY <3>3, <3>4 DEF OtherBlock
    <3>5. CASE ExpectedBlock(p, N)
      <4>1. p.n \in 1..FileLen /\ p.n = mon_tftp_block
        BY <3>5 DEF ExpectedBlock, Arriving, IInv, NetInv, NetOK, Networks, Packets
      <4>2. p.n = Len(memory) + 1
        BY <3>3, <4>1 DEF IInv, Scalars, Blocks, Places, Setting, Receiving
      <4>3. memory' = Append(memory, Len(memory) + 1)
        BY <3>5, <4>2 DEF ExpectedBlock
      <4>4. outcome = "loading"
        BY <3>3
      <4>5. outcome' = IF Len(memory) + 1 = FileLen THEN "loaded" ELSE "loading"
        BY <3>3, <3>5, <4>2 DEF ExpectedBlock
      <4> QED  BY <4>3, <4>4, <4>5 DEF Abstract!Next, Abstract!Receive
    <3> QED  BY <3>2, <3>4, <3>5
  <2> QED  BY <1>5, <2>1, <2>2, <2>3 DEF Interrupt
<1>6. CASE Environment
  BY <1>6 DEF Environment, here, transfer
<1> QED  BY <1>1, <1>2, <1>3, <1>4, <1>5, <1>6 DEF Next

(* The monitor's transfer implements Transfer: whatever the network loses, *)
(* repeats and reorders, memory holds the beginning of the file, and the   *)
(* image is entered only when all of it is there.                          *)
THEOREM TransferImplemented == Spec => ImplementsTransfer
<1>1. IInv /\ [Next]_vars => [Abstract!Next]_<<memory, outcome>>
  BY AbstractStep
<1> QED
  BY <1>1, AbstractInit, IInvInit, IInvStep, PTL DEF Spec, ImplementsTransfer, Abstract!Spec
-----------------------------------------------------------------------------
(* TimerRuns, in all the places from which the loop is reached without     *)
(* setting the timer again.                                                *)
Untimed   == {"loop", "spin", "tftp_block", "tftp_bytes", "tftp_retx"}
TimerInv  == Waiting /\ timer = Off /\ pc \in Untimed => silenced

(* The ways a step can keep TimerInv.                                      *)
KeepsTimer ==
  \/ timer' # Off \/ ~Waiting' \/ pc' \notin Untimed \/ silenced' = TRUE
  \/ /\ timer' = timer /\ silenced' = silenced
     /\ Waiting' => Waiting
     /\ pc' \in Untimed => pc \in Untimed

LEMMA KeepsTimerKeeps == TimerInv /\ KeepsTimer => TimerInv'
BY Zenon DEF TimerInv, KeepsTimer

LEMMA TimerStep == Scalars /\ Next => KeepsTimer
<1> SUFFICES ASSUME Scalars, Next PROVE KeepsTimer
  OBVIOUS
<1> USE DEF Untimed, Waiting, Off, Goto
<1>1. CASE Command
  <2>1. CASE BootCommand
    <3>1. ~Waiting' \/ pc' = "panic"
      BY <2>1 DEF BootCommand
    <3> QED  BY <3>1 DEF KeepsTimer
  <2>2. CASE ContinueCommand \/ Break
    <3>1. pc' \in {"continue", "monitor"}
      BY <2>2 DEF ContinueCommand, Break
    <3> QED  BY <3>1 DEF KeepsTimer
  <2> QED  BY <1>1, <2>1, <2>2 DEF Command
<1>2. CASE MainStep
  <2>1. CASE BeginBootp \/ BootpRequest \/ BeginTftp \/ TftpRequest \/ TftpState \/ BootEnd
    <3>1. pc' \notin Untimed
      BY <2>1 DEF BeginBootp, BootpRequest, BeginTftp, TftpRequest, TftpState, BootEnd
    <3> QED  BY <3>1 DEF KeepsTimer
  <2>2. CASE BootpTimer \/ TftpTimer
    <3>1. timer' # Off
      BY <2>2 DEF BootpTimer, TftpTimer, StartTimer, Scalars
    <3> QED  BY <3>1 DEF KeepsTimer
  <2>3. CASE TftpBlock \/ TftpBytes \/ TftpRetx \/ Spin
    <3>1. /\ timer' = timer /\ mon_boot_state' = mon_boot_state
          /\ pc \in Untimed /\ pc' \in Untimed
      BY <2>3 DEF TftpBlock, TftpBytes, TftpRetx, Spin, loopVars
    <3>2. silenced' = silenced
      BY <2>3, Zenon DEF TftpBlock, TftpBytes, TftpRetx, Spin
    <3> QED  BY <3>1, <3>2, Zenon DEF KeepsTimer, Waiting
  <2> QED  BY <1>2, <2>1, <2>2, <2>3 DEF MainStep
<1>3. CASE mon_timer
  <2>1. timer' # Off \/ mon_boot_state' = "BOOT_ERROR"
    BY <1>3, NetbootAssumption DEF mon_timer, TimerPasses, mon_tftp_ack, StartTimer, Scalars
  <2> QED  BY <2>1 DEF KeepsTimer
<1>4. CASE Interrupt
  <2>1. CASE ArpIn
    <3>1. timer' = timer /\ mon_boot_state' = mon_boot_state /\ pc' = pc
      BY <2>1 DEF ArpIn
    <3>2. silenced' = silenced
      BY <2>1, Zenon DEF ArpIn
    <3> QED  BY <3>1, <3>2, Zenon DEF KeepsTimer, Waiting
  <2>2. CASE BootpIn \/ TftpError
    <3>1. ~Waiting'
      BY <2>2 DEF BootpIn, TftpError
    <3> QED  BY <3>1 DEF KeepsTimer
  <2>3. CASE TftpIn
    <3>1. PICK p \in Arriving({"data"}) :
            \E N \in Arrived(p) : ExpectedBlock(p, N) \/ OtherBlock(p, N)
      BY <2>3 DEF TftpIn
    <3>2. PICK N \in Arrived(p) : ExpectedBlock(p, N) \/ OtherBlock(p, N)
      BY <3>1
    <3>3. timer' = 2 \/ silenced' = TRUE
      BY <3>2 DEF ExpectedBlock, OtherBlock, mon_tftp_ack, StartTimer
    <3> QED  BY <3>3 DEF KeepsTimer
  <2> QED  BY <1>4, <2>1, <2>2, <2>3 DEF Interrupt
<1>5. CASE Environment
  <2>1. timer' = timer /\ mon_boot_state' = mon_boot_state /\ pc' = pc
    BY <1>5 DEF Environment, here
  <2>2. silenced' = silenced
    BY <1>5, Zenon DEF Environment, here
  <2> QED  BY <2>1, <2>2, Zenon DEF KeepsTimer, Waiting
<1> QED  BY <1>1, <1>2, <1>3, <1>4, <1>5 DEF Next

(* A monitor that waits has a timer, or was silenced (mon/monboot.c,       *)
(* montimer.c, monudp.c), wherever in its loop the interrupts came.        *)
THEOREM TimerAlwaysRuns == Spec => []TimerRuns
<1>1. Init => TimerInv
  BY DEF Init, TimerInv, Waiting
<1>2. IInv /\ TimerInv /\ [Next]_vars => TimerInv'
  <2> SUFFICES ASSUME IInv, TimerInv, [Next]_vars PROVE TimerInv'
    OBVIOUS
  <2>1. CASE Next
    BY <2>1, TimerStep, KeepsTimerKeeps DEF IInv
  <2>2. CASE UNCHANGED vars
    <3>1. timer' = timer /\ mon_boot_state' = mon_boot_state /\ pc' = pc
      BY <2>2 DEF vars
    <3>2. silenced' = silenced
      BY <2>2, Zenon DEF vars
    <3>3. KeepsTimer
      BY <3>1, <3>2, Zenon DEF KeepsTimer, Waiting
    <3> QED  BY <3>3, KeepsTimerKeeps
  <2> QED  BY <2>1, <2>2
<1>3. TimerInv => TimerRuns
  BY DEF TimerInv, TimerRuns, Untimed
<1> QED  BY <1>1, <1>2, <1>3, IInvInit, IInvStep, PTL DEF Spec
-----------------------------------------------------------------------------
(* The states that come late, each with those it may follow in a boot.     *)
Second == {"BEGIN_TFTP", "TFTP_REQ_SENT", "TFTP_RETX"}
Final  == {"BOOT_DONE", "BOOT_ERROR"}

LEMMA PhaseKept ==
  /\ mon_boot_state \in Final => mon_boot_state' \in Final
  /\ mon_boot_state \in Second => mon_boot_state' \in Second \cup Final
  /\ mon_boot_state # "NONE" => mon_boot_state' \in States \ {"NONE"}
  => Phase <= Phase'
BY DEF Phase, Second, Final, States

(* No late reply or block takes a boot back (mon/monudp.c, montftp.c, and  *)
(* the loop of monboot.c whose stores come after its tests): the state     *)
(* that the loop read may be gone, but never to an earlier phase.          *)
THEOREM PhasesGoForward == Spec => PhaseForward
<1>1. ASSUME IInv, [Next]_vars, Booting, Booting' PROVE Phase <= Phase'
  <2> USE DEF Second, Final, States
  <2>1. mon_boot_state \in States
    BY <1>1 DEF IInv, Scalars
  <2>2. CASE mon_boot_state' = mon_boot_state
    BY <2>1, <2>2, PhaseKept
  <2>3. CASE Command
    BY <1>1, <2>3 DEF Command, BootCommand, ContinueCommand, Break, Booting, Goto
  <2>4. CASE MainStep
    <3>1. CASE BeginBootp
      BY <2>1, <2>2, <3>1, PhaseKept DEF BeginBootp
    <3>2. CASE TftpState
      BY <1>1, <2>1, <3>2, PhaseKept DEF TftpState, IInv, Blocks
    <3>3. CASE ~(BeginBootp \/ TftpState)
      BY <2>2, <2>4, <3>3 DEF MainStep, BootpRequest, BootpTimer, BeginTftp, TftpRequest,
         TftpTimer, TftpBlock, TftpBytes, TftpRetx, Spin, BootEnd
    <3> QED  BY <3>1, <3>2, <3>3
  <2>5. CASE mon_timer
    BY <2>1, <2>2, <2>5, PhaseKept DEF mon_timer, TimerPasses
  <2>6. CASE Interrupt
    <3>1. CASE ArpIn
      BY <2>2, <3>1 DEF ArpIn
    <3>2. CASE BootpIn
      BY <3>2, PhaseKept DEF BootpIn
    <3>3. CASE TftpIn
      BY <2>2, <3>3, PhaseKept DEF TftpIn, ExpectedBlock, OtherBlock
    <3>4. CASE TftpError
      BY <3>4, PhaseKept DEF TftpError
    <3> QED  BY <2>6, <3>1, <3>2, <3>3, <3>4 DEF Interrupt
  <2>7. CASE Environment
    BY <2>2, <2>7 DEF Environment, here
  <2>8. CASE UNCHANGED vars
    BY <2>2, <2>8 DEF vars
  <2> QED  BY <1>1, <2>3, <2>4, <2>5, <2>6, <2>7, <2>8 DEF Next
<1>2. IInv /\ [Next]_vars => [Booting /\ Booting' => Phase <= Phase']_vars
  BY <1>1
<1> QED  BY <1>2, IInvInit, IInvStep, PTL DEF Spec, PhaseForward
=============================================================================
