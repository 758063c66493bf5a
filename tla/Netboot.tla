------------------------------ MODULE Netboot -------------------------------
(***************************************************************************)
(* The monitor's boot from the network (mon/monitor.c, monboot.c,          *)
(* montimer.c, monudp.c, monbootp.c, montftp.c).  boot_xinu is a loop over *)
(* mon_boot_state that runs with interrupts enabled; the Ethernet and the  *)
(* clock interrupt change the same variables under it.  Each of the loop's *)
(* stores is a step, each interrupt handler is one step.                   *)
(*                                                                         *)
(* The network may lose, duplicate and reorder packets.  The BOOTP and     *)
(* TFTP servers and the other hosts are the environment (external); a TFTP *)
(* server opens a session (a port) for each request it sees, repeats the   *)
(* block that is not acknowledged, and ignores old acknowledgements.       *)
(***************************************************************************)
EXTENDS MonArp, Sequences

CONSTANTS
  Server,        \* the host that boots this machine
  FileLen,       \* blocks of the boot file, the last one short
  Sessions,      \* bound: requests the server answers with a session
  MON_MAX_TRY,   \* repetitions of a request (3)
  RETX_MAX,      \* repetitions of acknowledgements in one transfer (5)
  NBPOOLS        \* buffer pools that can be made (20): one per boot command

(* A received block number is a short: larger files do not load.           *)
MAXBLOCK == 2^15 - 1

ASSUME NetbootAssumption ==
  /\ FileLen \in Nat \ {0} /\ FileLen <= MAXBLOCK /\ Sessions \in Nat
  /\ MON_MAX_TRY \in Nat /\ RETX_MAX \in Nat /\ NBPOOLS \in Nat
  /\ Server \in Host

VARIABLES
  pc,               \* where the monitor is
  rereads,          \* whether the compiled loop loads the state every time
  mon_boot_state,
  mon_boot_try,
  timer,            \* seconds until mon_timeout, 0 when passed, or Off
  mon_tftp_block,   \* the block that is expected
  mon_tftp_bytes,   \* counted in blocks
  mon_tftp_retx,
  mon_tftp_server_port,
  memory,           \* the blocks copied between BOOTPLOC and mon_tftp_memloc
  net,              \* ARP table and network, see MonArp
  ni_ip,            \* whether this machine knows its address
  nbpools,
  silenced,         \* history: a block out of step stopped the timer last
  session           \* external: the block each session of the server repeats

transfer == <<mon_tftp_block, mon_tftp_bytes, mon_tftp_retx,
              mon_tftp_server_port, memory>>
vars == <<pc, rereads, mon_boot_state, mon_boot_try, timer, transfer, net, ni_ip,
          nbpools, silenced, session>>

Off == -1
Session == 1..Sessions

Booting == pc \notin {"monitor", "continue", "panic", "running"}
Goto(place) == pc' = place

(* A timer set to mon_clktime + n; setting it ends a silence.              *)
StartTimer(n) == timer' = n /\ silenced' = FALSE
-----------------------------------------------------------------------------
Init ==
  /\ pc = "monitor" /\ rereads \in BOOLEAN
  /\ mon_boot_state = "NONE" /\ mon_boot_try = 0 /\ timer = Off
  /\ mon_tftp_block = 0 /\ mon_tftp_bytes = 0 /\ mon_tftp_retx = 0
  /\ mon_tftp_server_port = 0 /\ memory = <<>>
  /\ net = [arp |-> [i \in Slot |-> FreeEntry], wire |-> {}]
  /\ ni_ip = FALSE /\ nbpools = 0 /\ silenced = FALSE
  /\ session = [s \in Session |-> 0]

(* mon_cmd "b": a pool for the network (the card's driver panics when      *)
(* there is none), the ARP table, and boot_xinu.  Interrupts are enabled.  *)
BootCommand ==
  /\ pc = "monitor"
  /\ IF nbpools = NBPOOLS
       THEN Goto("panic") /\ UNCHANGED <<nbpools, net, mon_boot_state, mon_boot_try,
                                         timer, silenced>>
       ELSE /\ Goto("loop")
            /\ nbpools' = nbpools + 1
            /\ net' = mon_arpinit(net)
            /\ mon_boot_state' = "BEGIN_BOOTP" /\ mon_boot_try' = 0
            /\ timer' = Off /\ silenced' = FALSE
  /\ UNCHANGED <<rereads, transfer, ni_ip, session>>

(* mon_cmd "c": the interrupted program goes on.                           *)
ContinueCommand ==
  /\ pc = "monitor" /\ Goto("continue")
  /\ UNCHANGED <<rereads, mon_boot_state, mon_boot_try, timer, transfer, net, ni_ip,
                 nbpools, silenced, session>>

(* A serial BREAK enters the monitor again.                                *)
Break ==
  /\ pc = "continue" /\ Goto("monitor")
  /\ UNCHANGED <<rereads, mon_boot_state, mon_boot_try, timer, transfer, net, ni_ip,
                 nbpools, silenced, session>>

loopVars == <<rereads, nbpools, ni_ip, session>>

(* boot_xinu: BOOTP_RETX and BEGIN_BOOTP.                                  *)
BeginBootp ==
  /\ pc = "loop" /\ mon_boot_state \in {"BOOTP_RETX", "BEGIN_BOOTP"}
  /\ LET n == IF mon_boot_state = "BOOTP_RETX" THEN mon_boot_try + 1 ELSE mon_boot_try
     IN  /\ mon_boot_try' = n
         /\ IF mon_boot_state = "BOOTP_RETX" /\ n > MON_MAX_TRY
              THEN Goto("monitor") /\ UNCHANGED mon_boot_state
              ELSE Goto("bootp_send") /\ mon_boot_state' = "BOOTP_REQ_SENT"
  /\ UNCHANGED <<loopVars, timer, transfer, net, silenced>>

(* mon_bootp_request is broadcast: no address to look up.                  *)
BootpRequest ==
  /\ pc = "bootp_send" /\ Goto("bootp_timer")
  /\ net' = Sent(net, Packet("bootpreq", Server, 0, 0))
  /\ UNCHANGED <<loopVars, mon_boot_state, mon_boot_try, timer, transfer, silenced>>

BootpTimer ==
  /\ pc = "bootp_timer" /\ Goto("loop")
  /\ StartTimer(mon_boot_try + 2)
  /\ UNCHANGED <<loopVars, mon_boot_state, mon_boot_try, transfer, net>>

(* Mutant of BeginTftp: the block that was expected is not forgotten. *)
BeginTftp_KeepBlock ==
  /\ pc = "loop" /\ mon_boot_state \in {"TFTP_RETX", "BEGIN_TFTP"}
  /\ LET n == IF mon_boot_state = "TFTP_RETX" THEN mon_boot_try + 1 ELSE mon_boot_try
     IN  /\ mon_boot_try' = n
         /\ IF mon_boot_state = "TFTP_RETX" /\ n > MON_MAX_TRY
              THEN Goto("monitor") /\ UNCHANGED <<memory, mon_tftp_bytes>>
              ELSE Goto("tftp_send") /\ memory' = <<>> /\ mon_tftp_bytes' = 0
  /\ UNCHANGED <<loopVars, mon_boot_state, timer, mon_tftp_block, mon_tftp_retx,
                 mon_tftp_server_port, net, silenced>>

(* TFTP_RETX and BEGIN_TFTP: mon_tftp_req sets the transfer back ...       *)
BeginTftp ==
  /\ pc = "loop" /\ mon_boot_state \in {"TFTP_RETX", "BEGIN_TFTP"}
  /\ LET n == IF mon_boot_state = "TFTP_RETX" THEN mon_boot_try + 1 ELSE mon_boot_try
     IN  /\ mon_boot_try' = n
         /\ IF mon_boot_state = "TFTP_RETX" /\ n > MON_MAX_TRY
              THEN /\ Goto("monitor")
                   /\ UNCHANGED <<memory, mon_tftp_block, mon_tftp_bytes>>
              ELSE /\ Goto("tftp_send")
                   /\ memory' = <<>> /\ mon_tftp_block' = 0 /\ mon_tftp_bytes' = 0
  /\ UNCHANGED <<loopVars, mon_boot_state, timer, mon_tftp_retx, mon_tftp_server_port,
                 net, silenced>>

(* ... and sends the request.                                              *)
TftpRequest ==
  /\ pc = "tftp_send" /\ Goto("tftp_state")
  /\ net' = mon_netwrite(net, Packet("rrq", Server, 0, 0))
  /\ UNCHANGED <<loopVars, mon_boot_state, mon_boot_try, timer, transfer, silenced>>

(* Only then do the loop's stores follow, one by one.                      *)
TftpState ==
  /\ pc = "tftp_state" /\ Goto("tftp_timer")
  /\ mon_boot_state' = "TFTP_REQ_SENT"
  /\ UNCHANGED <<loopVars, mon_boot_try, timer, transfer, net, silenced>>

(* Mutant of TftpTimer: the request's timer is not started. *)
TftpTimer_None ==
  /\ pc = "tftp_timer" /\ Goto("tftp_block")
  /\ UNCHANGED <<loopVars, mon_boot_state, mon_boot_try, timer, transfer, net, silenced>>

TftpTimer ==
  /\ pc = "tftp_timer" /\ Goto("tftp_block")
  /\ StartTimer(mon_boot_try + 2)
  /\ UNCHANGED <<loopVars, mon_boot_state, mon_boot_try, transfer, net>>

TftpBlock ==
  /\ pc = "tftp_block" /\ Goto("tftp_bytes")
  /\ mon_tftp_block' = 1
  /\ UNCHANGED <<loopVars, mon_boot_state, mon_boot_try, timer, mon_tftp_bytes,
                 mon_tftp_retx, mon_tftp_server_port, memory, net, silenced>>

TftpBytes ==
  /\ pc = "tftp_bytes" /\ Goto("tftp_retx")
  /\ mon_tftp_bytes' = 0
  /\ UNCHANGED <<loopVars, mon_boot_state, mon_boot_try, timer, mon_tftp_block,
                 mon_tftp_retx, mon_tftp_server_port, memory, net, silenced>>

TftpRetx ==
  /\ pc = "tftp_retx" /\ Goto("loop")
  /\ mon_tftp_retx' = 0
  /\ UNCHANGED <<loopVars, mon_boot_state, mon_boot_try, timer, mon_tftp_block,
                 mon_tftp_bytes, mon_tftp_server_port, memory, net, silenced>>

(* BOOTP_REQ_SENT and TFTP_REQ_SENT: nothing to do.  mon_boot_state is not *)
(* volatile: a build may keep the value it read and turn for ever.         *)
Spin ==
  /\ pc = "loop" /\ mon_boot_state \in {"BOOTP_REQ_SENT", "TFTP_REQ_SENT"}
  /\ ~rereads /\ Goto("spin")
  /\ UNCHANGED <<loopVars, mon_boot_state, mon_boot_try, timer, transfer, net, silenced>>

(* BOOT_DONE jumps to the loaded image, BOOT_ERROR goes back to mon_cmd.   *)
BootEnd ==
  /\ pc = "loop" /\ mon_boot_state \in {"BOOT_DONE", "BOOT_ERROR"}
  /\ Goto(IF mon_boot_state = "BOOT_DONE" THEN "running" ELSE "monitor")
  /\ UNCHANGED <<loopVars, mon_boot_state, mon_boot_try, timer, transfer, net, silenced>>

MainStep ==
  \/ BeginBootp \/ BootpRequest \/ BootpTimer
  \/ BeginTftp \/ TftpRequest \/ TftpState \/ TftpTimer \/ TftpBlock \/ TftpBytes
  \/ TftpRetx \/ Spin \/ BootEnd
-----------------------------------------------------------------------------
(* mon_tftp_ack from network N: starts the timer, then sends.              *)
mon_tftp_ack(N, port, n) ==
  /\ StartTimer(2)
  /\ net' = mon_netwrite(N, Packet("ack", Server, port, n))

(* Mutant of TimerPasses: repeated acknowledgements are not counted. *)
TimerPasses_NoCount ==
  /\ timer \in {0, 1}
  /\ \/ /\ mon_boot_state = "BOOTP_REQ_SENT" /\ mon_boot_state' = "BOOTP_RETX"
        /\ timer' = 0 /\ UNCHANGED <<mon_tftp_retx, net, silenced>>
     \/ /\ mon_boot_state = "TFTP_REQ_SENT" /\ mon_tftp_bytes = 0
        /\ mon_boot_state' = "TFTP_RETX"
        /\ timer' = 0 /\ UNCHANGED <<mon_tftp_retx, net, silenced>>
     \/ /\ mon_boot_state = "TFTP_REQ_SENT" /\ mon_tftp_bytes # 0
        /\ mon_tftp_ack(net, mon_tftp_server_port, mon_tftp_block - 1)
        /\ UNCHANGED <<mon_boot_state, mon_tftp_retx>>

(* Once per second, mon_clkint: mon_timer.  A timer that has passed is not *)
(* cleared: what it does is for the state to prevent from happening twice. *)
TimerPasses ==
  /\ timer \in {0, 1}
  /\ \/ /\ mon_boot_state = "BOOTP_REQ_SENT" /\ mon_boot_state' = "BOOTP_RETX"
        /\ timer' = 0 /\ UNCHANGED <<mon_tftp_retx, net, silenced>>
     \/ /\ mon_boot_state = "TFTP_REQ_SENT" /\ mon_tftp_bytes = 0
        /\ mon_boot_state' = "TFTP_RETX"
        /\ timer' = 0 /\ UNCHANGED <<mon_tftp_retx, net, silenced>>
     \/ /\ mon_boot_state = "TFTP_REQ_SENT" /\ mon_tftp_bytes # 0
        /\ mon_tftp_retx < RETX_MAX
        /\ mon_tftp_ack(net, mon_tftp_server_port, mon_tftp_block - 1)
        /\ mon_tftp_retx' = mon_tftp_retx + 1
        /\ UNCHANGED mon_boot_state
     \/ /\ mon_boot_state = "TFTP_REQ_SENT" /\ mon_tftp_bytes # 0
        /\ mon_tftp_retx >= RETX_MAX
        /\ mon_boot_state' = "BOOT_ERROR"
        /\ timer' = Off /\ UNCHANGED <<mon_tftp_retx, net, silenced>>

Waiting == mon_boot_state \in {"BOOTP_REQ_SENT", "TFTP_REQ_SENT"}

mon_timer ==
  /\ Booting
  /\ \/ TimerPasses
     \/ /\ timer > 1 \/ (timer = 1 /\ ~Waiting)
        /\ timer' = timer - 1
        /\ UNCHANGED <<mon_boot_state, mon_tftp_retx, net, silenced>>
  /\ UNCHANGED <<pc, loopVars, mon_boot_try, mon_tftp_block, mon_tftp_bytes,
                 mon_tftp_server_port, memory>>
-----------------------------------------------------------------------------
(* Interrupts from the Ethernet card.  A packet that arrives may arrive    *)
(* again; one that the handlers ignore is as good as lost (see Lose).      *)
Arrived(p) == {net, [net EXCEPT !.wire = @ \ {p}]}
Arriving(kinds) == {p \in net.wire : p.kind \in kinds}

(* mon_arp_in: questions and answers for this machine's address.           *)
ArpIn ==
  /\ Booting /\ ni_ip
  /\ \E p \in Arriving({"arpans", "hostask"}) : \E N \in Arrived(p) :
       net' = mon_arp_in(N, p.host)
  /\ UNCHANGED <<pc, loopVars, mon_boot_state, mon_boot_try, timer, transfer, silenced>>

(* Mutant of BootpIn: a reply is taken in every state. *)
BootpIn_AnyState ==
  /\ Booting
  /\ \E p \in Arriving({"bootprep"}) : net' \in Arrived(p)
  /\ mon_boot_state' = "BEGIN_TFTP" /\ mon_boot_try' = 0 /\ ni_ip' = TRUE
  /\ timer' = Off
  /\ UNCHANGED <<pc, rereads, nbpools, session, transfer, silenced>>

(* mon_udp_in to BOOTP_CPORT: accepted in one state only; a reply without  *)
(* the cookie ("badrep") asks again.                                       *)
BootpIn ==
  /\ Booting /\ mon_boot_state = "BOOTP_REQ_SENT"
  /\ \E p \in Arriving({"bootprep", "badrep"}) :
       /\ net' \in Arrived(p)
       /\ IF p.kind = "bootprep"
            THEN mon_boot_state' = "BEGIN_TFTP" /\ mon_boot_try' = 0 /\ ni_ip' = TRUE
            ELSE mon_boot_state' = "BOOTP_RETX" /\ UNCHANGED <<mon_boot_try, ni_ip>>
  /\ timer' = Off
  /\ UNCHANGED <<pc, rereads, nbpools, session, transfer, silenced>>

(* mon_udp_in to TFTP_MY_TID, mon_tftp_in: the expected block.             *)
ExpectedBlock(p, N) ==
  /\ p.n = mon_tftp_block
  /\ memory' = Append(memory, p.n)
  /\ mon_tftp_bytes' = mon_tftp_bytes + 1
  /\ mon_tftp_ack(N, p.ses, p.n)
  /\ IF p.n = FileLen
       THEN mon_boot_state' = "BOOT_DONE" /\ UNCHANGED mon_tftp_block
       ELSE mon_tftp_block' = mon_tftp_block + 1 /\ UNCHANGED mon_boot_state

(* Another block: the one before is acknowledged again; for the one after, *)
(* the expected one is acknowledged although it is not here; for any other *)
(* nothing is sent, and the timer has been stopped.                        *)
OtherBlock(p, N) ==
  /\ p.n # mon_tftp_block
  /\ CASE mon_tftp_block - p.n = 1  -> mon_tftp_ack(N, p.ses, p.n)
       [] mon_tftp_block - p.n = -1 -> mon_tftp_ack(N, p.ses, mon_tftp_block)
       [] OTHER -> timer' = Off /\ silenced' = TRUE /\ net' = N
  /\ UNCHANGED <<memory, mon_tftp_block, mon_tftp_bytes, mon_boot_state>>

(* Mutant of TftpIn: a block is taken after the last one, too. *)
TftpIn_Late ==
  /\ Booting /\ mon_boot_state \in {"TFTP_REQ_SENT", "BOOT_DONE"}
  /\ \E p \in Arriving({"data"}) : \E N \in Arrived(p) :
       /\ mon_tftp_server_port' = p.ses
       /\ ExpectedBlock(p, N) \/ OtherBlock(p, N)
  /\ UNCHANGED <<pc, loopVars, mon_boot_try, mon_tftp_retx>>

TftpIn ==
  /\ Booting /\ mon_boot_state = "TFTP_REQ_SENT"
  /\ \E p \in Arriving({"data"}) : \E N \in Arrived(p) :
       /\ mon_tftp_server_port' = p.ses
       /\ ExpectedBlock(p, N) \/ OtherBlock(p, N)
  /\ UNCHANGED <<pc, loopVars, mon_boot_try, mon_tftp_retx>>

TftpError ==
  /\ Booting /\ mon_boot_state = "TFTP_REQ_SENT"
  /\ \E p \in Arriving({"error"}) :
       mon_tftp_server_port' = p.ses /\ net' \in Arrived(p)
  /\ mon_boot_state' = "TFTP_RETX" /\ timer' = Off
  /\ UNCHANGED <<pc, loopVars, mon_boot_try, mon_tftp_block, mon_tftp_bytes,
                 mon_tftp_retx, memory, silenced>>

Interrupt == ArpIn \/ BootpIn \/ TftpIn \/ TftpError
-----------------------------------------------------------------------------
(* External: the network and the other machines.                           *)
here == <<pc, rereads, mon_boot_state, mon_boot_try, timer, transfer, ni_ip, nbpools,
          silenced>>

Lose == \E p \in net.wire : net' = [net EXCEPT !.wire = @ \ {p}]

(* A host asks for this machine's address, or answers its question.        *)
Hosts ==
  \/ \E h \in Host : net' = Sent(net, Packet("hostask", h, 0, 0))
  \/ \E p \in Arriving({"arpask"}) : \E N \in Arrived(p) :
       net' = Sent(N, Packet("arpans", p.host, 0, 0))

BootpServer ==
  \E p \in Arriving({"bootpreq"}), kind \in {"bootprep", "badrep"} :
  \E N \in Arrived(p) : net' = Sent(N, Packet(kind, Server, 0, 0))

(* Block n of session s, or the refusal to send it.                        *)
Answer(N, s, n) ==
  net' \in {Sent(N, Packet("data", Server, s, n)), Sent(N, Packet("error", Server, s, 0))}

OpenSession ==
  \E p \in Arriving({"rrq"}), s \in Session : \E N \in Arrived(p) :
    /\ session[s] = 0 /\ \A r \in 1..(s - 1) : session[r] # 0
    /\ session' = [session EXCEPT ![s] = 1]
    /\ Answer(N, s, 1)

Acknowledged ==
  \E p \in Arriving({"ack"}) : \E N \in Arrived(p) :
    /\ p.ses \in Session /\ session[p.ses] = p.n /\ p.n < FileLen
    /\ session' = [session EXCEPT ![p.ses] = @ + 1]
    /\ Answer(N, p.ses, p.n + 1)

Resend ==
  \E s \in Session :
    session[s] # 0 /\ net' = Sent(net, Packet("data", Server, s, session[s]))

Environment ==
  \/ (Lose \/ Hosts \/ BootpServer \/ Resend) /\ UNCHANGED <<here, session>>
  \/ (OpenSession \/ Acknowledged) /\ UNCHANGED here
-----------------------------------------------------------------------------
Command == BootCommand \/ ContinueCommand \/ Break

Next == Command \/ MainStep \/ mon_timer \/ Interrupt \/ Environment

Spec == Init /\ [][Next]_vars

(* The processor runs and the clock ticks.                                 *)
FairSpec == Spec /\ WF_vars(MainStep) /\ WF_vars(mon_timer)
=============================================================================
