------------------------------- MODULE Serial -------------------------------
(***************************************************************************)
(* The serial lines' driver (com/cominit.c, comoutput.c, comintr.c): a     *)
(* ring of characters to send for each line, filled by computc and emptied *)
(* by comintr.  Interrupts are disabled in both, so each is one step       *)
(* except that comintr reads the cause first and serves it second: the     *)
(* line's hardware does not wait in between.                               *)
(*                                                                         *)
(* External: the 16450 UART, whose interrupt line is high while a cause is *)
(* pending, and the interrupt controller, programmed for edges: it asks    *)
(* for an interrupt when the line goes from low to high.                   *)
(***************************************************************************)
EXTENDS Startup, Sequences

CONSTANTS
  COMBUFSZ,    \* places of a ring (32)
  Char,        \* characters that are written, among them Newline
  Console,     \* the line kprintf writes to
  Written,     \* bound: those written to each line
  Heard,       \* bound: the lines on which characters come in
  Newline, CR

ASSUME SerialAssumption ==
  /\ COMBUFSZ \in Nat \ {0} /\ Newline \in Char /\ CR \notin Char
  /\ Console \in Port /\ Written \in [Port -> SUBSET Char]
  /\ Heard \subseteq Port

VARIABLES
  com,         \* per line: com_buf, com_start, com_count
  uart,        \* per line: the hardware, see Quiet
  serving,     \* comintr between reading the cause and serving it
  owed,        \* history, per line: characters accepted and not yet sent
  overrun,     \* history, per line: the ring was written over
  clash        \* history: two causes were pending at one time
lineVars == <<com, uart, serving, owed, overrun, clash>>
vars == <<startVars, lineVars>>

Place == 0..(COMBUFSZ - 1)
None  == [port |-> 0, cause |-> "none"]
-----------------------------------------------------------------------------
(* The UART: thre, the holding register is empty; ier, transmit interrupts *)
(* are enabled; thri, rdi and rls, its causes: register empty, character   *)
(* received, character lost; high, the interrupt line; irr, the request    *)
(* that the controller has not passed on yet.                              *)
Quiet == [thre |-> TRUE, ier |-> FALSE, thri |-> FALSE, rdi |-> FALSE,
          rls |-> FALSE, high |-> FALSE, irr |-> FALSE]

(* Every access moves the line, and the controller sees its edges.         *)
Settled(u) ==
  LET h == u.thri \/ u.rdi \/ u.rls
  IN  [u EXCEPT !.high = h, !.irr = h /\ (u.irr \/ ~u.high)]

WriteTX(u)   == Settled([u EXCEPT !.thre = FALSE, !.thri = FALSE])
WriteIER(u, on) == Settled([u EXCEPT !.ier = on, !.thri = on /\ (@ \/ u.thre)])
ReadLSR(u)   == Settled([u EXCEPT !.rls = FALSE])
ReadRX(u)    == Settled([u EXCEPT !.rdi = FALSE])

(* The causes in the order the UART reports them; reading THRI clears it.  *)
Cause(u) ==
  IF u.rls THEN "RLSI" ELSE IF u.rdi THEN "RDI" ELSE IF u.thri THEN "THRI" ELSE "none"
ReadIIR(u) == IF Cause(u) = "THRI" THEN Settled([u EXCEPT !.thri = FALSE]) ELSE u

Pending(us) == {x \in Port \X {"rls", "rdi", "thri"} : us[x[1]][x[2]]}
SetUart(p, u) ==
  /\ uart' = [uart EXCEPT ![p] = u]
  /\ clash' = (clash \/ \E x, y \in Pending(uart') : x # y)
-----------------------------------------------------------------------------
(* A line as the routines see it: the ring, the UART and what is owed.     *)
State(p) == [com |-> com[p], uart |-> uart[p], owed |-> owed[p], overrun |-> overrun[p]]

(* Mutant of comwstrt: the interrupt is disabled one character early. *)
comwstrt_Early(L) ==
  LET n == L.com.com_count - 1
      t == WriteTX(L.uart)
  IN  [com     |-> [L.com EXCEPT !.com_count = n,
                                 !.com_start = (@ + 1) % COMBUFSZ],
       uart    |-> IF n <= 1 THEN WriteIER(t, FALSE) ELSE t,
       owed    |-> IF L.overrun THEN <<>> ELSE Tail(L.owed),
       overrun |-> L.overrun /\ n # 0]

comwstrt(L) ==
  LET n == L.com.com_count - 1
      t == WriteTX(L.uart)
  IN  [com     |-> [L.com EXCEPT !.com_count = n,
                                 !.com_start = (@ + 1) % COMBUFSZ],
       uart    |-> IF n = 0 THEN WriteIER(t, FALSE) ELSE t,
       owed    |-> IF L.overrun THEN <<>> ELSE Tail(L.owed),
       overrun |-> L.overrun /\ n # 0]

(* Mutant of Put: the wrap is forgotten for the second character. *)
Put_AtStart(L, c) ==
  [L EXCEPT !.com.com_buf[IF L.com.com_start + L.com.com_count >= COMBUFSZ
                            THEN 0 ELSE L.com.com_start + L.com.com_count] = c,
            !.com.com_count = @ + 1,
            !.owed = IF L.overrun THEN <<>> ELSE Append(@, c)]

(* One character into the ring; the count is not compared with its size.   *)
Put(L, c) ==
  LET at   == (L.com.com_start + L.com.com_count) % COMBUFSZ
      over == L.overrun \/ L.com.com_count >= COMBUFSZ
  IN  [com     |-> [L.com EXCEPT !.com_buf = [@ EXCEPT ![at] = c], !.com_count = @ + 1],
       uart    |-> L.uart,
       owed    |-> IF over THEN <<>> ELSE Append(L.owed, c),
       overrun |-> over]

(* computc.  Both waits for com_osema fail at once: nothing holds a writer *)
(* back when the ring is full.                                             *)
computc(L, c) ==
  LET r == IF c = Newline THEN Put(Put(L, CR), c) ELSE Put(L, c)
      s == [r EXCEPT !.uart = ReadLSR(WriteIER(@, TRUE))]
  IN  IF s.uart.thre THEN comwstrt(s) ELSE s

(* Bound: a full ring is written over by one call.  From twice its size on *)
(* computc writes past com_buf, over com_start and com_count behind it.    *)
Reach(p) == com[p].com_count <= COMBUFSZ

SetLine(p, L) ==
  /\ com' = [com EXCEPT ![p] = L.com]
  /\ owed' = [owed EXCEPT ![p] = L.owed]
  /\ overrun' = [overrun EXCEPT ![p] = L.overrun]
  /\ SetUart(p, L.uart)

(* comsputc, for kprintf: waits for the register to be empty and writes to *)
(* it, past the ring.                                                      *)
comsputc(L) == [L EXCEPT !.uart = WriteTX(ReadLSR(@))]
-----------------------------------------------------------------------------
LineInit ==
  /\ com = [p \in Port |-> [com_buf |-> [i \in Place |-> CR], com_start |-> 0,
                            com_count |-> 0]]
  /\ uart = [p \in Port |-> Quiet]
  /\ serving = None
  /\ owed = [p \in Port |-> <<>>]
  /\ overrun = [p \in Port |-> FALSE]
  /\ clash = FALSE

Init == StartInit /\ LineInit

(* Bound: what uses the lines does so while no process has a semaphore,    *)
(* for the two do not depend on each other.                                *)
Apart == nextsem = NSEM - 1 /\ \A o \in Process : held[o] = SYSERR
AtRest == (\A p \in Port : com[p].com_count = 0) /\ serving = None

Computc ==
  /\ Running /\ Apart /\ serving = None
  /\ \E p \in Port : \E c \in Written[p] :
       /\ WaitFails(held[Line(p)]) /\ Reach(p)
       /\ SetLine(p, computc(State(p), c))
  /\ UNCHANGED <<startVars, serving>>

Comsputc ==
  /\ Running /\ Apart /\ serving = None
  /\ SetLine(Console, comsputc(State(Console)))
  /\ UNCHANGED <<startVars, serving>>

(* comintr for the request of line p: the first line with a cause.         *)
ReadCause(p) ==
  /\ Running /\ serving = None /\ uart[p].irr
  /\ LET taken == [uart EXCEPT ![p].irr = FALSE]
         q == CHOOSE i \in Port : Cause(uart[i]) # "none"
                /\ \A j \in 1..(i - 1) : Cause(uart[j]) = "none"
     IN  /\ uart' = [taken EXCEPT ![q] = ReadIIR(@)]
         /\ serving' = [port |-> q, cause |-> Cause(uart[q])]
  /\ UNCHANGED <<startVars, com, owed, overrun, clash>>

(* Mutant of Served: a character is passed on without reading the register. *)
Served_NoRead(p, L) ==
  CASE serving.cause = "RLSI" -> {[L EXCEPT !.uart = ReadLSR(@)]}
    [] serving.cause = "RDI"  ->
         {L} \cup (IF Reach(p) THEN {computc(L, c) : c \in Written[p]} ELSE {})
    [] serving.cause = "THRI" ->
         LET r == [L EXCEPT !.uart = ReadLSR(@)]
         IN  {IF r.uart.thre /\ r.com.com_count # 0 THEN comwstrt(r) ELSE r}

(* Mutant of Served: what is left in the ring is not looked at. *)
Served_NoSend(p, L) ==
  IF serving.cause = "RDI"
    THEN LET r == [L EXCEPT !.uart = ReadRX(@)]
         IN  {r} \cup (IF Reach(p) THEN {computc(r, c) : c \in Written[p]} ELSE {})
    ELSE {[L EXCEPT !.uart = ReadLSR(@)]}

(* One cause is served.  A received character goes to ttyiin, which may    *)
(* echo it; comintr does not look for another cause.                       *)
Served(p, L) ==
  CASE serving.cause = "RLSI" -> {[L EXCEPT !.uart = ReadLSR(@)]}
    [] serving.cause = "RDI"  ->
         LET r == [L EXCEPT !.uart = ReadRX(@)]
         IN  {r} \cup (IF Reach(p) THEN {computc(r, c) : c \in Written[p]} ELSE {})
    [] serving.cause = "THRI" ->
         LET r == [L EXCEPT !.uart = ReadLSR(@)]
         IN  {IF r.uart.thre /\ r.com.com_count # 0 THEN comwstrt(r) ELSE r}

Serve ==
  /\ serving # None /\ serving' = None
  /\ \E L \in Served(serving.port, State(serving.port)) : SetLine(serving.port, L)
  /\ UNCHANGED startVars

Comintr == Serve \/ \E p \in Port : ReadCause(p)
-----------------------------------------------------------------------------
(* External: the register is empty again; a character comes in, and is     *)
(* lost when the one before it was not read.                               *)
TxEmpty(p) ==
  /\ Running /\ ~uart[p].thre
  /\ SetUart(p, Settled([uart[p] EXCEPT !.thre = TRUE, !.thri = uart[p].ier]))
  /\ UNCHANGED <<startVars, com, serving, owed, overrun>>

RxChar ==
  /\ Running /\ Apart
  /\ \E p \in Heard :
       SetUart(p, Settled([uart[p] EXCEPT !.rdi = TRUE, !.rls = @ \/ uart[p].rdi]))
  /\ UNCHANGED <<startVars, com, serving, owed, overrun>>
-----------------------------------------------------------------------------
(* A restart forgets the rings; cominit then leaves the UARTs quiet.       *)
StartUp ==
  /\ EarlyCreate \/ MarkTable
  /\ UNCHANGED lineVars

Calls == AtRest /\ ~clash /\ ProcessCall /\ UNCHANGED lineVars

StartAgain ==
  /\ serving = None /\ Restart
  /\ com' = [p \in Port |-> [com_buf |-> [i \in Place |-> CR], com_start |-> 0,
                             com_count |-> 0]]
  /\ uart' = [p \in Port |-> [Quiet EXCEPT !.thre = uart[p].thre]]
  /\ owed' = [p \in Port |-> <<>>]
  /\ overrun' = [p \in Port |-> FALSE]
  /\ clash' = FALSE
  /\ UNCHANGED serving

Next ==
  \/ StartUp \/ Calls \/ StartAgain
  \/ Computc \/ Comsputc \/ Comintr
  \/ RxChar \/ \E p \in Port : TxEmpty(p)

Spec == Init /\ [][Next]_vars

(* A request that is there again and again when interrupts are enabled is  *)
(* taken, what was begun is served, and the hardware sends.                *)
FairSpec ==
  /\ Spec /\ WF_vars(StartUp) /\ WF_vars(Serve)
  /\ \A p \in Port : SF_vars(ReadCause(p)) /\ WF_vars(TxEmpty(p))
=============================================================================
