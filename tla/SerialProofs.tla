---------------------------- MODULE SerialProofs ----------------------------
(***************************************************************************)
(* The semaphores of the drivers and of the processes, and the interrupts  *)
(* of the serial lines, for every size of the semaphore table and of the   *)
(* rings and every number of lines and processes.                          *)
(***************************************************************************)
EXTENDS SerialProps, WellFoundedInduction, TLAPS

(* A non-empty set of naturals has a least element.                        *)
LEMMA Least ==
  ASSUME NEW T, T \subseteq Nat, T # {}
  PROVE  \E d \in T : \A e \in T : d <= e
<1>1. PICK d \in T : \A e \in T : ~ (<<e, d>> \in OpToRel(<, Nat))
  BY NatLessThanWellFounded, WFMin, Zenon
<1>2. ASSUME NEW e \in T PROVE d <= e
  <2>1. ~ (<<e, d>> \in {ss \in Nat \X Nat : ss[1] < ss[2]})
    BY <1>1 DEF OpToRel
  <2> QED  BY <2>1
<1> QED  BY <1>2

(* A non-empty set of semaphores has one that newsem's search meets first. *)
LEMMA NewsemIsFree ==
  ASSUME NEW free, free \subseteq Sem, free # {}, nextsem \in Sem,
         free = {s \in Sem : sstate[s] = "SFREE"}
  PROVE  newsem \in free
<1> DEFINE T == {Distance(s) : s \in free}
           First(s) == \A t \in free : Distance(s) <= Distance(t)
<1>1. \A s \in Sem : Distance(s) \in Nat
  BY StartupAssumption DEF Distance, Sem
<1>2. T \subseteq Nat /\ T # {}
  BY <1>1
<1>3. PICK d \in T : \A e \in T : d <= e
  <2> HIDE DEF T
  <2> QED  BY <1>2, Least, Zenon
<1>4. PICK s \in free : d = Distance(s)
  OBVIOUS
<1>5. ASSUME NEW t \in free PROVE Distance(s) <= Distance(t)
  <2>1. Distance(t) \in T
    OBVIOUS
  <2> HIDE DEF T
  <2> QED  BY <1>3, <1>4, <2>1
<1>6. First(s)
  BY <1>5
<1>7. newsem = CHOOSE c \in free : First(c)
  BY DEF newsem
<1> HIDE DEF First
<1> QED  BY <1>6, <1>7, Zenon

-----------------------------------------------------------------------------
(* Until the table is marked no entry reads as free, and so no driver has  *)
(* a semaphore; afterwards those that processes have are theirs alone.     *)
TableType ==
  /\ stage \in 1..(MarkStage + 1) /\ nextsem \in Sem
  /\ sstate \in [Sem -> {Cleared, "SFREE", "SUSED"}]
  /\ held \in [Owner -> Sem \cup {SYSERR}]

NoneHeld == \A o \in Owner : held[o] = SYSERR
IInv ==
  /\ TableType
  /\ stage <= MarkStage => NoneHeld /\ \A s \in Sem : sstate[s] = Cleared
  /\ SemsOwned

LEMMA Numbers ==
  /\ NSEM \in Nat \ {0} /\ Nserial \in Nat \ {0}
  /\ MarkStage = 4 + Nserial /\ NSEM - 1 \in Sem /\ SYSERR \notin Sem
BY StartupAssumption DEF MarkStage, Sem, SYSERR

LEMMA ScreateType ==
  ASSUME TableType, NEW o \in Owner, screate(o)
  PROVE  /\ nextsem' \in Sem /\ sstate' \in [Sem -> {Cleared, "SFREE", "SUSED"}]
         /\ held' \in [Owner -> Sem \cup {SYSERR}]
         /\ held' = [held EXCEPT ![o] = newsem]
         /\ \/ newsem = SYSERR /\ sstate' = sstate
            \/ /\ newsem \in Sem /\ sstate[newsem] = "SFREE"
               /\ sstate' = [sstate EXCEPT ![newsem] = "SUSED"]
<1> DEFINE free == {s \in Sem : sstate[s] = "SFREE"}
<1>1. CASE free = {}
  <2>1. newsem = SYSERR
    BY <1>1 DEF newsem
  <2> QED  BY <2>1 DEF screate, TableType
<1>2. CASE free # {}
  <2>1. newsem \in free
    <3> HIDE DEF free
    <3>1. free \subseteq Sem /\ free = {s \in Sem : sstate[s] = "SFREE"}
      BY DEF free
    <3> QED  BY <1>2, <3>1, NewsemIsFree DEF TableType
  <2>2. newsem \in Sem /\ sstate[newsem] = "SFREE" /\ newsem # SYSERR
    BY <2>1, Numbers
  <2>3. nextsem' = IF newsem = 0 THEN NSEM - 1 ELSE newsem - 1
    BY <2>2 DEF screate
  <2>4. nextsem' \in Sem
    BY <2>2, <2>3, Numbers DEF Sem
  <2> QED  BY <2>2, <2>4 DEF screate, TableType
<1> QED  BY <1>1, <1>2

LEMMA TableStep == IInv /\ [Next]_vars => IInv'
<1> SUFFICES ASSUME IInv, [Next]_vars PROVE IInv'
  OBVIOUS
<1> USE Numbers
<1>1. CASE UNCHANGED startVars
  BY <1>1 DEF IInv, TableType, NoneHeld, SemsOwned, startVars, Running
<1>2. CASE EarlyCreate
  <2>1. stage \in Early /\ stage \in Owner /\ stage' = stage + 1 /\ screate(stage)
    BY <1>2 DEF EarlyCreate, Owner
  <2>2. stage <= MarkStage /\ stage' \in 1..MarkStage
    BY <2>1 DEF Early
  <2>3. NoneHeld /\ \A s \in Sem : sstate[s] = Cleared
    BY <2>2 DEF IInv
  <2>4. newsem = SYSERR
    BY <2>3 DEF newsem, Cleared
  <2>5. held' = held /\ sstate' = sstate /\ nextsem' = nextsem
    <3>1. held[stage] = SYSERR /\ held \in [Owner -> Sem \cup {SYSERR}]
      BY <2>1, <2>3 DEF NoneHeld, IInv, TableType
    <3> QED  BY <2>1, <2>4, <3>1 DEF screate
  <2> QED
    BY <2>2, <2>3, <2>5 DEF IInv, TableType, NoneHeld, SemsOwned, Running
<1>3. CASE MarkTable
  BY <1>3 DEF MarkTable, IInv, TableType, NoneHeld, SemsOwned, Running
<1>4. CASE ProcessCall
  <2>1. PICK o \in Process : (held[o] = SYSERR /\ screate(o)) \/ sdelete(o)
    BY <1>4 DEF ProcessCall
  <2>2. o \in Owner /\ Running /\ stage' = stage /\ Running'
    BY <1>4 DEF ProcessCall, Owner, Running
  <2>3. TableType /\ SemsOwned
    BY DEF IInv
  <2>4. ~ (stage' <= MarkStage)
    BY <2>2 DEF Running
  <2>5. CASE held[o] = SYSERR /\ screate(o)
    <3>1. TableType'
      BY <2>2, <2>3, <2>5, ScreateType DEF TableType
    <3>2. SemsOwned'
      <4>1. CASE newsem = SYSERR /\ sstate' = sstate
        <5>1. held' = [held EXCEPT ![o] = SYSERR]
          BY <2>2, <2>3, <2>5, <4>1, ScreateType
        <5> QED  BY <2>2, <2>3, <4>1, <5>1 DEF SemsOwned, TableType
      <4>2. CASE /\ newsem \in Sem /\ sstate[newsem] = "SFREE"
                 /\ sstate' = [sstate EXCEPT ![newsem] = "SUSED"]
        <5>1. held' = [held EXCEPT ![o] = newsem]
          BY <2>2, <2>3, <2>5, ScreateType
        <5>2. \A a \in Owner : held[a] # newsem
          BY <2>2, <2>3, <4>2 DEF SemsOwned
        <5>3. \A a \in Owner : held'[a] = IF a = o THEN newsem ELSE held[a]
          BY <5>1, <2>3 DEF TableType
        <5>4. \A a \in Owner : held[a] # SYSERR => held[a] \in Sem /\ sstate[held[a]] = "SUSED"
          BY <2>2, <2>3 DEF SemsOwned, TableType
        <5>5. \A s \in Sem : sstate'[s] = IF s = newsem THEN "SUSED" ELSE sstate[s]
          BY <4>2, <2>3 DEF TableType
        <5> QED
          BY <2>2, <2>3, <4>2, <5>2, <5>3, <5>4, <5>5 DEF SemsOwned
      <4> QED  BY <2>2, <2>3, <2>5, <4>1, <4>2, ScreateType
    <3> QED  BY <2>4, <3>1, <3>2 DEF IInv
  <2>6. CASE sdelete(o)
    <3>1. held[o] \in Sem /\ held[o] # SYSERR
      BY <2>2, <2>3, <2>6 DEF sdelete, TableType
    <3>2. TableType'
      BY <2>2, <2>3, <2>6, <3>1 DEF sdelete, TableType
    <3>3. \A a \in Owner : held'[a] = IF a = o THEN SYSERR ELSE held[a]
      BY <2>3, <2>6 DEF sdelete, TableType
    <3>4. \A s \in Sem : sstate'[s] = IF s = held[o] THEN "SFREE" ELSE sstate[s]
      BY <2>3, <2>6 DEF sdelete, TableType
    <3>5. \A a \in Owner : held[a] # SYSERR => held[a] \in Sem /\ sstate[held[a]] = "SUSED"
      BY <2>2, <2>3 DEF SemsOwned, TableType
    <3>6. SemsOwned'
      BY <2>2, <2>3, <3>1, <3>3, <3>4, <3>5 DEF SemsOwned
    <3> QED  BY <2>4, <3>2, <3>6 DEF IInv
  <2> QED  BY <2>1, <2>5, <2>6
<1>5. CASE Restart
  BY <1>5 DEF Restart, IInv, TableType, NoneHeld, SemsOwned, Running
<1> QED
  <2>1. CASE UNCHANGED vars
    BY <2>1, <1>1 DEF vars
  <2>2. CASE Next
    <3>1. CASE StartUp
      BY <3>1, <1>2, <1>3 DEF StartUp
    <3>2. CASE Calls
      BY <3>2, <1>4 DEF Calls
    <3>3. CASE StartAgain
      BY <3>3, <1>5 DEF StartAgain
    <3>4. CASE Computc \/ Comsputc \/ Comintr \/ RxChar \/ \E p \in Port : TxEmpty(p)
      <4>1. UNCHANGED startVars
        BY <3>4, Zenon DEF Computc, Comsputc, Comintr, Serve, ReadCause, RxChar, TxEmpty,
           startVars
      <4> QED  BY <4>1, <1>1
    <3> QED  BY <2>2, <3>1, <3>2, <3>3, <3>4 DEF Next
  <2> QED  BY <2>1, <2>2

(* The semaphore a process has is its own: the drivers, which asked before *)
(* the table was marked (sys/initialize.c), got none, now and after every  *)
(* restart.                                                                *)
THEOREM SemsAlwaysOwned == Spec => []SemsOwned
<1>1. Init => IInv
  BY Numbers DEF Init, StartInit, IInv, TableType, NoneHeld, SemsOwned, Running
<1>2. IInv => SemsOwned
  BY DEF IInv
<1> QED  BY <1>1, <1>2, TableStep, PTL DEF Spec

-----------------------------------------------------------------------------
(* What the accesses to a UART do to it.                                   *)
Uarts == [thre : BOOLEAN, ier : BOOLEAN, thri : BOOLEAN, rdi : BOOLEAN,
          rls : BOOLEAN, high : BOOLEAN, irr : BOOLEAN]

Wired(u)       == /\ u \in Uarts
                  /\ u.high = (u.thri \/ u.rdi \/ u.rls) /\ (u.irr => u.high)
Asking(u)      == u.high => u.irr
SameEdge(u, v) == u.high = v.high /\ u.irr = v.irr

LEMMA SettledIs ==
  ASSUME NEW u \in Uarts
  PROVE  LET v == Settled(u) IN
         /\ Wired(v)
         /\ v.thre = u.thre /\ v.ier = u.ier
         /\ v.thri = u.thri /\ v.rdi = u.rdi /\ v.rls = u.rls
         /\ (u.irr \/ ~u.high) => Asking(v)
         /\ v.high /\ ~v.irr => u.high /\ ~u.irr
BY DEF Settled, Uarts, Wired, Asking

LEMMA WriteTXIs ==
  ASSUME NEW u \in Uarts
  PROVE  LET v == WriteTX(u) IN
         /\ Wired(v)
         /\ v.thre = FALSE /\ v.ier = u.ier
         /\ v.thri = FALSE /\ v.rdi = u.rdi /\ v.rls = u.rls
         /\ Asking(u) => Asking(v)
<1> DEFINE w == [u EXCEPT !.thre = FALSE, !.thri = FALSE]
<1>1. /\ w \in Uarts /\ SameEdge(w, u) /\ w.thre = FALSE /\ w.ier = u.ier
      /\ w.thri = FALSE /\ w.rdi = u.rdi /\ w.rls = u.rls
  BY DEF Uarts, SameEdge
<1>2. WriteTX(u) = Settled(w)
  BY DEF WriteTX
<1> HIDE DEF w
<1> QED  BY <1>1, <1>2, SettledIs DEF Asking, SameEdge

LEMMA WriteIERIs ==
  ASSUME NEW u \in Uarts, NEW on \in BOOLEAN
  PROVE  LET v == WriteIER(u, on) IN
         /\ Wired(v)
         /\ v.thre = u.thre /\ v.ier = on
         /\ v.thri = (on /\ (u.thri \/ u.thre)) /\ v.rdi = u.rdi /\ v.rls = u.rls
         /\ Asking(u) => Asking(v)
<1> DEFINE w == [u EXCEPT !.ier = on, !.thri = on /\ (@ \/ u.thre)]
<1>1. /\ w \in Uarts /\ SameEdge(w, u) /\ w.thre = u.thre /\ w.ier = on
      /\ w.thri = (on /\ (u.thri \/ u.thre)) /\ w.rdi = u.rdi /\ w.rls = u.rls
  BY DEF Uarts, SameEdge
<1>2. WriteIER(u, on) = Settled(w)
  BY DEF WriteIER
<1> HIDE DEF w
<1> QED  BY <1>1, <1>2, SettledIs DEF Asking, SameEdge

LEMMA ReadLSRIs ==
  ASSUME NEW u \in Uarts
  PROVE  LET v == ReadLSR(u) IN
         /\ Wired(v)
         /\ v.thre = u.thre /\ v.ier = u.ier
         /\ v.thri = u.thri /\ v.rdi = u.rdi /\ v.rls = FALSE
         /\ Asking(u) => Asking(v)
<1> DEFINE w == [u EXCEPT !.rls = FALSE]
<1>1. /\ w \in Uarts /\ SameEdge(w, u) /\ w.thre = u.thre /\ w.ier = u.ier
      /\ w.thri = u.thri /\ w.rdi = u.rdi /\ w.rls = FALSE
  BY DEF Uarts, SameEdge
<1>2. ReadLSR(u) = Settled(w)
  BY DEF ReadLSR
<1> HIDE DEF w
<1> QED  BY <1>1, <1>2, SettledIs DEF Asking, SameEdge

LEMMA ReadRXIs ==
  ASSUME NEW u \in Uarts
  PROVE  LET v == ReadRX(u) IN
         /\ Wired(v)
         /\ v.thre = u.thre /\ v.ier = u.ier
         /\ v.thri = u.thri /\ v.rdi = FALSE /\ v.rls = u.rls
         /\ Asking(u) => Asking(v)
<1> DEFINE w == [u EXCEPT !.rdi = FALSE]
<1>1. /\ w \in Uarts /\ SameEdge(w, u) /\ w.thre = u.thre /\ w.ier = u.ier
      /\ w.thri = u.thri /\ w.rdi = FALSE /\ w.rls = u.rls
  BY DEF Uarts, SameEdge
<1>2. ReadRX(u) = Settled(w)
  BY DEF ReadRX
<1> HIDE DEF w
<1> QED  BY <1>1, <1>2, SettledIs DEF Asking, SameEdge

LEMMA ReadIIRIs ==
  ASSUME NEW u, Wired(u)
  PROVE  LET v == ReadIIR(u) IN
         /\ Wired(v)
         /\ v.thre = u.thre /\ v.ier = u.ier /\ v.rdi = u.rdi /\ v.rls = u.rls
         /\ Cause(u) = "THRI" => v.thri = FALSE /\ ~u.rdi /\ ~u.rls
         /\ Cause(u) # "THRI" => v = u
         /\ Cause(u) = "RDI" => u.rdi
         /\ Cause(u) = "RLSI" => u.rls
         /\ Cause(u) \in {"RLSI", "RDI", "THRI", "none"}
         /\ Cause(u) = "none" <=> ~u.high
<1> DEFINE w == [u EXCEPT !.thri = FALSE]
<1>1. /\ w \in Uarts /\ SameEdge(w, u) /\ w.thre = u.thre /\ w.ier = u.ier
      /\ w.thri = FALSE /\ w.rdi = u.rdi /\ w.rls = u.rls
  BY DEF Uarts, SameEdge, Wired
<1>2. ReadIIR(u) = IF Cause(u) = "THRI" THEN Settled(w) ELSE u
  BY DEF ReadIIR
<1>3. /\ Cause(u) = "THRI" => ~u.rdi /\ ~u.rls
      /\ Cause(u) = "RDI" => u.rdi
      /\ Cause(u) = "RLSI" => u.rls
      /\ Cause(u) \in {"RLSI", "RDI", "THRI", "none"}
      /\ Cause(u) = "none" <=> ~u.high
  BY DEF Cause, Wired, Uarts
<1> HIDE DEF w
<1> QED  BY <1>1, <1>2, <1>3, SettledIs DEF Wired

-----------------------------------------------------------------------------
(* A line as the routines see it; every character in its ring is on its    *)
(* way when they are done with it.                                         *)
ComT == [com_buf : [Place -> Char \cup {CR}], com_start : Int, com_count : Nat]

IsLine(L) ==
  /\ L = [com |-> L.com, uart |-> L.uart, owed |-> L.owed, overrun |-> L.overrun]
  /\ L.com \in ComT /\ Wired(L.uart)

Coming(c, u) == c.com_count > 0 => u.ier /\ (u.thri \/ ~u.thre)
Driven(L)    == Coming(L.com, L.uart)

LEMMA comwstrtIs ==
  ASSUME NEW L, IsLine(L), L.com.com_count > 0, L.uart.ier
  PROVE  /\ IsLine(comwstrt(L)) /\ Driven(comwstrt(L))
         /\ Asking(L.uart) => Asking(comwstrt(L).uart)
<1> DEFINE n == L.com.com_count - 1
           t == WriteTX(L.uart)
           c == [L.com EXCEPT !.com_count = n, !.com_start = (@ + 1) % COMBUFSZ]
           u == IF n = 0 THEN WriteIER(t, FALSE) ELSE t
<1>1. n \in Nat /\ c \in ComT /\ c.com_count = n
  <2> DEFINE k == (L.com.com_start + 1) % COMBUFSZ
  <2>1. L.com \in ComT /\ L.com.com_start \in Int /\ n \in Nat
    BY DEF IsLine, ComT
  <2>2. k \in Int
    BY <2>1, SerialAssumption
  <2>3. c = [L.com EXCEPT !.com_count = n, !.com_start = k]
    BY <2>1 DEF ComT
  <2> HIDE DEF k, n, c
  <2> QED  BY <2>1, <2>2, <2>3 DEF ComT
<1>2. Wired(t) /\ t \in Uarts /\ t.thre = FALSE /\ t.ier /\ (Asking(L.uart) => Asking(t))
  BY WriteTXIs DEF IsLine, Wired
<1>3. Wired(u) /\ (n > 0 => u.ier /\ ~u.thre) /\ (Asking(L.uart) => Asking(u))
  <2> HIDE DEF t, n
  <2>1. CASE n = 0
    <3>1. /\ Wired(WriteIER(t, FALSE))
          /\ Asking(t) => Asking(WriteIER(t, FALSE))
      BY <1>2, WriteIERIs
    <3>2. u = WriteIER(t, FALSE) /\ ~ (n > 0)
      BY <2>1
    <3> QED  BY <1>2, <3>1, <3>2
  <2>2. CASE n # 0
    BY <1>2, <2>2
  <2> QED  BY <2>1, <2>2
<1>4. comwstrt(L).com = c /\ comwstrt(L).uart = u
      /\ comwstrt(L) = [com |-> comwstrt(L).com, uart |-> comwstrt(L).uart,
                        owed |-> comwstrt(L).owed, overrun |-> comwstrt(L).overrun]
  BY DEF comwstrt
<1> HIDE DEF n, c, u
<1> QED  BY <1>1, <1>3, <1>4 DEF IsLine, Driven, Coming

LEMMA PutIs ==
  ASSUME NEW L, IsLine(L), NEW c \in Char \cup {CR}
  PROVE  IsLine(Put(L, c)) /\ Put(L, c).uart = L.uart /\ Put(L, c).com.com_count > 0
<1> DEFINE i == (L.com.com_start + L.com.com_count) % COMBUFSZ
           b == [L.com.com_buf EXCEPT ![i] = c]
           d == [L.com EXCEPT !.com_buf = b, !.com_count = @ + 1]
<1>1. L.com \in ComT
  BY DEF IsLine
<1>2. b \in [Place -> Char \cup {CR}]
  <2>1. L.com.com_buf \in [Place -> Char \cup {CR}]
    BY <1>1 DEF ComT
  <2> HIDE DEF i
  <2> QED  BY <2>1
<1>3. d \in ComT /\ d.com_count > 0
  <2> DEFINE k == L.com.com_count + 1
  <2>1. k \in Nat /\ k > 0
    BY <1>1 DEF ComT
  <2>2. d = [L.com EXCEPT !.com_buf = b, !.com_count = k]
    BY <1>1 DEF ComT
  <2> HIDE DEF b, k, d
  <2> QED  BY <1>1, <1>2, <2>1, <2>2 DEF ComT
<1>4. /\ Put(L, c).com = d /\ Put(L, c).uart = L.uart
      /\ Put(L, c) = [com |-> Put(L, c).com, uart |-> Put(L, c).uart,
                      owed |-> Put(L, c).owed, overrun |-> Put(L, c).overrun]
  BY DEF Put
<1> HIDE DEF d
<1> QED  BY <1>3, <1>4 DEF IsLine

LEMMA computcIs ==
  ASSUME NEW L, IsLine(L), NEW c \in Char
  PROVE  /\ IsLine(computc(L, c)) /\ Driven(computc(L, c))
         /\ Asking(L.uart) => Asking(computc(L, c).uart)
<1> DEFINE r == IF c = Newline THEN Put(Put(L, CR), c) ELSE Put(L, c)
           t == WriteIER(r.uart, TRUE)
           u == ReadLSR(t)
           s == [r EXCEPT !.uart = u]
<1>1. IsLine(r) /\ r.uart = L.uart /\ r.com.com_count > 0
  BY PutIs
<1> HIDE DEF r
<1>2. Wired(t) /\ t \in Uarts /\ t.ier /\ (Asking(L.uart) => Asking(t))
  BY <1>1, WriteIERIs DEF IsLine, Wired
<1> HIDE DEF t
<1>3. Wired(u) /\ u.ier /\ (Asking(L.uart) => Asking(u))
  BY <1>2, ReadLSRIs
<1> HIDE DEF u
<1>4. IsLine(s) /\ s.uart = u /\ s.com.com_count > 0
  BY <1>1, <1>3 DEF IsLine
<1>5. computc(L, c) = IF s.uart.thre THEN comwstrt(s) ELSE s
  BY DEF computc, r, t, u
<1> HIDE DEF s
<1>6. CASE u.thre
  BY <1>3, <1>4, <1>5, <1>6, comwstrtIs
<1>7. CASE ~u.thre
  BY <1>3, <1>4, <1>5, <1>7 DEF Driven, Coming
<1> QED  BY <1>6, <1>7

(* Serving a cause: whatever it was, the line is driven; and it asks again *)
(* if it has to, when it asked before or the cause was the only one.       *)
OnlyCause(u, cause) ==
  \/ cause = "RDI"  /\ ~u.thri /\ ~u.rls
  \/ cause = "RLSI" /\ ~u.thri /\ ~u.rdi

LEMMA ServedIs ==
  ASSUME NEW p \in Port, NEW L, IsLine(L), serving.cause \in {"RLSI", "RDI", "THRI"},
         L.com.com_count > 0 =>
           L.uart.ier /\ (L.uart.thri \/ ~L.uart.thre \/ serving.cause = "THRI"),
         NEW M \in Served(p, L)
  PROVE  /\ IsLine(M) /\ Driven(M)
         /\ Asking(L.uart) \/ OnlyCause(L.uart, serving.cause) => Asking(M.uart)
<1>0. L.uart \in Uarts /\ Wired(L.uart)
  BY DEF IsLine, Wired
<1>1. CASE serving.cause = "RLSI"
  <2> DEFINE u == ReadLSR(L.uart)
  <2>1. M = [L EXCEPT !.uart = u]
    BY <1>1 DEF Served
  <2>2. /\ Wired(u) /\ u.thre = L.uart.thre /\ u.ier = L.uart.ier
        /\ u.thri = L.uart.thri /\ u.rdi = L.uart.rdi /\ u.rls = FALSE
        /\ Asking(L.uart) => Asking(u)
    BY <1>0, ReadLSRIs
  <2> HIDE DEF u
  <2>3. IsLine(M) /\ M.uart = u /\ M.com = L.com
    BY <2>1, <2>2 DEF IsLine
  <2>4. OnlyCause(L.uart, serving.cause) => Asking(u)
    BY <1>1, <2>2 DEF OnlyCause, Asking, Wired
  <2> QED  BY <1>1, <2>2, <2>3, <2>4 DEF Driven, Coming
<1>2. CASE serving.cause = "RDI"
  <2> DEFINE u == ReadRX(L.uart)
             r == [L EXCEPT !.uart = u]
  <2>1. M = r \/ \E c \in Written[p] : M = computc(r, c)
    BY <1>2 DEF Served
  <2>2. /\ Wired(u) /\ u.thre = L.uart.thre /\ u.ier = L.uart.ier
        /\ u.thri = L.uart.thri /\ u.rls = L.uart.rls /\ u.rdi = FALSE
        /\ Asking(L.uart) => Asking(u)
    BY <1>0, ReadRXIs
  <2> HIDE DEF u
  <2>3. IsLine(r) /\ r.uart = u /\ r.com = L.com
    BY <2>2 DEF IsLine
  <2>4. OnlyCause(L.uart, serving.cause) => Asking(u)
    BY <1>2, <2>2 DEF OnlyCause, Asking, Wired
  <2>5. Driven(r)
    BY <1>2, <2>2, <2>3 DEF Driven, Coming
  <2> HIDE DEF r
  <2>6. Written[p] \subseteq Char
    BY SerialAssumption
  <2> QED  BY <2>1, <2>2, <2>3, <2>4, <2>5, <2>6, computcIs
<1>3. CASE serving.cause = "THRI"
  <2> DEFINE u == ReadLSR(L.uart)
             r == [L EXCEPT !.uart = u]
  <2>1. M = IF r.uart.thre /\ r.com.com_count # 0 THEN comwstrt(r) ELSE r
    BY <1>3 DEF Served
  <2>2. /\ Wired(u) /\ u.thre = L.uart.thre /\ u.ier = L.uart.ier
        /\ Asking(L.uart) => Asking(u)
    BY <1>0, ReadLSRIs
  <2> HIDE DEF u
  <2>3. IsLine(r) /\ r.uart = u /\ r.com = L.com /\ r.com.com_count \in Nat
    BY <2>2 DEF IsLine, ComT
  <2> HIDE DEF r
  <2>4. ~OnlyCause(L.uart, serving.cause)
    BY <1>3 DEF OnlyCause
  <2>5. CASE u.thre /\ r.com.com_count # 0
    <3>1. r.com.com_count > 0 /\ r.uart.ier
      BY <2>2, <2>3, <2>5
    <3>2. M = comwstrt(r)
      BY <2>1, <2>3, <2>5
    <3> QED  BY <2>2, <2>3, <2>4, <3>1, <3>2, comwstrtIs
  <2>6. CASE ~ (u.thre /\ r.com.com_count # 0)
    <3>1. M = r
      BY <2>1, <2>3, <2>6
    <3>2. Driven(r)
      BY <2>2, <2>3, <2>6 DEF Driven, Coming
    <3> QED  BY <2>2, <2>3, <2>4, <3>1, <3>2
  <2> QED  BY <2>5, <2>6
<1> QED  BY <1>1, <1>2, <1>3
-----------------------------------------------------------------------------
(* The inductive invariant of the lines.  As long as no two causes were    *)
(* pending at a time, a line that is high without a request is the one     *)
(* whose cause is being served.                                            *)
Single(us) ==
  /\ \A p, q \in Port : us[p].high /\ us[q].high => p = q
  /\ \A p \in Port : /\ ~ (us[p].thri /\ us[p].rdi) /\ ~ (us[p].thri /\ us[p].rls)
                     /\ ~ (us[p].rdi /\ us[p].rls)

Serving(sv, p, c) == sv.port = p /\ sv.cause = c
Quietly(sv, p, u) ==
  u.high /\ ~u.irr =>
    (Serving(sv, p, "RDI") /\ u.rdi) \/ (Serving(sv, p, "RLSI") /\ u.rls)
Sent(sv, p, c, u) ==
  c.com_count > 0 => u.ier /\ (u.thri \/ ~u.thre \/ Serving(sv, p, "THRI"))

ServingOK(sv) == sv = None \/ (sv.port \in Port /\ sv.cause \in {"RLSI", "RDI", "THRI"})

LineInv ==
  /\ com \in [Port -> ComT] /\ uart \in [Port -> Uarts] /\ ServingOK(serving)
  /\ \A p \in Port : Wired(uart[p]) /\ Sent(serving, p, com[p], uart[p])
  /\ ~clash => Single(uart) /\ \A p \in Port : Quietly(serving, p, uart[p])

LEMMA SingleIfNoClash ==
  ASSUME NEW us \in [Port -> Uarts], \A p \in Port : Wired(us[p]),
         ~ \E x, y \in Pending(us) : x # y
  PROVE  Single(us)
<1> DEFINE C == {"rls", "rdi", "thri"}
<1>1. \A p \in Port, c \in C : us[p][c] => <<p, c>> \in Pending(us)
  BY DEF Pending
<1>2. \A p, q \in Port, c, d \in C : us[p][c] /\ us[q][d] => p = q /\ c = d
  BY <1>1
<1>3. \A p \in Port : us[p].high <=> us[p]["thri"] \/ us[p]["rdi"] \/ us[p]["rls"]
  BY DEF Wired
<1> QED  BY <1>2, <1>3 DEF Single

(* One line moves, and comintr begins with it or ends with it, if at all.  *)
LEMMA LineSet ==
  ASSUME LineInv, NEW p \in Port, NEW c \in ComT, NEW u, Wired(u),
         com' = [com EXCEPT ![p] = c], SetUart(p, u),
         serving' = serving \/ (serving' = None /\ serving.port = p),
         ServingOK(serving'), Sent(serving', p, c, u),
         ~clash /\ Single(uart) => Quietly(serving', p, u)
  PROVE  LineInv'
<1> DEFINE cm == com'
           us == uart'
           sv == serving'
<1>1. u \in Uarts /\ us = [uart EXCEPT ![p] = u]
  BY DEF Wired, SetUart
<1>2. /\ us \in [Port -> Uarts] /\ cm \in [Port -> ComT]
      /\ us[p] = u /\ cm[p] = c
      /\ \A q \in Port \ {p} : us[q] = uart[q] /\ cm[q] = com[q]
  BY <1>1 DEF LineInv
<1>3. \A q \in Port \ {p} : \A k \in {"RDI", "RLSI", "THRI"} :
        Serving(serving, q, k) => Serving(sv, q, k)
  BY DEF Serving
<1>4. ServingOK(sv) /\ Sent(sv, p, c, u) /\ (~clash /\ Single(uart) => Quietly(sv, p, u))
  OBVIOUS
<1>5. ~clash' => ~clash /\ ~ \E x, y \in Pending(us) : x # y
  BY Zenon DEF SetUart
<1> HIDE DEF cm, us, sv
<1>6. \A q \in Port : Wired(us[q])
  BY <1>2 DEF LineInv
<1>7. ASSUME NEW q \in Port PROVE Sent(sv, q, cm[q], us[q])
  <2>1. Sent(serving, q, com[q], uart[q])
    BY DEF LineInv
  <2> QED  BY <1>2, <1>3, <1>4, <2>1 DEF Sent
<1>8. ASSUME ~clash' PROVE Single(us) /\ \A q \in Port : Quietly(sv, q, us[q])
  <2>1. Single(us)
    BY <1>2, <1>5, <1>6, <1>8, SingleIfNoClash, Zenon
  <2>2. Single(uart) /\ \A q \in Port : Quietly(serving, q, uart[q])
    BY <1>5, <1>8 DEF LineInv
  <2>3. Quietly(sv, p, us[p])
    BY <1>2, <1>4, <1>5, <1>8, <2>2
  <2>4. ASSUME NEW q \in Port \ {p} PROVE Quietly(sv, q, us[q])
    <3>1. Quietly(serving, q, uart[q])
      BY <2>2
    <3> QED  BY <1>2, <1>3, <3>1 DEF Quietly
  <2> QED  BY <2>1, <2>3, <2>4
<1> QED  BY <1>2, <1>4, <1>6, <1>7, <1>8 DEF LineInv, cm, us, sv

LEMMA StateIsLine ==
  ASSUME LineInv, NEW p \in Port
  PROVE  /\ IsLine(State(p)) /\ State(p).com = com[p] /\ State(p).uart = uart[p]
         /\ com[p] \in ComT /\ Wired(uart[p]) /\ uart[p] \in Uarts
         /\ Sent(serving, p, com[p], uart[p])
BY DEF LineInv, State, IsLine, Wired

(* Nobody serves: a line that is high asks.                                *)
LEMMA RestAsks ==
  ASSUME serving = None, NEW p \in Port, NEW u, Quietly(serving, p, u)
  PROVE  Asking(u)
BY DEF None, Quietly, Serving, Asking, Port

LEMMA PortIsPositive == 0 \notin Port /\ None.port = 0 /\ None.cause = "none"
BY DEF Port, None

LEMMA WriterKeeps ==
  ASSUME LineInv, serving = None, UNCHANGED serving, NEW p \in Port,
         NEW L, IsLine(L), SetLine(p, L),
         L.com.com_count > 0 => L.uart.ier /\ (L.uart.thri \/ ~L.uart.thre),
         Asking(uart[p]) => Asking(L.uart)
  PROVE  LineInv'
<1>1. /\ com' = [com EXCEPT ![p] = L.com] /\ SetUart(p, L.uart)
      /\ L.com \in ComT /\ Wired(L.uart)
  BY DEF SetLine, IsLine
<1>2. ServingOK(serving') /\ Sent(serving', p, L.com, L.uart)
  BY DEF ServingOK, Sent, LineInv
<1>3. ~clash /\ Single(uart) => Quietly(serving', p, L.uart)
  BY RestAsks DEF LineInv, Quietly, Asking
<1> QED  BY <1>1, <1>2, <1>3, LineSet

LEMMA ComputcKeeps == LineInv /\ Computc => LineInv'
<1> SUFFICES ASSUME LineInv, Computc PROVE LineInv'
  OBVIOUS
<1>1. PICK p \in Port, c \in Char : SetLine(p, computc(State(p), c))
  BY SerialAssumption DEF Computc
<1>2. /\ IsLine(computc(State(p), c)) /\ Driven(computc(State(p), c))
      /\ Asking(uart[p]) => Asking(computc(State(p), c).uart)
  BY StateIsLine, computcIs
<1>3. serving = None /\ UNCHANGED serving
  BY DEF Computc
<1> QED  BY <1>1, <1>2, <1>3, WriterKeeps DEF Driven, Coming

LEMMA ComsputcKeeps == LineInv /\ Comsputc => LineInv'
<1> SUFFICES ASSUME LineInv, Comsputc PROVE LineInv'
  OBVIOUS
<1> DEFINE p == Console
           t == ReadLSR(uart[p])
           u == WriteTX(t)
           L == comsputc(State(p))
<1>1. p \in Port /\ serving = None /\ UNCHANGED serving /\ SetLine(p, L)
  BY SerialAssumption DEF Comsputc
<1>2. Wired(t) /\ t \in Uarts /\ t.ier = uart[p].ier /\ (Asking(uart[p]) => Asking(t))
  BY <1>1, StateIsLine, ReadLSRIs DEF Wired
<1>3. Wired(u) /\ u.thre = FALSE /\ u.ier = uart[p].ier /\ (Asking(uart[p]) => Asking(u))
  <2> HIDE DEF t
  <2> QED  BY <1>2, WriteTXIs
<1>4. L = [State(p) EXCEPT !.uart = u]
  BY DEF comsputc, State
<1> HIDE DEF u
<1>5. IsLine(L) /\ L.uart = u /\ L.com = com[p]
  BY <1>1, <1>3, <1>4, StateIsLine DEF IsLine
<1>6. L.com.com_count > 0 => L.uart.ier /\ ~L.uart.thre
  <2>1. Sent(serving, p, com[p], uart[p])
    BY <1>1, StateIsLine
  <2> QED  BY <1>3, <1>5, <2>1 DEF Sent
<1> HIDE DEF L, p
<1> QED  BY <1>1, <1>3, <1>5, <1>6, WriterKeeps

(* The hardware: a cause that comes while another is pending is a clash.   *)
LEMMA TxEmptyKeeps ==
  ASSUME LineInv, NEW p \in Port, TxEmpty(p)
  PROVE  LineInv'
<1> DEFINE w == [uart[p] EXCEPT !.thre = TRUE, !.thri = uart[p].ier]
           u == Settled(w)
<1>1. /\ com[p] \in ComT /\ Wired(uart[p]) /\ uart[p] \in Uarts
      /\ Sent(serving, p, com[p], uart[p]) /\ ServingOK(serving)
      /\ ~clash => Quietly(serving, p, uart[p])
  BY StateIsLine DEF LineInv
<1>2. /\ w \in Uarts /\ SameEdge(w, uart[p]) /\ w.ier = uart[p].ier
      /\ w.thri = uart[p].ier /\ w.rdi = uart[p].rdi /\ w.rls = uart[p].rls
  BY <1>1 DEF Uarts, SameEdge
<1>3. /\ SetUart(p, u) /\ com' = com /\ serving' = serving
  BY DEF TxEmpty
<1> HIDE DEF w
<1>4. /\ Wired(u) /\ u.ier = uart[p].ier /\ u.thri = uart[p].ier
      /\ u.rdi = uart[p].rdi /\ u.rls = uart[p].rls
      /\ (u.high /\ ~u.irr => uart[p].high /\ ~uart[p].irr)
  BY <1>2, SettledIs DEF SameEdge
<1> HIDE DEF u
<1>5. com' = [com EXCEPT ![p] = com[p]]
  BY <1>3 DEF LineInv
<1>6. Sent(serving', p, com[p], u)
  BY <1>1, <1>3, <1>4 DEF Sent
<1>7. ~clash => Quietly(serving', p, u)
  BY <1>1, <1>3, <1>4 DEF Quietly
<1> QED  BY <1>1, <1>3, <1>4, <1>5, <1>6, <1>7, LineSet

LEMMA RxCharKeeps == LineInv /\ RxChar => LineInv'
<1> SUFFICES ASSUME LineInv, RxChar PROVE LineInv'
  OBVIOUS
<1>0. PICK p \in Heard :
        SetUart(p, Settled([uart[p] EXCEPT !.rdi = TRUE, !.rls = @ \/ uart[p].rdi]))
  BY DEF RxChar
<1> DEFINE w == [uart[p] EXCEPT !.rdi = TRUE, !.rls = @ \/ uart[p].rdi]
           u == Settled(w)
<1>1. /\ p \in Port
      /\ com[p] \in ComT /\ Wired(uart[p]) /\ uart[p] \in Uarts
      /\ Sent(serving, p, com[p], uart[p]) /\ ServingOK(serving)
      /\ ~clash => Quietly(serving, p, uart[p])
  BY StateIsLine, SerialAssumption DEF LineInv
<1>2. /\ w \in Uarts /\ SameEdge(w, uart[p]) /\ w.ier = uart[p].ier
      /\ w.thre = uart[p].thre /\ w.thri = uart[p].thri /\ w.rdi = TRUE
      /\ w.rls = (uart[p].rls \/ uart[p].rdi)
  BY <1>1 DEF Uarts, SameEdge
<1>3. /\ SetUart(p, u) /\ com' = com /\ serving' = serving
  BY <1>0 DEF RxChar
<1> HIDE DEF w
<1>4. /\ Wired(u) /\ u.ier = uart[p].ier /\ u.thre = uart[p].thre /\ u.thri = uart[p].thri
      /\ u.rdi = TRUE /\ u.rls = (uart[p].rls \/ uart[p].rdi)
      /\ (u.high /\ ~u.irr => uart[p].high /\ ~uart[p].irr)
  BY <1>2, SettledIs DEF SameEdge
<1> HIDE DEF u
<1>5. com' = [com EXCEPT ![p] = com[p]]
  BY <1>3 DEF LineInv
<1>6. Sent(serving', p, com[p], u)
  BY <1>1, <1>3, <1>4 DEF Sent
<1>7. ~clash => Quietly(serving', p, u)
  BY <1>1, <1>3, <1>4 DEF Quietly
<1> QED  BY <1>1, <1>3, <1>4, <1>5, <1>6, <1>7, LineSet

(* The service of a cause leaves the line asking, for it was the only one. *)
LEMMA ServeKeeps == LineInv /\ Serve => LineInv'
<1> SUFFICES ASSUME LineInv, Serve PROVE LineInv'
  OBVIOUS
<1> DEFINE p == serving.port
<1>1. p \in Port /\ serving.cause \in {"RLSI", "RDI", "THRI"} /\ serving' = None
  BY DEF Serve, LineInv, ServingOK
<1>2. PICK M \in Served(p, State(p)) : SetLine(p, M)
  BY DEF Serve
<1>3. /\ IsLine(State(p)) /\ State(p).com = com[p] /\ State(p).uart = uart[p]
      /\ Wired(uart[p]) /\ uart[p] \in Uarts /\ Sent(serving, p, com[p], uart[p])
  BY <1>1, StateIsLine
<1>4. com[p].com_count > 0 =>
        uart[p].ier /\ (uart[p].thri \/ ~uart[p].thre \/ serving.cause = "THRI")
  BY <1>3 DEF Sent, Serving
<1> HIDE DEF p
<1>5. /\ IsLine(M) /\ Driven(M)
      /\ Asking(uart[p]) \/ OnlyCause(uart[p], serving.cause) => Asking(M.uart)
  BY <1>1, <1>2, <1>3, <1>4, ServedIs
<1>6. ~clash => Asking(uart[p]) \/ OnlyCause(uart[p], serving.cause)
  <2>1. SUFFICES ASSUME ~clash PROVE Asking(uart[p]) \/ OnlyCause(uart[p], serving.cause)
    OBVIOUS
  <2>2. Single(uart) /\ Quietly(serving, p, uart[p])
    BY <1>1, <2>1 DEF LineInv
  <2> QED
    BY <1>1, <1>3, <2>2 DEF Single, Quietly, Serving, Asking, OnlyCause
<1>7. /\ com' = [com EXCEPT ![p] = M.com] /\ SetUart(p, M.uart)
      /\ M.com \in ComT /\ Wired(M.uart)
  BY <1>2, <1>5 DEF SetLine, IsLine
<1>8. ServingOK(serving') /\ Sent(serving', p, M.com, M.uart)
  BY <1>1, <1>5 DEF ServingOK, Sent, Driven, Coming
<1>9. ~clash => Quietly(serving', p, M.uart)
  BY <1>5, <1>6 DEF Quietly, Asking
<1>10. serving.port = p
  BY DEF p
<1> QED  BY <1>1, <1>7, <1>8, <1>9, <1>10, LineSet

(* comintr finds a line with a cause if there is one.                      *)
Foremost(us) ==
  CHOOSE i \in Port : Cause(us[i]) # "none" /\ \A j \in 1..(i - 1) : Cause(us[j]) = "none"

LEMMA ForemostHasCause ==
  ASSUME NEW us, NEW p \in Port, Cause(us[p]) # "none"
  PROVE  Foremost(us) \in Port /\ Cause(us[Foremost(us)]) # "none"
<1> DEFINE T == {i \in Port : Cause(us[i]) # "none"}
           First(i) == Cause(us[i]) # "none" /\ \A j \in 1..(i - 1) : Cause(us[j]) = "none"
<1>1. T \subseteq Nat /\ T # {}
  BY DEF Port
<1>2. PICK d \in T : \A e \in T : d <= e
  <2> HIDE DEF T
  <2> QED  BY <1>1, Least, Zenon
<1>3. ASSUME NEW j \in 1..(d - 1) PROVE Cause(us[j]) = "none"
  <2>1. d \in Port /\ j \in Port /\ ~ (d <= j)
    BY Numbers DEF Port
  <2>2. j \notin T
    BY <1>2, <2>1
  <2> QED  BY <2>1, <2>2
<1>4. d \in Port /\ First(d)
  BY <1>3
<1>5. Foremost(us) = CHOOSE i \in Port : First(i)
  BY DEF Foremost
<1>6. First(Foremost(us)) => Cause(us[Foremost(us)]) # "none"
  OBVIOUS
<1> HIDE DEF First, T
<1> QED  BY <1>4, <1>5, <1>6, Zenon

LEMMA ReadCauseKeeps ==
  ASSUME LineInv, NEW p \in Port, ReadCause(p)
  PROVE  LineInv'
<1> DEFINE t  == [uart[p] EXCEPT !.irr = FALSE]
           ts == [uart EXCEPT ![p] = t]
           q  == Foremost(uart)
           v  == ReadIIR(ts[q])
           us == uart'
           sv == serving'
<1>1. /\ serving = None /\ uart[p].irr /\ com' = com /\ clash' = clash
      /\ us = [ts EXCEPT ![q] = v] /\ sv = [port |-> q, cause |-> Cause(uart[q])]
  BY DEF ReadCause, Foremost
<1>2. \A i \in Port : /\ com[i] \in ComT /\ Wired(uart[i]) /\ uart[i] \in Uarts
                      /\ Sent(None, i, com[i], uart[i])
                      /\ ~clash => Quietly(None, i, uart[i])
  BY <1>1 DEF LineInv
<1>3. /\ uart \in [Port -> Uarts] /\ com \in [Port -> ComT]
      /\ ~clash => Single(uart)
  BY DEF LineInv
<1>4. /\ t \in Uarts /\ t.thre = uart[p].thre /\ t.ier = uart[p].ier /\ t.thri = uart[p].thri
      /\ t.rdi = uart[p].rdi /\ t.rls = uart[p].rls /\ t.high = uart[p].high /\ t.irr = FALSE
  BY <1>2 DEF Uarts
<1>5. Wired(t) /\ Cause(t) = Cause(uart[p])
  BY <1>2, <1>4 DEF Wired, Cause
<1> HIDE DEF t
<1>6. Cause(uart[p]) # "none"
  <2>1. Wired(uart[p]) /\ uart[p].high
    BY <1>1, <1>2 DEF Wired
  <2> QED  BY <2>1, ReadIIRIs
<1>7. q \in Port /\ Cause(uart[q]) # "none"
  BY <1>6, ForemostHasCause
<1> HIDE DEF q
<1>8. /\ ts \in [Port -> Uarts] /\ ts[p] = t
      /\ \A i \in Port \ {p} : ts[i] = uart[i]
  BY <1>3, <1>4
<1>9. /\ Wired(ts[q]) /\ Cause(ts[q]) = Cause(uart[q])
      /\ ts[q].thre = uart[q].thre /\ ts[q].ier = uart[q].ier /\ ts[q].thri = uart[q].thri
      /\ ts[q].rdi = uart[q].rdi /\ ts[q].rls = uart[q].rls /\ ts[q].high = uart[q].high
  BY <1>2, <1>4, <1>5, <1>7, <1>8
<1>10. /\ Wired(v) /\ v.thre = uart[q].thre /\ v.ier = uart[q].ier
       /\ v.rdi = uart[q].rdi /\ v.rls = uart[q].rls
       /\ Cause(uart[q]) = "THRI" => v.thri = FALSE /\ ~uart[q].rdi /\ ~uart[q].rls
       /\ Cause(uart[q]) # "THRI" => v = ts[q] /\ v.thri = uart[q].thri
       /\ Cause(uart[q]) = "RDI" => uart[q].rdi
       /\ Cause(uart[q]) = "RLSI" => uart[q].rls
       /\ Cause(uart[q]) \in {"RLSI", "RDI", "THRI"}
       /\ uart[q].high
  BY <1>7, <1>9, ReadIIRIs
<1> HIDE DEF v
<1>11. /\ us \in [Port -> Uarts] /\ us[q] = v
       /\ \A i \in Port \ {q} : us[i] = ts[i]
  BY <1>1, <1>7, <1>8, <1>10 DEF Wired
<1>12. ServingOK(sv) /\ Serving(sv, q, Cause(uart[q]))
  BY <1>1, <1>7, <1>10 DEF ServingOK, Serving
<1> HIDE DEF us, sv, ts
<1>13. ASSUME NEW i \in Port PROVE Wired(us[i]) /\ Sent(sv, i, com[i], us[i])
  <2>1. com[i].com_count > 0 => uart[i].ier /\ (uart[i].thri \/ ~uart[i].thre)
    BY <1>2, PortIsPositive DEF Sent, Serving
  <2>2. CASE i = q
    BY <1>10, <1>11, <1>12, <2>1, <2>2 DEF Sent
  <2>3. CASE i # q /\ i = p
    BY <1>4, <1>5, <1>8, <1>11, <2>1, <2>3 DEF Sent
  <2>4. CASE i # q /\ i # p
    BY <1>2, <1>8, <1>11, <2>1, <2>4 DEF Sent
  <2> QED  BY <2>2, <2>3, <2>4
<1>14. ASSUME ~clash PROVE Single(us) /\ \A i \in Port : Quietly(sv, i, us[i])
  <2>1. Single(uart) /\ \A i \in Port : Quietly(None, i, uart[i])
    BY <1>2, <1>3, <1>14
  <2>2. uart[p].high
    BY <1>1, <1>2 DEF Wired
  <2>3. p = q
    BY <1>7, <1>10, <2>1, <2>2 DEF Single
  <2>4. \A i \in Port \ {q} : us[i] = uart[i]
    BY <1>8, <1>11, <2>3
  <2>5. /\ us[q].high => uart[q].high
        /\ us[q].rdi = uart[q].rdi /\ us[q].rls = uart[q].rls
        /\ us[q].thri => uart[q].thri
    BY <1>7, <1>9, <1>10, <1>11
  <2>6. Single(us)
    BY <1>7, <2>1, <2>4, <2>5 DEF Single
  <2>7. Quietly(sv, q, us[q])
    BY <1>10, <1>11, <1>12 DEF Quietly, Wired
  <2>8. ASSUME NEW i \in Port \ {q} PROVE Quietly(sv, i, us[i])
    <3>1. Quietly(None, i, uart[i])
      BY <2>1
    <3> QED  BY <2>4, <3>1, PortIsPositive DEF Quietly, Serving
  <2> QED  BY <2>6, <2>7, <2>8
<1> QED  BY <1>1, <1>3, <1>11, <1>12, <1>13, <1>14 DEF LineInv, us, sv

-----------------------------------------------------------------------------
LEMMA LinesBegin == Init => LineInv
<1> SUFFICES ASSUME Init PROVE LineInv
  OBVIOUS
<1> DEFINE b == [i \in Place |-> CR]
           c == [com_buf |-> b, com_start |-> 0, com_count |-> 0]
<1>1. c \in ComT /\ c.com_count = 0
  <2>1. b \in [Place -> Char \cup {CR}]
    OBVIOUS
  <2> HIDE DEF b
  <2> QED  BY <2>1 DEF ComT
<1>2. Wired(Quiet) /\ Quiet.high = FALSE /\ Quiet.thri = FALSE /\ Quiet.rdi = FALSE
  BY DEF Quiet, Wired, Uarts
<1>3. com = [p \in Port |-> c] /\ uart = [p \in Port |-> Quiet] /\ serving = None
  BY DEF Init, LineInit
<1> HIDE DEF c
<1> QED
  BY <1>1, <1>2, <1>3 DEF LineInv, Wired, Sent, ServingOK, Single, Quietly

LEMMA StartAgainKeeps == LineInv /\ StartAgain => LineInv'
<1> SUFFICES ASSUME LineInv, StartAgain PROVE LineInv'
  OBVIOUS
<1> DEFINE b == [i \in Place |-> CR]
           c == [com_buf |-> b, com_start |-> 0, com_count |-> 0]
           U(p) == [Quiet EXCEPT !.thre = uart[p].thre]
           us == uart'
<1>1. c \in ComT /\ c.com_count = 0
  <2>1. b \in [Place -> Char \cup {CR}]
    OBVIOUS
  <2> HIDE DEF b
  <2> QED  BY <2>1 DEF ComT
<1>2. \A p \in Port : /\ Wired(U(p)) /\ U(p).high = FALSE /\ U(p).thri = FALSE
                      /\ U(p).rdi = FALSE
  BY DEF Quiet, Wired, Uarts, LineInv
<1>3. /\ com' = [p \in Port |-> c] /\ us = [p \in Port |-> U(p)]
      /\ serving = None /\ serving' = None
  BY DEF StartAgain
<1> HIDE DEF c, U, us
<1>4. us \in [Port -> Uarts] /\ \A p \in Port : us[p] = U(p)
  BY <1>2, <1>3 DEF Wired
<1>5. Single(us) /\ \A p \in Port : Quietly(None, p, us[p])
  BY <1>2, <1>4 DEF Single, Quietly
<1>6. com' \in [Port -> ComT] /\ \A p \in Port : Sent(None, p, com'[p], us[p])
  BY <1>1, <1>3 DEF Sent
<1> QED
  BY <1>2, <1>3, <1>4, <1>5, <1>6 DEF LineInv, ServingOK, us

LEMMA LineStep == LineInv /\ [Next]_vars => LineInv'
<1> SUFFICES ASSUME LineInv, [Next]_vars PROVE LineInv'
  OBVIOUS
<1>1. CASE UNCHANGED lineVars
  BY <1>1 DEF LineInv, lineVars
<1>2. CASE UNCHANGED vars
  BY <1>1, <1>2 DEF vars
<1>3. CASE Next
  <2>1. CASE StartUp \/ Calls
    BY <2>1, <1>1 DEF StartUp, Calls
  <2>2. CASE StartAgain
    BY <2>2, StartAgainKeeps
  <2>3. CASE Computc \/ Comsputc
    BY <2>3, ComputcKeeps, ComsputcKeeps
  <2>4. CASE Comintr
    BY <2>4, ServeKeeps, ReadCauseKeeps DEF Comintr
  <2>5. CASE RxChar \/ \E p \in Port : TxEmpty(p)
    BY <2>5, RxCharKeeps, TxEmptyKeeps
  <2> QED  BY <1>3, <2>1, <2>2, <2>3, <2>4, <2>5 DEF Next
<1> QED  BY <1>2, <1>3

(* What waits in a ring is driven: by an interrupt that is enabled, and by *)
(* a register in use, a request, comintr, or else the line hangs high      *)
(* (com/comoutput.c and comintr.c together).                               *)
THEOREM OutputAlwaysDriven == Spec => []OutputDriven
<1>1. LineInv => OutputDriven
  <2> SUFFICES ASSUME LineInv, NEW p \in Port, com[p].com_count > 0
               PROVE  /\ uart[p].ier
                      /\ ~uart[p].thre \/ uart[p].irr \/ serving.port = p \/ Stuck(p)
                         \/ (serving # None /\ uart[p].high)
    BY DEF OutputDriven
  <2>1. Wired(uart[p]) /\ Sent(serving, p, com[p], uart[p])
    BY StateIsLine
  <2> QED  BY <2>1 DEF Sent, Serving, Wired, Stuck
<1> QED  BY <1>1, LinesBegin, LineStep, PTL DEF Spec

(* A line hangs high only after two causes were pending at one time: with  *)
(* one at a time comintr's reading of a single cause is enough.            *)
THEOREM StuckOnlyByClash == Spec => []StuckByClash
<1>1. LineInv => StuckByClash
  <2> SUFFICES ASSUME LineInv, NEW p \in Port, Stuck(p), ~clash PROVE FALSE
    BY DEF StuckByClash
  <2>1. Quietly(serving, p, uart[p])
    BY DEF LineInv
  <2> QED  BY <2>1, PortIsPositive DEF Quietly, Serving, Stuck
<1> QED  BY <1>1, LinesBegin, LineStep, PTL DEF Spec

-----------------------------------------------------------------------------
(* The ring and what is owed.  Positions in a ring that was not written    *)
(* over go around its end at most once.                                    *)
Chars == Char \cup {CR}

InRing(c, o) ==
  /\ Len(o) = c.com_count /\ c.com_count <= COMBUFSZ
  /\ \A i \in 1..Len(o) : o[i] = c.com_buf[(c.com_start + i - 1) % COMBUFSZ]

RingOK(L) ==
  /\ L.com.com_buf \in [Place -> Chars]
  /\ L.com.com_start \in Place /\ L.com.com_count \in 0..(COMBUFSZ + 2)
  /\ L.com = [com_buf |-> L.com.com_buf, com_start |-> L.com.com_start,
              com_count |-> L.com.com_count]
  /\ L.owed \in Seq(Chars) /\ L.overrun \in BOOLEAN
  /\ ~L.overrun => InRing(L.com, L.owed)

LEMMA RingSize == COMBUFSZ \in Nat /\ COMBUFSZ > 0 /\ Place \subseteq Nat
  BY SerialAssumption DEF Place

LEMMA Around ==
  ASSUME NEW x \in Nat
  PROVE  /\ x % COMBUFSZ \in Place
         /\ x < COMBUFSZ => x % COMBUFSZ = x
         /\ x >= COMBUFSZ /\ x < 2 * COMBUFSZ => x % COMBUFSZ = x - COMBUFSZ
<1> DEFINE q == x \div COMBUFSZ
           r == x % COMBUFSZ
<1>1. q \in Nat /\ r \in Nat /\ r < COMBUFSZ /\ x = COMBUFSZ * q + r
  BY RingSize
<1>2. r \in Place
  BY <1>1, RingSize DEF Place
<1> HIDE DEF q, r
<1>3. CASE q = 0
  <2>1. x = r
    BY <1>1, <1>3, RingSize
  <2> QED  BY <1>1, <1>2, <2>1, RingSize DEF r
<1>4. CASE q = 1
  <2>1. x = COMBUFSZ + r
    BY <1>1, <1>4, RingSize
  <2> QED  BY <1>1, <1>2, <2>1, RingSize DEF r
<1>5. CASE q >= 2
  <2>1. PICK k \in Nat : q = 2 + k
    BY <1>1, <1>5
  <2>2. COMBUFSZ * q = 2 * COMBUFSZ + COMBUFSZ * k /\ COMBUFSZ * k \in Nat
    BY <2>1, RingSize
  <2>3. x >= 2 * COMBUFSZ
    BY <1>1, <2>2, RingSize
  <2> QED  BY <1>2, <2>3, RingSize DEF r
<1> QED  BY <1>1, <1>3, <1>4, <1>5

(* A character goes behind the last one, over none of those that wait.     *)
LEMMA PutInRing ==
  ASSUME NEW L, RingOK(L), L.com.com_count <= COMBUFSZ + 1, NEW ch \in Chars
  PROVE  /\ RingOK(Put(L, ch))
         /\ Put(L, ch).com.com_count = L.com.com_count + 1
         /\ Put(L, ch).uart = L.uart
<1> DEFINE c  == L.com
           n  == c.com_count
           at == (c.com_start + n) % COMBUFSZ
           b  == [c.com_buf EXCEPT ![at] = ch]
           over == L.overrun \/ n >= COMBUFSZ
           M  == Put(L, ch)
<1>1. /\ c.com_buf \in [Place -> Chars] /\ c.com_start \in Place
      /\ n \in Nat /\ n <= COMBUFSZ + 1 /\ c.com_start \in Nat /\ c.com_start < COMBUFSZ
      /\ L.owed \in Seq(Chars) /\ L.overrun \in BOOLEAN
      /\ ~L.overrun => InRing(c, L.owed)
  BY RingSize DEF RingOK, Place
<1>2. at \in Place
  BY <1>1, Around
<1>3. b \in [Place -> Chars] /\ b[at] = ch /\ \A i \in Place \ {at} : b[i] = c.com_buf[i]
  <2> HIDE DEF at
  <2> QED  BY <1>1, <1>2
<1>4. /\ M.com.com_buf = b /\ M.com.com_start = c.com_start /\ M.com.com_count = n + 1
      /\ M.uart = L.uart /\ M.overrun = over
      /\ M.owed = (IF over THEN <<>> ELSE Append(L.owed, ch))
      /\ M.com = [com_buf |-> M.com.com_buf, com_start |-> M.com.com_start,
                  com_count |-> M.com.com_count]
  <2>1. c = [com_buf |-> c.com_buf, com_start |-> c.com_start, com_count |-> n]
    BY DEF RingOK
  <2>2. M.com = [c EXCEPT !.com_buf = [@ EXCEPT ![at] = ch], !.com_count = @ + 1]
    BY DEF Put
  <2>3. M.com = [com_buf |-> b, com_start |-> c.com_start, com_count |-> n + 1]
    BY <2>1, <2>2
  <2> QED  BY <2>3 DEF Put
<1>5. n + 1 \in 0..(COMBUFSZ + 2)
  BY <1>1, RingSize
<1>6. M.owed \in Seq(Chars) /\ M.overrun \in BOOLEAN
  <2> HIDE DEF M, over
  <2>1. Append(L.owed, ch) \in Seq(Chars) /\ <<>> \in Seq(Chars)
    BY <1>1
  <2>2. over \in BOOLEAN
    BY DEF over
  <2> QED  BY <1>4, <2>1, <2>2
<1>7. ASSUME ~ M.overrun PROVE InRing(M.com, M.owed)
  <2>1. ~ L.overrun /\ n < COMBUFSZ /\ M.owed = Append(L.owed, ch)
    <3> HIDE DEF M, over
    <3>1. ~ over /\ M.owed = Append(L.owed, ch)
      BY <1>4, <1>7
    <3> QED  BY <1>1, <3>1, RingSize DEF over
  <2>2. /\ Len(L.owed) = n
        /\ \A i \in 1..n : L.owed[i] = c.com_buf[(c.com_start + i - 1) % COMBUFSZ]
    BY <1>1, <2>1 DEF InRing
  <2>3. /\ Len(M.owed) = n + 1 /\ M.owed[n + 1] = ch
        /\ \A i \in 1..n : M.owed[i] = L.owed[i]
    BY <1>1, <2>1, <2>2
  <2> HIDE DEF M, b, n
  <2>4. ASSUME NEW i \in 1..n
        PROVE  b[(c.com_start + i - 1) % COMBUFSZ] = c.com_buf[(c.com_start + i - 1) % COMBUFSZ]
    <3> DEFINE x == c.com_start + i - 1
               y == c.com_start + n
    <3>1. /\ x \in Nat /\ y \in Nat /\ x < y /\ y < x + COMBUFSZ
          /\ x < 2 * COMBUFSZ /\ y < 2 * COMBUFSZ
      BY <1>1, <2>1, <2>4, RingSize
    <3>2. at = y % COMBUFSZ
      BY DEF n
    <3> HIDE DEF x, y, at
    <3>3. x % COMBUFSZ # y % COMBUFSZ /\ x % COMBUFSZ \in Place
      <4>1. /\ x < COMBUFSZ => x % COMBUFSZ = x
            /\ x >= COMBUFSZ => x % COMBUFSZ = x - COMBUFSZ
            /\ y < COMBUFSZ => y % COMBUFSZ = y
            /\ y >= COMBUFSZ => y % COMBUFSZ = y - COMBUFSZ
            /\ x % COMBUFSZ \in Place
        BY <3>1, Around
      <4> QED  BY <3>1, <4>1, RingSize
    <3>4. b[x % COMBUFSZ] = c.com_buf[x % COMBUFSZ]
      BY <1>3, <3>2, <3>3
    <3> QED  BY <3>4 DEF x
  <2>5. b[(c.com_start + (n + 1) - 1) % COMBUFSZ] = ch
    <3>1. c.com_start + (n + 1) - 1 = c.com_start + n
      BY <1>1
    <3> QED  BY <1>3, <3>1 DEF n
  <2>6. ASSUME NEW i \in 1..(n + 1)
        PROVE  M.owed[i] = b[(c.com_start + i - 1) % COMBUFSZ]
    <3>1. CASE i = n + 1
      BY <2>3, <2>5, <3>1
    <3>2. CASE i # n + 1
      <4>1. i \in 1..n
        BY <1>1, <2>6, <3>2
      <4> QED  BY <2>2, <2>3, <2>4, <4>1
    <3> QED  BY <3>1, <3>2
  <2>7. n + 1 <= COMBUFSZ
    BY <1>1, <2>1, RingSize
  <2> QED  BY <1>4, <2>3, <2>6, <2>7 DEF InRing
<1> HIDE DEF M, b, over, at
<1>8. RingOK(M)
  BY <1>1, <1>3, <1>4, <1>5, <1>6, <1>7 DEF RingOK
<1> QED  BY <1>4, <1>8 DEF M

(* The first character leaves; the others move up by one.                  *)
LEMMA SentFromRing ==
  ASSUME NEW L, RingOK(L), L.com.com_count > 0
  PROVE  RingOK(comwstrt(L))
<1> DEFINE c == L.com
           n == c.com_count - 1
           s == (c.com_start + 1) % COMBUFSZ
           M == comwstrt(L)
<1>1. /\ c.com_buf \in [Place -> Chars] /\ c.com_start \in Place
      /\ n \in Nat /\ n <= COMBUFSZ + 1 /\ c.com_count = n + 1
      /\ c.com_start \in Nat /\ c.com_start < COMBUFSZ
      /\ L.owed \in Seq(Chars) /\ L.overrun \in BOOLEAN
      /\ ~L.overrun => InRing(c, L.owed)
  BY RingSize DEF RingOK, Place
<1>2. s \in Place
  BY <1>1, Around
<1>3. /\ M.com.com_buf = c.com_buf /\ M.com.com_start = s /\ M.com.com_count = n
      /\ M.overrun = (L.overrun /\ n # 0)
      /\ M.owed = (IF L.overrun THEN <<>> ELSE Tail(L.owed))
      /\ M.com = [com_buf |-> M.com.com_buf, com_start |-> M.com.com_start,
                  com_count |-> M.com.com_count]
  <2>1. c = [com_buf |-> c.com_buf, com_start |-> c.com_start, com_count |-> c.com_count]
    BY DEF RingOK
  <2>2. M.com = [c EXCEPT !.com_count = n, !.com_start = (@ + 1) % COMBUFSZ]
    BY DEF comwstrt
  <2>3. M.com = [com_buf |-> c.com_buf, com_start |-> s, com_count |-> n]
    BY <2>1, <2>2
  <2> QED  BY <2>3 DEF comwstrt
<1> HIDE DEF M
<1>4. n \in 0..(COMBUFSZ + 2)
  BY <1>1, RingSize
<1>5. ASSUME ~ L.overrun PROVE M.owed \in Seq(Chars) /\ InRing(M.com, M.owed)
  <2> HIDE DEF n
  <2>1. /\ Len(L.owed) = n + 1 /\ n + 1 <= COMBUFSZ
        /\ \A i \in 1..(n + 1) : L.owed[i] = c.com_buf[(c.com_start + i - 1) % COMBUFSZ]
    BY <1>1, <1>5 DEF InRing
  <2>2. M.owed = Tail(L.owed) /\ L.owed # <<>>
    BY <1>1, <1>3, <1>5, <2>1
  <2>3. /\ M.owed \in Seq(Chars) /\ Len(M.owed) = n
        /\ \A i \in 1..n : M.owed[i] = L.owed[i + 1]
    BY <1>1, <2>1, <2>2
  <2>4. ASSUME NEW i \in 1..n PROVE (s + i - 1) % COMBUFSZ = (c.com_start + (i + 1) - 1) % COMBUFSZ
    <3> DEFINE y == c.com_start + (i + 1) - 1
               x == s + i - 1
               z == c.com_start + 1
    <3>1. /\ y \in Nat /\ y < 2 * COMBUFSZ /\ z \in Nat /\ z <= COMBUFSZ
          /\ y = z + i - 1 /\ i \in Nat /\ i >= 1 /\ i < COMBUFSZ
      <4> HIDE DEF s
      <4>1. i \in Nat /\ i >= 1 /\ i <= n /\ n \in Nat /\ n < COMBUFSZ
        BY <1>1, <2>1, <2>4, RingSize
      <4> QED  BY <1>1, <4>1, RingSize
    <3>2. CASE z < COMBUFSZ
      <4>1. s = z
        BY <3>1, <3>2, Around
      <4> QED  BY <3>1, <4>1
    <3>3. CASE z = COMBUFSZ
      <4> HIDE DEF y, s, z
      <4>1. z % COMBUFSZ = 0
        BY <3>1, <3>3, Around, RingSize
      <4>2. s = 0
        BY <4>1 DEF s, z
      <4>3. x = i - 1 /\ x \in Nat /\ x < COMBUFSZ /\ y = COMBUFSZ + x
        BY <3>1, <3>3, <4>2, RingSize
      <4>4. x % COMBUFSZ = x
        <5> HIDE DEF x
        <5> QED  BY <4>3, Around
      <4>5. y % COMBUFSZ = y - COMBUFSZ
        <5> HIDE DEF x
        <5> QED  BY <3>1, <4>3, Around, RingSize
      <4> QED  BY <4>3, <4>4, <4>5, RingSize DEF y
    <3> QED  BY <3>1, <3>2, <3>3, RingSize
  <2>5. ASSUME NEW i \in 1..n PROVE M.owed[i] = c.com_buf[(s + i - 1) % COMBUFSZ]
    <3>1. i + 1 \in 1..(n + 1)
      BY <1>1, <2>5
    <3>2. M.owed[i] = c.com_buf[(c.com_start + (i + 1) - 1) % COMBUFSZ]
      BY <2>1, <2>3, <3>1
    <3> HIDE DEF s
    <3> QED  BY <2>4, <3>2
  <2>6. n <= COMBUFSZ
    BY <1>1, <2>1, RingSize
  <2> HIDE DEF s
  <2> QED  BY <1>3, <2>3, <2>5, <2>6 DEF InRing
<1>6. ASSUME L.overrun, ~ M.overrun PROVE InRing(M.com, M.owed)
  <2>1. n = 0 /\ M.owed = <<>>
    BY <1>1, <1>3, <1>6
  <2> HIDE DEF n
  <2>2. Len(M.owed) = 0 /\ M.com.com_count = 0 /\ 0 <= COMBUFSZ
    <3> HIDE DEF s
    <3>1. M.com.com_count = 0 /\ 0 <= COMBUFSZ
      BY <1>3, <2>1, RingSize
    <3>2. Len(M.owed) = 0
      BY <2>1
    <3> QED  BY <3>1, <3>2
  <2>3. \A i \in 1..Len(M.owed) : FALSE
    BY <2>2
  <2> QED  BY <2>2, <2>3 DEF InRing
<1>7. M.owed \in Seq(Chars) /\ M.overrun \in BOOLEAN
  <2>1. L.overrun => M.owed = <<>>
    BY <1>3
  <2> QED  BY <1>3, <1>5, <2>1
<1> HIDE DEF s, n
<1>8. RingOK(M)
  BY <1>1, <1>2, <1>3, <1>4, <1>5, <1>6, <1>7 DEF RingOK
<1> QED  BY <1>8 DEF M

(* computc, which accepts one character or two, and sends at most one.     *)
LEMMA AcceptedInRing ==
  ASSUME NEW L, RingOK(L), L.com.com_count <= COMBUFSZ, NEW ch \in Char
  PROVE  RingOK(computc(L, ch))
<1> DEFINE r == IF ch = Newline THEN Put(Put(L, CR), ch) ELSE Put(L, ch)
           u == ReadLSR(WriteIER(r.uart, TRUE))
           s == [r EXCEPT !.uart = u]
<1>1. ch \in Chars /\ CR \in Chars /\ L.com.com_count \in Nat
  BY RingSize DEF Chars, RingOK
<1>2. RingOK(Put(L, CR)) /\ Put(L, CR).com.com_count = L.com.com_count + 1
  BY <1>1, PutInRing, RingSize
<1>3. RingOK(r) /\ r.com.com_count > 0
  <2>1. CASE ch = Newline
    <3>1. RingOK(Put(Put(L, CR), ch)) /\ Put(Put(L, CR), ch).com.com_count > 0
      BY <1>1, <1>2, PutInRing, RingSize
    <3> QED  BY <2>1, <3>1
  <2>2. CASE ch # Newline
    <3>1. RingOK(Put(L, ch)) /\ Put(L, ch).com.com_count > 0
      BY <1>1, PutInRing, RingSize
    <3> QED  BY <2>2, <3>1
  <2> QED  BY <2>1, <2>2
<1>4. r = [com |-> r.com, uart |-> r.uart, owed |-> r.owed, overrun |-> r.overrun]
  BY DEF Put
<1>5. computc(L, ch) = IF s.uart.thre THEN comwstrt(s) ELSE s
  BY DEF computc
<1> HIDE DEF r, u
<1>6. s.com = r.com /\ s.owed = r.owed /\ s.overrun = r.overrun
  BY <1>4
<1> HIDE DEF s
<1>7. RingOK(s) /\ s.com.com_count > 0
  BY <1>3, <1>6 DEF RingOK
<1> QED  BY <1>5, <1>7, SentFromRing

(* The whole line: comintr's service, the routines' callers and restarts.  *)
ServingType == serving \in [port : Port, cause : {"RLSI", "RDI", "THRI"}] \cup {None}
OrderInv ==
  /\ ServingType /\ clash \in BOOLEAN
  /\ owed \in [Port -> Seq(Chars)] /\ overrun \in [Port -> BOOLEAN]
  /\ \A p \in Port : RingOK(State(p))

LEMMA ServedInRing ==
  ASSUME NEW p \in Port, NEW L, RingOK(L),
         L = [com |-> L.com, uart |-> L.uart, owed |-> L.owed, overrun |-> L.overrun],
         Reach(p) => L.com.com_count <= COMBUFSZ,
         serving.cause \in {"RLSI", "RDI", "THRI"}, NEW M \in Served(p, L)
  PROVE  RingOK(M)
<1>1. ASSUME NEW u PROVE LET r == [L EXCEPT !.uart = u]
                         IN  RingOK(r) /\ r.com = L.com
  <2> DEFINE r == [L EXCEPT !.uart = u]
  <2>1. r.com = L.com /\ r.owed = L.owed /\ r.overrun = L.overrun
    OBVIOUS
  <2> HIDE DEF r
  <2>2. RingOK(r)
    BY <2>1 DEF RingOK
  <2> QED  BY <2>1, <2>2 DEF r
<1>2. CASE serving.cause = "RLSI"
  <2> DEFINE u == ReadLSR(L.uart)
  <2>1. M = [L EXCEPT !.uart = u]
    BY <1>2 DEF Served
  <2> HIDE DEF u
  <2> QED  BY <1>1, <2>1
<1>3. CASE serving.cause = "RDI"
  <2> DEFINE u == ReadRX(L.uart)
             r == [L EXCEPT !.uart = u]
  <2>1. M = r \/ (Reach(p) /\ \E ch \in Written[p] : M = computc(r, ch))
    BY <1>3 DEF Served
  <2> HIDE DEF u
  <2>2. RingOK(r) /\ r.com = L.com
    BY <1>1
  <2> HIDE DEF r
  <2>3. Written[p] \subseteq Char
    BY SerialAssumption
  <2> QED  BY <2>1, <2>2, <2>3, AcceptedInRing
<1>4. CASE serving.cause = "THRI"
  <2> DEFINE u == ReadLSR(L.uart)
             r == [L EXCEPT !.uart = u]
  <2>1. M = IF r.uart.thre /\ r.com.com_count # 0 THEN comwstrt(r) ELSE r
    BY <1>4 DEF Served
  <2> HIDE DEF u
  <2>2. RingOK(r) /\ r.com = L.com
    BY <1>1
  <2> HIDE DEF r
  <2>3. r.com.com_count # 0 => r.com.com_count > 0
    BY <2>2, RingSize DEF RingOK
  <2> QED  BY <2>1, <2>2, <2>3, SentFromRing
<1> QED  BY <1>2, <1>3, <1>4

LEMMA LineOrdered ==
  ASSUME LineInv, OrderInv, NEW p \in Port, NEW L, RingOK(L), SetLine(p, L), ServingType'
  PROVE  OrderInv'
<1>1. /\ com' = [com EXCEPT ![p] = L.com] /\ owed' = [owed EXCEPT ![p] = L.owed]
      /\ overrun' = [overrun EXCEPT ![p] = L.overrun] /\ SetUart(p, L.uart)
  BY DEF SetLine
<1>2. clash' \in BOOLEAN
  BY <1>1 DEF SetUart, OrderInv
<1>3. L.owed \in Seq(Chars) /\ L.overrun \in BOOLEAN
  BY DEF RingOK
<1>4. owed' \in [Port -> Seq(Chars)] /\ overrun' \in [Port -> BOOLEAN]
  BY <1>1, <1>3 DEF OrderInv
<1>5. ASSUME NEW q \in Port PROVE RingOK(State(q))'
  <2> DEFINE M == State(q)'
  <2>1. M.com = com'[q] /\ M.owed = owed'[q] /\ M.overrun = overrun'[q]
    BY DEF State
  <2>2. CASE q = p
    <3>1. M.com = L.com /\ M.owed = L.owed /\ M.overrun = L.overrun
      BY <1>1, <2>1, <2>2 DEF OrderInv, LineInv
    <3> QED  BY <3>1 DEF RingOK
  <2>3. CASE q # p
    <3>1. M.com = State(q).com /\ M.owed = State(q).owed /\ M.overrun = State(q).overrun
      BY <1>1, <2>1, <2>3 DEF OrderInv, LineInv, State
    <3>2. RingOK(State(q))
      BY DEF OrderInv
    <3> QED  BY <3>1, <3>2 DEF RingOK
  <2> QED  BY <2>2, <2>3
<1> QED  BY <1>2, <1>4, <1>5 DEF OrderInv

LEMMA FreshRing ==
  ASSUME NEW L, NEW b \in [Place -> Chars], L.owed = <<>>, L.overrun = FALSE,
         L.com = [com_buf |-> b, com_start |-> 0, com_count |-> 0]
  PROVE  RingOK(L)
<1>1. /\ L.com.com_buf = b /\ L.com.com_start = 0 /\ L.com.com_count = 0
      /\ L.com = [com_buf |-> L.com.com_buf, com_start |-> L.com.com_start,
                  com_count |-> L.com.com_count]
  OBVIOUS
<1>2. 0 \in Place /\ 0 \in 0..(COMBUFSZ + 2) /\ 0 <= COMBUFSZ
  BY RingSize DEF Place
<1>3. Len(L.owed) = 0 /\ L.owed \in Seq(Chars)
  OBVIOUS
<1>4. \A i \in 1..Len(L.owed) : FALSE
  BY <1>3
<1>5. InRing(L.com, L.owed)
  BY <1>1, <1>2, <1>3, <1>4 DEF InRing
<1> QED  BY <1>1, <1>2, <1>3, <1>5 DEF RingOK

LEMMA OrderBegins == Init => OrderInv
<1> SUFFICES ASSUME Init PROVE OrderInv
  OBVIOUS
<1> DEFINE b == [i \in Place |-> CR]
<1>1. /\ com = [p \in Port |-> [com_buf |-> b, com_start |-> 0, com_count |-> 0]]
      /\ serving = None /\ owed = [p \in Port |-> <<>>]
      /\ overrun = [p \in Port |-> FALSE] /\ clash = FALSE
  BY DEF Init, LineInit
<1>2. b \in [Place -> Chars]
  BY DEF Chars
<1> HIDE DEF b
<1>3. ServingType /\ owed \in [Port -> Seq(Chars)] /\ overrun \in [Port -> BOOLEAN]
  BY <1>1 DEF ServingType
<1>4. ASSUME NEW p \in Port PROVE RingOK(State(p))
  BY <1>1, <1>2, FreshRing DEF State
<1> QED  BY <1>1, <1>3, <1>4 DEF OrderInv

LEMMA StartAgainOrdered == OrderInv /\ StartAgain => OrderInv'
<1> SUFFICES ASSUME OrderInv, StartAgain PROVE OrderInv'
  OBVIOUS
<1> DEFINE b == [i \in Place |-> CR]
<1>1. /\ com' = [p \in Port |-> [com_buf |-> b, com_start |-> 0, com_count |-> 0]]
      /\ serving' = serving /\ owed' = [p \in Port |-> <<>>]
      /\ overrun' = [p \in Port |-> FALSE] /\ clash' = FALSE
  BY DEF StartAgain
<1>2. b \in [Place -> Chars]
  BY DEF Chars
<1> HIDE DEF b
<1>3. ServingType' /\ owed' \in [Port -> Seq(Chars)] /\ overrun' \in [Port -> BOOLEAN]
  BY <1>1 DEF ServingType, OrderInv
<1>4. ASSUME NEW p \in Port PROVE RingOK(State(p))'
  BY <1>1, <1>2, FreshRing DEF State
<1> QED  BY <1>1, <1>3, <1>4 DEF OrderInv

LEMMA OrderStep ==
  ASSUME LineInv, OrderInv, [Next]_vars
  PROVE  OrderInv'
<1>1. /\ ServingType /\ clash \in BOOLEAN
      /\ owed \in [Port -> Seq(Chars)] /\ overrun \in [Port -> BOOLEAN]
      /\ \A p \in Port : RingOK(State(p))
  BY DEF OrderInv
<1>2. ASSUME UNCHANGED <<com, owed, overrun>>, ServingType', clash' \in BOOLEAN
      PROVE  OrderInv'
  <2>1. ASSUME NEW p \in Port PROVE RingOK(State(p))'
    <3> DEFINE L == State(p)
               M == State(p)'
    <3>1. M.com = L.com /\ M.owed = L.owed /\ M.overrun = L.overrun /\ RingOK(L)
      BY <1>1, <1>2 DEF State
    <3> QED  BY <3>1 DEF RingOK
  <2> QED  BY <1>1, <1>2, <2>1 DEF OrderInv
<1>3. CASE UNCHANGED lineVars
  BY <1>1, <1>2, <1>3 DEF lineVars, ServingType
<1>4. CASE UNCHANGED vars
  BY <1>3, <1>4 DEF vars
<1>5. CASE StartUp \/ Calls
  BY <1>3, <1>5 DEF StartUp, Calls
<1>6. CASE StartAgain
  BY <1>6, StartAgainOrdered
<1>7. \A p \in Port : /\ State(p) = [com |-> State(p).com, uart |-> State(p).uart,
                                      owed |-> State(p).owed, overrun |-> State(p).overrun]
                      /\ (Reach(p) <=> State(p).com.com_count <= COMBUFSZ)
  BY DEF State, Reach
<1>8. CASE Computc
  <2>1. PICK p \in Port, ch \in Char : SetLine(p, computc(State(p), ch)) /\ Reach(p)
    BY <1>8, SerialAssumption DEF Computc
  <2>2. RingOK(computc(State(p), ch))
    BY <1>1, <1>7, <2>1, AcceptedInRing
  <2>3. ServingType'
    BY <1>1, <1>8 DEF Computc, ServingType
  <2> QED  BY <2>1, <2>2, <2>3, LineOrdered
<1>9. CASE Comsputc
  <2> DEFINE L == State(Console)
             u == WriteTX(ReadLSR(L.uart))
             M == comsputc(L)
  <2>1. Console \in Port /\ SetLine(Console, M) /\ ServingType'
    BY <1>1, <1>9, SerialAssumption DEF Comsputc, ServingType
  <2>2. M = [L EXCEPT !.uart = u]
    BY DEF comsputc
  <2>3. RingOK(L) /\ L = [com |-> L.com, uart |-> L.uart, owed |-> L.owed,
                          overrun |-> L.overrun]
    BY <1>1, <1>7, <2>1
  <2> HIDE DEF u, L, M
  <2>4. M.com = L.com /\ M.owed = L.owed /\ M.overrun = L.overrun
    BY <2>2, <2>3
  <2>5. RingOK(M)
    BY <2>3, <2>4 DEF RingOK
  <2> QED  BY <2>1, <2>5, LineOrdered
<1>10. CASE Serve
  <2> DEFINE p == serving.port
  <2>1. p \in Port /\ serving.cause \in {"RLSI", "RDI", "THRI"} /\ serving' = None
    BY <1>1, <1>10 DEF Serve, ServingType
  <2>2. PICK M \in Served(p, State(p)) : SetLine(p, M)
    BY <1>10 DEF Serve
  <2> HIDE DEF p
  <2>3. RingOK(M)
    BY <1>1, <1>7, <2>1, <2>2, ServedInRing
  <2>4. ServingType'
    BY <2>1 DEF ServingType
  <2> QED  BY <2>1, <2>2, <2>3, <2>4, LineOrdered
<1>11. ASSUME NEW p \in Port, ReadCause(p) PROVE OrderInv'
  <2> DEFINE q == Foremost(uart)
  <2>1. /\ UNCHANGED <<com, owed, overrun, clash>>
        /\ serving' = [port |-> q, cause |-> Cause(uart[q])] /\ uart[p].irr
    BY <1>11 DEF ReadCause, Foremost
  <2>2. \A i \in Port : Wired(uart[i])
    BY DEF LineInv
  <2>3. Cause(uart[p]) # "none"
    <3>1. Wired(uart[p]) /\ uart[p].high
      BY <2>1, <2>2 DEF Wired
    <3> QED  BY <3>1, ReadIIRIs
  <2>4. q \in Port /\ Cause(uart[q]) # "none"
    BY <2>3, ForemostHasCause
  <2> HIDE DEF q
  <2>5. Cause(uart[q]) \in {"RLSI", "RDI", "THRI"}
    BY <2>2, <2>4, ReadIIRIs
  <2>6. ServingType'
    BY <2>1, <2>4, <2>5 DEF ServingType
  <2> QED  BY <1>1, <1>2, <2>1, <2>6
<1>12. ASSUME NEW p \in Port, NEW u, SetUart(p, u), UNCHANGED <<com, serving, owed, overrun>>
       PROVE  OrderInv'
  <2>1. ServingType' /\ clash' \in BOOLEAN
    BY <1>1, <1>12 DEF ServingType, SetUart
  <2> QED  BY <1>2, <1>12, <2>1
<1>13. CASE RxChar \/ \E p \in Port : TxEmpty(p)
  BY <1>12, <1>13, SerialAssumption DEF RxChar, TxEmpty
<1> QED  BY <1>4, <1>5, <1>6, <1>8, <1>9, <1>10, <1>11, <1>13 DEF Next, Comintr

(* Characters leave a line in the order they were accepted, each newline   *)
(* behind its CR, unless the ring was written over (com/comoutput.c and    *)
(* comintr.c): the ring holds those that are owed, for every ring size.    *)
THEOREM OutputAlwaysInOrder == Spec => []OutputInOrder
<1> DEFINE J == IInv /\ LineInv /\ OrderInv
<1>1. Init => J
  BY Numbers, LinesBegin, OrderBegins
     DEF Init, StartInit, IInv, TableType, NoneHeld, SemsOwned, Running
<1>2. J /\ [Next]_vars => J'
  BY TableStep, LineStep, OrderStep
<1>3. J => OutputInOrder
  <2> SUFFICES ASSUME IInv, LineInv, OrderInv PROVE OutputInOrder
    OBVIOUS
  <2>1. com \in [Port -> Rings]
    <3>1. ASSUME NEW p \in Port PROVE com[p] \in Rings
      <4>1. RingOK(State(p)) /\ State(p).com = com[p]
        BY DEF OrderInv, State
      <4> QED  BY <4>1 DEF RingOK, Rings, Chars
    <3> QED  BY <3>1 DEF LineInv
  <2>2. uart \in [Port -> [{"thre", "ier", "thri", "rdi", "rls", "high", "irr"} -> BOOLEAN]]
    <3> DEFINE Pins == {"thre", "ier", "thri", "rdi", "rls", "high", "irr"}
    <3>1. ASSUME NEW p \in Port PROVE uart[p] \in [Pins -> BOOLEAN]
      BY DEF LineInv, Uarts
    <3> HIDE DEF Pins
    <3>2. uart \in [Port -> [Pins -> BOOLEAN]]
      BY <3>1 DEF LineInv
    <3> QED  BY <3>2 DEF Pins
  <2>3. SerialTypeOK
    BY <2>1, <2>2 DEF SerialTypeOK, IInv, TableType, OrderInv, ServingType, Chars
  <2>4. ASSUME NEW p \in Port, ~ overrun[p]
        PROVE  /\ Len(owed[p]) = com[p].com_count
               /\ \A i \in 1..Len(owed[p]) :
                    owed[p][i] = com[p].com_buf[(com[p].com_start + i - 1) % COMBUFSZ]
    <3>1. /\ RingOK(State(p)) /\ State(p).com = com[p] /\ State(p).owed = owed[p]
          /\ State(p).overrun = overrun[p]
      BY DEF OrderInv, State
    <3>2. InRing(com[p], owed[p])
      BY <2>4, <3>1 DEF RingOK
    <3> QED  BY <3>2 DEF InRing
  <2> QED  BY <2>3, <2>4 DEF OutputInOrder
<1> HIDE DEF J
<1> QED  BY <1>1, <1>2, <1>3, PTL DEF Spec
=============================================================================
