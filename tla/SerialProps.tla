---------------------------- MODULE SerialProps -----------------------------
(***************************************************************************)
(* What start-up's semaphores and the serial driver promise.               *)
(***************************************************************************)
EXTENDS Serial

Rings == [com_buf : [Place -> Char \cup {CR}], com_start : Place,
          com_count : 0..(COMBUFSZ + 2)]

(* Types; a ring never holds more than the named bound lets in.            *)
SerialTypeOK ==
  /\ stage \in 1..(MarkStage + 1)
  /\ sstate \in [Sem -> {Cleared, "SFREE", "SUSED"}] /\ nextsem \in Sem
  /\ held \in [Owner -> Sem \cup {SYSERR}]
  /\ com \in [Port -> Rings]
  /\ uart \in [Port -> [{"thre", "ier", "thri", "rdi", "rls", "high", "irr"} -> BOOLEAN]]
  /\ serving \in [port : Port, cause : {"RLSI", "RDI", "THRI"}] \cup {None}
  /\ owed \in [Port -> Seq(Char \cup {CR})]
  /\ overrun \in [Port -> BOOLEAN] /\ clash \in BOOLEAN

(* In the running system a semaphore has one owner, and the semaphore an   *)
(* owner uses is not free for another: what the drivers got before the     *)
(* table was set up is never given to a process.                           *)
SemsOwned ==
  Running => \A a, b \in Owner :
    held[a] # SYSERR => sstate[held[a]] = "SUSED" /\ (held[a] = held[b] => a = b)

(* Until the ring is written over, its characters are those that were      *)
(* accepted and not sent, in their order, with CR before each newline -    *)
(* and again once the ring has run empty.                                  *)
OutputInOrder ==
  SerialTypeOK /\ \A p \in Port : ~overrun[p] =>
    /\ Len(owed[p]) = com[p].com_count
    /\ \A i \in 1..Len(owed[p]) :
         owed[p][i] = com[p].com_buf[(com[p].com_start + i - 1) % COMBUFSZ]

(* A line on which no more interrupts come: a cause is pending, its edge   *)
(* has been used, and nobody is going to look.                             *)
Stuck(p) == uart[p].high /\ ~uart[p].irr /\ serving = None

(* A line gets stuck only where two causes are pending at one time, on one *)
(* line or on two: one character after the other never stops the driver.   *)
StuckByClash == \A p \in Port : Stuck(p) => clash

(* Characters in the ring are on their way: the register will be empty, or *)
(* an interrupt for it is asked for or being served, or the line is stuck. *)
OutputDriven ==
  \A p \in Port : com[p].com_count > 0 =>
    /\ uart[p].ier
    /\ ~uart[p].thre \/ uart[p].irr \/ serving.port = p \/ Stuck(p)
       \/ (serving # None /\ uart[p].high)

(* When no more characters come in and kprintf prints no more, the next    *)
(* character in a ring is sent in the end, unless its line gets stuck.     *)
Sending(p, i) == com[p].com_count > 0 /\ com[p].com_start = i
OutputMoves ==
  <>[][~(Comsputc \/ RxChar \/ Restart)]_vars =>
    \A p \in Port : \A i \in Place : Sending(p, i) ~> (~Sending(p, i) \/ Stuck(p))
=============================================================================
