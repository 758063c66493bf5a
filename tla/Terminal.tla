------------------------------ MODULE Terminal ------------------------------
(***************************************************************************)
(* Terminal input (tty/ttyiin.c, ttyread.c, ttycntl.c, ttynew.c).  The     *)
(* serial interrupt gives each character typed to ttyiin, which edits the  *)
(* line at the end of a ring and signals a semaphore when the line ends;   *)
(* ttyread waits for the semaphore and takes what the ring holds.          *)
(*                                                                         *)
(* ttyread tests for the end of file with interrupts enabled, so a         *)
(* character can arrive between the test, the clearing of the flag and the *)
(* wait.  Characters are classes of characters, named for a member; the    *)
(* screen is the cells of its current line, as if the line kept up.        *)
(* Nothing in the system sets the flags for raw, unechoed or non-blocking  *)
(* input, so they are clear.                                               *)
(***************************************************************************)
EXTENDS Integers, Sequences, FiniteSets, SequencesExt

CONSTANTS
  Proc,     \* the processes that read the terminal
  IBLEN,    \* size of the ring (256)
  Typed,    \* the characters that are typed
  Lens,     \* the lengths given to ttyread
  MaxCells  \* bound: nothing is added to a line of more cells than this

ASSUME TerminalAssumption == IBLEN \in Nat \ {0} /\ Lens \subseteq Nat \ {0}

VARIABLES
  tty_istart, tty_icount, tty_in,  \* the ring
  tty_eof,     \* TIF_EOF in tty_iflags
  tty_isema,   \* the input semaphore: count and queue
  lastc,       \* ttyiin's last character
  screen,      \* the cells of the screen's current line
  pc,          \* where each process is
  len          \* the length it reads

ringVars == <<tty_istart, tty_icount, tty_in>>
typeVars == <<lastc, screen>>
vars     == <<ringVars, tty_eof, tty_isema, typeVars, pc, len>>

NUL == "nul"
Pos(i)     == (tty_istart + i) % IBLEN
Running(p) == ~Contains(tty_isema.q, p)
GoTo(p, place) == pc' = [pc EXCEPT ![p] = place]

-----------------------------------------------------------------------------
(* The screen.  echo shows control characters as ^X and those above 127 as *)
(* M-x; delchar rubs out as many cells as it thinks the character took.    *)
Cells(ch) == CASE ch \in {"eof", "reprint"} -> <<ch, ch>>
               [] ch = "meta"               -> <<ch, ch, ch>>
               [] OTHER                     -> <<ch>>

Echo(scr, ch)  == IF ch = "nl" THEN <<>> ELSE scr \o Cells(ch)
Rubout(scr, n) == SubSeq(scr, 1, Len(scr) - n)

(* iputchar(ptty, ch): a full ring only rings the bell.                    *)
Iputchar(ch) ==
  \/ /\ tty_icount >= IBLEN
     /\ UNCHANGED <<ringVars, screen>>
  \/ /\ tty_icount < IBLEN
     /\ tty_in' = [tty_in EXCEPT ![Pos(tty_icount)] = ch]
     /\ tty_icount' = tty_icount + 1
     /\ screen' = Echo(screen, ch)
     /\ UNCHANGED tty_istart

(* delchar, as what it leaves of a line: its characters and the screen.    *)
Deleted(s) ==
  LET ch == tty_in[Pos(s.count - 1)]
  IN  IF s.count = 0 \/ ch = "nl" THEN s
      ELSE [count |-> s.count - 1, scr |-> Rubout(s.scr, Len(Cells(ch)))]

Line == [count |-> tty_icount, scr |-> screen]
Leave(s) ==
  /\ tty_icount' = s.count
  /\ screen'     = s.scr
  /\ UNCHANGED <<tty_istart, tty_in>>

(* Mutant of Delchar: it deletes past the end of the previous line. *)
Delchar_CrossesLine ==
  IF tty_icount = 0 THEN Leave(Line)
  ELSE Leave([count |-> tty_icount - 1,
              scr   |-> Rubout(screen, Len(Cells(tty_in[Pos(tty_icount - 1)])))])

Delchar == Leave(Deleted(Line))

(* delword: delchar again and again, until the next character is of        *)
(* another kind or a line's end, or there is none.                         *)
KIND(ch) == IF ch = "space" THEN 0 ELSE IF ch = "slash" THEN 2 ELSE 1

Delword ==
  LET first == KIND(tty_in[Pos(tty_icount - 1)])
      round[n \in 0..IBLEN] ==
        IF n = 0 THEN [line |-> Line, go |-> tty_icount > 0]
        ELSE LET r    == round[n - 1]
                 left == Deleted(r.line)
                 next == tty_in[Pos(tty_icount - 1 - n)]
             IN  IF ~r.go THEN r
                 ELSE [line |-> left,
                       go   |-> /\ next # "nl" /\ KIND(next) = first
                                /\ left.count > 0]
  IN  Leave(round[IBLEN].line)

(* reprint: the line is sought from one place too far, which may be the    *)
(* byte behind the array, a NUL; so a stale character is printed with it.  *)
Reprint ==
  LET end     == tty_istart + tty_icount
      At(k)   == IF k = 0 /\ end = IBLEN THEN NUL ELSE tty_in[(end - k) % IBLEN]
      count   == CHOOSE k \in 0..tty_icount :
                   /\ k = tty_icount \/ At(k) = "nl"
                   /\ \A j \in 0..(k - 1) : At(j) # "nl"
      from    == end - count + IF At(count) = "nl" THEN 1 ELSE 0
      shown[i \in 0..count] ==
        IF i = 0 THEN <<>> ELSE Echo(shown[i - 1], tty_in[(from + i - 1) % IBLEN])
  IN  /\ screen' = shown[count]
      /\ UNCHANGED ringVars

-----------------------------------------------------------------------------
Waits(p) ==
  tty_isema' = [cnt |-> tty_isema.cnt - 1,
                q   |-> IF tty_isema.cnt > 0 THEN tty_isema.q ELSE Append(tty_isema.q, p)]
Signals ==
  tty_isema' = [cnt |-> tty_isema.cnt + 1,
                q   |-> IF tty_isema.cnt < 0 THEN Tail(tty_isema.q) ELSE tty_isema.q]

(* Mutant of EndOfLine: the signal is not given to the process that waits. *)
EndOfLine_ZeroOnly ==
  \/ tty_isema.cnt = 0 /\ Signals
  \/ tty_isema.cnt # 0 /\ UNCHANGED tty_isema

(* A line's end is signalled unless an earlier signal is still there.      *)
EndOfLine ==
  \/ tty_isema.cnt <= 0 /\ Signals
  \/ tty_isema.cnt > 0  /\ UNCHANGED tty_isema

(* ttyiin(pdev, ch), in the serial interrupt.                              *)
EditKey(ch) ==
  /\ \/ ch = "erase"   /\ Delchar
     \/ ch = "werase"  /\ Delword
     \/ ch = "reprint" /\ Reprint
     \/ ch = "intr"    /\ UNCHANGED <<ringVars, screen>>   \* send(tty_cpid, INTRMSG)
  /\ UNCHANGED <<tty_eof, tty_isema>>

TextKey(ch) ==
  /\ ch \notin {"erase", "werase", "reprint", "intr"}
  /\ tty_eof' = (tty_eof \/ ch = "eof")
  /\ Iputchar(ch)
  /\ IF ch \in {"nl", "eof"} THEN EndOfLine ELSE UNCHANGED tty_isema

Ttyiin(ch) ==
  /\ Len(screen) < MaxCells \/ ch \in {"nl", "cr", "erase", "werase"}
  /\ ~(ch = "nl" /\ lastc = "cr")    \* it returns at once
  /\ lastc' = ch
  /\ LET c == IF ch = "cr" THEN "nl" ELSE ch
     IN  EditKey(c) \/ TextKey(c)
  /\ UNCHANGED <<pc, len>>

-----------------------------------------------------------------------------
(* ttyread(pdev, buf, len): the end of file ...                            *)
Read(p, n) ==
  /\ pc[p] = "user"
  /\ len' = [len EXCEPT ![p] = n]
  /\ GoTo(p, IF tty_eof /\ tty_icount = 0 THEN "eof" ELSE "wait")
  /\ UNCHANGED <<ringVars, tty_eof, tty_isema, typeVars>>

ReadEof(p) ==
  /\ pc[p] = "eof"
  /\ tty_eof' = FALSE
  /\ GoTo(p, "user") /\ len' = [len EXCEPT ![p] = 0]
  /\ UNCHANGED <<ringVars, tty_isema, typeVars>>

(* Mutant of Taken: the start of the ring is not moved. *)
Taken_StartStays(n) ==
  LET k == IF n < tty_icount THEN n ELSE tty_icount
  IN  /\ tty_icount' = tty_icount - k
      /\ UNCHANGED <<tty_istart, tty_in>>

(* ... or, with interrupts disabled, as many characters as there are.      *)
Taken(n) ==
  LET k == IF n < tty_icount THEN n ELSE tty_icount
  IN  /\ tty_icount' = tty_icount - k
      /\ tty_istart' = Pos(k)
      /\ UNCHANGED tty_in

ReadWait(p) ==
  /\ pc[p] = "wait"
  /\ Waits(p)
  /\ \/ /\ tty_isema.cnt > 0
        /\ Taken(len[p])
        /\ GoTo(p, "user") /\ len' = [len EXCEPT ![p] = 0]
     \/ /\ tty_isema.cnt <= 0
        /\ GoTo(p, "take")
        /\ UNCHANGED <<ringVars, len>>
  /\ UNCHANGED <<tty_eof, typeVars>>

ReadTake(p) ==
  /\ pc[p] = "take" /\ Running(p)
  /\ Taken(len[p])
  /\ GoTo(p, "user") /\ len' = [len EXCEPT ![p] = 0]
  /\ UNCHANGED <<tty_eof, tty_isema, typeVars>>

(* ttycntl(TTC_NEXTC): peek at the next character, and signal again.       *)
Nextc(p) ==
  /\ pc[p] = "user"
  /\ \/ /\ tty_isema.cnt > 0
        /\ UNCHANGED <<tty_isema, pc>>
     \/ /\ tty_isema.cnt <= 0
        /\ Waits(p) /\ GoTo(p, "peek")
  /\ UNCHANGED <<ringVars, tty_eof, typeVars, len>>

Peek(p) ==
  /\ pc[p] = "peek" /\ Running(p)
  /\ Signals
  /\ GoTo(p, "user")
  /\ UNCHANGED <<ringVars, tty_eof, typeVars, len>>

-----------------------------------------------------------------------------
(* ttynew and ttyopen                                                      *)
Init ==
  /\ tty_istart = 0 /\ tty_icount = 0
  /\ tty_in     = [i \in 0..(IBLEN - 1) |-> NUL]
  /\ tty_eof    = FALSE
  /\ tty_isema  = [cnt |-> 0, q |-> <<>>]
  /\ lastc      = NUL
  /\ screen     = <<>>
  /\ pc         = [p \in Proc |-> "user"]
  /\ len        = [p \in Proc |-> 0]

Step(p) == ReadEof(p) \/ ReadWait(p) \/ ReadTake(p) \/ Peek(p)

Next ==
  \/ \E ch \in Typed : Ttyiin(ch)
  \/ \E p \in Proc : \/ \E n \in Lens : Read(p, n)
                     \/ Nextc(p)
                     \/ Step(p)

Spec == Init /\ [][Next]_vars
=============================================================================
