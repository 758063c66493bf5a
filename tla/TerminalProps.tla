--------------------------- MODULE TerminalProps ----------------------------
(* The properties of terminal input.                                       *)
EXTENDS Terminal

Text == [i \in 1..tty_icount |-> tty_in[Pos(i - 1)]]

(* The ring, with its positions that wrap in five places of ttyiin.c and   *)
(* in ttyread.c, is a text: what is typed is read in its order, once, and  *)
(* erasing a character or a word changes the line being typed and none     *)
(* before it.                                                              *)
Edits == INSTANCE LineBuffer WITH
  Size <- IBLEN, Kind <- KIND, text <- Text, key <- lastc
ImplementsLineBuffer == Edits!Spec

(* The text of the ring as echo would show it on an empty screen: the      *)
(* unfinished line, which erasing can still change.                        *)
Shown ==
  LET upto[i \in 0..tty_icount] ==
        IF i = 0 THEN <<>> ELSE Echo(upto[i - 1], tty_in[Pos(i - 1)])
  IN  upto[tty_icount]

InStep ==
  LET cells == Shown
  IN  /\ Len(cells) <= Len(screen)
      /\ cells = SubSeq(screen, Len(screen) - Len(cells) + 1, Len(screen))

(* What the screen shows is what will be read: echo, delchar's rubouts and *)
(* delword keep the end of the screen's line and the unfinished line in    *)
(* step, wherever the ring wraps, whatever was read meanwhile and whether  *)
(* or not it was full.  reprint is the one key that breaks this.           *)
ScreenShowsLine == [][InStep /\ lastc' # "reprint" => InStep']_vars

Complete   == \E i \in 0..(tty_icount - 1) : tty_in[Pos(i)] \in {"nl", "eof"}
Reading(p) == pc[p] = "take" /\ ~Running(p)

Announced == \/ tty_isema.cnt > 0
             \/ \E p \in Proc : pc[p] \in {"take", "peek"} /\ Running(p)
ShortRead == \E p \in Proc : pc[p] \in {"wait", "take"} /\ pc'[p] = "user" /\ tty_icount' > 0

(* The semaphore is 1/0 and one signal stands for many lines: a finished   *)
(* line in the ring is announced to a process that comes, or about to be   *)
(* taken by one that is past the wait, and stays so until it is read --    *)
(* unless a read is too short to take it all, which announces nothing.     *)
LineAnnounced ==
  [][(Complete => Announced) /\ ~ShortRead => (Complete' => Announced')]_vars
=============================================================================
