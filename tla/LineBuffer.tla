----------------------------- MODULE LineBuffer -----------------------------
(***************************************************************************)
(* What terminal input promises: a text that grows at its end as keys are  *)
(* typed, whose last line can be edited, and that readers take from the    *)
(* front.                                                                  *)
(***************************************************************************)
EXTENDS Integers, Sequences

CONSTANTS
  Size,       \* the most characters that are kept
  Kind(_)     \* the kind of a character, for words

VARIABLES
  text,    \* what is typed and not read
  key      \* the last key

Without(n) == SubSeq(text, 1, Len(text) - n)
OnLine(i)  == text[i] # "nl"

Type ==
  /\ key' \notin {"erase", "werase", "reprint", "intr"}
  /\ \/ /\ Len(text) < Size
        /\ text' = Append(text, IF key' = "cr" THEN "nl" ELSE key')
     \/ Len(text) = Size /\ UNCHANGED text

Erase ==
  /\ key' = "erase"
  /\ text' = IF text # <<>> /\ OnLine(Len(text)) THEN Without(1) ELSE text

(* The longest end of the line whose characters are of one kind.           *)
IsWord(n) ==
  \A i \in (Len(text) - n + 1)..Len(text) :
    OnLine(i) /\ Kind(text[i]) = Kind(text[Len(text)])

EraseWord ==
  /\ key' = "werase"
  /\ \E n \in 0..Len(text) :
       /\ IsWord(n) /\ \A m \in (n + 1)..Len(text) : ~IsWord(m)
       /\ text' = Without(n)

Show == key' \in {"reprint", "intr"} /\ UNCHANGED text

Take ==
  /\ \E n \in 1..Len(text) : text' = SubSeq(text, n + 1, Len(text))
  /\ UNCHANGED key

Init == text = <<>> /\ key = "nul"
Next == Type \/ Erase \/ EraseWord \/ Show \/ Take
Spec == Init /\ [][Next]_<<text, key>>
=============================================================================
