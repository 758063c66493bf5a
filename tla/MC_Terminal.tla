---------------------------- MODULE MC_Terminal -----------------------------
(* A ring that wraps after few keys, and the keys that edit it.            *)
EXTENDS TerminalProps, TLC

CONSTANTS p1, p2
Procs == {p1, p2}
Symmetry == Permutations(Procs)
Keys == {"a", "space", "nl", "cr", "eof", "erase", "werase", "reprint"}
=============================================================================
