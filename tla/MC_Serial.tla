----------------------------- MODULE MC_Serial ------------------------------
(***************************************************************************)
(* Start-up and two serial lines with rings of two places.  Newlines are   *)
(* written to the first line only.                                         *)
(***************************************************************************)
EXTENDS SerialProps

CONSTANTS a, nl

MCChar == {a, nl}
MCWritten == [p \in Port |-> IF p = 1 THEN {a, nl} ELSE {a}]
=============================================================================
