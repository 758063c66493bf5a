----------------------------- MODULE MC_Netboot -----------------------------
(* Instance of Netboot for TLC. *)
EXTENDS NetbootProps
=============================================================================
