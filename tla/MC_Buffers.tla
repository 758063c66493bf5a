---------------------------- MODULE MC_Buffers ------------------------------
(* Two senders, which contend for the pool, and one receiver.              *)
EXTENDS BufferProps

CONSTANTS s1, s2, r1
OneReceiver == {r1}
TwoSenders  == {s1, s2}
ThreeProcs  == {s1, s2, r1}
=============================================================================
