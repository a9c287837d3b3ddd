---------------------------- MODULE MCRequestGate ----------------------------
(***************************************************************************)
(* Small instances of RequestGate for TLC.                                 *)
(***************************************************************************)
EXTENDS RequestGate, TLC

CONSTANTS r1, r2, r3, r4

Few  == {r1, r2, r3}
Many == {r1, r2, r3, r4}
OneAsync == {r1}
=============================================================================
