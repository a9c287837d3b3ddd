----------------------------- MODULE MCEnrolment -----------------------------
(***************************************************************************)
(* Small instances of Enrolment for TLC: one day, two numbers a day, items *)
(* for one grade or for all.                                               *)
(***************************************************************************)
EXTENDS Enrolment, TLC

CONSTANTS d1, g1, g2, c1

MCScopes     == {{g1} \X Classes, {g2} \X Classes, Grades \X Classes}
MCGivenCodes == {Code("daily", d1, n) : n \in 1..2} \cup {Code("short", d1, 1)}
=============================================================================
