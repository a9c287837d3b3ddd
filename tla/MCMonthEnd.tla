----------------------------- MODULE MCMonthEnd -----------------------------
(***************************************************************************)
(* Small instances of MonthEnd for TLC: one parent with all the learners.  *)
(***************************************************************************)
EXTENDS MonthEnd, TLC

MCFamily == [p \in Parents |-> Learners]

Symmetry == Permutations(Learners)
=============================================================================
