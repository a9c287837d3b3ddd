----------------------------- MODULE MCFamilies -----------------------------
(***************************************************************************)
(* A small instance of Families for TLC: any parent may be linked to any   *)
(* learner.                                                                *)
(***************************************************************************)
EXTENDS Families, TLC

MCFamily == [p \in Parents |-> Learners]

Symmetry == Permutations(Learners) \cup Permutations(Parents)
=============================================================================
