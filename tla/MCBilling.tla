------------------------------ MODULE MCBilling ------------------------------
(***************************************************************************)
(* Small instances of Billing and Reports for TLC: one parent with two     *)
(* learners.                                                               *)
(***************************************************************************)
EXTENDS Reports, TLC

MCFamily == [p \in Parents |-> Learners]

Symmetry == Permutations(Learners) \cup Permutations(Periods)
=============================================================================
