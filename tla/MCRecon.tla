------------------------------ MODULE MCRecon -------------------------------
(***************************************************************************)
(* A small instance of Recon for TLC: one learner without parents.         *)
(***************************************************************************)
EXTENDS Recon, TLC

MCFamily == [p \in Parents |-> Learners]
=============================================================================
