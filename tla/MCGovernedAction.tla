-------------------------- MODULE MCGovernedAction --------------------------
(***************************************************************************)
(* Small instances of GovernedAction for TLC.                               *)
(***************************************************************************)
EXTENDS GovernedAction, TLC

(* The reviewers and their requests are interchangeable. *)
Symmetry == Permutations(Users) \cup Permutations(Reviews)
=============================================================================
