--------------------------- MODULE MCRefreshTokens ---------------------------
(***************************************************************************)
(* Small instances of RefreshTokens for TLC.                                *)
(***************************************************************************)
EXTENDS RefreshTokens, TLC

(* Refresh requests are interchangeable, and so are families. *)
Symmetry == Permutations(Families) \cup Permutations(Refreshes)
=============================================================================
