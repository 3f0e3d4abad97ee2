------------------------------ MODULE MCAccess ------------------------------
(***************************************************************************)
(* Small instances of Access for TLC.                                       *)
(***************************************************************************)
EXTENDS Access, TLC

CONSTANTS s1, s2, admin

(* Two accounts with one email, and the administrator's. *)
SharedEmail == s1 :> "shared" @@ s2 :> "shared" @@ admin :> "admin"

(* Requests are interchangeable. *)
Symmetry == Permutations(Reqs)
=============================================================================
