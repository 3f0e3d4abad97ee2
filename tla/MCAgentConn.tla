----------------------------- MODULE MCAgentConn -----------------------------
(***************************************************************************)
(* Small instances of AgentConn for TLC.                                    *)
(***************************************************************************)
EXTENDS AgentConn, TLC

(* Callers of one kind are interchangeable, and so are connections. *)
Symmetry == Permutations(Posts) \cup Permutations(Conns)
=============================================================================
