--------------------------- MODULE MCOrchestrator ---------------------------
(* Small instances of Orchestrator for TLC.                                 *)
EXTENDS Orchestrator, TLC

(* Provisioning requests are alike, and so are destroys: their results are  *)
(* never compared.                                                          *)
Symmetric == Permutations(Machines) \cup Permutations(Provisions) \cup Permutations(Users)
=============================================================================
