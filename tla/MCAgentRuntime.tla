--------------------------- MODULE MCAgentRuntime ---------------------------
(***************************************************************************)
(* Small instances of AgentRuntime for TLC.                                 *)
(***************************************************************************)
EXTENDS AgentRuntime, TLC

CONSTANTS t1, t2

(* Up to two calls in an answer. *)
OneOrTwo == [q \in Runs |-> {<<t1>>, <<t2>>, <<t1, t2>>, <<t2, t1>>}]

Free == [t \in Tools |-> "none"]

(* The agent first runs t1 freely and t2 with approval; then t2 is off the  *)
(* allow-list and free of approval; then t1 is blocked and the connector of *)
(* t2 is gone.                                                              *)
Pushed ==
    << [allow |-> {}, refused |-> {}, serves |-> Tools, rule |-> [Free EXCEPT ![t2] = "require_approval"]],
       [allow |-> {t1}, refused |-> {}, serves |-> Tools, rule |-> Free],
       [allow |-> {}, refused |-> {t2}, serves |-> {t1}, rule |-> [Free EXCEPT ![t1] = "block"]] >>
=============================================================================
