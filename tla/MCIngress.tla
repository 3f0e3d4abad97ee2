------------------------------ MODULE MCIngress ------------------------------
(***************************************************************************)
(* Small instances of Ingress for TLC.                                      *)
(***************************************************************************)
EXTENDS Ingress, TLC

CONSTANTS m1, m2, m3

(* Every webhook carries one message, or some carry two. *)
Single == {<<m>> : m \in Messages}
Grouped == {<<m1, m2>>, <<m2, m3>>, <<m3, m2>>}

(* A webhook with two messages, and one whose only message is m3. *)
Pair == {<<m1, m2>>, <<m3>>}

(* A webhook is delivered three times only where no other one is delivered. *)
(* This chooses among the deliveries, which no fairness assumption is about.*)
ThriceAlone == deliveries' = 3 => stamp'[m3] = -1

Symmetry == Permutations(Requests)
=============================================================================
