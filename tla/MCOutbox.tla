------------------------------ MODULE MCOutbox ------------------------------
(***************************************************************************)
(* Small instances of Outbox for TLC.                                       *)
(***************************************************************************)
EXTENDS Outbox, TLC

CONSTANTS j1, j2

(* Jobs, dispatchers and review ids are interchangeable; only the instances *)
(* that check no temporal property use this.                                *)
Symmetry == Permutations(Jobs) \cup Permutations(Workers) \cup Permutations(Reviews)

(* One job goes through everything, or two meet that are both clean, that  *)
(* nobody requeues and that retention leaves alone.  This chooses among the *)
(* rows that are enqueued, requeued or deleted, which no fairness           *)
(* assumption is about.                                                     *)
OneOrPlain ==
    \/ status'[j2] = "none"
    \/ /\ status'[j1] # "none"
       /\ \A j \in Jobs :
            verdict'[j] = "clean" /\ status'[j] # "deleted" /\ requeues'[j] = 0
=============================================================================
