---------------------------- MODULE ApprovedWrite ----------------------------
(***************************************************************************)
(* What governance promises about one external write, without reviewers'    *)
(* requests, frames, agents or failures: it is asked for, somebody else     *)
(* decides once, the write is made at most once and only if approved, and   *)
(* the record follows what was decided and made.                            *)
(***************************************************************************)
EXTENDS Naturals

CONSTANTS Actions, Users, NoUser

VARIABLES
    decision,   \* "none" before the write is asked for
    asker,      \* who asked, if that is known
    decider,
    made,       \* how often the write was made
    record      \* what the table says of the write

vars == <<decision, asker, decider, made, record>>

Init ==
    /\ decision = [a \in Actions |-> "none"]
    /\ asker = [a \in Actions |-> NoUser]
    /\ decider = [a \in Actions |-> NoUser]
    /\ made = [a \in Actions |-> 0]
    /\ record = [a \in Actions |-> "none"]

Ask(a, u) ==
    /\ decision[a] = "none"
    /\ decision' = [decision EXCEPT ![a] = "pending"]
    /\ asker' = [asker EXCEPT ![a] = u]
    /\ record' = [record EXCEPT ![a] = "awaiting_approval"]
    /\ UNCHANGED <<decider, made>>

Decide(a, u, d) ==
    /\ decision[a] = "pending"
    /\ asker[a] # u
    /\ decision' = [decision EXCEPT ![a] = d]
    /\ decider' = [decider EXCEPT ![a] = u]
    /\ UNCHANGED <<asker, made, record>>

Make(a) ==
    /\ decision[a] = "approved"
    /\ made[a] = 0
    /\ made' = [made EXCEPT ![a] = 1]
    /\ UNCHANGED <<decision, asker, decider, record>>

Record(a, from, to) ==
    /\ record[a] = from
    /\ record' = [record EXCEPT ![a] = to]
    /\ UNCHANGED <<decision, asker, decider, made>>

(* The record takes over the decision.                                      *)
Follow(a) ==
    /\ decision[a] \in {"approved", "denied"}
    /\ Record(a, "awaiting_approval", decision[a])

(* It says that the write was made only if it was.                          *)
Succeed(a) == made[a] = 1 /\ Record(a, "approved", "executed")

(* It may say that the write failed although it was made.                   *)
GiveUp(a) == Record(a, "approved", "failed")

Next ==
    \E a \in Actions :
        \/ \E u \in Users \cup {NoUser} : Ask(a, u)
        \/ \E u \in Users, d \in {"approved", "denied"} : Decide(a, u, d)
        \/ Make(a) \/ Follow(a) \/ Succeed(a) \/ GiveUp(a)

Spec == Init /\ [][Next]_vars
=============================================================================
