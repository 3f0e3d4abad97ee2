--------------------------- MODULE OutboxLifecycle ---------------------------
(***************************************************************************)
(* What the outbox promises about one delivery, without dispatchers, locks, *)
(* time or reviewers: the state machine of the status column, when an       *)
(* attempt is counted, and that only an accepted message is ever sent.      *)
(***************************************************************************)
EXTENDS Naturals

CONSTANT Jobs

VARIABLES
    status,     \* the status column; "none" and "deleted" stand for no row
    attempts,   \* attempt_count
    accepted    \* has the provider accepted the message

vars == <<status, attempts, accepted>>

Init ==
    /\ status = [j \in Jobs |-> "none"]
    /\ attempts = [j \in Jobs |-> 0]
    /\ accepted = [j \in Jobs |-> FALSE]

(* One row changes status; counted is 1 if the step uses up an attempt.     *)
Step(j, from, to, counted) ==
    /\ status[j] = from
    /\ status' = [status EXCEPT ![j] = to]
    /\ attempts' = [attempts EXCEPT ![j] = @ + counted]
    /\ UNCHANGED accepted

(* A statement that moves several rows at once.                             *)
Steps(S, from, to) ==
    /\ \A j \in S : status[j] = from
    /\ status' = [j \in Jobs |-> IF j \in S THEN to ELSE status[j]]
    /\ UNCHANGED <<attempts, accepted>>

Enqueue(j) == Step(j, "none", "pending", 0)
Claim(S)   == Steps(S, "pending", "sending")
Recover(S) == Steps(S, "sending", "pending")
Retry(j)   == Step(j, "sending", "pending", 1)
Sent(j)    == accepted[j] /\ Step(j, "sending", "sent", 0)
Dead(j)    == Step(j, "sending", "dead", 1)
Hold(j)    == Step(j, "sending", "pending_approval", 0)
Release(j) == Step(j, "pending_approval", "pending", 0)
Deny(j)    == Step(j, "pending_approval", "dead", 0)
Requeue(j) == Step(j, "dead", "pending", 0)

Expire(j) ==
    /\ status[j] \notin {"none", "deleted"}
    /\ status' = [status EXCEPT ![j] = "deleted"]
    /\ UNCHANGED <<attempts, accepted>>

(* The provider takes the message; the row follows later, or never.         *)
Accept(j) ==
    /\ status[j] # "none"
    /\ accepted' = [accepted EXCEPT ![j] = TRUE]
    /\ UNCHANGED <<status, attempts>>

Next ==
    \/ \E S \in SUBSET Jobs : Claim(S) \/ Recover(S)
    \/ \E j \in Jobs : \/ Enqueue(j) \/ Retry(j) \/ Sent(j) \/ Dead(j) \/ Hold(j)
                       \/ Release(j) \/ Deny(j) \/ Requeue(j) \/ Expire(j) \/ Accept(j)

Spec == Init /\ [][Next]_vars

=============================================================================
