-------------------------- MODULE MessageLifecycle --------------------------
(***************************************************************************)
(* What the webhook handler promises about one message of a provider,       *)
(* without deliveries, requests, replay windows or times: it is accepted    *)
(* once in its life, given to an agent at most once, decided once, and      *)
(* where an answer is due it is queued, or owed until it is queued.         *)
(***************************************************************************)
EXTENDS Naturals

CONSTANT Messages

VARIABLES
    row,      \* "new" before there is a row, "gone" for ever after it
    handed,   \* how often the message was given to an agent
    answer    \* "none", "owed" or "queued"

vars == <<row, handed, answer>>

Init ==
    /\ row = [m \in Messages |-> "new"]
    /\ handed = [m \in Messages |-> 0]
    /\ answer = [m \in Messages |-> "none"]

Accept(m) ==
    /\ row[m] = "new"
    /\ row' = [row EXCEPT ![m] = "accepted"]
    /\ UNCHANGED <<handed, answer>>

Hand(m) ==
    /\ row[m] = "accepted"
    /\ handed[m] = 0
    /\ handed' = [handed EXCEPT ![m] = 1]
    /\ UNCHANGED <<row, answer>>

(* The answer comes before the decision, or late.                           *)
Queue(m) ==
    /\ row[m] = "accepted" \/ (row[m] = "dispatch_failed" /\ answer[m] # "none")
    /\ answer' = [answer EXCEPT ![m] = "queued"]
    /\ UNCHANGED <<row, handed>>

(* Only a message that an agent got is executed, and only one that none got *)
(* is denied.  Without an answer in the queue one is owed, unless the agent *)
(* had nothing to say.                                                      *)
Decide(m, d) ==
    /\ row[m] = "accepted"
    /\ d = "executed" => handed[m] = 1
    /\ d = "denied" => handed[m] = 0
    /\ row' = [row EXCEPT ![m] = d]
    /\ answer' = IF d # "executed" /\ answer[m] = "none"
                   THEN [answer EXCEPT ![m] = "owed"] ELSE answer
    /\ UNCHANGED handed

(* Answers that are owed are queued; a failed dispatch then counts as       *)
(* executed.                                                                *)
Recover(S) ==
    /\ \A m \in S : row[m] \in {"denied", "dispatch_failed"} /\ answer[m] # "none"
    /\ row' = [m \in Messages |->
                 IF m \in S /\ row[m] = "dispatch_failed" THEN "executed" ELSE row[m]]
    /\ answer' = [m \in Messages |-> IF m \in S THEN "queued" ELSE answer[m]]
    /\ UNCHANGED handed

Forget(m) ==
    /\ row[m] \notin {"new", "gone"}
    /\ row' = [row EXCEPT ![m] = "gone"]
    /\ answer' = [answer EXCEPT ![m] = "none"]
    /\ UNCHANGED handed

Next ==
    \/ \E m \in Messages : \/ Accept(m) \/ Hand(m) \/ Queue(m) \/ Forget(m)
                           \/ \E d \in {"executed", "denied", "dispatch_failed"} : Decide(m, d)
    \/ \E S \in SUBSET Messages : Recover(S)

Spec == Init /\ [][Next]_vars
=============================================================================
