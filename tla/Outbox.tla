------------------------------- MODULE Outbox -------------------------------
(***************************************************************************)
(* The outbound delivery queue of one tenant: the channel_outbox table, the *)
(* dispatchers that drain it (one per control-plane replica), the outbound  *)
(* content scan, the human review of a held delivery, and the two           *)
(* administrative operations on rows (requeue of a dead row, retention).    *)
(*                                                                          *)
(* A dispatcher works on a tenant connection, not in a transaction, so each *)
(* SQL statement commits by itself: one action stands for one statement or  *)
(* one provider call, with the local computation that precedes it.          *)
(*                                                                          *)
(* Time is kept as differences.  wait[j] is how long until next_attempt_at, *)
(* age[j] how long ago locked_at was written (capped just past LockTimeout),*)
(* busy[w] how long dispatcher w has worked on its present job.  A pass     *)
(* compares next_attempt_at with the time of its own start: window[w] is    *)
(* the set of rows whose next_attempt_at is not later than that.            *)
(***************************************************************************)
EXTENDS Naturals, FiniteSets

CONSTANTS
    Jobs,               \* rows of channel_outbox (primary keys)
    Workers,            \* dispatchers, one per replica
    Reviews,            \* approval_requests rows that may be open at once
    NoJob,              \* the NULL job id
    Verdicts,           \* scan verdicts that payloads may have in this instance
    Expiring,           \* jobs whose channel message may reach expires_at
    ClaimBatchSize,
    RecoveryBatchSize,
    MaxAttempts,
    LockTimeout,
    MaxRetryDelay,
    JobTime,            \* longest time a dispatcher spends on one claimed job
    MaxRequeues,        \* bound: requeues of one job
    MaxAborts           \* bound: passes cut short and resolutions half done

ASSUME ConstantsAssumption ==
    /\ NoJob \notin Jobs
    /\ Verdicts \subseteq {"clean", "review", "block"}
    /\ Expiring \subseteq Jobs
    /\ ClaimBatchSize \in Nat \ {0}
    /\ RecoveryBatchSize \in Nat \ {0}
    /\ MaxAttempts \in Nat \ {0}
    /\ LockTimeout \in Nat
    /\ MaxRetryDelay \in Nat
    /\ JobTime \in Nat
    /\ MaxRequeues \in Nat
    /\ MaxAborts \in Nat

ASSUME JobsFinite == IsFiniteSet(Jobs)

VARIABLES
    status,     \* status column; "none" before the INSERT, "deleted" after the DELETE
    attempts,   \* attempt_count
    wait,       \* next_attempt_at, relative to the present
    age,        \* locked_at, relative to the present; 0 when NULL
    verdict,    \* what the scanner finds in the payload
    review,     \* status of an approval request
    reviewJob,  \* its channel_outbox_id
    applying,   \* the request is resolved, its second UPDATE is still to come
    pc,         \* where dispatcher w is in DispatchOnce
    window,     \* rows due when the pass of dispatcher w began
    batch,      \* claimed jobs dispatcher w has not finished
    cur,        \* the job dispatcher w is working on
    seen,       \* AttemptCount of the claimed jobs, as read by the claim
    outcome,    \* what Send returned
    busy,
    provider,   \* history: has Send been called for j, did the provider accept it
    requeues,   \* history: how often j was requeued
    released,   \* history: a reviewer's approval put j back in the queue
    aborts      \* bound

rowVars    == <<status, attempts, wait, age, verdict>>
reviewVars == <<review, reviewJob, applying>>
workerVars == <<pc, window, batch, cur, seen, outcome, busy>>
history    == <<provider, requeues, released, aborts>>
vars       == <<rowVars, reviewVars, workerVars, history>>

Statuses == {"none", "pending", "sending", "sent", "dead", "pending_approval", "deleted"}
PCs      == {"idle", "claim", "job", "send", "mark", "hold"}
Outcomes == {"none", "ok", "transient", "permanent"}

(* Types of the rows, the reviews and the dispatchers.                      *)
TypeOK ==
    /\ status    \in [Jobs -> Statuses]
    /\ attempts  \in [Jobs -> Nat]
    /\ wait      \in [Jobs -> 0 .. MaxRetryDelay]
    /\ age       \in [Jobs -> 0 .. LockTimeout + 1]
    /\ verdict   \in [Jobs -> {"clean", "review", "block"}]
    /\ review    \in [Reviews -> {"unused", "pending", "approved", "denied"}]
    /\ reviewJob \in [Reviews -> Jobs \cup {NoJob}]
    /\ applying  \in [Reviews -> BOOLEAN]
    /\ pc        \in [Workers -> PCs]
    /\ window    \in [Workers -> SUBSET Jobs]
    /\ batch     \in [Workers -> SUBSET Jobs]
    /\ cur       \in [Workers -> Jobs \cup {NoJob}]
    /\ seen      \in [Workers -> [Jobs -> Nat]]
    /\ outcome   \in [Workers -> Outcomes]
    /\ busy      \in [Workers -> 0 .. JobTime]
    /\ provider  \in [Jobs -> {"untouched", "called", "accepted"}]
    /\ requeues  \in [Jobs -> 0 .. MaxRequeues]
    /\ released  \in [Jobs -> BOOLEAN]
    /\ aborts    \in 0 .. MaxAborts

Init ==
    /\ status    = [j \in Jobs |-> "none"]
    /\ attempts  = [j \in Jobs |-> 0]
    /\ wait      = [j \in Jobs |-> 0]
    /\ age       = [j \in Jobs |-> 0]
    /\ verdict   = [j \in Jobs |-> "clean"]
    /\ review    = [r \in Reviews |-> "unused"]
    /\ reviewJob = [r \in Reviews |-> NoJob]
    /\ applying  = [r \in Reviews |-> FALSE]
    /\ pc        = [w \in Workers |-> "idle"]
    /\ window    = [w \in Workers |-> {}]
    /\ batch     = [w \in Workers |-> {}]
    /\ cur       = [w \in Workers |-> NoJob]
    /\ seen      = [w \in Workers |-> [j \in Jobs |-> 0]]
    /\ outcome   = [w \in Workers |-> "none"]
    /\ busy      = [w \in Workers |-> 0]
    /\ provider  = [j \in Jobs |-> "untouched"]
    /\ requeues  = [j \in Jobs |-> 0]
    /\ released  = [j \in Jobs |-> FALSE]
    /\ aborts    = 0

-----------------------------------------------------------------------------
(* The rows a LIMIT n statement may take from S.                            *)
Limit(S, n) ==
    {B \in SUBSET S : Cardinality(B) = IF Cardinality(S) < n THEN Cardinality(S) ELSE n}

Due(w) == {j \in window[w] : status[j] = "pending"}
(* Mutant of Stale: a lock expires when it reaches the timeout.             *)
StaleOffByOne == {j \in Jobs : status[j] = "sending" /\ age[j] >= LockTimeout}

Stale  == {j \in Jobs : status[j] = "sending" /\ age[j] > LockTimeout}

(* next_attempt_at = now(): later than the start of every running pass.     *)
DueNow(j) ==
    /\ wait' = [wait EXCEPT ![j] = 0]
    /\ window' = [w \in Workers |-> window[w] \ {j}]

(* INSERT of a pending row, due at once.                                    *)
EnqueueOutbound(j) ==
    /\ status[j] = "none"
    /\ status' = [status EXCEPT ![j] = "pending"]
    /\ \E v \in Verdicts : verdict' = [verdict EXCEPT ![j] = v]
    /\ UNCHANGED <<attempts, wait, age, reviewVars, workerVars, history>>

(* Mutant of RequeueOutboxDead: any settled row can be requeued.            *)
RequeueSettled(j) ==
    /\ status[j] \in {"dead", "sent"}
    /\ requeues[j] < MaxRequeues
    /\ status' = [status EXCEPT ![j] = "pending"]
    /\ DueNow(j)
    /\ requeues' = [requeues EXCEPT ![j] = @ + 1]
    /\ UNCHANGED <<attempts, age, verdict, reviewVars, pc, batch, cur, seen, outcome, busy,
                   provider, released, aborts>>

(* RequeueOutboxDead: attempt_count is kept.                                *)
RequeueOutboxDead(j) ==
    /\ status[j] = "dead"
    /\ requeues[j] < MaxRequeues
    /\ status' = [status EXCEPT ![j] = "pending"]
    /\ DueNow(j)
    /\ requeues' = [requeues EXCEPT ![j] = @ + 1]
    /\ UNCHANGED <<attempts, age, verdict, reviewVars, pc, batch, cur, seen, outcome, busy,
                   provider, released, aborts>>

(* Retention deletes an expired channel message; the foreign keys take the  *)
(* outbox row with it, in whatever status, and NULL its approval's link.    *)
DeleteExpiredMessage(j) ==
    /\ j \in Expiring
    /\ status[j] \notin {"none", "deleted"}
    /\ status' = [status EXCEPT ![j] = "deleted"]
    /\ age' = [age EXCEPT ![j] = 0]
    /\ reviewJob' = [r \in Reviews |-> IF reviewJob[r] = j THEN NoJob ELSE reviewJob[r]]
    /\ UNCHANGED <<attempts, wait, verdict, review, applying, workerVars, history>>

-----------------------------------------------------------------------------
(* Mutant of RecoverStaleSending: stale locks are left alone.               *)
RecoverNothing(w) ==
    /\ pc[w] = "idle"
    /\ window' = [window EXCEPT ![w] = {j \in Jobs : status[j] # "none" /\ wait[j] = 0}]
    /\ pc' = [pc EXCEPT ![w] = "claim"]
    /\ UNCHANGED <<rowVars, reviewVars, batch, cur, seen, outcome, busy, history>>

(* DispatchOnce, up to the first claim: the pass takes the time, and stale  *)
(* locks go back to pending.                                                *)
RecoverStaleSending(w) ==
    /\ pc[w] = "idle"
    /\ \E S \in Limit(Stale, RecoveryBatchSize) :
          /\ status' = [j \in Jobs |-> IF j \in S THEN "pending" ELSE status[j]]
          /\ age' = [j \in Jobs |-> IF j \in S THEN 0 ELSE age[j]]
    /\ window' = [window EXCEPT ![w] = {j \in Jobs : status[j] # "none" /\ wait[j] = 0}]
    /\ pc' = [pc EXCEPT ![w] = "claim"]
    /\ UNCHANGED <<attempts, wait, verdict, reviewVars, batch, cur, seen, outcome, busy, history>>

(* An empty claim ends the pass.                                            *)
ClaimNothing(w) ==
    /\ pc[w] = "claim"
    /\ Due(w) = {}
    /\ pc' = [pc EXCEPT ![w] = "idle"]
    /\ window' = [window EXCEPT ![w] = {}]
    /\ UNCHANGED <<rowVars, reviewVars, batch, cur, seen, outcome, busy, history>>

ClaimPendingOutbox(w) ==
    /\ pc[w] = "claim"
    /\ Due(w) # {}
    /\ \E B \in Limit(Due(w), ClaimBatchSize) :
          /\ status' = [j \in Jobs |-> IF j \in B THEN "sending" ELSE status[j]]
          /\ age' = [j \in Jobs |-> IF j \in B THEN 0 ELSE age[j]]
          /\ batch' = [batch EXCEPT ![w] = B]
          /\ seen' = [seen EXCEPT ![w] = [j \in Jobs |-> IF j \in B THEN attempts[j] ELSE 0]]
    /\ pc' = [pc EXCEPT ![w] = "job"]
    /\ busy' = [busy EXCEPT ![w] = 0]
    /\ UNCHANGED <<attempts, wait, verdict, reviewVars, window, cur, outcome, history>>

-----------------------------------------------------------------------------
(* The dispatcher returns: what it claimed and has not marked stays locked. *)
EndPass(w) ==
    /\ pc' = [pc EXCEPT ![w] = "idle"]
    /\ window' = [window EXCEPT ![w] = {}]
    /\ batch' = [batch EXCEPT ![w] = {}]
    /\ cur' = [cur EXCEPT ![w] = NoJob]
    /\ seen' = [seen EXCEPT ![w] = [j \in Jobs |-> 0]]
    /\ outcome' = [outcome EXCEPT ![w] = "none"]
    /\ busy' = [busy EXCEPT ![w] = 0]

(* The dispatcher goes on with the next job of its batch, or claims again.  *)
NextJob(w, j) ==
    /\ pc' = [pc EXCEPT ![w] = IF batch[w] = {j} THEN "claim" ELSE "job"]
    /\ batch' = [batch EXCEPT ![w] = @ \ {j}]
    /\ cur' = [cur EXCEPT ![w] = NoJob]
    /\ seen' = [seen EXCEPT ![w][j] = 0]
    /\ outcome' = [outcome EXCEPT ![w] = "none"]
    /\ busy' = [busy EXCEPT ![w] = 0]

(* UPDATE ... WHERE id = j AND status = 'sending': the row changes only if  *)
(* it is still sending, whoever claimed it.  counted is 1 where the         *)
(* statement increments attempt_count.                                      *)
MarkRow(w, j, new, counted) ==
    /\ status[j] = "sending"
    /\ status' = [status EXCEPT ![j] = new]
    /\ attempts' = [attempts EXCEPT ![j] = @ + counted]
    /\ age' = [age EXCEPT ![j] = 0]
    /\ NextJob(w, j)

(* ErrOutboxNotFound ends the pass.                                         *)
MarkNotFound(w, j) ==
    /\ status[j] # "sending"
    /\ EndPass(w)
    /\ UNCHANGED <<status, attempts, wait, age>>

Mark(w, j, new, counted) ==
    \/ MarkRow(w, j, new, counted) /\ UNCHANGED <<wait, window>>
    \/ MarkNotFound(w, j)

(* applyOutboundScan, block finding: the job is dead without being sent.    *)
BlockJob(w, j) ==
    /\ pc[w] = "job"
    /\ j \in batch[w]
    /\ verdict[j] = "block"
    /\ Mark(w, j, "dead", 1)
    /\ UNCHANGED <<verdict, reviewVars, history>>

(* applyOutboundScan, review finding, first statement: CreateReview.  A     *)
(* closed request plays no further part, so its id may be used again.       *)
CreateReview(w, j) ==
    /\ pc[w] = "job"
    /\ j \in batch[w]
    /\ verdict[j] = "review"
    /\ status[j] # "deleted"
    /\ \E r \in Reviews :
          /\ review[r] # "pending"
          /\ ~applying[r]
          /\ review' = [review EXCEPT ![r] = "pending"]
          /\ reviewJob' = [reviewJob EXCEPT ![r] = j]
    /\ cur' = [cur EXCEPT ![w] = j]
    /\ pc' = [pc EXCEPT ![w] = "hold"]
    /\ UNCHANGED <<rowVars, applying, window, batch, seen, outcome, busy, history>>

(* Second statement: MarkOutboxPendingApproval.                             *)
MarkOutboxPendingApproval(w) ==
    /\ pc[w] = "hold"
    /\ Mark(w, cur[w], "pending_approval", 0)
    /\ UNCHANGED <<verdict, reviewVars, history>>

(* CreateReview for a row that retention has deleted: the foreign key       *)
(* refuses the INSERT and the pass returns the error.                       *)
CreateReviewRefused(w, j) ==
    /\ pc[w] = "job"
    /\ j \in batch[w]
    /\ verdict[j] = "review"
    /\ status[j] = "deleted"
    /\ EndPass(w)
    /\ UNCHANGED <<rowVars, reviewVars, history>>

(* No finding: the provider is called.                                      *)
Send(w, j) ==
    /\ pc[w] = "job"
    /\ j \in batch[w]
    /\ verdict[j] = "clean"
    /\ cur' = [cur EXCEPT ![w] = j]
    /\ pc' = [pc EXCEPT ![w] = "send"]
    /\ provider' = [provider EXCEPT ![j] = IF @ = "untouched" THEN "called" ELSE @]
    /\ UNCHANGED <<rowVars, reviewVars, window, batch, seen, outcome, busy, requeues, released, aborts>>

(* The call returns.  Success means the provider accepted the message; a    *)
(* transient error (timeout, unreadable body of a 2xx) says nothing; a      *)
(* permanent one (4xx, ok=false) means it refused it.                       *)
SendReturns(w) ==
    /\ pc[w] = "send"
    /\ \E o \in {"ok", "transient", "permanent"} :
          /\ outcome' = [outcome EXCEPT ![w] = o]
          /\ \E p \in {"called", "accepted"} :
                /\ o = "ok" => p = "accepted"
                /\ o = "permanent" => p = provider[cur[w]]
                /\ provider' = [provider EXCEPT ![cur[w]] = IF @ = "accepted" THEN @ ELSE p]
    /\ pc' = [pc EXCEPT ![w] = "mark"]
    /\ UNCHANGED <<rowVars, reviewVars, window, batch, cur, seen, busy, requeues, released, aborts>>

MarkOutboxSent(w) ==
    /\ pc[w] = "mark"
    /\ outcome[w] = "ok"
    /\ Mark(w, cur[w], "sent", 0)
    /\ UNCHANGED <<verdict, reviewVars, history>>

(* Mutant of AttemptsAfter: the failed attempt itself is not counted.       *)
AttemptsBefore(w) == seen[w][cur[w]]

(* attemptsAfter is computed from the row as the claim returned it.         *)
AttemptsAfter(w) == seen[w][cur[w]] + 1

MarkOutboxDead(w) ==
    /\ pc[w] = "mark"
    /\ \/ outcome[w] = "permanent"
       \/ outcome[w] = "transient" /\ AttemptsAfter(w) >= MaxAttempts
    /\ Mark(w, cur[w], "dead", 1)
    /\ UNCHANGED <<verdict, reviewVars, history>>

(* The delay is counted from the start of the pass, so any part of it may   *)
(* be over when the statement runs, and passes that began later (V) may     *)
(* count the row as due.                                                    *)
MarkOutboxRetry(w) ==
    /\ pc[w] = "mark"
    /\ outcome[w] = "transient"
    /\ AttemptsAfter(w) < MaxAttempts
    /\ \/ /\ MarkRow(w, cur[w], "pending", 1)
          /\ \E d \in 0 .. MaxRetryDelay, V \in SUBSET (Workers \ {w}) :
                /\ d > 0 => V = {}
                /\ wait' = [wait EXCEPT ![cur[w]] = d]
                /\ window' = [v \in Workers |-> IF v \in V THEN window[v] ELSE window[v] \ {cur[w]}]
       \/ MarkNotFound(w, cur[w])
    /\ UNCHANGED <<verdict, reviewVars, history>>

(* A store error, a cancelled context or the death of the process ends the  *)
(* pass wherever it is.  A provider that was being called may or may not    *)
(* have accepted the message.                                               *)
AbortPass(w) ==
    /\ pc[w] # "idle"
    /\ aborts < MaxAborts
    /\ EndPass(w)
    /\ \/ UNCHANGED provider
       \/ pc[w] = "send" /\ provider' = [provider EXCEPT ![cur[w]] = "accepted"]
    /\ aborts' = aborts + 1
    /\ UNCHANGED <<rowVars, reviewVars, requeues, released>>

-----------------------------------------------------------------------------
(* approvals.Store.resolve, first statement: the request leaves pending.    *)
ResolveReview(r, decision) ==
    /\ review[r] = "pending"
    /\ review' = [review EXCEPT ![r] = decision]
    /\ applying' = [applying EXCEPT ![r] = TRUE]
    /\ UNCHANGED <<rowVars, reviewJob, workerVars, history>>

(* Second statement: the linked row leaves pending_approval, if it is there *)
(* (an UPDATE of no row is not noticed).                                    *)
UpdateLinkedOutbox(r) ==
    /\ applying[r]
    /\ applying' = [applying EXCEPT ![r] = FALSE]
    /\ LET j == reviewJob[r] IN
          IF j # NoJob /\ status[j] = "pending_approval"
          THEN IF review[r] = "approved"
               THEN /\ status' = [status EXCEPT ![j] = "pending"]
                    /\ DueNow(j)
                    /\ released' = [released EXCEPT ![j] = TRUE]
               ELSE /\ status' = [status EXCEPT ![j] = "dead"]
                    /\ UNCHANGED <<wait, window, released>>
          ELSE UNCHANGED <<status, wait, window, released>>
    /\ UNCHANGED <<attempts, age, verdict, review, reviewJob,
                   pc, batch, cur, seen, outcome, busy, provider, requeues, aborts>>

(* The request handler dies between the two.                                *)
ResolverDies(r) ==
    /\ applying[r]
    /\ aborts < MaxAborts
    /\ applying' = [applying EXCEPT ![r] = FALSE]
    /\ aborts' = aborts + 1
    /\ UNCHANGED <<rowVars, review, reviewJob, workerVars, provider, requeues, released>>

-----------------------------------------------------------------------------
(* Time passes, but no dispatcher spends more than JobTime on one job.      *)
Tick ==
    /\ \A w \in Workers : batch[w] # {} => busy[w] < JobTime
    /\ busy' = [w \in Workers |-> IF batch[w] # {} THEN busy[w] + 1 ELSE busy[w]]
    /\ wait' = [j \in Jobs |-> IF wait[j] > 0 THEN wait[j] - 1 ELSE 0]
    /\ age' = [j \in Jobs |-> IF status[j] = "sending" /\ age[j] <= LockTimeout
                             THEN age[j] + 1 ELSE age[j]]
    /\ UNCHANGED <<status, attempts, verdict, reviewVars, pc, window, batch, cur, seen, outcome, history>>

-----------------------------------------------------------------------------
DispatchOnce(w) ==
    \/ RecoverStaleSending(w)
    \/ ClaimNothing(w)
    \/ ClaimPendingOutbox(w)
    \/ \E j \in Jobs : \/ BlockJob(w, j)
                       \/ CreateReview(w, j)
                       \/ CreateReviewRefused(w, j)
                       \/ Send(w, j)
    \/ SendReturns(w)
    \/ MarkOutboxSent(w)
    \/ MarkOutboxDead(w)
    \/ MarkOutboxRetry(w)
    \/ MarkOutboxPendingApproval(w)

Next ==
    \/ \E j \in Jobs : EnqueueOutbound(j) \/ RequeueOutboxDead(j) \/ DeleteExpiredMessage(j)
    \/ \E w \in Workers : DispatchOnce(w) \/ AbortPass(w)
    \/ \E r \in Reviews : \/ \E d \in {"approved", "denied"} : ResolveReview(r, d)
                          \/ UpdateLinkedOutbox(r)
                          \/ ResolverDies(r)
    \/ Tick

Spec == Init /\ [][Next]_vars

(* The outbox worker sweeps on a ticker for as long as the process lives,   *)
(* provider calls have an HTTP timeout, and a handler that is not cut short *)
(* runs to its end.  Nothing forces enqueues, reviewers or administrators.  *)
Fairness ==
    /\ \A w \in Workers : WF_vars(DispatchOnce(w))
    /\ \A r \in Reviews : WF_vars(UpdateLinkedOutbox(r))
    /\ WF_vars(Tick)

FairSpec == Spec /\ Fairness

(* The same, with a reviewer who approves whatever waits for review.        *)
ApprovingSpec ==
    FairSpec /\ \A r \in Reviews : WF_vars(ResolveReview(r, "approved"))

-----------------------------------------------------------------------------
(* Two dispatchers never have the same job in hand: a job is not recovered  *)
(* as stale while the dispatcher that claimed it still means to send and    *)
(* mark it (RecoverStaleSending, ClaimPendingOutbox).                       *)
ExclusiveHolding ==
    \A w, v \in Workers : w # v => batch[w] \cap batch[v] = {}

(* attempt_count never exceeds max_attempts, except by one for each time an *)
(* administrator requeued the dead row (DispatchOnce compares a count read  *)
(* at claim time, MarkOutboxRetry and MarkOutboxDead increment the row's).  *)
AttemptBudget ==
    \A j \in Jobs : attempts[j] <= MaxAttempts + requeues[j]

(* A row marked sent was accepted by the provider, even when the mark comes *)
(* from a dispatcher whose claim was taken over by another.                 *)
SentWasAccepted ==
    \A j \in Jobs : status[j] = "sent" => provider[j] = "accepted"

(* Content with a block or review finding never reaches a provider call,    *)
(* whatever retries, recoveries, approvals and requeues the job goes through*)
(* (applyOutboundScan precedes every Send).                                 *)
OnlyCleanContentHanded ==
    \A j \in Jobs : provider[j] # "untouched" => verdict[j] = "clean"

(* A job moved into human review (MarkOutboxPendingApproval) has a request  *)
(* that a reviewer can still decide, or whose decision is being applied.    *)
HeldIsReviewable ==
    \A j \in Jobs : status[j] = "pending_approval" =>
        \E r \in Reviews : reviewJob[r] = j /\ (review[r] = "pending" \/ applying[r])

(* A delivery that waits for a reviewer is not dropped: retention deletes   *)
(* no row in human review (DeleteExpiredMessages).                          *)
HeldNotDropped ==
    [][\A j \in Jobs : status[j] = "pending_approval" => status'[j] # "deleted"]_vars

(* Every queued job is settled: sent, dead, held for review, or gone with   *)
(* its message.  Crashes and errors leave no job behind for good            *)
(* (RecoverStaleSending), and retries come to an end (MaxAttempts).         *)
QueuedSettles ==
    \A j \in Jobs : status[j] \in {"pending", "sending"} ~>
        status[j] \in {"sent", "dead", "pending_approval", "deleted"}

(* The outbox keeps the promise of OutboxLifecycle: the status column moves *)
(* only along that state machine, an attempt is counted exactly when a send *)
(* failed or was blocked, and a row becomes sent only after its acceptance. *)
Lifecycle == INSTANCE OutboxLifecycle
                 WITH accepted <- [j \in Jobs |-> provider[j] = "accepted"]

KeepsLifecycle == Lifecycle!Spec

(* A delivery that a reviewer released is handed to the provider.           *)
ReleasedIsHanded ==
    \A j \in Jobs : released[j] ~> provider[j] # "untouched"

=============================================================================
