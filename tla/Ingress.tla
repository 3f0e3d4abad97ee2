------------------------------ MODULE Ingress ------------------------------
(***************************************************************************)
(* Inbound webhooks of one tenant: HandleWebhook with the ingress guard, the*)
(* execution of a message by an agent, the enqueueing of the reply, the     *)
(* recovery of replies that could not be enqueued (by a redelivery of the   *)
(* webhook and by the outbox worker), and the retention of channel_messages.*)
(*                                                                          *)
(* A handler works on tenant connections, not in a transaction: one action  *)
(* is one SQL statement or one call, and requests interleave between them.  *)
(* denied_rbac, denied_no_agent and denied_sentinel are one status here,    *)
(* "denied": no statement tells them apart.                                 *)
(***************************************************************************)
EXTENDS Integers, Sequences, FiniteSets

CONSTANTS
    Messages,       \* provider messages, that is, idempotency keys
    Requests,       \* webhook requests that may be in flight at once
    Batches,        \* the sequences of messages a webhook may carry
    Blank,          \* messages without text: accepted, never executed
    Unroutable,     \* Slack messages without a channel to answer to
    Restamped,      \* messages whose OccurredAt is that of the request, not their own
    ReplayWindow,
    Retention,      \* ExpiresAt - now, 24 hours in the code
    ClockSkew,      \* how far ahead of us a provider's clock may be
    RequestTime,    \* longest life of a request
    BatchSize,      \* recovery batch size
    MaxDeliveries,  \* bound: webhook deliveries
    MaxFaults,      \* bound: failed statements, refused and abandoned requests
    Horizon         \* bound: time

ASSUME ConstantsAssumption ==
    /\ Batches \subseteq Seq(Messages)
    /\ <<>> \notin Batches
    /\ IsFiniteSet(Requests)
    /\ Blank \subseteq Messages
    /\ Unroutable \subseteq Messages
    /\ Restamped \subseteq Messages
    /\ ReplayWindow \in Nat
    /\ Retention \in Nat
    /\ ClockSkew \in Nat
    /\ RequestTime \in Nat
    /\ BatchSize \in Nat \ {0}
    /\ MaxDeliveries \in Nat
    /\ MaxFaults \in Nat
    /\ Horizon \in Nat

VARIABLES
    now,
    stamp,      \* the provider's time of a message; -1 before its first delivery
    status,     \* channel_messages.status; "none" without a row
    failed,     \* metadata.outbox_enqueue_failed
    reply,      \* metadata.response_content is not blank
    expires,    \* expires_at
    before,     \* first_seen_at: the rows that are older than this one
    outbox,     \* number of channel_outbox rows of the message
    pc,         \* where a request is in HandleWebhook
    batch,      \* its metas
    pos,        \* index of the message it works on
    start,      \* its "now"
    decision,   \* messageDecision
    text,       \* messageResponseContent is not blank
    flag,       \* what the status metadata will say of outbox_enqueue_failed
    enqueueFailed,
    lives,      \* history: how often a row was inserted for the message
    handed,     \* history: how often the message was given to an agent
    acked,      \* history: the provider has a 200 for the message
    deliveries,
    faults

rowVars == <<status, failed, reply, expires, before, outbox>>
reqVars == <<pc, batch, pos, start, decision, text, flag, enqueueFailed>>
vars == <<now, stamp, rowVars, reqVars, lives, handed, acked, deliveries, faults>>

Statuses == {"none", "accepted", "executed", "denied", "dispatch_failed"}
Terminal == {"executed", "denied", "dispatch_failed"}
PCs == {"idle", "check", "insert", "execute", "enqueue", "lookup", "reenqueue", "update"}

Init ==
    /\ now = 0
    /\ stamp = [m \in Messages |-> -1]
    /\ status = [m \in Messages |-> "none"]
    /\ failed = [m \in Messages |-> FALSE]
    /\ reply = [m \in Messages |-> FALSE]
    /\ expires = [m \in Messages |-> 0]
    /\ before = [m \in Messages |-> {}]
    /\ outbox = [m \in Messages |-> 0]
    /\ pc = [r \in Requests |-> "idle"]
    /\ batch = [r \in Requests |-> <<>>]
    /\ pos = [r \in Requests |-> 1]
    /\ start = [r \in Requests |-> 0]
    /\ decision = [r \in Requests |-> "none"]
    /\ text = [r \in Requests |-> FALSE]
    /\ flag = [r \in Requests |-> "unset"]
    /\ enqueueFailed = [r \in Requests |-> FALSE]
    /\ lives = [m \in Messages |-> 0]
    /\ handed = [m \in Messages |-> 0]
    /\ acked = [m \in Messages |-> FALSE]
    /\ deliveries = 0
    /\ faults = 0
-----------------------------------------------------------------------------
(* Requests *)

(* Webhook b carries message m. *)
Carries(b, m) == \E i \in 1 .. Len(b) : b[i] = m

(* The message request r works on. *)
Msg(r) == batch[r][pos[r]]

(* The request ends: every early return of HandleWebhook, and the last one. *)
EndRequest(r) ==
    /\ pc' = [pc EXCEPT ![r] = "idle"]
    /\ batch' = [batch EXCEPT ![r] = <<>>]
    /\ pos' = [pos EXCEPT ![r] = 1]
    /\ start' = [start EXCEPT ![r] = 0]
    /\ decision' = [decision EXCEPT ![r] = "none"]
    /\ text' = [text EXCEPT ![r] = FALSE]
    /\ flag' = [flag EXCEPT ![r] = "unset"]
    /\ enqueueFailed' = [enqueueFailed EXCEPT ![r] = FALSE]

(* The loop over metas goes to the next message of the webhook. *)
NextMessage(r) ==
    /\ pos[r] < Len(batch[r])
    /\ pc' = [pc EXCEPT ![r] = "check"]
    /\ pos' = [pos EXCEPT ![r] = @ + 1]
    /\ decision' = [decision EXCEPT ![r] = "none"]
    /\ text' = [text EXCEPT ![r] = FALSE]
    /\ flag' = [flag EXCEPT ![r] = "unset"]
    /\ enqueueFailed' = [enqueueFailed EXCEPT ![r] = FALSE]
    /\ UNCHANGED <<batch, start, acked>>

(* After the last one the request answers 200. *)
Acknowledge(r) ==
    /\ pos[r] = Len(batch[r])
    /\ EndRequest(r)
    /\ acked' = [m \in Messages |-> acked[m] \/ Carries(batch[r], m)]

MessageDone(r) == NextMessage(r) \/ Acknowledge(r)

(* A webhook arrives with the messages b, perhaps not for the first time.   *)
(* A message carries the time the provider gave it, the same in every       *)
(* delivery.  Control payloads (challenges, receipts) change nothing and    *)
(* are left out.                                                            *)
Deliver(r, b) ==
    /\ pc[r] = "idle"
    /\ deliveries < MaxDeliveries
    /\ deliveries' = deliveries + 1
    /\ \E s \in [Messages -> {-1} \cup 0 .. now + ClockSkew] :
         /\ \A m \in Messages :
              IF stamp[m] = -1 /\ Carries(b, m) THEN s[m] # -1 ELSE s[m] = stamp[m]
         /\ stamp' = s
    /\ pc' = [pc EXCEPT ![r] = "check"]
    /\ batch' = [batch EXCEPT ![r] = b]
    /\ pos' = [pos EXCEPT ![r] = 1]
    /\ start' = [start EXCEPT ![r] = now]
    /\ UNCHANGED <<now, rowVars, lives, decision, text, flag, enqueueFailed, handed, acked,
                   faults>>

(* OccurredAt; for Slack it is the time of the request. *)
OccurredAt(r) == IF Msg(r) \in Restamped THEN start[r] ELSE stamp[Msg(r)]

(* Mutant of OutsideWindow: only messages from the future are refused. *)
AheadOfWindow(t) == t - now > ReplayWindow

OutsideWindow(t) == now - t > ReplayWindow \/ t - now > ReplayWindow

(* The replay check of IngressGuard.Process, once the signature and the     *)
(* link have been verified (Abandon is what happens when they are not).     *)
ReplayCheck(r) ==
    /\ pc[r] = "check"
    /\ \/ /\ OutsideWindow(OccurredAt(r))
          /\ MessageDone(r)
       \/ /\ ~OutsideWindow(OccurredAt(r))
          /\ pc' = [pc EXCEPT ![r] = "insert"]
          /\ UNCHANGED <<batch, pos, start, decision, text, flag, enqueueFailed, acked>>
    /\ UNCHANGED <<now, stamp, rowVars, lives, handed, deliveries, faults>>

(* INSERT ... ON CONFLICT DO NOTHING: the first request to come inserts the *)
(* row and executes the message, every other one has a duplicate.           *)
InsertIdempotency(r) ==
    /\ pc[r] = "insert"
    /\ \/ /\ status[Msg(r)] = "none"
          /\ status' = [status EXCEPT ![Msg(r)] = "accepted"]
          /\ expires' = [expires EXCEPT ![Msg(r)] = start[r] + Retention]
          /\ before' = [before EXCEPT ![Msg(r)] = {m \in Messages : status[m] # "none"}]
          /\ lives' = [lives EXCEPT ![Msg(r)] = @ + 1]
          /\ pc' = [pc EXCEPT ![r] = "execute"]
       \/ /\ status[Msg(r)] # "none"
          /\ pc' = [pc EXCEPT ![r] = "lookup"]
          /\ UNCHANGED <<status, expires, before, lives>>
    /\ UNCHANGED <<now, stamp, failed, reply, outbox, batch, pos, start, decision, text,
                   flag, enqueueFailed, handed, acked, deliveries, faults>>

(* What the executor returns: a decision, whether there is an answer to     *)
(* send, and how often it gave the message to the agent.  Denials and       *)
(* failures always have an answer (defaultOutboundContentForDecision); a    *)
(* failed dispatch may or may not have reached the agent.                   *)
Results ==
    [decision : {"executed"}, text : BOOLEAN, handed : {1}]
    \cup [decision : {"denied"}, text : {TRUE}, handed : {0}]
    \cup [decision : {"dispatch_failed"}, text : {TRUE}, handed : {0, 1}]

Execute(r) ==
    /\ pc[r] = "execute"
    /\ \/ /\ Msg(r) \in Blank
          /\ MessageDone(r)
          /\ UNCHANGED handed
       \/ /\ Msg(r) \notin Blank
          /\ \E res \in Results :
               /\ decision' = [decision EXCEPT ![r] = res.decision]
               /\ text' = [text EXCEPT ![r] = res.text]
               /\ handed' = [handed EXCEPT ![Msg(r)] = @ + res.handed]
               /\ pc' = [pc EXCEPT ![r] = IF res.text THEN "enqueue" ELSE "update"]
          /\ UNCHANGED <<batch, pos, start, flag, enqueueFailed, acked>>
    /\ UNCHANGED <<now, stamp, rowVars, lives, deliveries, faults>>

(* enqueueOutbound after an execution.  It cannot succeed without a channel *)
(* to answer to or without the row, and it may fail for other reasons; the  *)
(* reply is then kept in the status metadata, and an executed message       *)
(* becomes dispatch_failed and is answered 500.                             *)
EnqueueSucceeds(r) ==
    /\ Msg(r) \notin Unroutable
    /\ status[Msg(r)] # "none"
    /\ outbox' = [outbox EXCEPT ![Msg(r)] = @ + 1]
    /\ flag' = [flag EXCEPT ![r] = IF decision[r] = "executed" THEN @ ELSE "false"]
    /\ UNCHANGED <<decision, enqueueFailed, faults>>

(* Mutant of EnqueueFails: only an executed message is marked for recovery. *)
EnqueueFailsUnmarked(r) ==
    /\ faults < MaxFaults
    /\ faults' = faults + 1
    /\ flag' = [flag EXCEPT ![r] = IF decision[r] = "executed" THEN "true" ELSE "false"]
    /\ enqueueFailed' = [enqueueFailed EXCEPT ![r] = decision[r] = "executed"]
    /\ decision' = [decision EXCEPT ![r] = IF @ = "executed" THEN "dispatch_failed" ELSE @]
    /\ UNCHANGED outbox

EnqueueFails(r) ==
    /\ \/ (Msg(r) \in Unroutable \/ status[Msg(r)] = "none") /\ UNCHANGED faults
       \/ faults < MaxFaults /\ faults' = faults + 1
    /\ flag' = [flag EXCEPT ![r] = "true"]
    /\ enqueueFailed' = [enqueueFailed EXCEPT ![r] = decision[r] = "executed"]
    /\ decision' = [decision EXCEPT ![r] = IF @ = "executed" THEN "dispatch_failed" ELSE @]
    /\ UNCHANGED outbox

EnqueueOutbound(r) ==
    /\ pc[r] = "enqueue"
    /\ EnqueueSucceeds(r) \/ EnqueueFails(r)
    /\ pc' = [pc EXCEPT ![r] = "update"]
    /\ UNCHANGED <<now, stamp, status, failed, reply, expires, before, lives, batch, pos, start,
                   text, handed, acked, deliveries>>

(* Mutant of Recoverable: the status is not looked at. *)
RecoverableAny(m) == failed[m] /\ reply[m]

(* recoverDuplicateDispatchFailure, up to its enqueueOutbound: a duplicate  *)
(* of a message whose reply could not be enqueued enqueues it, and fails if *)
(* there is nowhere to send it.  Any other duplicate is only acknowledged.  *)
Recoverable(m) == status[m] = "dispatch_failed" /\ failed[m] /\ reply[m]

LookupDuplicate(r) ==
    /\ pc[r] = "lookup"
    /\ \/ /\ ~Recoverable(Msg(r))
          /\ MessageDone(r)
       \/ /\ Recoverable(Msg(r))
          /\ Msg(r) \in Unroutable
          /\ EndRequest(r)
          /\ UNCHANGED acked
       \/ /\ Recoverable(Msg(r))
          /\ Msg(r) \notin Unroutable
          /\ pc' = [pc EXCEPT ![r] = "reenqueue"]
          /\ UNCHANGED <<batch, pos, start, decision, text, flag, enqueueFailed, acked>>
    /\ UNCHANGED <<now, stamp, rowVars, lives, handed, deliveries, faults>>

ReenqueueDuplicate(r) ==
    /\ pc[r] = "reenqueue"
    /\ \/ /\ status[Msg(r)] # "none"
          /\ outbox' = [outbox EXCEPT ![Msg(r)] = @ + 1]
          /\ decision' = [decision EXCEPT ![r] = "executed"]
          /\ text' = [text EXCEPT ![r] = TRUE]
          /\ flag' = [flag EXCEPT ![r] = "false"]
          /\ pc' = [pc EXCEPT ![r] = "update"]
          /\ UNCHANGED <<batch, pos, start, enqueueFailed>>
       \/ /\ status[Msg(r)] = "none"
          /\ EndRequest(r)
          /\ UNCHANGED outbox
    /\ UNCHANGED <<now, stamp, status, failed, reply, expires, before, lives, handed, acked,
                   deliveries, faults>>

(* updateMessageStatus writes the decision and merges the metadata; then    *)
(* the request goes on, or ends with 500 if the reply was not enqueued or   *)
(* the row is gone.                                                         *)
MergedFlag(r) == IF flag[r] = "unset" THEN failed[Msg(r)] ELSE flag[r] = "true"

UpdateMessageStatus(r) ==
    /\ pc[r] = "update"
    /\ \/ /\ status[Msg(r)] # "none"
          /\ status' = [status EXCEPT ![Msg(r)] = decision[r]]
          /\ failed' = [failed EXCEPT ![Msg(r)] = MergedFlag(r)]
          /\ reply' = [reply EXCEPT ![Msg(r)] = @ \/ text[r]]
          /\ \/ ~enqueueFailed[r] /\ MessageDone(r)
             \/ enqueueFailed[r] /\ EndRequest(r) /\ UNCHANGED acked
       \/ /\ status[Msg(r)] = "none"
          /\ EndRequest(r)
          /\ UNCHANGED <<status, failed, reply, acked>>
    /\ UNCHANGED <<now, stamp, expires, before, lives, outbox, handed, deliveries, faults>>

(* A request ends early without another write: its signature or its link is *)
(* refused, a statement fails, the provider hangs up, the process dies.     *)
Abandon(r) ==
    /\ pc[r] # "idle"
    /\ faults < MaxFaults
    /\ faults' = faults + 1
    /\ EndRequest(r)
    /\ UNCHANGED <<now, stamp, rowVars, lives, handed, acked, deliveries>>

-----------------------------------------------------------------------------
(* The outbox worker and the retention worker *)

(* The rows a recovery statement locks: the BatchSize oldest candidates.    *)
Candidates ==
    {m \in Messages : status[m] \in {"denied", "dispatch_failed"} /\ failed[m] /\ reply[m]}

(* Mutant of Locked: the batch is one row short. *)
LockedOneShort(S) ==
    /\ S \subseteq Candidates
    /\ \A m \in S : before[m] \cap Candidates \subseteq S
    /\ Cardinality(S) = BatchSize - 1

Locked(S) ==
    /\ S \subseteq Candidates
    /\ \A m \in S : before[m] \cap Candidates \subseteq S
    /\ \/ S = Candidates /\ Cardinality(S) <= BatchSize
       \/ Cardinality(S) = BatchSize

(* Mutant of RecoverDispatchFailures: every recovered row becomes executed. *)
RecoverAsExecuted ==
    /\ \E S \in SUBSET Messages :
         /\ Locked(S)
         /\ LET eligible == S \ Unroutable IN
              /\ eligible # {}
              /\ outbox' = [m \in Messages |-> IF m \in eligible THEN outbox[m] + 1 ELSE outbox[m]]
              /\ failed' = [m \in Messages |-> m \notin eligible /\ failed[m]]
              /\ status' = [m \in Messages |-> IF m \in eligible THEN "executed" ELSE status[m]]
    /\ UNCHANGED <<now, stamp, reply, expires, before, lives, reqVars, handed, acked,
                   deliveries, faults>>

(* RecoverDispatchFailuresToOutbox: of the locked rows, those that can be   *)
(* answered get an outbox row and lose the mark.                            *)
RecoverDispatchFailures ==
    /\ \E S \in SUBSET Messages :
         /\ Locked(S)
         /\ LET eligible == S \ Unroutable IN
              /\ eligible # {}
              /\ outbox' = [m \in Messages |-> IF m \in eligible THEN outbox[m] + 1 ELSE outbox[m]]
              /\ failed' = [m \in Messages |-> m \notin eligible /\ failed[m]]
              /\ status' = [m \in Messages |->
                              IF m \in eligible /\ status[m] = "dispatch_failed"
                                THEN "executed" ELSE status[m]]
    /\ UNCHANGED <<now, stamp, reply, expires, before, lives, reqVars, handed, acked, deliveries,
                   faults>>

(* DeleteExpiredMessages, one row at a time; the outbox rows go with it.    *)
DeleteExpiredMessage(m) ==
    /\ status[m] # "none"
    /\ expires[m] <= now
    /\ status' = [status EXCEPT ![m] = "none"]
    /\ failed' = [failed EXCEPT ![m] = FALSE]
    /\ reply' = [reply EXCEPT ![m] = FALSE]
    /\ expires' = [expires EXCEPT ![m] = 0]
    /\ before' = [x \in Messages |-> IF x = m THEN {} ELSE before[x] \ {m}]
    /\ outbox' = [outbox EXCEPT ![m] = 0]
    /\ UNCHANGED <<now, stamp, reqVars, lives, handed, acked, deliveries, faults>>

(* Time passes; no request lives longer than RequestTime. *)
Tick ==
    /\ now < Horizon
    /\ \A r \in Requests : pc[r] # "idle" => now - start[r] < RequestTime
    /\ now' = now + 1
    /\ UNCHANGED <<stamp, rowVars, lives, reqVars, handed, acked, deliveries, faults>>

HandleWebhook(r) ==
    \/ ReplayCheck(r)
    \/ InsertIdempotency(r)
    \/ Execute(r)
    \/ EnqueueOutbound(r)
    \/ LookupDuplicate(r)
    \/ ReenqueueDuplicate(r)
    \/ UpdateMessageStatus(r)

Next ==
    \/ \E r \in Requests, b \in Batches : Deliver(r, b)
    \/ \E r \in Requests : HandleWebhook(r) \/ Abandon(r)
    \/ RecoverDispatchFailures
    \/ \E m \in Messages : DeleteExpiredMessage(m)
    \/ Tick

Spec == Init /\ [][Next]_vars

(* A request in progress goes on, and the outbox worker sweeps on a ticker. *)
Fairness ==
    /\ \A r \in Requests : WF_vars(HandleWebhook(r))
    /\ WF_vars(RecoverDispatchFailures)

FairSpec == Spec /\ Fairness
-----------------------------------------------------------------------------
(* Properties *)

(* Types of the tables, the requests and the workers.                       *)
TypeOK ==
    /\ now \in Nat
    /\ stamp \in [Messages -> Int]
    /\ status \in [Messages -> Statuses]
    /\ failed \in [Messages -> BOOLEAN]
    /\ reply \in [Messages -> BOOLEAN]
    /\ expires \in [Messages -> Nat]
    /\ before \in [Messages -> SUBSET Messages]
    /\ outbox \in [Messages -> Nat]
    /\ pc \in [Requests -> PCs]
    /\ batch \in [Requests -> Batches \cup {<<>>}]
    /\ pos \in [Requests -> Nat \ {0}]
    /\ \A r \in Requests : pc[r] # "idle" => batch[r] \in Batches /\ pos[r] <= Len(batch[r])
    /\ start \in [Requests -> Nat]
    /\ decision \in [Requests -> Terminal \cup {"none"}]
    /\ text \in [Requests -> BOOLEAN]
    /\ flag \in [Requests -> {"unset", "true", "false"}]
    /\ enqueueFailed \in [Requests -> BOOLEAN]
    /\ lives \in [Messages -> Nat]
    /\ handed \in [Messages -> Nat]
    /\ acked \in [Messages -> BOOLEAN]
    /\ deliveries \in Nat
    /\ faults \in Nat

(* The unique key (tenant, platform, idempotency key) lets one request pass *)
(* per row: of all deliveries, concurrent or not, of a message whose row    *)
(* exists, one gives the message to an agent.                               *)
ExecutedOncePerRow == \A m \in Messages : handed[m] <= lives[m]

(* A message is given to an agent at most once, however often and however   *)
(* concurrently its webhook is delivered and even after its idempotency row *)
(* was deleted: the replay check must refuse what the row no longer can.    *)
(* Slack's OccurredAt is the time of the request, so nothing bounds the age *)
(* of a Slack redelivery and those messages are left out.                   *)
ExecutedOnce == \A m \in Messages \ Restamped : handed[m] <= 1

(* A reply is never lost between the two tables: a decided message with a   *)
(* reply has an outbox row, or carries the mark that recovery looks for.    *)
(* updateMessageStatus finds the row by its key, so this needs that the key *)
(* has one row: Slack messages, which may get a second one, are left out.   *)
ReplyNotLost ==
    \A m \in Messages \ Restamped :
        status[m] \in Terminal /\ reply[m] => outbox[m] > 0 \/ m \in Candidates

(* A decision is final: whatever redeliveries and the recovery write later, *)
(* an executed or denied message keeps its status for as long as it has a   *)
(* row; only dispatch_failed is provisional.  Slack messages are left out   *)
(* for the same reason.                                                     *)
DecisionFinal ==
    [][\A m \in Messages \ Restamped :
         status[m] \in {"executed", "denied"} => status'[m] \in {status[m], "none"}]_vars

(* The outbox worker gets to every reply that could not be enqueued (a      *)
(* message without text has none).                                          *)
RecoveryReaches ==
    \A m \in Messages \ (Unroutable \cup Blank) :
        (m \in Candidates) ~> (outbox[m] > 0 \/ status[m] = "none")

(* What becomes of a message, seen without requests and times: a row that   *)
(* was deleted is told from one that never was, and an answer is queued, or *)
(* owed while the message is a candidate for recovery.                      *)
Lifecycle == INSTANCE MessageLifecycle WITH
    Messages <- Messages \ Restamped,
    row <- [m \in Messages \ Restamped |->
              IF status[m] # "none" THEN status[m]
              ELSE IF lives[m] = 0 THEN "new" ELSE "gone"],
    handed <- [m \in Messages \ Restamped |-> handed[m]],
    answer <- [m \in Messages \ Restamped |->
                 IF outbox[m] > 0 THEN "queued"
                 ELSE IF m \in Candidates THEN "owed" ELSE "none"]

(* HandleWebhook with its redeliveries and failures, the recovery and the   *)
(* retention keep the promise of MessageLifecycle, Slack messages aside: no *)
(* interleaving accepts, hands over or decides a message twice, denies one  *)
(* that an agent got, or drops an answer before retention does.             *)
KeepsMessageLifecycle == Lifecycle!Spec

(* What the documents say of a redelivery: the action is executed exactly   *)
(* once.  So once no request works any more, a message the provider has a   *)
(* 200 for is decided.                                                      *)
AckedIsDecided ==
    (\A r \in Requests : pc[r] = "idle")
      => \A m \in Messages \ Blank : acked[m] => status[m] # "accepted"

(* What the comment on the recovery says: rows go back to executed, so a    *)
(* row with that status was given to an agent.                              *)
ExecutedIsReal == \A m \in Messages : status[m] = "executed" => handed[m] > 0
=============================================================================
