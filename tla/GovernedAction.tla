--------------------------- MODULE GovernedAction ---------------------------
(***************************************************************************)
(* Governed connector writes: the approval request, the reviewers' HTTP     *)
(* requests that resolve it, and the resumption of the write on the agent   *)
(* (ConnectorActionResolver).                                               *)
(*                                                                          *)
(* The approval row and the action row are created in one transaction and   *)
(* are one to one, so both are functions of the action.  A reviewer's       *)
(* request works on tenant connections, not in a transaction: one action of *)
(* this module is one SQL statement, one frame or one call.  The reads      *)
(* whose result only says that the row exists are left out.                 *)
(***************************************************************************)
EXTENDS Naturals

CONSTANTS
    Actions,          \* governed connector actions
    Users,            \* who requests and who reviews
    Reviews,          \* the approve and deny requests that may ever be made
    NoUser,           \* NULL
    MaxReviewFaults   \* bound: failed calls, time-outs and abandoned requests

ASSUME ActionConstants ==
    /\ NoUser \notin Users
    /\ MaxReviewFaults \in Nat

VARIABLES
    approval,     \* approval_requests.status
    requestedBy,
    reviewedBy,
    action,       \* governed_connector_actions.status
    pc,           \* where a review is in approvals.Handler.resolve
    target,       \* the action it is about
    reviewer,
    verdict,
    resume,       \* its connector_action_resume request, as the agent sees it
    toolCalls,    \* history: how often the external tool was called
    reviewFaults

rowVars == <<approval, requestedBy, reviewedBy, action>>
actionVars == <<rowVars, pc, target, reviewer, verdict, resume, toolCalls, reviewFaults>>

Verdicts == {"approved", "denied"}
Terminal == {"denied", "executed", "failed"}
ActionStatuses == {"none", "awaiting_approval", "approved"} \cup Terminal
PCs == {"idle", "update", "mark", "send", "await", "executed", "fail", "done"}

ActionInit ==
    /\ approval = [a \in Actions |-> "none"]
    /\ requestedBy = [a \in Actions |-> NoUser]
    /\ reviewedBy = [a \in Actions |-> NoUser]
    /\ action = [a \in Actions |-> "none"]
    /\ pc = [v \in Reviews |-> "idle"]
    /\ target \in [Reviews -> Actions]
    /\ reviewer \in [Reviews -> Users]
    /\ verdict \in [Reviews -> Verdicts]
    /\ resume = [v \in Reviews |-> "none"]
    /\ toolCalls = [a \in Actions |-> 0]
    /\ reviewFaults = 0
-----------------------------------------------------------------------------
(* The request that created the approval may have no parseable identity. *)
CreateForConnectorAction(a, u) ==
    /\ approval[a] = "none"
    /\ approval' = [approval EXCEPT ![a] = "pending"]
    /\ action' = [action EXCEPT ![a] = "awaiting_approval"]
    /\ requestedBy' = [requestedBy EXCEPT ![a] = u]
    /\ UNCHANGED <<reviewedBy, pc, target, reviewer, verdict, resume, toolCalls, reviewFaults>>
-----------------------------------------------------------------------------
(* The approve and deny handlers *)

ReviewGoto(v, l) ==
    /\ pc' = [pc EXCEPT ![v] = l]
    /\ UNCHANGED <<target, reviewer, verdict>>

(* Mutant: users may review what they asked for. *)
OpenToAll(v) == approval[target[v]] = "pending"

(* The review may decide the approval. *)
Open(v) == approval[target[v]] = "pending" /\ requestedBy[target[v]] # reviewer[v]

(* Mutant: the UPDATE does not repeat the check. *)
ResolveUnguarded(v) ==
    /\ pc[v] = "update"
    /\ approval' = [approval EXCEPT ![target[v]] = verdict[v]]
    /\ reviewedBy' = [reviewedBy EXCEPT ![target[v]] = reviewer[v]]
    /\ ReviewGoto(v, "mark")
    /\ UNCHANGED <<requestedBy, action, resume, toolCalls, reviewFaults>>

(* getForResolve, the self-review check and the status check. *)
GetForResolve(v) ==
    /\ pc[v] = "idle"
    /\ approval[target[v]] # "none"
    /\ ReviewGoto(v, IF Open(v) THEN "update" ELSE "done")
    /\ UNCHANGED <<rowVars, resume, toolCalls, reviewFaults>>

(* The guarded UPDATE of approval_requests; no row is ErrApprovalNotPending. *)
Resolve(v) ==
    /\ pc[v] = "update"
    /\ \/ /\ Open(v)
          /\ approval' = [approval EXCEPT ![target[v]] = verdict[v]]
          /\ reviewedBy' = [reviewedBy EXCEPT ![target[v]] = reviewer[v]]
          /\ ReviewGoto(v, "mark")
       \/ /\ ~ Open(v)
          /\ ReviewGoto(v, "done")
          /\ UNCHANGED <<approval, reviewedBy>>
    /\ UNCHANGED <<requestedBy, action, resume, toolCalls, reviewFaults>>

(* updateStatus: nothing happens to a row that is not in an allowed status. *)
UpdateStatus(a, next, allowed) ==
    action' = IF action[a] \in allowed THEN [action EXCEPT ![a] = next] ELSE action

(* MarkApproved or MarkDenied.  A denial ends here, an approval is resumed. *)
Mark(v) ==
    /\ pc[v] = "mark"
    /\ UpdateStatus(target[v], verdict[v], {"awaiting_approval"})
    /\ ReviewGoto(v, IF action[target[v]] = "awaiting_approval" /\ verdict[v] = "approved"
               THEN "send" ELSE "done")
    /\ UNCHANGED <<approval, requestedBy, reviewedBy, resume, toolCalls, reviewFaults>>

(* The agent is looked up and its connection used; any of it may fail. *)
SendRequest(v) ==
    /\ pc[v] = "send"
    /\ \/ /\ ReviewGoto(v, "await")
          /\ resume' = [resume EXCEPT ![v] = "sent"]
          /\ UNCHANGED reviewFaults
       \/ /\ reviewFaults < MaxReviewFaults
          /\ ReviewGoto(v, "fail")
          /\ reviewFaults' = reviewFaults + 1
          /\ UNCHANGED resume
    /\ UNCHANGED <<rowVars, toolCalls>>

(* Mutant of RecvResume: any answer counts as an execution. *)
RecvAnyAnswer(v) ==
    /\ pc[v] = "await"
    /\ resume[v] \in {"executed", "failed"}
    /\ ReviewGoto(v, "executed")
    /\ UNCHANGED <<rowVars, resume, toolCalls, reviewFaults>>

(* tool_executed, or tool_failed and error, arrive. *)
RecvResume(v) ==
    /\ pc[v] = "await"
    /\ resume[v] \in {"executed", "failed"}
    /\ ReviewGoto(v, IF resume[v] = "executed" THEN "executed" ELSE "fail")
    /\ UNCHANGED <<rowVars, resume, toolCalls, reviewFaults>>

(* The 30 s of the request pass, or the connection dies. *)
ResumeFails(v) ==
    /\ pc[v] = "await"
    /\ reviewFaults < MaxReviewFaults
    /\ reviewFaults' = reviewFaults + 1
    /\ ReviewGoto(v, "fail")
    /\ UNCHANGED <<rowVars, resume, toolCalls>>

MarkExecuted(v) ==
    /\ pc[v] = "executed"
    /\ UpdateStatus(target[v], "executed", {"approved"})
    /\ ReviewGoto(v, "done")
    /\ UNCHANGED <<approval, requestedBy, reviewedBy, resume, toolCalls, reviewFaults>>

MarkFailed(v) ==
    /\ pc[v] = "fail"
    /\ UpdateStatus(target[v], "failed", {"awaiting_approval", "approved"})
    /\ ReviewGoto(v, "done")
    /\ UNCHANGED <<approval, requestedBy, reviewedBy, resume, toolCalls, reviewFaults>>

(* A statement fails, the process stops, or the reviewer's client goes away.*)
(* The clean-up of failConnectorAction runs under the context of the same   *)
(* request and its error is ignored, so a cancelled request writes nothing. *)
Abandon(v) ==
    /\ pc[v] \notin {"idle", "done"}
    /\ reviewFaults < MaxReviewFaults
    /\ reviewFaults' = reviewFaults + 1
    /\ ReviewGoto(v, "done")
    /\ UNCHANGED <<rowVars, resume, toolCalls>>
-----------------------------------------------------------------------------
(* The agent: handleConnectorActionResume, in a goroutine of its own.  The  *)
(* connector may be gone; a call that fails may or may not have had effect. *)
ResumeTool(v) ==
    /\ resume[v] = "sent"
    /\ \E answer \in {"executed", "failed"}, called \in {0, 1} :
          /\ answer = "executed" => called = 1
          /\ resume' = [resume EXCEPT ![v] = answer]
          /\ toolCalls' = [toolCalls EXCEPT ![target[v]] = @ + called]
    /\ UNCHANGED <<rowVars, pc, target, reviewer, verdict, reviewFaults>>
-----------------------------------------------------------------------------
ReviewStep(v) ==
    GetForResolve(v) \/ Resolve(v) \/ Mark(v) \/ SendRequest(v) \/ RecvResume(v)
        \/ MarkExecuted(v) \/ MarkFailed(v)

ActionNext ==
    \/ \E a \in Actions, u \in Users \cup {NoUser} : CreateForConnectorAction(a, u)
    \/ \E v \in Reviews : ReviewStep(v) \/ ResumeFails(v) \/ Abandon(v) \/ ResumeTool(v)

ActionSpec == ActionInit /\ [][ActionNext]_actionVars
-----------------------------------------------------------------------------
(* Types of the two tables, the agent and the reviews.                      *)
ActionTypeOK ==
    /\ approval \in [Actions -> {"none", "pending"} \cup Verdicts]
    /\ requestedBy \in [Actions -> Users \cup {NoUser}]
    /\ reviewedBy \in [Actions -> Users \cup {NoUser}]
    /\ action \in [Actions -> ActionStatuses]
    /\ pc \in [Reviews -> PCs]
    /\ target \in [Reviews -> Actions]
    /\ reviewer \in [Reviews -> Users]
    /\ verdict \in [Reviews -> Verdicts]
    /\ resume \in [Reviews -> {"none", "sent", "executed", "failed"}]
    /\ toolCalls \in [Actions -> Nat]
    /\ reviewFaults \in 0 .. MaxReviewFaults

(* The external tool is called at most once for an action, and only after   *)
(* someone other than the user who asked for it has approved it.            *)
CalledOnceApproved ==
    \A a \in Actions :
        /\ toolCalls[a] <= 1
        /\ toolCalls[a] = 1 =>
              /\ approval[a] = "approved"
              /\ reviewedBy[a] \in Users
              /\ reviewedBy[a] # requestedBy[a]

(* What the action's row says follows the decision and the call: it is      *)
(* "executed" only if the tool was called, "denied" only if the approval    *)
(* was denied, and otherwise past waiting only if it was approved.          *)
RecordIsTrue ==
    \A a \in Actions :
        /\ action[a] = "executed" => toolCalls[a] = 1
        /\ action[a] = "denied" => approval[a] = "denied" /\ toolCalls[a] = 0
        /\ action[a] \in {"approved", "executed", "failed"} => approval[a] = "approved"

(* A decision and its reviewer are never replaced, and an action that is    *)
(* denied, executed or failed stays so, however many reviews race.          *)
DecisionIsFinal ==
    [][\A a \in Actions :
          /\ approval[a] \in Verdicts =>
                approval'[a] = approval[a] /\ reviewedBy'[a] = reviewedBy[a]
          /\ action[a] \in Terminal => action'[a] = action[a]]_actionVars

(* The promise of governance, seen without reviews and agents.              *)
Governance == INSTANCE ApprovedWrite WITH
    decision <- approval, asker <- requestedBy, decider <- reviewedBy,
    made <- toolCalls, record <- action

(* The two tables and the resumption on the agent keep the promise of       *)
(* ApprovedWrite: racing reviews, lost answers and abandoned requests never *)
(* decide twice, make a write twice or without approval, or record as made  *)
(* what was not.                                                            *)
KeepsGovernance == Governance!Spec

(* docs/plans/2026-03-14-governed-integrations-design.md:146: "policy and   *)
(* approval handshakes must be durable and race-safe".  Once no review of a *)
(* decided approval is under way, its action is denied, executed or failed. *)
DecisionIsApplied ==
    \A a \in Actions :
        /\ approval[a] \in Verdicts
        /\ \A v \in Reviews : target[v] = a => pc[v] \in {"idle", "done"}
        => action[a] \in Terminal
=============================================================================
