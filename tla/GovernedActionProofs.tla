------------------------ MODULE GovernedActionProofs ------------------------
(***************************************************************************)
(* Proofs about the governed action, for any number of actions, users,      *)
(* concurrent reviews and faults, and about the agent that makes it         *)
(* (AgentRuntime), for any number of runs, tools and configurations.        *)
(*                                                                         *)
(* A review that got past the guarded UPDATE is the decider of its          *)
(* approval, an approval has one decider, and only the decider moves the    *)
(* action's row and asks the agent for the call: so the action is called at *)
(* most once and only as decided (ActionInv).  What a run of the agent has  *)
(* validated, made and answered is tied to the frames that carry it         *)
(* (RunInv).                                                                *)
(***************************************************************************)
EXTENDS GovernedAction, AgentRuntime, TLAPS

(* Most steps are for Zenon; those that need the SMT solver say so. *)
USE ZenonT(30)

(* The UPDATE of approval_requests returned a row to review v. *)
Decider(v) ==
    pc[v] \in {"mark", "send", "await", "executed", "fail"} \/ resume[v] # "none"

Decides ==
    \A v \in Reviews : Decider(v) =>
        /\ approval[target[v]] = verdict[v]
        /\ reviewedBy[target[v]] = reviewer[v]
        /\ requestedBy[target[v]] # reviewer[v]

OneDecider ==
    \A v, w \in Reviews : Decider(v) /\ Decider(w) /\ target[v] = target[w] => v = w

(* What a decider has done to the row by the time it gets to a statement. *)
Progress ==
    \A v \in Reviews :
        /\ pc[v] \in {"idle", "update", "mark"} => resume[v] = "none"
        /\ pc[v] = "mark" => action[target[v]] = "awaiting_approval"
        /\ pc[v] \in {"send", "await", "executed", "fail"} =>
              action[target[v]] = "approved" /\ verdict[v] = "approved"
        /\ pc[v] = "send" => resume[v] = "none"
        /\ pc[v] = "executed" => resume[v] = "executed"
        /\ resume[v] # "none" => verdict[v] = "approved"

Undecided ==
    \A a \in Actions :
        /\ approval[a] = "none" => action[a] = "none"
        /\ approval[a] = "pending" => action[a] = "awaiting_approval"

Followed ==
    \A a \in Actions :
        /\ action[a] = "denied" => approval[a] = "denied"
        /\ action[a] \in {"approved", "executed", "failed"} => approval[a] = "approved"

(* The calls of an action are those its decider's resume has made. *)
Counted ==
    \A a \in Actions :
        /\ toolCalls[a] <= 1
        /\ toolCalls[a] = 1 =>
              \E v \in Reviews : target[v] = a /\ resume[v] \in {"executed", "failed"}
        /\ action[a] = "executed" => toolCalls[a] = 1
        /\ \A v \in Reviews : target[v] = a /\ resume[v] = "executed" => toolCalls[a] = 1

ActionInv == ActionTypeOK /\ Decides /\ OneDecider /\ Progress /\ Undecided /\ Followed /\ Counted
-----------------------------------------------------------------------------
(* Every step keeps the types.                                              *)
LEMMA ActionTypeStep == ActionTypeOK /\ [ActionNext]_actionVars => ActionTypeOK'
<1>1. SUFFICES ASSUME ActionTypeOK, [ActionNext]_actionVars PROVE ActionTypeOK'
  OBVIOUS
<1>2. CASE ActionNext
  <2>1. ASSUME NEW a \in Actions, NEW u \in Users \cup {NoUser},
               CreateForConnectorAction(a, u)
        PROVE  ActionTypeOK'
    BY <1>1, <2>1 DEF ActionTypeOK, CreateForConnectorAction, ActionStatuses, Terminal
  <2>2. ASSUME NEW v \in Reviews, GetForResolve(v)
        PROVE  ActionTypeOK'
    BY <1>1, <2>2 DEF ActionTypeOK, GetForResolve, ReviewGoto, PCs, rowVars
  <2>3. ASSUME NEW v \in Reviews, Resolve(v)
        PROVE  ActionTypeOK'
    BY <1>1, <2>3 DEF ActionTypeOK, Resolve, ReviewGoto, PCs
  <2>4. ASSUME NEW v \in Reviews, Mark(v)
        PROVE  ActionTypeOK'
    BY <1>1, <2>4 DEF ActionTypeOK, Mark, UpdateStatus, ReviewGoto, PCs, ActionStatuses, Terminal,
                      Verdicts
  <2>5. ASSUME NEW v \in Reviews, SendRequest(v)
        PROVE  ActionTypeOK'
    BY SMTT(30), <1>1, <2>5, ActionConstants DEF ActionTypeOK, SendRequest, ReviewGoto, PCs, rowVars
  <2>6. ASSUME NEW v \in Reviews, RecvResume(v)
        PROVE  ActionTypeOK'
    BY <1>1, <2>6 DEF ActionTypeOK, RecvResume, ReviewGoto, PCs, rowVars
  <2>7. ASSUME NEW v \in Reviews, ResumeFails(v)
        PROVE  ActionTypeOK'
    BY SMTT(30), <1>1, <2>7, ActionConstants DEF ActionTypeOK, ResumeFails, ReviewGoto, PCs, rowVars
  <2>8. ASSUME NEW v \in Reviews, MarkExecuted(v)
        PROVE  ActionTypeOK'
    BY <1>1, <2>8 DEF ActionTypeOK, MarkExecuted, UpdateStatus, ReviewGoto, PCs, ActionStatuses, Terminal
  <2>9. ASSUME NEW v \in Reviews, MarkFailed(v)
        PROVE  ActionTypeOK'
    BY <1>1, <2>9 DEF ActionTypeOK, MarkFailed, UpdateStatus, ReviewGoto, PCs, ActionStatuses, Terminal
  <2>10. ASSUME NEW v \in Reviews, Abandon(v)
         PROVE  ActionTypeOK'
    BY SMTT(30), <1>1, <2>10, ActionConstants DEF ActionTypeOK, Abandon, ReviewGoto, PCs, rowVars
  <2>11. ASSUME NEW v \in Reviews, ResumeTool(v)
         PROVE  ActionTypeOK'
    BY SMTT(30), <1>1, <2>11 DEF ActionTypeOK, ResumeTool, rowVars
  <2> QED
    BY <1>2, <2>1, <2>2, <2>3, <2>4, <2>5, <2>6, <2>7, <2>8, <2>9, <2>10, <2>11
    DEF ActionNext, ReviewStep
<1>3. CASE UNCHANGED actionVars
  BY <1>1, <1>3 DEF ActionTypeOK, actionVars, rowVars
<1> QED
  BY <1>1, <1>2, <1>3
-----------------------------------------------------------------------------
(* The inductive invariant holds at first.                                  *)
LEMMA ActionInvInit == ActionInit => ActionInv
<1> SUFFICES ASSUME ActionInit PROVE ActionInv
  OBVIOUS
<1>1. ActionTypeOK
  BY SMTT(30), ActionConstants DEF ActionInit, ActionTypeOK, PCs, ActionStatuses
<1>2. Decides /\ OneDecider /\ Progress /\ Undecided /\ Followed /\ Counted
  BY SMTT(30) DEF ActionInit, Decides, OneDecider, Decider, Progress, Undecided, Followed, Counted
<1> QED
  BY <1>1, <1>2 DEF ActionInv

(* The steps of a review, one lemma each. *)
LEMMA CreateStep ==
    ASSUME ActionInv, NEW a \in Actions, NEW u \in Users \cup {NoUser},
           CreateForConnectorAction(a, u)
    PROVE  Decides' /\ OneDecider' /\ Progress' /\ Undecided' /\ Followed' /\ Counted'
<1>1. \A v \in Reviews : target[v] = a => ~ Decider(v)
  BY SMTT(30) DEF ActionInv, ActionTypeOK, Decides, CreateForConnectorAction, Verdicts
<1>2. Decides' /\ OneDecider'
  BY <1>1 DEF ActionInv, ActionTypeOK, Decides, OneDecider, Decider, CreateForConnectorAction
<1>3. Progress'
  BY <1>1 DEF ActionInv, ActionTypeOK, Progress, Decider, CreateForConnectorAction
<1>4. Undecided' /\ Followed'
  BY DEF ActionInv, ActionTypeOK, Undecided, Followed, CreateForConnectorAction
<1>5. Counted'
  BY DEF ActionInv, ActionTypeOK, Counted, CreateForConnectorAction
<1> QED
  BY <1>2, <1>3, <1>4, <1>5

(* Deciding an approval keeps the invariant.                                *)
LEMMA ResolveStep ==
    ASSUME ActionInv, NEW v \in Reviews, Resolve(v)
    PROVE  Decides' /\ OneDecider' /\ Progress' /\ Undecided' /\ Followed' /\ Counted'
<1>1. CASE Open(v)
  <2>1. \A w \in Reviews : target[w] = target[v] => ~ Decider(w)
    BY SMTT(30), <1>1 DEF ActionInv, ActionTypeOK, Decides, Open, Verdicts
  <2>2. Decides' /\ OneDecider'
    BY SMTT(30), <1>1, <2>1 DEF ActionInv, ActionTypeOK, Decides, OneDecider, Decider, Resolve,
                                ReviewGoto, Open
  <2>3. Progress'
    BY SMTT(30), <1>1 DEF ActionInv, ActionTypeOK, Progress, Undecided, Resolve, ReviewGoto, Open
  <2>4. Undecided' /\ Followed'
    BY SMTT(30), <1>1 DEF ActionInv, ActionTypeOK, Undecided, Followed, Resolve, ReviewGoto, Open,
                          Verdicts
  <2>5. Counted'
    BY SMTT(30), <1>1 DEF ActionInv, ActionTypeOK, Counted, Resolve, ReviewGoto
  <2> QED
    BY <2>2, <2>3, <2>4, <2>5
<1>2. CASE ~ Open(v)
  BY SMTT(30), <1>2 DEF ActionInv, ActionTypeOK, Decides, OneDecider, Decider, Progress, Undecided,
                        Followed,
              Counted, Resolve, ReviewGoto
<1> QED
  BY <1>1, <1>2

(* So does the action row that follows the decision.                        *)
LEMMA MarkStep ==
    ASSUME ActionInv, NEW v \in Reviews, Mark(v)
    PROVE  Decides' /\ OneDecider' /\ Progress' /\ Undecided' /\ Followed' /\ Counted'
<1>1. /\ action[target[v]] = "awaiting_approval"
      /\ approval[target[v]] = verdict[v]
      /\ verdict[v] \in {"approved", "denied"}
      /\ target[v] \in Actions
  BY DEF ActionInv, ActionTypeOK, Progress, Decides, Decider, Mark, Verdicts
<1>2. action' = [action EXCEPT ![target[v]] = verdict[v]]
  BY <1>1 DEF Mark, UpdateStatus
<1>3. \A w \in Reviews : target[w] = target[v] /\ w # v => ~ Decider(w)
  BY DEF ActionInv, OneDecider, Decider, Mark
<1>4. Decides' /\ OneDecider'
  BY SMTT(30) DEF ActionInv, ActionTypeOK, Decides, OneDecider, Decider, Mark, ReviewGoto
<1>5. Progress'
  BY <1>1, <1>2, <1>3 DEF ActionInv, ActionTypeOK, Progress, Decider, Mark, ReviewGoto
<1>6. Undecided' /\ Followed'
  BY <1>1, <1>2 DEF ActionInv, ActionTypeOK, Undecided, Followed, Mark, ReviewGoto
<1>7. Counted'
  BY <1>1, <1>2 DEF ActionInv, ActionTypeOK, Counted, Mark, ReviewGoto
<1> QED
  BY <1>4, <1>5, <1>6, <1>7

(* So does the final status.                                                *)
LEMMA SettleStep ==
    ASSUME ActionInv, NEW v \in Reviews, MarkExecuted(v) \/ MarkFailed(v)
    PROVE  Decides' /\ OneDecider' /\ Progress' /\ Undecided' /\ Followed' /\ Counted'
<1>1. /\ action[target[v]] = "approved"
      /\ approval[target[v]] = "approved"
      /\ target[v] \in Actions
  BY DEF ActionInv, ActionTypeOK, Progress, Decides, Decider, MarkExecuted, MarkFailed
<1>2. \/ /\ action' = [action EXCEPT ![target[v]] = "executed"]
         /\ toolCalls[target[v]] = 1
      \/ action' = [action EXCEPT ![target[v]] = "failed"]
  BY SMTT(30), <1>1 DEF ActionInv, Progress, Counted, MarkExecuted, MarkFailed, UpdateStatus
<1>3. \A w \in Reviews : target[w] = target[v] /\ w # v => ~ Decider(w)
  BY DEF ActionInv, OneDecider, Decider, MarkExecuted, MarkFailed
<1>4. /\ pc' = [pc EXCEPT ![v] = "done"]
      /\ UNCHANGED <<approval, requestedBy, reviewedBy, target, reviewer, verdict,
                     resume, toolCalls>>
  BY DEF MarkExecuted, MarkFailed, ReviewGoto
<1>5. Decides' /\ OneDecider'
  BY <1>4 DEF ActionInv, ActionTypeOK, Decides, OneDecider, Decider
<1>6. Progress'
  BY SMTT(30), <1>1, <1>2, <1>3, <1>4 DEF ActionInv, ActionTypeOK, Progress, Decider
<1>7. Undecided' /\ Followed'
  BY <1>1, <1>2, <1>4 DEF ActionInv, ActionTypeOK, Undecided, Followed
<1>8. Counted'
  BY SMTT(30), <1>1, <1>2, <1>4 DEF ActionInv, ActionTypeOK, Counted
<1> QED
  BY <1>5, <1>6, <1>7, <1>8

(* A step of the review, before or after the decision, that writes no row. *)
LEMMA WaitStep ==
    ASSUME ActionInv, NEW v \in Reviews,
           GetForResolve(v) \/ SendRequest(v) \/ RecvResume(v) \/ ResumeFails(v) \/ Abandon(v)
    PROVE  Decides' /\ OneDecider' /\ Progress' /\ Undecided' /\ Followed' /\ Counted'
<1>1. UNCHANGED <<approval, requestedBy, reviewedBy, action, target, reviewer, verdict, toolCalls>>
  BY DEF GetForResolve, SendRequest, RecvResume, ResumeFails, Abandon, ReviewGoto, rowVars
<1>2. Decides' /\ OneDecider'
  BY SMTT(30), <1>1 DEF ActionInv, ActionTypeOK, Decides, OneDecider, Decider, GetForResolve,
                        SendRequest,
              RecvResume, ResumeFails, Abandon, ReviewGoto
<1>3. Progress'
  BY SMTT(30), <1>1 DEF ActionInv, ActionTypeOK, Progress, GetForResolve, SendRequest, RecvResume,
                        ResumeFails,
              Abandon, ReviewGoto
<1>4. Undecided' /\ Followed'
  BY <1>1 DEF ActionInv, Undecided, Followed
<1>5. Counted'
  BY SMTT(30), <1>1 DEF ActionInv, ActionTypeOK, Counted, GetForResolve, SendRequest, RecvResume,
                        ResumeFails,
              Abandon, ReviewGoto, Progress
<1> QED
  BY <1>2, <1>3, <1>4, <1>5

(* So does the call of the tool.                                            *)
LEMMA CallStep ==
    ASSUME ActionInv, NEW v \in Reviews, ResumeTool(v)
    PROVE  Decides' /\ OneDecider' /\ Progress' /\ Undecided' /\ Followed' /\ Counted'
<1>1. \A w \in Reviews : target[w] = target[v] /\ w # v => resume[w] = "none"
  BY DEF ActionInv, OneDecider, Decider, ResumeTool
<1>2. toolCalls[target[v]] = 0 /\ target[v] \in Actions
  BY SMTT(30), <1>1 DEF ActionInv, ActionTypeOK, Counted, ResumeTool
<1>3. PICK answer \in {"executed", "failed"}, called \in {0, 1} :
        /\ answer = "executed" => called = 1
        /\ resume' = [resume EXCEPT ![v] = answer]
        /\ toolCalls' = [toolCalls EXCEPT ![target[v]] = @ + called]
  BY DEF ResumeTool
<1>4. Decides' /\ OneDecider'
  BY SMTT(30), <1>3 DEF ActionInv, ActionTypeOK, Decides, OneDecider, Decider, ResumeTool, rowVars
<1>5. Progress'
  BY <1>3 DEF ActionInv, ActionTypeOK, Progress, ResumeTool, rowVars
<1>6. Undecided' /\ Followed'
  BY DEF ActionInv, Undecided, Followed, ResumeTool, rowVars
<1>7. Counted'
  <2>1. ASSUME NEW a \in Actions, a # target[v]
        PROVE  toolCalls'[a] = toolCalls[a]
    BY <1>2, <1>3, <2>1 DEF ActionInv, ActionTypeOK
  <2>2. toolCalls'[target[v]] = called /\ resume'[v] = answer
    BY SMTT(30), <1>2, <1>3 DEF ActionInv, ActionTypeOK
  <2>3. action[target[v]] # "executed"
    BY SMTT(30), <1>2 DEF ActionInv, Counted
  <2> QED
    BY SMTT(30), <1>1, <1>2, <1>3, <2>1, <2>2, <2>3 DEF ActionInv, ActionTypeOK, Counted, ResumeTool,
                                                        rowVars
<1> QED
  BY <1>4, <1>5, <1>6, <1>7

(* Every step keeps the inductive invariant.                                *)
LEMMA ActionInvStep == ActionInv /\ [ActionNext]_actionVars => ActionInv'
<1>1. SUFFICES ASSUME ActionInv, [ActionNext]_actionVars PROVE ActionInv'
  OBVIOUS
<1>2. ActionTypeOK'
  BY <1>1, ActionTypeStep DEF ActionInv
<1>3. CASE ActionNext
  BY <1>1, <1>2, <1>3, CreateStep, ResolveStep, MarkStep, SettleStep, WaitStep, CallStep
  DEF ActionNext, ReviewStep, ActionInv
<1>4. CASE UNCHANGED actionVars
  BY SMTT(30), <1>1, <1>2, <1>4 DEF ActionInv, Decides, OneDecider, Decider, Progress, Undecided,
                          Followed, Counted, actionVars, rowVars
<1> QED
  BY <1>1, <1>3, <1>4

(* The inductive invariant holds: at most one review of an approval decides *)
(* it, and only the decider resumes the action.                             *)
THEOREM Invariance == ActionSpec => []ActionInv
  BY ActionInvInit, ActionInvStep, PTL DEF ActionSpec
-----------------------------------------------------------------------------
(* Type correctness of the approval and action rows, the reviews and the    *)
(* resumed calls.                                                           *)
THEOREM ActionTypeCorrect == ActionSpec => []ActionTypeOK
<1>1. ActionInv => ActionTypeOK
  BY DEF ActionInv
<1> QED
  BY <1>1, Invariance, PTL

(* However many reviewers race and whatever fails in between, the agent is  *)
(* asked for the external write at most once, and only after a user other   *)
(* than the requester has approved it.                                      *)
THEOREM ApprovedOnce == ActionSpec => []CalledOnceApproved
<1>1. ActionInv => CalledOnceApproved
  <2> SUFFICES ASSUME ActionInv, NEW a \in Actions
      PROVE  /\ toolCalls[a] <= 1
             /\ toolCalls[a] = 1 =>
                   /\ approval[a] = "approved"
                   /\ reviewedBy[a] \in Users
                   /\ reviewedBy[a] # requestedBy[a]
    BY DEF CalledOnceApproved
  <2>1. toolCalls[a] <= 1
    BY DEF ActionInv, Counted
  <2>2. ASSUME toolCalls[a] = 1
        PROVE  /\ approval[a] = "approved"
               /\ reviewedBy[a] \in Users
               /\ reviewedBy[a] # requestedBy[a]
    <3>1. PICK v \in Reviews : target[v] = a /\ resume[v] \in {"executed", "failed"}
      BY <2>2 DEF ActionInv, Counted
    <3>2. Decider(v) /\ verdict[v] = "approved"
      BY <3>1 DEF ActionInv, Decider, Progress
    <3> QED
      BY <3>1, <3>2 DEF ActionInv, ActionTypeOK, Decides
  <2> QED
    BY <2>1, <2>2
<1> QED
  BY <1>1, Invariance, PTL

(* The status of the action row never claims what did not happen: executed  *)
(* means called, denied means denied and not called.                        *)
THEOREM TrueRecord == ActionSpec => []RecordIsTrue
<1>1. ActionInv => RecordIsTrue
  <2> SUFFICES ASSUME ActionInv, NEW a \in Actions
      PROVE  /\ action[a] = "executed" => toolCalls[a] = 1
             /\ action[a] = "denied" => approval[a] = "denied" /\ toolCalls[a] = 0
             /\ action[a] \in {"approved", "executed", "failed"} => approval[a] = "approved"
    BY DEF RecordIsTrue
  <2>1. toolCalls[a] = 1 => approval[a] = "approved"
    BY SMTT(30) DEF ActionInv, ActionTypeOK, Counted, Decides, Decider, Progress
  <2> QED
    BY SMTT(30), <2>1 DEF ActionInv, ActionTypeOK, Counted, Followed
<1> QED
  BY <1>1, Invariance, PTL

(* A resolved approval and a settled action never change again: what the    *)
(* guarded UPDATEs of resolve and updateStatus are for.                     *)
THEOREM FinalDecision == ActionSpec => DecisionIsFinal
<1> DEFINE Kept(a) ==
        /\ approval[a] \in Verdicts =>
              approval'[a] = approval[a] /\ reviewedBy'[a] = reviewedBy[a]
        /\ action[a] \in Terminal => action'[a] = action[a]
<1>1. ASSUME ActionInv, [ActionNext]_actionVars
      PROVE  \A a \in Actions : Kept(a)
  <2>1. ASSUME NEW b \in Actions, NEW u \in Users \cup {NoUser},
               CreateForConnectorAction(b, u)
        PROVE  \A a \in Actions : Kept(a)
    BY <1>1, <2>1 DEF ActionInv, ActionTypeOK, Undecided, CreateForConnectorAction, Verdicts, Terminal
  <2>2. ASSUME NEW v \in Reviews, Resolve(v)
        PROVE  \A a \in Actions : Kept(a)
    BY <1>1, <2>2 DEF ActionInv, ActionTypeOK, Resolve, Open, Verdicts
  <2>3. ASSUME NEW v \in Reviews, Mark(v) \/ MarkExecuted(v) \/ MarkFailed(v)
        PROVE  \A a \in Actions : Kept(a)
    BY <1>1, <2>3 DEF ActionInv, ActionTypeOK, Mark, MarkExecuted, MarkFailed, UpdateStatus, Terminal
  <2>4. ASSUME UNCHANGED rowVars
        PROVE  \A a \in Actions : Kept(a)
    BY <2>4 DEF rowVars
  <2>5. ASSUME NEW v \in Reviews,
               \/ GetForResolve(v) \/ SendRequest(v) \/ RecvResume(v)
               \/ ResumeFails(v) \/ Abandon(v) \/ ResumeTool(v)
        PROVE  UNCHANGED rowVars
    BY <2>5 DEF GetForResolve, SendRequest, RecvResume, ResumeFails, Abandon, ResumeTool
  <2> QED
    BY <1>1, <2>1, <2>2, <2>3, <2>4, <2>5 DEF ActionNext, ReviewStep, actionVars
<1>2. ActionInv /\ [ActionNext]_actionVars => [\A a \in Actions : Kept(a)]_actionVars
  BY <1>1
<1> QED
  BY <1>2, Invariance, PTL DEF DecisionIsFinal, ActionSpec
(* Every step of the reviews and the agent is a step of ApprovedWrite, or   *)
(* changes nothing it speaks of.                                            *)
LEMMA GovernanceStep ==
    ActionInv /\ [ActionNext]_actionVars => [Governance!Next]_(Governance!vars)
<1> SUFFICES ASSUME ActionInv, [ActionNext]_actionVars
             PROVE  Governance!Next \/ UNCHANGED Governance!vars
  OBVIOUS
<1>1. ASSUME NEW a \in Actions, NEW u \in Users \cup {NoUser}, CreateForConnectorAction(a, u)
      PROVE  Governance!Next
  <2>1. Governance!Ask(a, u)
    BY <1>1 DEF CreateForConnectorAction, Governance!Ask
  <2> QED
    BY <2>1 DEF Governance!Next
<1>2. ASSUME NEW v \in Reviews, Resolve(v)
      PROVE  Governance!Next \/ UNCHANGED Governance!vars
  <2>1. target[v] \in Actions /\ reviewer[v] \in Users /\ verdict[v] \in {"approved", "denied"}
    BY DEF ActionInv, ActionTypeOK, Verdicts
  <2>2. CASE Open(v)
    <3>1. Governance!Decide(target[v], reviewer[v], verdict[v])
      BY <1>2, <2>2 DEF Resolve, Open, Governance!Decide
    <3> QED
      BY <2>1, <3>1 DEF Governance!Next
  <2>3. CASE ~ Open(v)
    BY <1>2, <2>3 DEF Resolve, Governance!vars
  <2> QED
    BY <2>2, <2>3
<1>3. ASSUME NEW v \in Reviews, Mark(v)
      PROVE  Governance!Next
  <2>1. /\ target[v] \in Actions
        /\ action[target[v]] = "awaiting_approval"
        /\ approval[target[v]] = verdict[v]
        /\ verdict[v] \in {"approved", "denied"}
    BY <1>3 DEF ActionInv, ActionTypeOK, Progress, Decides, Decider, Mark, Verdicts
  <2>2. Governance!Follow(target[v])
    BY <1>3, <2>1 DEF Mark, UpdateStatus, Governance!Follow, Governance!Record
  <2> QED
    BY <2>1, <2>2 DEF Governance!Next
<1>4. ASSUME NEW v \in Reviews, MarkExecuted(v)
      PROVE  Governance!Next
  <2>1. target[v] \in Actions /\ action[target[v]] = "approved" /\ toolCalls[target[v]] = 1
    BY SMTT(30), <1>4 DEF ActionInv, ActionTypeOK, Progress, Counted, MarkExecuted
  <2>2. Governance!Succeed(target[v])
    BY <1>4, <2>1 DEF MarkExecuted, UpdateStatus, Governance!Succeed, Governance!Record
  <2> QED
    BY <2>1, <2>2 DEF Governance!Next
<1>5. ASSUME NEW v \in Reviews, MarkFailed(v)
      PROVE  Governance!Next
  <2>1. target[v] \in Actions /\ action[target[v]] = "approved"
    BY <1>5 DEF ActionInv, ActionTypeOK, Progress, MarkFailed
  <2>2. Governance!GiveUp(target[v])
    BY <1>5, <2>1 DEF MarkFailed, UpdateStatus, Governance!GiveUp, Governance!Record
  <2> QED
    BY <2>1, <2>2 DEF Governance!Next
<1>6. ASSUME NEW v \in Reviews, ResumeTool(v)
      PROVE  Governance!Next \/ UNCHANGED Governance!vars
  <2>1. /\ target[v] \in Actions
        /\ approval[target[v]] = "approved"
        /\ \A w \in Reviews : target[w] = target[v] /\ w # v => resume[w] = "none"
    BY SMTT(30), <1>6 DEF ActionInv, ActionTypeOK, Decides, Decider, OneDecider, Progress, ResumeTool
  <2>2. toolCalls[target[v]] = 0
    BY SMTT(30), <1>6, <2>1 DEF ActionInv, ActionTypeOK, Counted, ResumeTool
  <2>3. PICK called \in {0, 1} : toolCalls' = [toolCalls EXCEPT ![target[v]] = @ + called]
    BY <1>6 DEF ResumeTool
  <2>4. CASE called = 0
    <3>1. toolCalls' = toolCalls
      BY SMTT(30), <2>1, <2>3, <2>4 DEF ActionInv, ActionTypeOK
    <3> QED
      BY <1>6, <3>1 DEF ResumeTool, rowVars, Governance!vars
  <2>5. CASE called = 1
    <3>1. toolCalls' = [toolCalls EXCEPT ![target[v]] = 1]
      BY SMTT(30), <2>1, <2>2, <2>3, <2>5 DEF ActionInv, ActionTypeOK
    <3>2. Governance!Make(target[v])
      BY <1>6, <2>1, <2>2, <3>1 DEF ResumeTool, rowVars, Governance!Make
    <3> QED
      BY <2>1, <3>2 DEF Governance!Next
  <2> QED
    BY <2>3, <2>4, <2>5
<1>7. ASSUME NEW v \in Reviews,
             GetForResolve(v) \/ SendRequest(v) \/ RecvResume(v) \/ ResumeFails(v) \/ Abandon(v)
      PROVE  UNCHANGED Governance!vars
  BY <1>7 DEF GetForResolve, SendRequest, RecvResume, ResumeFails, Abandon, rowVars, Governance!vars
<1>8. CASE UNCHANGED actionVars
  BY <1>8 DEF actionVars, rowVars, Governance!vars
<1> QED
  BY <1>1, <1>2, <1>3, <1>4, <1>5, <1>6, <1>7, <1>8 DEF ActionNext, ReviewStep

(* The approval and action tables with their racing reviews, and the agent  *)
(* that resumes the write, implement ApprovedWrite.                         *)
THEOREM ImplementsGovernance == ActionSpec => KeepsGovernance
<1>1. ActionInit => Governance!Init
  BY DEF ActionInit, Governance!Init
<1> QED
  BY <1>1, GovernanceStep, Invariance, PTL DEF ActionSpec, KeepsGovernance, Governance!Spec
-----------------------------------------------------------------------------
(* The runs of the agent *)

(* The frames that are on their way to the caller of q.                     *)
Queued(q) == {queue[q][i] : i \in 1 .. Len(queue[q])}

(* What a frame says of the end of the run.                                 *)
Says(f, how) ==
    /\ f = "chunk" => how = "completed"
    /\ f = "approval_required" => how = "paused"
    /\ f = "tool_blocked" => how \in {"blocked", "refused"}
    /\ f = "session_halt" => how = "halted"

(* The round of run q: each call is validated in turn against what the      *)
(* agent had since the model asked, the connectors are read after that, and *)
(* a call is made only as they say.                                         *)
Validated(q) ==
    /\ asked[q] <= cfg
    /\ Len(checked[q]) <= Len(calls[q])
    /\ \A i \in 1 .. Len(checked[q]) : checked[q][i] \in Since(q) /\ Allowed(checked[q][i], calls[q][i])

Made(q) ==
    /\ at[q] = "validate" => calls[q] # <<>> /\ made[q] = {}
    /\ at[q] = "call" \/ made[q] # {} => Len(checked[q]) = Len(calls[q]) /\ snap[q] \in Since(q)
    /\ at[q] = "call" => pos[q] <= Len(calls[q]) /\ \A i \in made[q] : i < pos[q]
    /\ \A i \in made[q] :
         /\ i <= Len(calls[q])
         /\ calls[q][i] \in Config[snap[q]].serves
         /\ Config[snap[q]].rule[calls[q][i]] = "none"

(* A run ends once, and its frames and its caller know how.                 *)
Ended(q) ==
    /\ at[q] # "over" => end[q] = "none"
    /\ made[q] # {} => end[q] # "refused"
    /\ end[q] \in {"blocked", "paused"} => \A i \in made[q] : i < pos[q]
    /\ waits[q] = "no" => at[q] = "idle"
    /\ waits[q] # "done" => outcome[q] = "none" /\ q \notin rows
    /\ \A f \in Queued(q) : Says(f, end[q])

Honest(q) ==
    /\ outcome[q] = "ok" => end[q] = "completed"
    /\ outcome[q] = "approval" => end[q] = "paused" /\ q \in rows
    /\ outcome[q] = "blocked" => end[q] \in {"blocked", "refused"}
    /\ outcome[q] = "halted" => end[q] = "halted"
    /\ q \in rows => outcome[q] = "approval"

RunOK(q) == Validated(q) /\ Made(q) /\ Ended(q) /\ Honest(q)

RunInv == TypeOK /\ \A q \in Runs : RunOK(q)

(* Nothing of run q changes.                                                *)
Still(q) ==
    /\ at'[q] = at[q] /\ calls'[q] = calls[q] /\ pos'[q] = pos[q] /\ asked'[q] = asked[q]
    /\ checked'[q] = checked[q] /\ snap'[q] = snap[q] /\ end'[q] = end[q] /\ made'[q] = made[q]
    /\ queue'[q] = queue[q] /\ waits'[q] = waits[q] /\ outcome'[q] = outcome[q]
    /\ q \in rows' <=> q \in rows
-----------------------------------------------------------------------------
(* Frames *)

(* What Emit adds to the frames of run q, and that it adds to no others.    *)
LEMMA Emitted ==
    ASSUME TypeOK, NEW q \in Runs, NEW fs \in Seq(Frames), Emit(q, fs)
    PROVE  /\ queue' \in [Runs -> Seq(Frames)]
           /\ \A r \in Runs \ {q} : queue'[r] = queue[r]
           /\ \A f \in Queued(q)' : f \in Queued(q) \/ \E i \in 1 .. Len(fs) : f = fs[i]
<1> DEFINE new == queue[q] \o fs
<1>1. queue \in [Runs -> Seq(Frames)] /\ queue[q] \in Seq(Frames)
  BY DEF TypeOK
<1>2. /\ new \in Seq(Frames)
      /\ Len(new) = Len(queue[q]) + Len(fs)
      /\ Len(queue[q]) \in Nat /\ Len(fs) \in Nat
      /\ \A i \in 1 .. Len(queue[q]) + Len(fs) :
           new[i] = IF i <= Len(queue[q]) THEN queue[q][i] ELSE fs[i - Len(queue[q])]
  BY SMTT(30), <1>1
<1>3. queue' = [queue EXCEPT ![q] = new] \/ queue' = queue
  <2>1. queue' = [queue EXCEPT ![q] = IF link[q] = conn THEN new ELSE queue[q]]
    BY DEF Emit
  <2>2. [queue EXCEPT ![q] = queue[q]] = queue
    BY <1>1
  <2> QED
    BY <2>1, <2>2
<1> HIDE DEF new
<1>4. \A i \in 1 .. Len(new) : new[i] \in Queued(q) \/ \E j \in 1 .. Len(fs) : new[i] = fs[j]
  <2> TAKE i \in 1 .. Len(new)
  <2>1. CASE i <= Len(queue[q])
    BY SMTT(30), <1>2, <2>1 DEF Queued
  <2>2. CASE ~(i <= Len(queue[q]))
    <3>1. i - Len(queue[q]) \in 1 .. Len(fs) /\ new[i] = fs[i - Len(queue[q])]
      BY SMTT(30), <1>2, <2>2
    <3> QED
      BY <3>1
  <2> QED
    BY <2>1, <2>2
<1>5. CASE queue' = queue
  BY <1>1, <1>5 DEF Queued
<1>6. CASE queue' = [queue EXCEPT ![q] = new]
  <2>1. queue' \in [Runs -> Seq(Frames)] /\ queue'[q] = new /\ \A r \in Runs \ {q} : queue'[r] = queue[r]
    BY <1>1, <1>2, <1>6
  <2>2. Queued(q)' = {new[i] : i \in 1 .. Len(new)}
    BY <2>1 DEF Queued
  <2> QED
    BY SMTT(30), <1>4, <2>1, <2>2
<1> QED
  BY <1>3, <1>5, <1>6

(* The same for the lists of one and of two frames that the code sends.     *)
LEMMA EmittedOne ==
    ASSUME TypeOK, NEW q \in Runs, NEW f \in Frames, Emit(q, <<f>>)
    PROVE  /\ queue' \in [Runs -> Seq(Frames)]
           /\ \A r \in Runs \ {q} : queue'[r] = queue[r]
           /\ Queued(q)' \subseteq Queued(q) \cup {f}
<1>1. <<f>> \in Seq(Frames) /\ \A i \in 1 .. Len(<<f>>) : <<f>>[i] = f
  BY SMTT(30)
<1>2. \A h \in Queued(q)' : h \in Queued(q) \/ \E i \in 1 .. Len(<<f>>) : h = <<f>>[i]
  BY <1>1, Emitted
<1>3. Queued(q)' \subseteq Queued(q) \cup {f}
  BY <1>1, <1>2
<1> QED
  BY <1>1, <1>3, Emitted

(* The same for two frames.                                                 *)
LEMMA EmittedTwo ==
    ASSUME TypeOK, NEW q \in Runs, NEW f \in Frames, NEW g \in Frames, Emit(q, <<f, g>>)
    PROVE  /\ queue' \in [Runs -> Seq(Frames)]
           /\ \A r \in Runs \ {q} : queue'[r] = queue[r]
           /\ Queued(q)' \subseteq Queued(q) \cup {f, g}
<1>1. <<f, g>> \in Seq(Frames) /\ \A i \in 1 .. Len(<<f, g>>) : <<f, g>>[i] \in {f, g}
  BY SMTT(30)
<1>2. \A h \in Queued(q)' : h \in Queued(q) \/ \E i \in 1 .. Len(<<f, g>>) : h = <<f, g>>[i]
  BY <1>1, Emitted
<1>3. Queued(q)' \subseteq Queued(q) \cup {f, g}
  BY <1>1, <1>2
<1> QED
  BY <1>1, <1>3, Emitted

(* The same for none.                                                       *)
LEMMA EmittedNone ==
    ASSUME TypeOK, NEW q \in Runs, Emit(q, <<>>)
    PROVE  /\ queue' \in [Runs -> Seq(Frames)]
           /\ \A r \in Runs \ {q} : queue'[r] = queue[r]
           /\ Queued(q)' \subseteq Queued(q)
<1>1. <<>> \in Seq(Frames) /\ 1 .. Len(<<>>) = {}
  BY SMTT(30)
<1>2. \A h \in Queued(q)' : h \in Queued(q) \/ \E i \in 1 .. Len(<<>>) : h = <<>>[i]
  BY <1>1, Emitted
<1>3. Queued(q)' \subseteq Queued(q)
  BY <1>1, <1>2
<1> QED
  BY <1>1, <1>3, Emitted

(* The frames of a step of the agent say how the run ends.                  *)
LEMMA AgentFrames ==
    ASSUME TypeOK, NEW q \in Runs, AgentStep(q) \/ Expire(q)
    PROVE  /\ queue' \in [Runs -> Seq(Frames)]
           /\ \A r \in Runs \ {q} : queue'[r] = queue[r]
           /\ \A f \in Queued(q)' : f \in Queued(q) \/ Says(f, end'[q])
<1> DEFINE Sent(S) == /\ queue' \in [Runs -> Seq(Frames)]
                      /\ \A r \in Runs \ {q} : queue'[r] = queue[r]
                      /\ Queued(q)' \subseteq Queued(q) \cup S
<1>0. end \in [Runs -> Ends] /\ queue \in [Runs -> Seq(Frames)]
  BY DEF TypeOK
<1>1. \A f \in Frames : Emit(q, <<f>>) => Sent({f})
  BY EmittedOne
<1>2. \A f, g \in Frames : Emit(q, <<f, g>>) => Sent({f, g})
  BY EmittedTwo
<1>3. Emit(q, <<>>) => Sent({})
  BY EmittedNone
<1>4. UNCHANGED queue => Sent({})
  BY <1>0 DEF Queued
<1>5. \A h : \A f \in Passing \cup {"error"} : Says(f, h)
  BY DEF Passing, Says
<1>6. /\ Says("chunk", "completed") /\ Says("session_halt", "halted")
      /\ Says("tool_blocked", "refused") /\ Says("tool_blocked", "blocked")
      /\ Says("approval_required", "paused")
  BY DEF Says
<1>7. /\ Passing \cup {"chunk", "error", "tool_blocked", "session_halt", "approval_required"} = Frames
      /\ Passing = {"runtime_event", "tool_executed", "tool_failed"}
  BY DEF Frames, Passing
<1> SUFFICES \E S : Sent(S) /\ \A f \in S : Says(f, end'[q])
  OBVIOUS
<1> HIDE DEF Sent
<1>8. \A how : end' = [end EXCEPT ![q] = how] => end'[q] = how
  BY <1>0
<1>9. CASE StartRun(q)
  <2>1. Emit(q, <<"runtime_event">>) \/ Emit(q, <<"error">>)
    BY <1>9 DEF StartRun, Finish
  <2>2. Sent({"runtime_event"}) \/ Sent({"error"})
    BY <1>1, <1>7, <2>1
  <2> QED
    BY <1>5, <1>7, <2>2
<1>10. CASE ModelEnds(q)
  <2>1. \/ Emit(q, <<"runtime_event", "chunk">>) /\ end'[q] = "completed"
        \/ Emit(q, <<"runtime_event", "error">>)
        \/ Emit(q, <<"runtime_event", "session_halt">>) /\ end'[q] = "halted"
    BY <1>8, <1>10 DEF ModelEnds, Finish
  <2>2. \/ Sent({"runtime_event", "chunk"}) /\ end'[q] = "completed"
        \/ Sent({"runtime_event", "error"})
        \/ Sent({"runtime_event", "session_halt"}) /\ end'[q] = "halted"
    BY <1>2, <1>7, <2>1
  <2> QED
    BY <1>5, <1>6, <1>7, <2>2
<1>11. CASE ModelAsks(q)
  BY SMTT(30), <1>4, <1>11 DEF ModelAsks
<1>12. CASE Exhausted(q)
  <2>1. Emit(q, <<"runtime_event", "error">>)
    BY <1>12 DEF Exhausted, Finish
  <2>2. Sent({"runtime_event", "error"})
    BY <1>2, <1>7, <2>1
  <2> QED
    BY <1>5, <1>7, <2>2
<1>13. CASE Validate(q)
  <2>1. UNCHANGED queue \/ (Emit(q, <<"tool_blocked">>) /\ end'[q] = "refused")
    BY <1>8, <1>13 DEF Validate, Finish
  <2>2. Sent({}) \/ (Sent({"tool_blocked"}) /\ end'[q] = "refused")
    BY <1>1, <1>4, <1>7, <2>1
  <2> QED
    BY SMTT(30), <1>6, <2>2
<1>14. CASE ReadConnectors(q)
  <2>1. Emit(q, <<"runtime_event">>)
    BY <1>14 DEF ReadConnectors
  <2>2. Sent({"runtime_event"})
    BY <1>1, <1>7, <2>1
  <2> QED
    BY <1>5, <1>7, <2>2
<1>15. CASE CallTool(q)
  <2>1. \/ Emit(q, <<"tool_failed">>)
        \/ Emit(q, <<"tool_executed">>)
        \/ Emit(q, <<"runtime_event", "session_halt">>) /\ end'[q] = "halted"
    BY <1>8, <1>15 DEF CallTool, Finish
  <2>2. \/ Sent({"tool_failed"})
        \/ Sent({"tool_executed"})
        \/ Sent({"runtime_event", "session_halt"}) /\ end'[q] = "halted"
    BY <1>1, <1>2, <1>7, <2>1
  <2> QED
    BY <1>5, <1>6, <1>7, <2>2
<1>16. CASE Govern(q)
  <2>1. \/ Emit(q, <<"runtime_event", "tool_blocked">>) /\ end'[q] = "blocked"
        \/ Emit(q, <<"runtime_event", "approval_required">>) /\ end'[q] = "paused"
    BY <1>8, <1>16 DEF Govern, Finish
  <2>2. \/ Sent({"runtime_event", "tool_blocked"}) /\ end'[q] = "blocked"
        \/ Sent({"runtime_event", "approval_required"}) /\ end'[q] = "paused"
    BY <1>2, <1>7, <2>1
  <2> QED
    BY <1>5, <1>6, <1>7, <2>2
<1>17. CASE Expire(q)
  BY SMTT(30), <1>3, <1>17 DEF Expire, Finish
<1> QED
  BY <1>9, <1>10, <1>11, <1>12, <1>13, <1>14, <1>15, <1>16, <1>17 DEF AgentStep

(* A caller takes the first frame of its run.                               *)
LEMMA Received ==
    ASSUME TypeOK, NEW q \in Runs, NEW f, Recv(q, f)
    PROVE  /\ f \in Queued(q)
           /\ queue' \in [Runs -> Seq(Frames)]
           /\ \A r \in Runs \ {q} : queue'[r] = queue[r]
           /\ Queued(q)' \subseteq Queued(q)
<1>1. queue \in [Runs -> Seq(Frames)] /\ queue[q] \in Seq(Frames) /\ queue[q] # <<>> /\ f = Head(queue[q])
  BY DEF TypeOK, Recv
<1> DEFINE t == Tail(queue[q])
<1>2. /\ t \in Seq(Frames)
      /\ f = queue[q][1]
      /\ Len(queue[q]) \in Nat \ {0}
      /\ Len(t) = Len(queue[q]) - 1
      /\ \A i \in 1 .. Len(t) : t[i] = queue[q][i + 1]
  BY SMTT(30), <1>1
<1>3. queue' = [queue EXCEPT ![q] = t]
  BY DEF Recv
<1> HIDE DEF t
<1>4. queue' \in [Runs -> Seq(Frames)] /\ queue'[q] = t /\ \A r \in Runs \ {q} : queue'[r] = queue[r]
  BY <1>1, <1>2, <1>3
<1>5. Queued(q)' = {t[i] : i \in 1 .. Len(t)}
  BY <1>4 DEF Queued
<1>6. \A i \in 1 .. Len(t) : i + 1 \in 1 .. Len(queue[q])
  BY SMTT(30), <1>2
<1>7. Queued(q)' \subseteq Queued(q)
  BY <1>2, <1>5, <1>6 DEF Queued
<1>8. f \in Queued(q)
  BY SMTT(30), <1>2 DEF Queued
<1> QED
  BY <1>4, <1>7, <1>8
-----------------------------------------------------------------------------
(* Types *)

(* What a caller is told.                                                   *)
LEMMA ToldFacts ==
    /\ Told("chunk") = "ok" /\ Told("error") = "error"
    /\ Told("tool_blocked") = "blocked" /\ Told("session_halt") = "halted"
  BY DEF Told

(* What a step of a caller does.                                            *)
LEMMA CallerFacts ==
    ASSUME TypeOK, NEW q \in Runs, CallerStep(q) \/ Timeout(q)
    PROVE  /\ waits[q] = "waiting"
           /\ UNCHANGED <<cfg, runVars, kind, link>>
           /\ conn' \in {conn, conn + 1}
           /\ queue' \in [Runs -> Seq(Frames)]
           /\ \A r \in Runs \ {q} : queue'[r] = queue[r]
           /\ Queued(q)' \subseteq Queued(q)
           /\ \/ UNCHANGED <<waits, outcome, rows, faults>>
              \/ /\ rows' = rows \/ (rows' = rows \cup {q} /\ "approval_required" \in Queued(q))
                 /\ faults' = faults \/ Fault
                 /\ \E what \in {"ok", "error", "blocked", "halted", "approval", "unexpected", "failed"} :
                      /\ Answer(q, what)
                      /\ what = "ok" => "chunk" \in Queued(q)
                      /\ what = "blocked" => "tool_blocked" \in Queued(q)
                      /\ what = "halted" => "session_halt" \in Queued(q)
                      /\ what = "approval" => "approval_required" \in Queued(q) /\ rows' = rows \cup {q}
                      /\ rows' # rows => what = "approval"
<1>0. queue \in [Runs -> Seq(Frames)]
  BY DEF TypeOK
<1>1. CASE RecvFails(q) \/ Timeout(q)
  <2>1. /\ waits[q] = "waiting" /\ UNCHANGED <<cfg, runVars, kind, link, queue, rows, faults>>
        /\ Answer(q, "failed") /\ conn' \in {conn, conn + 1}
    BY <1>1 DEF RecvFails, Timeout, Remove
  <2> QED
    BY <1>0, <2>1 DEF Queued
<1>2. ASSUME NEW f, Recv(q, f)
      PROVE  /\ waits[q] = "waiting" /\ UNCHANGED <<cfg, runVars, kind, link>>
             /\ queue' \in [Runs -> Seq(Frames)]
             /\ \A r \in Runs \ {q} : queue'[r] = queue[r]
             /\ Queued(q)' \subseteq Queued(q) /\ f \in Queued(q)
  BY <1>2, Received DEF Recv
<1>3. ASSUME NEW f, Recv(q, f), KeepWaiting
      PROVE  conn' \in {conn, conn + 1} /\ UNCHANGED <<waits, outcome, rows, faults>>
  BY <1>3 DEF KeepWaiting
<1>4. ASSUME NEW f \in {"chunk", "error", "tool_blocked", "session_halt"}, Recv(q, f), Answer(q, Told(f))
      PROVE  \E what \in {"ok", "error", "blocked", "halted", "approval", "unexpected", "failed"} :
                /\ Answer(q, what)
                /\ what = "ok" => "chunk" \in Queued(q)
                /\ what = "blocked" => "tool_blocked" \in Queued(q)
                /\ what = "halted" => "session_halt" \in Queued(q)
                /\ what # "approval"
  <2>1. f \in Queued(q)
    BY <1>2, <1>4
  <2> QED
    BY <1>4, <2>1, ToldFacts
<1>5. CASE MessageRecv(q) \/ StreamRecv(q)
  <2>1. PICK f : Recv(q, f) /\ \/ KeepWaiting
                               \/ f = "approval_required" /\ Persist(q)
                               \/ f \in {"chunk", "error", "tool_blocked", "session_halt"} /\ EndOfWait(q, f)
    BY <1>5 DEF MessageRecv, StreamRecv, HttpRecv
  <2>2. CASE KeepWaiting
    BY <1>2, <1>3, <2>1, <2>2
  <2>3. CASE f = "approval_required" /\ Persist(q)
    <3>1. /\ conn' = conn
          /\ \/ rows' = rows \cup {q} /\ Answer(q, "approval") /\ faults' = faults
             \/ Fault /\ Answer(q, "error") /\ rows' = rows
      BY <2>3 DEF Persist
    <3> QED
      BY <1>2, <2>1, <2>3, <3>1
  <2>4. CASE f \in {"chunk", "error", "tool_blocked", "session_halt"} /\ EndOfWait(q, f)
    <3>1. Answer(q, Told(f)) /\ rows' = rows /\ faults' = faults /\ conn' \in {conn, conn + 1}
      BY <2>4 DEF EndOfWait, Remove
    <3> QED
      BY <1>2, <1>4, <2>1, <2>4, <3>1
  <2> QED
    BY <2>1, <2>2, <2>3, <2>4
<1>6. CASE RelayRecv(q)
  <2>1. PICK f : Recv(q, f) /\ \/ KeepWaiting
                               \/ /\ f \in {"chunk", "error", "session_halt"}
                                  /\ Answer(q, Told(f)) /\ UNCHANGED <<conn, rows, faults>>
    BY <1>6 DEF RelayRecv
  <2>2. CASE KeepWaiting
    BY <1>2, <1>3, <2>1, <2>2
  <2>3. CASE f \in {"chunk", "error", "session_halt"} /\ Answer(q, Told(f)) /\ UNCHANGED <<conn, rows, faults>>
    BY <1>2, <1>4, <2>1, <2>3
  <2> QED
    BY <2>1, <2>2, <2>3
<1>7. CASE ChannelRecv(q)
  <2>1. PICK f : Recv(q, f) /\ \/ f \in {"chunk", "error", "tool_blocked", "session_halt"} /\ EndOfWait(q, f)
                               \/ Answer(q, "unexpected") /\ Remove /\ UNCHANGED <<rows, faults>>
    BY <1>7 DEF ChannelRecv
  <2>2. CASE f \in {"chunk", "error", "tool_blocked", "session_halt"} /\ EndOfWait(q, f)
    <3>1. Answer(q, Told(f)) /\ rows' = rows /\ faults' = faults /\ conn' \in {conn, conn + 1}
      BY <2>2 DEF EndOfWait, Remove
    <3> QED
      BY <1>2, <1>4, <2>1, <2>2, <3>1
  <2>3. CASE Answer(q, "unexpected") /\ Remove /\ UNCHANGED <<rows, faults>>
    <3>1. conn' = conn + 1
      BY <2>3 DEF Remove
    <3> QED
      BY <1>2, <2>1, <2>3, <3>1
  <2> QED
    BY <2>1, <2>2, <2>3
<1> QED
  BY <1>1, <1>5, <1>6, <1>7 DEF CallerStep

(* What a step of the agent in run q assigns.                               *)
LEMMA AgentShape ==
    ASSUME TypeOK, NEW q \in Runs, AgentStep(q) \/ Expire(q)
    PROVE  /\ UNCHANGED <<cfg, callerVars, conn, rows>> /\ (faults' = faults \/ Fault)
           /\ at[q] \in {"sent", "model", "validate", "call"}
           /\ \E l \in {at[q], "model", "validate", "call", "over"} : at' = [at EXCEPT ![q] = l]
           /\ \/ end' = end
              \/ \E how \in {"completed", "failed", "halted", "refused", "blocked", "paused", "expired"} :
                   end' = [end EXCEPT ![q] = how] /\ at' = [at EXCEPT ![q] = "over"]
           /\ iter' = iter \/ (iter' = [iter EXCEPT ![q] = @ + 1] /\ Room(q))
           /\ calls' = calls \/ \E ts \in Wants[q] : calls' = [calls EXCEPT ![q] = ts]
           /\ pos' = pos \/ pos' = [pos EXCEPT ![q] = @ + 1] \/ pos' = [pos EXCEPT ![q] = 1]
           /\ asked' = asked \/ asked' = [asked EXCEPT ![q] = cfg]
           /\ snap' = snap \/ snap' = [snap EXCEPT ![q] = cfg]
           /\ \/ checked' = checked
              \/ checked' = [checked EXCEPT ![q] = <<>>]
              \/ checked' = [checked EXCEPT ![q] = Append(checked[q], cfg)]
           /\ made' = made \/ made' = [made EXCEPT ![q] = {}] \/ Make(q)
<1>1. UNCHANGED <<cfg, callerVars, conn, rows>> /\ (faults' = faults \/ Fault)
  BY DEF AgentStep, StartRun, ModelEnds, ModelAsks, Exhausted, Validate, ReadConnectors,
      CallTool, Govern, Expire
<1>2. at[q] \in {"sent", "model", "validate", "call"}
  BY DEF AgentStep, StartRun, ModelEnds, ModelAsks, Exhausted, Validate, ReadConnectors,
      CallTool, Govern, Expire
<1>3. \E l \in {at[q], "model", "validate", "call", "over"} : at' = [at EXCEPT ![q] = l]
  BY DEF TypeOK, AgentStep, StartRun, ModelEnds, ModelAsks, Exhausted, Validate, ReadConnectors,
      CallTool, Govern, Expire, Finish, Goto, NextCall
<1>4. \/ end' = end
      \/ \E how \in {"completed", "failed", "halted", "refused", "blocked", "paused", "expired"} :
           end' = [end EXCEPT ![q] = how] /\ at' = [at EXCEPT ![q] = "over"]
  BY DEF AgentStep, StartRun, ModelEnds, ModelAsks, Exhausted, Validate, ReadConnectors,
      CallTool, Govern, Expire, Finish, Goto, NextCall
<1>5. /\ iter' = iter \/ (iter' = [iter EXCEPT ![q] = @ + 1] /\ Room(q))
      /\ calls' = calls \/ \E ts \in Wants[q] : calls' = [calls EXCEPT ![q] = ts]
  BY DEF AgentStep, StartRun, ModelEnds, ModelAsks, Exhausted, Validate, ReadConnectors,
      CallTool, Govern, Expire
<1>6. /\ pos' = pos \/ pos' = [pos EXCEPT ![q] = @ + 1] \/ pos' = [pos EXCEPT ![q] = 1]
      /\ asked' = asked \/ asked' = [asked EXCEPT ![q] = cfg]
      /\ snap' = snap \/ snap' = [snap EXCEPT ![q] = cfg]
  BY DEF AgentStep, StartRun, ModelEnds, ModelAsks, Exhausted, Validate, ReadConnectors,
      CallTool, Govern, Expire, NextCall
<1>7. /\ \/ checked' = checked
         \/ checked' = [checked EXCEPT ![q] = <<>>]
         \/ checked' = [checked EXCEPT ![q] = Append(checked[q], cfg)]
      /\ made' = made \/ made' = [made EXCEPT ![q] = {}] \/ Make(q)
  BY DEF AgentStep, StartRun, ModelEnds, ModelAsks, Exhausted, Validate, ReadConnectors,
      CallTool, Govern, Expire
<1> QED
  BY <1>1, <1>2, <1>3, <1>4, <1>5, <1>6, <1>7

(* Every step keeps the types.                                              *)
LEMMA RuntimeTypes ==
    ASSUME TypeOK, Next
    PROVE  TypeOK'
<1>0. /\ Len(Config) \in Nat \ {0} /\ MaxIterations \in Nat \ {0} /\ MaxFaults \in Nat
      /\ Wants \in [Runs -> SUBSET Seq(Tools)]
  BY SMTT(30), ConstantsAssumption
<1>1. CASE ConfigUpdate
  <2>1. cfg' \in Versions
    BY SMTT(30), <1>0, <1>1 DEF TypeOK, ConfigUpdate, Versions
  <2> QED
    BY <1>1, <2>1 DEF TypeOK, ConfigUpdate, runVars, callerVars
<1>2. CASE Lose
  BY SMTT(30), <1>0, <1>2 DEF TypeOK, Lose, Fault, Remove, runVars, callerVars
<1>3. ASSUME NEW q \in Runs, Refuse(q) PROVE TypeOK'
  BY <1>3 DEF TypeOK, Refuse, Answer, runVars
<1>4. ASSUME NEW q \in Runs, NEW k \in {"message", "stream", "ws", "channel"}, Send(q, k) PROVE TypeOK'
  BY <1>4 DEF TypeOK, Send, Goto
<1>5. ASSUME NEW q \in Runs, CallerStep(q) \/ Timeout(q) PROVE TypeOK'
  <2>1. /\ UNCHANGED <<cfg, runVars, kind, link>>
        /\ conn' \in {conn, conn + 1}
        /\ queue' \in [Runs -> Seq(Frames)]
        /\ rows' \subseteq rows \cup {q}
        /\ faults' = faults \/ Fault
        /\ \/ UNCHANGED <<waits, outcome>>
           \/ \E what \in {"ok", "error", "blocked", "halted", "approval", "unexpected", "failed"} :
                Answer(q, what)
    BY <1>5, CallerFacts
  <2>2. conn' \in Nat \ {0} /\ rows' \subseteq Runs /\ faults' \in 0 .. MaxFaults
    BY SMTT(30), <1>0, <2>1 DEF TypeOK, Fault
  <2>3. /\ waits' \in [Runs -> {"no", "waiting", "done"}]
        /\ outcome' \in [Runs -> {"none", "refused", "ok", "error", "blocked", "halted",
                                  "approval", "unexpected", "failed"}]
    <3>1. /\ waits \in [Runs -> {"no", "waiting", "done"}]
          /\ outcome \in [Runs -> {"none", "refused", "ok", "error", "blocked", "halted",
                                   "approval", "unexpected", "failed"}]
      BY DEF TypeOK
    <3> QED
      BY <2>1, <3>1 DEF Answer
  <2> QED
    BY <2>1, <2>2, <2>3 DEF TypeOK, runVars
<1>6. ASSUME NEW q \in Runs, AgentStep(q) \/ Expire(q) PROVE TypeOK'
  <2>1. queue' \in [Runs -> Seq(Frames)]
    BY <1>6, AgentFrames
  <2>2. UNCHANGED <<cfg, callerVars, conn, rows>> /\ (faults' = faults \/ Fault)
    BY <1>6, AgentShape
  <2>3. /\ at' \in [Runs -> {"idle", "sent", "model", "validate", "call", "over"}]
        /\ end' \in [Runs -> Ends]
    <3>1. \E l \in {at[q], "model", "validate", "call", "over"} : at' = [at EXCEPT ![q] = l]
      BY <1>6, AgentShape
    <3>2. \/ end' = end
          \/ \E how \in {"completed", "failed", "halted", "refused", "blocked", "paused", "expired"} :
               end' = [end EXCEPT ![q] = how]
      BY <1>6, AgentShape
    <3> QED
      <4>1. /\ at \in [Runs -> {"idle", "sent", "model", "validate", "call", "over"}]
            /\ end \in [Runs -> Ends]
        BY DEF TypeOK
      <4> QED
        BY SMTT(30), <3>1, <3>2, <4>1 DEF Ends
  <2>4. iter' \in [Runs -> 0 .. MaxIterations]
    <3>1. iter' = iter \/ (iter' = [iter EXCEPT ![q] = @ + 1] /\ Room(q))
      BY <1>6, AgentShape
    <3> QED
      <4>1. iter \in [Runs -> 0 .. MaxIterations]
        BY DEF TypeOK
      <4> QED
        BY SMTT(30), <1>0, <3>1, <4>1 DEF Room
  <2>5. calls' \in [Runs -> Seq(Tools)]
    <3>1. calls' = calls \/ \E ts \in Wants[q] : calls' = [calls EXCEPT ![q] = ts]
      BY <1>6, AgentShape
    <3>2. calls \in [Runs -> Seq(Tools)] /\ \A ts \in Wants[q] : ts \in Seq(Tools)
      BY <1>0 DEF TypeOK
    <3> QED
      BY <3>1, <3>2
  <2>6. pos' \in [Runs -> Nat \ {0}]
    <3>1. pos' = pos \/ pos' = [pos EXCEPT ![q] = @ + 1] \/ pos' = [pos EXCEPT ![q] = 1]
      BY <1>6, AgentShape
    <3> QED
      <4>1. pos \in [Runs -> Nat \ {0}]
        BY DEF TypeOK
      <4> QED
        BY SMTT(30), <3>1, <4>1
  <2>7. asked' \in [Runs -> Versions] /\ snap' \in [Runs -> Versions]
    <3>1. asked' = asked \/ asked' = [asked EXCEPT ![q] = cfg]
      BY <1>6, AgentShape
    <3>2. snap' = snap \/ snap' = [snap EXCEPT ![q] = cfg]
      BY <1>6, AgentShape
    <3> QED
      <4>1. asked \in [Runs -> Versions] /\ snap \in [Runs -> Versions] /\ cfg \in Versions
        BY DEF TypeOK
      <4> QED
        BY <3>1, <3>2, <4>1
  <2>8. checked' \in [Runs -> Seq(Versions)]
    <3>1. \/ checked' = checked
          \/ checked' = [checked EXCEPT ![q] = <<>>]
          \/ checked' = [checked EXCEPT ![q] = Append(checked[q], cfg)]
      BY <1>6, AgentShape
    <3>2. /\ checked \in [Runs -> Seq(Versions)] /\ cfg \in Versions
          /\ <<>> \in Seq(Versions)
      BY SMTT(30) DEF TypeOK
    <3>3. Append(checked[q], cfg) \in Seq(Versions)
      BY SMTT(30), <3>2
    <3> QED
      BY <3>1, <3>2, <3>3
  <2>9. made' \in [Runs -> SUBSET (Nat \ {0})]
    <3>1. made' = made \/ made' = [made EXCEPT ![q] = {}] \/ Make(q)
      BY <1>6, AgentShape
    <3> QED
      <4>1. made \in [Runs -> SUBSET (Nat \ {0})] /\ pos[q] \in Nat \ {0}
        BY DEF TypeOK
      <4> QED
        BY <3>1, <4>1 DEF Make
  <2>10. faults' \in 0 .. MaxFaults
    BY SMTT(30), <1>0, <2>2 DEF TypeOK, Fault
  <2> QED
    BY <2>1, <2>2, <2>3, <2>4, <2>5, <2>6, <2>7, <2>8, <2>9, <2>10 DEF TypeOK, callerVars
<1> QED
  BY <1>1, <1>2, <1>3, <1>4, <1>5, <1>6
  DEF Next, HandleMessage, HandleStream, RunWebSocketRelay, DispatchChannelMessage
-----------------------------------------------------------------------------
(* One run *)

(* The types of what belongs to one run.                                    *)
LEMMA RunTypes ==
    ASSUME TypeOK, NEW q \in Runs
    PROVE  /\ calls[q] \in Seq(Tools) /\ Len(calls[q]) \in Nat
           /\ checked[q] \in Seq(Versions) /\ Len(checked[q]) \in Nat
           /\ pos[q] \in Nat \ {0} /\ made[q] \subseteq Nat \ {0}
           /\ asked[q] \in Nat /\ snap[q] \in Nat /\ cfg \in Nat /\ cfg \in Versions
<1>1. calls[q] \in Seq(Tools) /\ checked[q] \in Seq(Versions)
  BY DEF TypeOK
<1>2. Len(calls[q]) \in Nat /\ Len(checked[q]) \in Nat
  BY SMTT(30), <1>1
<1>3. pos[q] \in Nat \ {0} /\ made[q] \subseteq Nat \ {0}
  BY DEF TypeOK
<1>4. asked[q] \in Versions /\ snap[q] \in Versions /\ cfg \in Versions
  BY DEF TypeOK
<1>5. Versions \subseteq Nat
  BY SMTT(30), ConstantsAssumption DEF Versions
<1> QED
  BY <1>1, <1>2, <1>3, <1>4, <1>5

(* A later configuration takes nothing back.                                *)
LEMMA SinceGrows ==
    ASSUME NEW q \in Runs, asked[q] \in Nat, cfg \in Nat, cfg' \in Nat, cfg <= cfg', asked'[q] = asked[q]
    PROVE  Since(q) \subseteq Since(q)'
  BY SMTT(30) DEF Since

(* A run that does not move keeps its facts when a configuration is pushed. *)
LEMMA StillKeeps ==
    ASSUME TypeOK, NEW q \in Runs, RunOK(q), Still(q), cfg' \in Nat, cfg <= cfg'
    PROVE  RunOK(q)'
<1>1. Since(q) \subseteq Since(q)' /\ asked'[q] <= cfg'
  <2>1. asked[q] \in Nat /\ cfg \in Nat /\ asked[q] <= cfg /\ asked'[q] = asked[q]
    BY RunTypes DEF Still, RunOK, Validated
  <2> QED
    BY SMTT(30), <2>1, SinceGrows
<1>2. Validated(q)'
  BY <1>1 DEF RunOK, Validated, Still, Allowed
<1>3. Made(q)'
  BY <1>1 DEF RunOK, Made, Still
<1>4. Ended(q)'
  <2>1. Queued(q)' = Queued(q)
    BY DEF Queued, Still
  <2> QED
    BY <2>1 DEF RunOK, Ended, Still, Says
<1>5. Honest(q)'
  BY DEF RunOK, Honest, Still
<1> QED
  BY <1>2, <1>3, <1>4, <1>5 DEF RunOK

(* A step of the agent in one run leaves the others alone.                  *)
LEMMA AgentOthers ==
    ASSUME TypeOK, NEW q \in Runs, AgentStep(q) \/ Expire(q), NEW r \in Runs \ {q}
    PROVE  Still(r)
<1>1. at'[r] = at[r] /\ end'[r] = end[r]
  <2>1. at \in [Runs -> {"idle", "sent", "model", "validate", "call", "over"}] /\ end \in [Runs -> Ends]
    BY DEF TypeOK
  <2>2. /\ \E l : at' = [at EXCEPT ![q] = l]
        /\ end' = end \/ \E how : end' = [end EXCEPT ![q] = how]
    BY SMTT(30), AgentShape
  <2> QED
    BY <2>1, <2>2
<1>2. calls'[r] = calls[r] /\ checked'[r] = checked[r]
  <2>1. calls \in [Runs -> Seq(Tools)] /\ checked \in [Runs -> Seq(Versions)]
    BY DEF TypeOK
  <2>2. /\ calls' = calls \/ \E ts : calls' = [calls EXCEPT ![q] = ts]
        /\ checked' = checked \/ \E vs : checked' = [checked EXCEPT ![q] = vs]
    BY SMTT(30), AgentShape
  <2> QED
    BY <2>1, <2>2
<1>3. pos'[r] = pos[r] /\ asked'[r] = asked[r] /\ snap'[r] = snap[r] /\ made'[r] = made[r]
  <2>1. /\ pos \in [Runs -> Nat \ {0}] /\ asked \in [Runs -> Versions] /\ snap \in [Runs -> Versions]
        /\ made \in [Runs -> SUBSET (Nat \ {0})]
    BY DEF TypeOK
  <2>2. /\ pos' = pos \/ pos' = [pos EXCEPT ![q] = @ + 1] \/ pos' = [pos EXCEPT ![q] = 1]
        /\ asked' = asked \/ asked' = [asked EXCEPT ![q] = cfg]
        /\ snap' = snap \/ snap' = [snap EXCEPT ![q] = cfg]
        /\ made' = made \/ made' = [made EXCEPT ![q] = {}] \/ made' = [made EXCEPT ![q] = @ \cup {pos[q]}]
    BY AgentShape DEF Make
  <2> QED
    BY <2>1, <2>2
<1>4. queue'[r] = queue[r]
  BY AgentFrames
<1>5. waits' = waits /\ outcome' = outcome /\ rows' = rows
  BY AgentShape DEF callerVars
<1> QED
  BY <1>1, <1>2, <1>3, <1>4, <1>5 DEF Still

(* The tool loop validates in turn, against the configuration it has.       *)
LEMMA AgentValidated ==
    ASSUME TypeOK, NEW q \in Runs, RunOK(q), AgentStep(q) \/ Expire(q)
    PROVE  Validated(q)'
<1>0. Validated(q)
  BY DEF RunOK
<1>1. cfg' = cfg
  BY AgentShape
<1>2. CASE UNCHANGED <<asked, checked, calls>>
  BY <1>0, <1>1, <1>2 DEF Validated, Since, Allowed
<1>3. CASE ModelAsks(q)
  <2>1. /\ asked \in [Runs -> Versions] /\ checked \in [Runs -> Seq(Versions)] /\ calls \in [Runs -> Seq(Tools)]
        /\ asked' = [asked EXCEPT ![q] = cfg] /\ checked' = [checked EXCEPT ![q] = <<>>]
        /\ \E ts \in Wants[q] : calls' = [calls EXCEPT ![q] = ts]
    BY <1>3 DEF TypeOK, ModelAsks
  <2>2. asked'[q] = cfg /\ checked'[q] = <<>> /\ calls'[q] \in Seq(Tools)
    BY <2>1, ConstantsAssumption
  <2>3. Len(<<>>) = 0 /\ Len(calls'[q]) \in Nat
    BY SMTT(30), <2>2
  <2>4. cfg \in Nat
    BY RunTypes
  <2> QED
    BY SMTT(30), <1>1, <2>2, <2>3, <2>4 DEF Validated
<1>4. CASE Validate(q) /\ checked' # checked
  <2>1. /\ checked \in [Runs -> Seq(Versions)] /\ checked' = [checked EXCEPT ![q] = Append(@, cfg)]
        /\ Allowed(cfg, calls[q][Len(checked[q]) + 1]) /\ Len(checked[q]) < Len(calls[q])
        /\ UNCHANGED <<asked, calls>>
    BY <1>4 DEF TypeOK, Validate
  <2>2. checked'[q] = Append(checked[q], cfg)
    BY <2>1
  <2>3. /\ Len(checked'[q]) = Len(checked[q]) + 1
        /\ checked'[q][Len(checked[q]) + 1] = cfg
        /\ \A i \in 1 .. Len(checked[q]) : checked'[q][i] = checked[q][i]
        /\ Len(checked[q]) \in Nat /\ Len(calls[q]) \in Nat /\ cfg \in Nat /\ asked[q] \in Nat
    <3>1. checked[q] \in Seq(Versions) /\ cfg \in Versions
      BY RunTypes
    <3>2. /\ Len(checked[q]) \in Nat /\ Len(calls[q]) \in Nat
          /\ cfg \in Nat /\ asked[q] \in Nat
      BY RunTypes
    <3> QED
      BY SMTT(30), <2>2, <3>1, <3>2
  <2>4. cfg \in Since(q)
    BY SMTT(30), <1>0, <2>3 DEF Validated, Since
  <2>5. Since(q)' = Since(q)
    BY <1>1, <2>1 DEF Since
  <2>6. \A i \in 1 .. Len(checked[q]) : checked[q][i] \in Since(q) /\ Allowed(checked[q][i], calls[q][i])
    BY <1>0 DEF Validated
  <2>7. \A i \in 1 .. Len(checked'[q]) : i \in 1 .. Len(checked[q]) \/ i = Len(checked[q]) + 1
    BY SMTT(30), <2>3
  <2>8. \A i \in 1 .. Len(checked'[q]) :
           checked'[q][i] \in Since(q) /\ Allowed(checked'[q][i], calls[q][i])
    BY <2>1, <2>3, <2>4, <2>6, <2>7
  <2>9. asked'[q] <= cfg' /\ Len(checked'[q]) <= Len(calls'[q])
    BY SMTT(30), <1>0, <1>1, <2>1, <2>3 DEF Validated
  <2> QED
    BY <2>1, <2>5, <2>8, <2>9 DEF Validated, Allowed
<1> QED
  BY <1>2, <1>3, <1>4
  DEF AgentStep, StartRun, ModelEnds, Exhausted, Validate, ReadConnectors, CallTool, Govern, Expire

(* It calls only what is validated and not governed.                        *)
LEMMA AgentMade ==
    ASSUME TypeOK, NEW q \in Runs, RunOK(q), AgentStep(q) \/ Expire(q)
    PROVE  Made(q)'
<1>0. Made(q) /\ Validated(q)
  BY DEF RunOK
<1>1. cfg' = cfg
  BY AgentShape
<1>2. at \in [Runs -> {"idle", "sent", "model", "validate", "call", "over"}]
  BY DEF TypeOK
<1>3. ASSUME UNCHANGED <<asked, calls, pos, checked, snap, made>>, at'[q] \in {"model", "over"} PROVE Made(q)'
  BY <1>0, <1>1, <1>3 DEF Made, Since
<1>4. CASE StartRun(q) \/ ModelEnds(q) \/ Exhausted(q) \/ Govern(q) \/ Expire(q)
  <2>1. UNCHANGED <<asked, calls, pos, checked, snap, made>>
    BY <1>4 DEF StartRun, ModelEnds, Exhausted, Govern, Expire
  <2>2. \E l \in {"model", "over"} : at' = [at EXCEPT ![q] = l]
    BY <1>4 DEF StartRun, ModelEnds, Exhausted, Govern, Expire, Finish, Goto
  <2> QED
    BY <1>2, <1>3, <2>1, <2>2
<1>5. CASE Validate(q)
  <2>1. at[q] = "validate" /\ UNCHANGED <<asked, calls, pos, snap, made>>
    BY <1>5 DEF Validate
  <2>2. calls[q] # <<>> /\ made[q] = {}
    BY <1>0, <2>1 DEF Made
  <2>3. at'[q] \in {"validate", "over"}
    BY <1>2, <1>5 DEF Validate, Finish, Goto
  <2> QED
    BY <2>1, <2>2, <2>3 DEF Made
<1>6. CASE ModelAsks(q)
  <2>1. /\ calls \in [Runs -> Seq(Tools)] /\ made \in [Runs -> SUBSET (Nat \ {0})]
        /\ \E ts \in Wants[q] : calls' = [calls EXCEPT ![q] = ts]
        /\ made' = [made EXCEPT ![q] = {}] /\ at' = [at EXCEPT ![q] = "validate"]
    BY <1>6 DEF TypeOK, ModelAsks, Goto
  <2>2. calls'[q] # <<>> /\ made'[q] = {} /\ at'[q] = "validate"
    BY <1>2, <2>1, ConstantsAssumption
  <2> QED
    BY <2>2 DEF Made
<1>7. CASE ReadConnectors(q)
  <2>1. /\ snap \in [Runs -> Versions] /\ pos \in [Runs -> Nat \ {0}]
        /\ snap' = [snap EXCEPT ![q] = cfg] /\ pos' = [pos EXCEPT ![q] = 1] /\ at' = [at EXCEPT ![q] = "call"]
    BY <1>7 DEF TypeOK, ReadConnectors, Goto
  <2>2. snap'[q] = cfg /\ pos'[q] = 1 /\ at'[q] = "call"
    BY <1>2, <2>1
  <2>3. at[q] = "validate" /\ Len(checked[q]) = Len(calls[q]) /\ UNCHANGED <<asked, calls, checked, made>>
    BY <1>7 DEF ReadConnectors
  <2>4. made[q] = {} /\ calls[q] # <<>>
    BY <1>0, <2>3 DEF Made
  <2>5. Len(calls[q]) \in Nat /\ 1 <= Len(calls[q])
    <3>1. calls[q] \in Seq(Tools)
      BY RunTypes
    <3> QED
      BY SMTT(30), <2>4, <3>1
  <2>6. cfg \in Since(q)'
    <3>1. asked[q] \in Nat /\ cfg \in Nat /\ asked[q] <= cfg
      BY <1>0, RunTypes DEF Validated
    <3> QED
      BY SMTT(30), <1>1, <2>3, <3>1 DEF Since
  <2> QED
    BY <2>2, <2>3, <2>4, <2>5, <2>6 DEF Made
<1>8. CASE CallTool(q)
  <2>1. at[q] = "call" /\ UNCHANGED <<asked, calls, checked, snap>>
    BY <1>8 DEF CallTool
  <2>2. /\ Len(checked[q]) = Len(calls[q]) /\ snap[q] \in Since(q)
        /\ pos[q] <= Len(calls[q]) /\ \A i \in made[q] : i < pos[q]
        /\ \A i \in made[q] : /\ i <= Len(calls[q])
                             /\ calls[q][i] \in Config[snap[q]].serves
                             /\ Config[snap[q]].rule[calls[q][i]] = "none"
    BY <1>0, <2>1 DEF Made
  <2>3. /\ made \in [Runs -> SUBSET (Nat \ {0})] /\ pos \in [Runs -> Nat \ {0}]
        /\ made' = made \/ made' = [made EXCEPT ![q] = @ \cup {pos[q]}]
    BY <1>8 DEF TypeOK, CallTool, Make
  <2>4. made'[q] # made[q] => /\ calls[q][pos[q]] \in Config[snap[q]].serves
                            /\ Config[snap[q]].rule[calls[q][pos[q]]] = "none"
    BY <1>8 DEF CallTool, Rule, Call, Conns
  <2>5. made'[q] = made[q] \/ made'[q] = made[q] \cup {pos[q]}
    BY <2>3
  <2>6. \/ /\ pos' = [pos EXCEPT ![q] = @ + 1]
           /\ at' = [at EXCEPT ![q] = IF pos[q] < Len(calls[q]) THEN "call" ELSE "model"]
        \/ at' = [at EXCEPT ![q] = "over"]
    BY <1>8 DEF CallTool, NextCall, Goto, Finish
  <2>7. at'[q] = "call" => pos'[q] = pos[q] + 1 /\ pos[q] < Len(calls[q])
    BY <1>2, <2>3, <2>6
  <2>8. at'[q] \in {"call", "model", "over"}
    BY <1>2, <2>6
  <2>9. at'[q] = "call" => pos'[q] <= Len(calls[q]) /\ \A i \in made'[q] : i < pos'[q]
    BY SMTT(30), <2>2, <2>5, <2>7, RunTypes
  <2>10. Since(q)' = Since(q)
    BY <1>1, <2>1 DEF Since
  <2> QED
    BY <2>1, <2>2, <2>4, <2>5, <2>8, <2>9, <2>10 DEF Made
<1> QED
  BY <1>4, <1>5, <1>6, <1>7, <1>8 DEF AgentStep

(* It ends once, and the frames it sends then say how.                      *)
LEMMA AgentEnded ==
    ASSUME TypeOK, NEW q \in Runs, RunOK(q), AgentStep(q) \/ Expire(q)
    PROVE  Ended(q)'
<1>0. Made(q) /\ Ended(q)
  BY DEF RunOK
<1>1. /\ at \in [Runs -> {"idle", "sent", "model", "validate", "call", "over"}]
      /\ end \in [Runs -> Ends] /\ made \in [Runs -> SUBSET (Nat \ {0})]
      /\ pos \in [Runs -> Nat \ {0}]
  BY DEF TypeOK
<1>2. at[q] \in {"sent", "model", "validate", "call"} /\ end[q] = "none"
  BY <1>0, AgentShape DEF Ended
<1>3. at'[q] # "idle" /\ (at'[q] # "over" => end'[q] = "none")
  <2>1. /\ \E l \in {at[q], "model", "validate", "call", "over"} : at' = [at EXCEPT ![q] = l]
        /\ \/ end' = end
           \/ \E how : end' = [end EXCEPT ![q] = how] /\ at' = [at EXCEPT ![q] = "over"]
    BY AgentShape
  <2> QED
    BY <1>1, <1>2, <2>1
<1>4. waits' = waits /\ outcome' = outcome /\ rows' = rows
  BY AgentShape DEF callerVars
<1>5. waits[q] # "no"
  BY <1>0, <1>2 DEF Ended
<1>6. \A f \in Queued(q)' : Says(f, end'[q])
  <2>1. \A f \in Queued(q) : Says(f, "none")
    BY <1>0, <1>2 DEF Ended
  <2>2. \A f : Says(f, "none") => Says(f, end'[q])
    BY DEF Says
  <2> QED
    BY <2>1, <2>2, AgentFrames
<1>7. end'[q] = "refused" => made'[q] = {}
  <2>1. end'[q] = "refused" => Validate(q)
    <3>1. ASSUME ~Validate(q), end'[q] = "refused" PROVE FALSE
      <4>1. \/ end' = end
            \/ \E how \in {"completed", "failed", "halted", "blocked", "paused", "expired"} :
                 end' = [end EXCEPT ![q] = how]
        BY <3>1 DEF AgentStep, StartRun, ModelEnds, ModelAsks, Exhausted, ReadConnectors, CallTool,
                    Govern,
                    Expire, Finish, NextCall
      <4> QED
        BY <1>1, <1>2, <3>1, <4>1
    <3> QED
      BY <3>1
  <2>2. Validate(q) => made'[q] = {}
    BY <1>0 DEF Validate, Made
  <2> QED
    BY <2>1, <2>2
<1>8. end'[q] \in {"blocked", "paused"} => \A i \in made'[q] : i < pos'[q]
  <2>1. end'[q] \in {"blocked", "paused"} => Govern(q)
    <3>1. ASSUME ~Govern(q), end'[q] \in {"blocked", "paused"} PROVE FALSE
      <4>1. \/ end' = end
            \/ \E how \in {"completed", "failed", "halted", "refused", "expired"} :
                 end' = [end EXCEPT ![q] = how]
        BY <3>1 DEF AgentStep, StartRun, ModelEnds, ModelAsks, Exhausted, ReadConnectors, CallTool,
                    Validate,
                    Expire, Finish, NextCall
      <4> QED
        BY <1>1, <1>2, <3>1, <4>1
    <3> QED
      BY <3>1
  <2>2. Govern(q) => UNCHANGED <<made, pos>> /\ \A i \in made[q] : i < pos[q]
    BY <1>0 DEF Govern, Made
  <2> QED
    BY <2>1, <2>2
<1> QED
  BY <1>0, <1>3, <1>4, <1>5, <1>6, <1>7, <1>8 DEF Ended

(* It tells the caller nothing but by frames.                               *)
LEMMA AgentHonest ==
    ASSUME TypeOK, NEW q \in Runs, RunOK(q), AgentStep(q) \/ Expire(q)
    PROVE  Honest(q)'
<1>1. end[q] = "none" /\ outcome' = outcome /\ rows' = rows
  BY AgentShape DEF RunOK, Ended, callerVars
<1> QED
  BY <1>1 DEF RunOK, Honest

(* A caller that is told how the run ended is told what its frames said.    *)
LEMMA CallerKeeps ==
    ASSUME TypeOK, NEW q \in Runs, NEW r \in Runs, RunOK(r), CallerStep(q) \/ Timeout(q)
    PROVE  RunOK(r)'
<1>0. /\ waits \in [Runs -> {"no", "waiting", "done"}]
      /\ outcome \in [Runs -> {"none", "refused", "ok", "error", "blocked", "halted",
                               "approval", "unexpected", "failed"}]
  BY DEF TypeOK
<1>1. UNCHANGED <<cfg, runVars>> /\ waits[q] = "waiting"
  BY CallerFacts
<1>2. CASE r # q
  <2>1. waits'[r] = waits[r] /\ outcome'[r] = outcome[r] /\ (r \in rows' <=> r \in rows)
    <3>1. /\ rows' = rows \/ rows' = rows \cup {q}
          /\ UNCHANGED <<waits, outcome>> \/ \E what : Answer(q, what)
      BY CallerFacts
    <3> QED
      BY <1>0, <1>2, <3>1 DEF Answer
  <2>2. queue'[r] = queue[r]
    BY <1>2, CallerFacts
  <2>3. cfg' \in Nat /\ cfg <= cfg'
    BY SMTT(30), <1>1, RunTypes
  <2> QED
    BY <1>1, <2>1, <2>2, <2>3, StillKeeps DEF Still, runVars
<1>3. CASE r = q
  <2>0. Validated(q) /\ Made(q) /\ Ended(q) /\ Honest(q)
    BY <1>3 DEF RunOK
  <2>1. Validated(q)' /\ Made(q)'
    BY <1>1, <2>0 DEF Validated, Made, Since, Allowed, runVars
  <2>2. \A f \in Queued(q) : Says(f, end[q])
    BY <2>0 DEF Ended
  <2>3. Queued(q)' \subseteq Queued(q) /\ UNCHANGED <<at, end, made, pos>>
    BY <1>1, CallerFacts DEF runVars
  <2>4. outcome[q] = "none" /\ q \notin rows
    BY <1>1, <2>0 DEF Ended
  <2>5. CASE UNCHANGED <<waits, outcome, rows>>
    BY <2>0, <2>1, <2>2, <2>3, <2>5, <1>3 DEF RunOK, Ended, Honest, Says
  <2>6. CASE ~UNCHANGED <<waits, outcome, rows>>
    <3>1. PICK what \in {"ok", "error", "blocked", "halted", "approval", "unexpected", "failed"} :
                      /\ Answer(q, what)
                      /\ what = "ok" => "chunk" \in Queued(q)
                      /\ what = "blocked" => "tool_blocked" \in Queued(q)
                      /\ what = "halted" => "session_halt" \in Queued(q)
                      /\ what = "approval" => "approval_required" \in Queued(q) /\ rows' = rows \cup {q}
                      /\ rows' # rows => what = "approval"
      BY <2>6, CallerFacts
    <3>2. waits'[q] = "done" /\ outcome'[q] = what
      BY <1>0, <3>1 DEF Answer
    <3>3. /\ what = "ok" => end[q] = "completed"
          /\ what = "blocked" => end[q] \in {"blocked", "refused"}
          /\ what = "halted" => end[q] = "halted"
          /\ what = "approval" => end[q] = "paused"
      BY <2>2, <3>1 DEF Says
    <3>4. Honest(q)'
      BY <2>3, <2>4, <3>1, <3>2, <3>3 DEF Honest
    <3>5. Ended(q)'
      BY <2>0, <2>2, <2>3, <3>2 DEF Ended, Says
    <3> QED
      BY <1>3, <2>1, <3>4, <3>5 DEF RunOK
  <2> QED
    BY <2>5, <2>6
<1> QED
  BY <1>2, <1>3

(* Every step keeps the invariant of the runs.                              *)
LEMMA RuntimeStep == RunInv /\ [Next]_vars => RunInv'
<1> SUFFICES ASSUME RunInv, [Next]_vars PROVE RunInv'
  OBVIOUS
<1>0. TypeOK /\ \A r \in Runs : RunOK(r)
  BY DEF RunInv
<1>1. ASSUME NEW r \in Runs, Still(r), cfg' = cfg PROVE RunOK(r)'
  BY SMTT(30), <1>0, <1>1, RunTypes, StillKeeps
<1>2. CASE UNCHANGED vars
  <2>1. TypeOK'
    BY <1>0, <1>2 DEF TypeOK, vars, runVars, callerVars
  <2>2. \A r \in Runs : Still(r) /\ cfg' = cfg
    BY <1>2 DEF Still, vars, runVars, callerVars
  <2> QED
    BY <1>1, <2>1, <2>2 DEF RunInv
<1>3. CASE Next
  <2>1. TypeOK'
    BY <1>0, <1>3, RuntimeTypes
  <2>2. ASSUME NEW r \in Runs PROVE RunOK(r)'
    <3>1. CASE ConfigUpdate
      <4>1. Still(r) /\ cfg' = cfg + 1
        BY <3>1 DEF ConfigUpdate, Still, runVars, callerVars
      <4>2. cfg \in Nat
        BY <1>0, <2>2, RunTypes
      <4>3. cfg' \in Nat /\ cfg <= cfg'
        BY SMTT(30), <4>1, <4>2
      <4> QED
        BY <1>0, <2>2, <4>1, <4>3, StillKeeps
    <3>2. CASE Lose
      BY <1>1, <2>2, <3>2 DEF Lose, Still, runVars, callerVars
    <3>3. ASSUME NEW q \in Runs, Refuse(q) PROVE RunOK(r)'
      <4>0. /\ waits \in [Runs -> {"no", "waiting", "done"}] /\ waits[q] = "no"
            /\ outcome \in [Runs -> {"none", "refused", "ok", "error", "blocked", "halted",
                                     "approval", "unexpected", "failed"}]
            /\ waits' = [waits EXCEPT ![q] = "done"] /\ outcome' = [outcome EXCEPT ![q] = "refused"]
            /\ UNCHANGED <<cfg, runVars, queue, rows>>
        BY <1>0, <3>3 DEF TypeOK, Refuse, Answer
      <4>1. CASE r # q
        <5>1. waits'[r] = waits[r] /\ outcome'[r] = outcome[r]
          BY <4>0, <4>1
        <5> QED
          BY <1>1, <2>2, <4>0, <5>1 DEF Still, runVars
      <4>2. CASE r = q
        <5>1. waits'[r] = "done" /\ outcome'[r] = "refused" /\ waits[r] = "no"
          BY <4>0, <4>2
        <5>2. Validated(r) /\ Made(r) /\ Ended(r) /\ Honest(r)
          BY <1>0, <2>2 DEF RunOK
        <5>3. Validated(r)' /\ Made(r)'
          BY <4>0, <5>2 DEF Validated, Made, Since, Allowed, runVars
        <5>4. Queued(r)' = Queued(r) /\ end'[r] = end[r]
          BY <4>0 DEF Queued, runVars
        <5>5. \A f \in Queued(r)' : Says(f, end'[r])
          BY <5>2, <5>4 DEF Ended, Says
        <5>6. Ended(r)'
          BY <4>0, <5>1, <5>2, <5>5 DEF Ended, runVars
        <5>7. Honest(r)'
          BY <4>0, <5>1, <5>2 DEF Ended, Honest, runVars
        <5> QED
          BY <5>3, <5>6, <5>7 DEF RunOK
      <4> QED
        BY <4>1, <4>2
    <3>4. ASSUME NEW q \in Runs, NEW k, Send(q, k) PROVE RunOK(r)'
      <4>0. /\ waits \in [Runs -> {"no", "waiting", "done"}] /\ waits[q] = "no"
            /\ at \in [Runs -> {"idle", "sent", "model", "validate", "call", "over"}]
            /\ waits' = [waits EXCEPT ![q] = "waiting"] /\ at' = [at EXCEPT ![q] = "sent"]
            /\ UNCHANGED <<cfg, calls, pos, asked, checked, snap, end, made, queue, outcome, rows>>
        BY <1>0, <3>4 DEF TypeOK, Send, Goto
      <4>1. CASE r # q
        <5>1. waits'[r] = waits[r] /\ at'[r] = at[r]
          BY <4>0, <4>1
        <5> QED
          BY <1>1, <2>2, <4>0, <5>1 DEF Still
      <4>2. CASE r = q
        <5>1. waits'[r] = "waiting" /\ at'[r] = "sent" /\ waits[r] = "no"
          BY <4>0, <4>2
        <5>2. Validated(r) /\ Made(r) /\ Ended(r) /\ Honest(r)
          BY <1>0, <2>2 DEF RunOK
        <5>3. at[r] = "idle" /\ end[r] = "none"
          BY <5>1, <5>2 DEF Ended
        <5>4. Validated(r)' /\ Made(r)'
          BY <4>0, <5>1, <5>2 DEF Validated, Made, Since, Allowed
        <5>5. Queued(r)' = Queued(r) /\ end'[r] = end[r]
          BY <4>0 DEF Queued
        <5>6. \A f \in Queued(r)' : Says(f, end'[r])
          BY <5>2, <5>5 DEF Ended, Says
        <5>7. Ended(r)'
          BY <4>0, <5>1, <5>2, <5>3, <5>6 DEF Ended
        <5>8. Honest(r)'
          BY <4>0, <5>2 DEF Honest
        <5> QED
          BY <5>4, <5>7, <5>8 DEF RunOK
      <4> QED
        BY <4>1, <4>2
    <3>5. ASSUME NEW q \in Runs, AgentStep(q) \/ Expire(q) PROVE RunOK(r)'
      <4>1. CASE r # q
        <5>1. Still(r) /\ cfg' = cfg
          BY <1>0, <2>2, <3>5, <4>1, AgentOthers, AgentShape
        <5> QED
          BY <1>1, <2>2, <5>1
      <4>2. CASE r = q
        BY <1>0, <3>5, <4>2, AgentValidated, AgentMade, AgentEnded, AgentHonest DEF RunOK
      <4> QED
        BY <4>1, <4>2
    <3>6. ASSUME NEW q \in Runs, CallerStep(q) \/ Timeout(q) PROVE RunOK(r)'
      BY <1>0, <2>2, <3>6, CallerKeeps
    <3> QED
      BY <1>3, <3>1, <3>2, <3>3, <3>4, <3>5, <3>6
      DEF Next, HandleMessage, HandleStream, RunWebSocketRelay, DispatchChannelMessage
  <2> QED
    BY <2>1, <2>2 DEF RunInv
<1> QED
  BY <1>2, <1>3

(* The invariant of the runs holds at first.                                *)
LEMMA RuntimeInit ==
    ASSUME Init
    PROVE  RunInv
<1>1. <<>> \in Seq(Frames) /\ <<>> \in Seq(Versions) /\ <<>> \in Seq(Tools) /\ Len(<<>>) = 0
  BY SMTT(30)
<1>2. 1 \in Versions /\ 1 \in Nat
  BY SMTT(30), ConstantsAssumption DEF Versions
<1>3. TypeOK
  BY SMTT(30), <1>1, <1>2, ConstantsAssumption DEF Init, TypeOK, Ends
<1>4. ASSUME NEW q \in Runs PROVE RunOK(q)
  <2>1. Queued(q) = {}
    BY SMTT(30), <1>1 DEF Init, Queued
  <2>2. Validated(q) /\ Made(q)
    BY SMTT(30), <1>1 DEF Init, Validated, Made
  <2> QED
    BY <2>1, <2>2 DEF Init, Ended, Honest, RunOK
<1> QED
  BY <1>3, <1>4 DEF RunInv
-----------------------------------------------------------------------------
(* No run begins a round beyond maxToolIterations, whatever the model asks. *)
THEOREM RuntimeTypeCorrect == Spec => []TypeOK
<1>1. RunInv => TypeOK
  BY DEF RunInv
<1> QED
  BY <1>1, RuntimeInit, RuntimeStep, PTL DEF Spec

(* A call reaches a connector only if an allow-list, policies, connectors   *)
(* and governance that the agent had since the model asked for it let it    *)
(* through, whatever configurations are pushed between the steps.           *)
THEOREM RuntimeConfigIsFresh == Spec => []FreshConfig
<1>1. RunInv => FreshConfig
  <2> SUFFICES ASSUME RunInv, NEW q \in Runs, NEW i \in 1 .. Len(calls[q]), i \in made[q]
               PROVE  /\ \E v \in Since(q) : Allowed(v, calls[q][i])
                      /\ \E v \in Since(q) :
                             calls[q][i] \in Config[v].serves /\ Config[v].rule[calls[q][i]] = "none"
    BY DEF FreshConfig
  <2>1. Validated(q) /\ Made(q)
    BY DEF RunInv, RunOK
  <2>2. i \in 1 .. Len(checked[q]) /\ snap[q] \in Since(q)
    BY <2>1 DEF Made
  <2> QED
    BY <2>1, <2>2 DEF Validated, Made
<1> QED
  BY <1>1, RuntimeInit, RuntimeStep, PTL DEF Spec

(* All tool calls of a round are validated before the first is made, and a  *)
(* round of which one was made does not end as refused.                     *)
THEOREM RuntimeValidatesFirst == Spec => []ValidatedFirst
<1>1. RunInv => ValidatedFirst
  <2> SUFFICES ASSUME RunInv, NEW q \in Runs, made[q] # {}
               PROVE  /\ end[q] # "refused"
                      /\ \A i \in 1 .. Len(calls[q]) : \E v \in Since(q) : Allowed(v, calls[q][i])
    BY DEF ValidatedFirst
  <2>1. Validated(q) /\ Made(q) /\ Ended(q)
    BY DEF RunInv, RunOK
  <2>2. Len(checked[q]) = Len(calls[q])
    BY <2>1 DEF Made
  <2> QED
    BY <2>1, <2>2 DEF Validated, Ended
<1> QED
  BY <1>1, RuntimeInit, RuntimeStep, PTL DEF Spec

(* A call that is blocked or waits for approval has not reached its         *)
(* connector, and no later call of the run has.                             *)
THEOREM RuntimeGoverns == Spec => []GovernedNotMade
<1>1. RunInv => GovernedNotMade
  <2> SUFFICES ASSUME RunInv, NEW q \in Runs, end[q] \in {"blocked", "paused"},
                      NEW i \in pos[q] .. Len(calls[q]), i \in made[q]
               PROVE  FALSE
    BY DEF GovernedNotMade
  <2>1. i < pos[q]
    BY DEF RunInv, RunOK, Ended
  <2>2. pos[q] \in Nat
    BY DEF RunInv, TypeOK
  <2> QED
    BY SMTT(30), <2>1, <2>2
<1> QED
  BY <1>1, RuntimeInit, RuntimeStep, PTL DEF Spec

(* The caller is told what became of the run: a frame that says how it      *)
(* ended is in the queue of no run that ended otherwise.                    *)
THEOREM RuntimeOutcomeIsTrue == Spec => []OutcomeIsTrue
<1>1. RunInv => OutcomeIsTrue
  BY DEF RunInv, RunOK, Honest, OutcomeIsTrue
<1> QED
  BY <1>1, RuntimeInit, RuntimeStep, PTL DEF Spec
=============================================================================
