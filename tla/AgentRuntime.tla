---------------------------- MODULE AgentRuntime ----------------------------
(***************************************************************************)
(* One agent in its guest, the runs it works on at the same time, and the   *)
(* handlers of the control plane that wait for them.                        *)
(*                                                                          *)
(* A run is forwardToOpenClaw: it asks the model, validates the tool calls  *)
(* the model wants, reads the connectors, and makes the calls one by one    *)
(* until the model answers with text, a call is refused or paused, a canary *)
(* token shows, or the iterations run out.  handleConfigUpdate may change   *)
(* allow-list, policies and connectors between any two of these steps.      *)
(* Its frames go to the caller: HandleMessage, HandleStream, the websocket  *)
(* relay or the channel dispatch, which treat them differently.             *)
(*                                                                          *)
(* Conversations and payloads are left out; what the model, the tools and   *)
(* the canary check say is a free choice.  AgentConn has the connection in  *)
(* detail: here it delivers a run's frames in order until it is removed.    *)
(***************************************************************************)
EXTENDS Naturals, Sequences

CONSTANTS
    Runs,           \* requests for the agent
    Tools,          \* tools the model may ask for, with their arguments
    Config,         \* the configurations pushed to the agent, in order
    MaxIterations,  \* maxToolIterations
    Wants,          \* bound: what the model may ask for in one answer, for each run
    MaxFaults       \* bound: expired runs, failed transactions, lost connections

(* allow: the allow-list, everything when empty; refused: the tools whose   *)
(* arguments the policies refuse; serves: the tools of its connectors;      *)
(* rule: the decision of GovernedTools.                                     *)
ConfigType ==
    [allow : SUBSET Tools, refused : SUBSET Tools, serves : SUBSET Tools,
     rule : [Tools -> {"none", "block", "require_approval"}]]

ASSUME ConstantsAssumption ==
    /\ Config \in Seq(ConfigType)
    /\ Config # <<>>
    /\ MaxIterations \in Nat \ {0}
    /\ Wants \in [Runs -> SUBSET Seq(Tools)]
    /\ \A q \in Runs : <<>> \notin Wants[q]
    /\ MaxFaults \in Nat

VARIABLES
    cfg,       \* the configuration the agent has
    at,        \* where a run is
    iter,      \* its round of the tool loop
    calls,     \* the tool calls of the round
    pos,       \* the call it is at
    asked,     \* the configuration when the model asked for them
    checked,   \* the one each call was validated against
    snap,      \* the one its connectors were read from
    end,       \* how it ended
    made,      \* the calls of the round that reached a connector
    queue,     \* frames on their way to the caller
    link,      \* the connection a run was sent on
    conn,      \* the connection of the pool
    kind,      \* who waits for a run
    waits,     \* where the caller is
    outcome,   \* what the caller was told
    rows,      \* the runs with an approval request and a governed action on record
    faults

runVars == <<at, iter, calls, pos, asked, checked, snap, end, made>>
callerVars == <<kind, link, waits, outcome>>
vars == <<cfg, runVars, queue, callerVars, conn, rows, faults>>

Init ==
    /\ cfg = 1
    /\ at = [q \in Runs |-> "idle"]
    /\ iter = [q \in Runs |-> 0]
    /\ calls = [q \in Runs |-> <<>>]
    /\ pos = [q \in Runs |-> 1]
    /\ asked = [q \in Runs |-> 1]
    /\ checked = [q \in Runs |-> <<>>]
    /\ snap = [q \in Runs |-> 1]
    /\ end = [q \in Runs |-> "none"]
    /\ made = [q \in Runs |-> {}]
    /\ queue = [q \in Runs |-> <<>>]
    /\ link = [q \in Runs |-> 0]
    /\ conn = 1
    /\ kind = [q \in Runs |-> "none"]
    /\ waits = [q \in Runs |-> "no"]
    /\ outcome = [q \in Runs |-> "none"]
    /\ rows = {}
    /\ faults = 0

Fault ==
    /\ faults < MaxFaults
    /\ faults' = faults + 1

(* Frames of run q; they are lost once its connection has been removed.     *)
Emit(q, frames) ==
    queue' = [queue EXCEPT ![q] = IF link[q] = conn THEN @ \o frames ELSE @]

Goto(q, l) == at' = [at EXCEPT ![q] = l]

(* The last frame of run q, which says how it ended.                        *)
Finish(q, frames, how) ==
    /\ Emit(q, frames)
    /\ Goto(q, "over")
    /\ end' = [end EXCEPT ![q] = how]
-----------------------------------------------------------------------------
(* The agent *)

(* handleConfigUpdate replaces all of it under the lock.                    *)
ConfigUpdate ==
    /\ cfg < Len(Config)
    /\ cfg' = cfg + 1
    /\ UNCHANGED <<runVars, queue, callerVars, conn, rows, faults>>

(* validateToolCall under configuration v.                                  *)
Allowed(v, t) ==
    /\ Config[v].allow = {} \/ t \in Config[v].allow
    /\ t \notin Config[v].refused

(* handleMessage takes the frame; a payload without a prompt or an endpoint *)
(* that is not allowed ends the run at once.                                *)
StartRun(q) ==
    /\ at[q] = "sent"
    /\ \/ Emit(q, <<"runtime_event">>) /\ Goto(q, "model") /\ UNCHANGED end
       \/ Finish(q, <<"error">>, "failed")
    /\ UNCHANGED <<cfg, iter, calls, pos, asked, checked, snap, made, callerVars, conn, rows, faults>>

Room(q) == iter[q] < MaxIterations

(* callOpenClaw and what its answer leads to, short of tool calls.          *)
ModelEnds(q) ==
    /\ at[q] = "model"
    /\ Room(q)
    /\ \/ Finish(q, <<"runtime_event", "chunk">>, "completed")
       \/ Finish(q, <<"runtime_event", "error">>, "failed")
       \/ Finish(q, <<"runtime_event", "session_halt">>, "halted")
    /\ UNCHANGED <<cfg, iter, calls, pos, asked, checked, snap, made, callerVars, conn, rows, faults>>

ModelAsks(q) ==
    /\ at[q] = "model"
    /\ Room(q)
    /\ \E ts \in Wants[q] : calls' = [calls EXCEPT ![q] = ts]
    /\ iter' = [iter EXCEPT ![q] = @ + 1]
    /\ asked' = [asked EXCEPT ![q] = cfg]
    /\ checked' = [checked EXCEPT ![q] = <<>>]
    /\ made' = [made EXCEPT ![q] = {}]
    /\ Goto(q, "validate")
    /\ UNCHANGED <<cfg, pos, snap, end, queue, callerVars, conn, rows, faults>>

Exhausted(q) ==
    /\ at[q] = "model"
    /\ ~ Room(q)
    /\ Finish(q, <<"runtime_event", "error">>, "failed")
    /\ UNCHANGED <<cfg, iter, calls, pos, asked, checked, snap, made, callerVars, conn, rows, faults>>

(* All calls are validated before the first is made, each under the lock.   *)
Validate(q) ==
    /\ at[q] = "validate"
    /\ Len(checked[q]) < Len(calls[q])
    /\ \/ /\ Allowed(cfg, calls[q][Len(checked[q]) + 1])
          /\ checked' = [checked EXCEPT ![q] = Append(@, cfg)]
          /\ UNCHANGED <<at, end, queue>>
       \/ /\ ~ Allowed(cfg, calls[q][Len(checked[q]) + 1])
          /\ Finish(q, <<"tool_blocked">>, "refused")
          /\ UNCHANGED checked
    /\ UNCHANGED <<cfg, iter, calls, pos, asked, snap, made, callerVars, conn, rows, faults>>

(* Mutant: one call validated is enough. *)
ReadConnectorsEarly(q) ==
    /\ at[q] = "validate"
    /\ checked[q] # <<>>
    /\ Emit(q, <<"runtime_event">>)
    /\ snap' = [snap EXCEPT ![q] = cfg]
    /\ pos' = [pos EXCEPT ![q] = 1]
    /\ Goto(q, "call")
    /\ UNCHANGED <<cfg, iter, calls, asked, checked, end, made, callerVars, conn, rows, faults>>

(* Mutant: the connectors of the first round serve the later ones. *)
ReadConnectorsOnce(q) ==
    /\ at[q] = "validate"
    /\ Len(checked[q]) = Len(calls[q])
    /\ Emit(q, <<"runtime_event">>)
    /\ snap' = [snap EXCEPT ![q] = IF iter[q] = 1 THEN cfg ELSE @]
    /\ pos' = [pos EXCEPT ![q] = 1]
    /\ Goto(q, "call")
    /\ UNCHANGED <<cfg, iter, calls, asked, checked, end, made, callerVars, conn, rows, faults>>

ReadConnectors(q) ==
    /\ at[q] = "validate"
    /\ Len(checked[q]) = Len(calls[q])
    /\ Emit(q, <<"runtime_event">>)
    /\ snap' = [snap EXCEPT ![q] = cfg]
    /\ pos' = [pos EXCEPT ![q] = 1]
    /\ Goto(q, "call")
    /\ UNCHANGED <<cfg, iter, calls, asked, checked, end, made, callerVars, conn, rows, faults>>

(* The call run q is at, and the connectors it uses for it.                 *)
Call(q) == calls[q][pos[q]]
Conns(q) == Config[snap[q]]
Rule(q) == IF Call(q) \in Conns(q).serves THEN Conns(q).rule[Call(q)] ELSE "none"

(* On to the next call, or the next round.                                  *)
NextCall(q) ==
    /\ pos' = [pos EXCEPT ![q] = @ + 1]
    /\ Goto(q, IF pos[q] < Len(calls[q]) THEN "call" ELSE "model")
    /\ UNCHANGED end

Make(q) == made' = [made EXCEPT ![q] = @ \cup {pos[q]}]

(* resolveConnector finds none, callTool fails before the connector acts or *)
(* after it did, or it returns a result.                                    *)
CallTool(q) ==
    /\ at[q] = "call"
    /\ Rule(q) = "none"
    /\ \/ Emit(q, <<"tool_failed">>) /\ NextCall(q) /\ UNCHANGED made
       \/ /\ Call(q) \in Conns(q).serves
          /\ Make(q)
          /\ \/ Emit(q, <<"tool_failed">>) /\ NextCall(q)
             \/ Emit(q, <<"tool_executed">>) /\ NextCall(q)
             \/ Finish(q, <<"runtime_event", "session_halt">>, "halted") /\ UNCHANGED pos
    /\ UNCHANGED <<cfg, iter, calls, asked, checked, snap, callerVars, conn, rows, faults>>

(* Mutant: the calls after the governed one are still made. *)
GovernAlone(q) ==
    /\ at[q] = "call"
    /\ \/ Rule(q) = "block" /\ Finish(q, <<"runtime_event", "tool_blocked">>, "blocked")
       \/ Rule(q) = "require_approval" /\ Finish(q, <<"runtime_event", "approval_required">>, "paused")
    /\ made' = [made EXCEPT ![q] = @ \cup
            {i \in pos[q] + 1 .. Len(calls[q]) :
                calls[q][i] \in Conns(q).serves /\ Conns(q).rule[calls[q][i]] = "none"}]
    /\ UNCHANGED <<cfg, iter, calls, pos, asked, checked, snap, callerVars, conn, rows, faults>>

(* A governed tool ends the run: it is blocked, or waits for approval.      *)
Govern(q) ==
    /\ at[q] = "call"
    /\ \/ Rule(q) = "block" /\ Finish(q, <<"runtime_event", "tool_blocked">>, "blocked")
       \/ Rule(q) = "require_approval" /\ Finish(q, <<"runtime_event", "approval_required">>, "paused")
    /\ UNCHANGED <<cfg, iter, calls, pos, asked, checked, snap, made, callerVars, conn, rows, faults>>

(* The 120 seconds of the run are over: what it does next fails, and so     *)
(* does every frame it would send, their deadline being the same.           *)
Expire(q) ==
    /\ at[q] \in {"model", "validate", "call"}
    /\ Fault
    /\ Finish(q, <<>>, "expired")
    /\ UNCHANGED <<cfg, iter, calls, pos, asked, checked, snap, made, callerVars, conn, rows>>
-----------------------------------------------------------------------------
(* The callers *)

Answer(q, what) ==
    /\ waits' = [waits EXCEPT ![q] = "done"]
    /\ outcome' = [outcome EXCEPT ![q] = what]

(* pool.Remove closes the connection, whoever else uses it.                 *)
Remove == conn' = conn + 1

(* prepareMessageRequest, or the checks of the relay and of the executor:   *)
(* the agent is not running, the sentinel says no.                          *)
Refuse(q) ==
    /\ waits[q] = "no"
    /\ Answer(q, "refused")
    /\ UNCHANGED <<cfg, runVars, queue, kind, link, conn, rows, faults>>

Send(q, k) ==
    /\ waits[q] = "no"
    /\ kind' = [kind EXCEPT ![q] = k]
    /\ waits' = [waits EXCEPT ![q] = "waiting"]
    /\ link' = [link EXCEPT ![q] = conn]
    /\ Goto(q, "sent")
    /\ UNCHANGED <<cfg, iter, calls, pos, asked, checked, snap, end, made, queue, outcome, conn, rows, faults>>

HandleMessage(q) == Send(q, "message")
HandleStream(q) == Send(q, "stream")
RunWebSocketRelay(q) == Send(q, "ws")
DispatchChannelMessage(q) == Send(q, "channel")

(* The next frame, which is f.                                              *)
Recv(q, f) ==
    /\ waits[q] = "waiting"
    /\ queue[q] # <<>>
    /\ f = Head(queue[q])
    /\ queue' = [queue EXCEPT ![q] = Tail(@)]
    /\ UNCHANGED <<cfg, runVars, kind, link>>

(* Frames that are logged or passed on while the caller waits for more.     *)
Passing == {"runtime_event", "tool_executed", "tool_failed"}

KeepWaiting == UNCHANGED <<waits, outcome, conn, rows, faults>>

(* What ends the wait, in the words of the answer.                          *)
Told(f) ==
    CASE f = "chunk" -> "ok"
      [] f = "error" -> "error"
      [] f = "tool_blocked" -> "blocked"
      [] f = "session_halt" -> "halted"

EndOfWait(q, f) ==
    /\ Answer(q, Told(f))
    /\ IF f = "session_halt" THEN Remove ELSE UNCHANGED conn
    /\ UNCHANGED <<rows, faults>>

(* Mutant: the caller is told of an approval before it is stored. *)
PersistLater(q) == Answer(q, "approval") /\ UNCHANGED <<rows, conn, faults>>

(* persistConnectorApproval, in one transaction.                            *)
Persist(q) ==
    /\ \/ rows' = rows \cup {q} /\ Answer(q, "approval") /\ UNCHANGED faults
       \/ Fault /\ Answer(q, "error") /\ UNCHANGED rows
    /\ UNCHANGED conn

HttpRecv(q) ==
    \/ \E f \in Passing : Recv(q, f) /\ KeepWaiting
    \/ Recv(q, "approval_required") /\ Persist(q)
    \/ \E f \in {"chunk", "error", "tool_blocked", "session_halt"} : Recv(q, f) /\ EndOfWait(q, f)

(* HandleMessage collects the answer; HandleStream passes on events, too.   *)
MessageRecv(q) == kind[q] = "message" /\ HttpRecv(q)
StreamRecv(q) == kind[q] = "stream" /\ HttpRecv(q)

(* relayAgentFrames: it waits on after a blocked tool and does not know     *)
(* approval_required.                                                       *)
RelayRecv(q) ==
    /\ kind[q] = "ws"
    /\ \/ \E f \in Passing \cup {"tool_blocked", "approval_required"} : Recv(q, f) /\ KeepWaiting
       \/ \E f \in {"chunk", "error", "session_halt"} :
            Recv(q, f) /\ Answer(q, Told(f)) /\ UNCHANGED <<conn, rows, faults>>

(* dispatchChannelMessageToAgent: any other frame is unexpected.            *)
ChannelRecv(q) ==
    /\ kind[q] = "channel"
    /\ \/ \E f \in {"chunk", "error", "tool_blocked", "session_halt"} : Recv(q, f) /\ EndOfWait(q, f)
       \/ \E f \in Passing \cup {"approval_required"} :
            Recv(q, f) /\ Answer(q, "unexpected") /\ Remove /\ UNCHANGED <<rows, faults>>

(* Mutant: only a channel message has a timeout. *)
TimeoutChannel(q) ==
    /\ waits[q] = "waiting"
    /\ kind[q] = "channel"
    /\ Answer(q, "failed")
    /\ Remove
    /\ UNCHANGED <<cfg, runVars, queue, kind, link, rows, faults>>

(* The connection is lost, or a caller that is not among Runs removed it.   *)
Lose ==
    /\ Fault
    /\ Remove
    /\ UNCHANGED <<cfg, runVars, queue, callerVars, rows>>

(* The message timeout ends any wait but the relay's.                       *)
Timeout(q) ==
    /\ waits[q] = "waiting"
    /\ kind[q] # "ws"
    /\ Answer(q, "failed")
    /\ Remove
    /\ UNCHANGED <<cfg, runVars, queue, kind, link, rows, faults>>

(* The connection was removed: every wait on it ends.  The relay leaves the *)
(* pool alone.                                                              *)
RecvFails(q) ==
    /\ waits[q] = "waiting"
    /\ link[q] # conn
    /\ Answer(q, "failed")
    /\ IF kind[q] = "ws" THEN UNCHANGED conn ELSE Remove
    /\ UNCHANGED <<cfg, runVars, queue, kind, link, rows, faults>>
-----------------------------------------------------------------------------
AgentStep(q) ==
    \/ StartRun(q) \/ ModelEnds(q) \/ ModelAsks(q) \/ Exhausted(q) \/ Validate(q)
    \/ ReadConnectors(q) \/ CallTool(q) \/ Govern(q)

CallerStep(q) == MessageRecv(q) \/ StreamRecv(q) \/ RelayRecv(q) \/ ChannelRecv(q) \/ RecvFails(q)

Next ==
    \/ ConfigUpdate \/ Lose
    \/ \E q \in Runs :
        \/ Refuse(q) \/ HandleMessage(q) \/ HandleStream(q) \/ RunWebSocketRelay(q)
        \/ DispatchChannelMessage(q) \/ AgentStep(q) \/ Expire(q) \/ CallerStep(q) \/ Timeout(q)

Spec == Init /\ [][Next]_vars

(* The model and the tools answer or time out, a caller reads what came,    *)
(* and the message timeout comes.  Nothing else is owed: no request need be *)
(* sent and no configuration pushed.                                        *)
Fairness == \A q \in Runs : WF_vars(AgentStep(q)) /\ WF_vars(CallerStep(q)) /\ WF_vars(Timeout(q))

FairSpec == Spec /\ Fairness
-----------------------------------------------------------------------------
Ends == {"none", "completed", "failed", "halted", "refused", "blocked", "paused", "expired"}

Frames == Passing \cup {"chunk", "error", "tool_blocked", "session_halt", "approval_required"}

Versions == 1 .. Len(Config)

(* Types; a run never begins a round beyond maxToolIterations.              *)
TypeOK ==
    /\ cfg \in Versions
    /\ at \in [Runs -> {"idle", "sent", "model", "validate", "call", "over"}]
    /\ iter \in [Runs -> 0 .. MaxIterations]
    /\ calls \in [Runs -> Seq(Tools)]
    /\ pos \in [Runs -> Nat \ {0}]
    /\ asked \in [Runs -> Versions]
    /\ checked \in [Runs -> Seq(Versions)]
    /\ snap \in [Runs -> Versions]
    /\ end \in [Runs -> Ends]
    /\ made \in [Runs -> SUBSET (Nat \ {0})]
    /\ queue \in [Runs -> Seq(Frames)]
    /\ link \in [Runs -> Nat]
    /\ conn \in Nat \ {0}
    /\ kind \in [Runs -> {"none", "message", "stream", "ws", "channel"}]
    /\ waits \in [Runs -> {"no", "waiting", "done"}]
    /\ outcome \in [Runs -> {"none", "refused", "ok", "error", "blocked", "halted",
                             "approval", "unexpected", "failed"}]
    /\ rows \subseteq Runs
    /\ faults \in 0 .. MaxFaults

(* The configurations the agent had since the model asked for the calls of  *)
(* the round that run q is in.                                              *)
Since(q) == asked[q] .. cfg

(* An update that the agent acknowledged before the model asked for a call  *)
(* counts for that call: allow-list, policies, connectors and governance of *)
(* no older configuration let it through.                                   *)
FreshConfig ==
    \A q \in Runs : \A i \in 1 .. Len(calls[q]) : i \in made[q] =>
        /\ \E v \in Since(q) : Allowed(v, calls[q][i])
        /\ \E v \in Since(q) : calls[q][i] \in Config[v].serves /\ Config[v].rule[calls[q][i]] = "none"

(* cmd/heimdall-agent/openclaw.go:194, "Validate all tool calls before      *)
(* executing any": a round of which one call reached a connector had all    *)
(* its calls allowed, and does not end as refused.                          *)
ValidatedFirst ==
    \A q \in Runs : made[q] # {} =>
        /\ end[q] # "refused"
        /\ \A i \in 1 .. Len(calls[q]) : \E v \in Since(q) : Allowed(v, calls[q][i])

(* A call that is blocked or waits for approval has not reached its         *)
(* connector, and no later call of the run does.                            *)
GovernedNotMade ==
    \A q \in Runs : end[q] \in {"blocked", "paused"} =>
        \A i \in pos[q] .. Len(calls[q]) : i \notin made[q]

(* The caller over HTTP is told what became of the run: an answer only of a *)
(* completed run, an approval to wait for only of a paused one that is on   *)
(* record, and a blocked tool or a halt only if the run ended so.           *)
OutcomeIsTrue ==
    \A q \in Runs :
        /\ outcome[q] = "ok" => end[q] = "completed"
        /\ outcome[q] = "approval" => end[q] = "paused" /\ q \in rows
        /\ outcome[q] = "blocked" => end[q] \in {"blocked", "refused"}
        /\ outcome[q] = "halted" => end[q] = "halted"
        /\ q \in rows => outcome[q] = "approval"

(* A request by HTTP or from a channel is answered, also when the frame     *)
(* that ends the run is never sent.                                         *)
CallerAnswered ==
    \A q \in Runs : waits[q] = "waiting" /\ kind[q] # "ws" ~> waits[q] = "done"
-----------------------------------------------------------------------------
(* What the code does not keep *)

(* docs/plans/2026-03-14-governed-integrations-design.md:78, of a connector *)
(* write that requires approval: "an approval request is created".  Once    *)
(* the frame of a paused run was received, the approval is on record or the *)
(* caller was told of an error.                                             *)
PausedIsReviewable ==
    \A q \in Runs :
        end[q] = "paused" /\ queue[q] = <<>> /\ link[q] = conn /\ waits[q] # "no" =>
            q \in rows \/ outcome[q] \in {"error", "failed"}

(* docs/plans/2026-02-23-phase8-channels-execution-path.md:7: "tenant agent *)
(* dispatch" of a channel message.  A message whose run completes is not    *)
(* reported as a failed dispatch because of the frames before its answer.   *)
ChannelGetsReply ==
    \A q \in Runs : outcome[q] # "unexpected"

(* internal/proxy/ws_handler.go:143: "the client cannot send a new message  *)
(* until the current agent response completes".  It does complete.          *)
RelayAnswered ==
    \A q \in Runs : waits[q] = "waiting" /\ kind[q] = "ws" ~> waits[q] = "done"

(* The allow-list and the governance that let a call through are those of   *)
(* one configuration.                                                       *)
OneConfig ==
    \A q \in Runs : \A i \in 1 .. Len(calls[q]) : i \in made[q] =>
        \E v \in Since(q) :
            /\ Allowed(v, calls[q][i])
            /\ calls[q][i] \in Config[v].serves
            /\ Config[v].rule[calls[q][i]] = "none"
=============================================================================
