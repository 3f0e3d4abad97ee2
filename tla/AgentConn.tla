------------------------------ MODULE AgentConn ------------------------------
(***************************************************************************)
(* The control plane's connections to one agent: the pool (ConnPool), the   *)
(* multiplexing of requests over a connection (AgentConn, RequestStream)    *)
(* and the callers, which differ in what they do when a request fails.      *)
(* Agents do not share connections, so one agent is enough.                 *)
(*                                                                          *)
(* The agent answers a request with the frames 1 .. Replies, the last of    *)
(* which ends the answer, and a config_update with one frame.  The stream   *)
(* keeps the order of the frames of a request; frames of different requests *)
(* come from different goroutines of the agent and are not ordered here.    *)
(* Heartbeats have no ID: the receive loop drops them.                      *)
(***************************************************************************)
EXTENDS Naturals, Sequences

CONSTANTS
    Posts,      \* HandleMessage, HandleStream, channel messages: time-out, Remove on error
    Relays,     \* the websocket relay: no time-out, no Remove
    Resumes,    \* ConnectorActionResolver: time-out, no Remove
    Pushes,     \* PushConfig: raw Recv, time-out, Remove on error
    Conns,      \* connections that may be dialed
    NoConn,
    Free,       \* readMu is not held
    Replies,    \* frames of an answer
    Buffer,     \* capacity of RequestStream.frames, 16 in the code
    MaxFaults   \* bound: connections that break, dials that fail

Streams == Posts \cup Relays \cup Resumes
Requests == Streams \cup Pushes

ASSUME ConstantsAssumption ==
    /\ Pushes \cap Streams = {}
    /\ Relays \cap (Posts \cup Resumes) = {}
    /\ Posts \cap Resumes = {}
    /\ NoConn \notin Conns \cup Requests
    /\ Conns \cap Requests = {}
    /\ Free \notin Conns \cup Requests
    /\ Replies \in Nat \ {0}
    /\ Buffer \in Nat \ {0}
    /\ MaxFaults \in Nat

VARIABLES
    pool,      \* ConnPool.conns of the agent
    link,      \* state of a net.Conn: broken by the peer, or closed by us
    mode,      \* the connections with requestModeOn
    loopErr,   \* the connections with requestLoopErr
    pending,   \* the requests in AgentConn.pending
    readMu,
    at,        \* where the receive loop of a connection is
    frame,     \* the frame it holds: request and number
    pc,        \* where a caller is
    on,        \* its connection
    frames,    \* RequestStream.frames
    shut,      \* the streams whose frames channel has been closed
    left,      \* the streams whose closed channel has been closed
    victim,    \* the connection a caller has taken out of the pool
    doomed,    \* streams failAllRequests has still to close, for a caller or a loop
    asked,     \* the requests the agent has
    sent,      \* frames the agent has sent
    taken,     \* frames read from the connection
    got,       \* history: the frames a caller received
    result,
    panicked,  \* send on, or close of, a closed channel: the process is gone
    faults

poolVars == <<pool, link>>
connVars == <<mode, loopErr, pending, readMu, at, frame>>
streamVars == <<frames, shut, left>>
callVars == <<pc, on, victim, got, result>>
agentVars == <<asked, sent, taken>>
vars == <<poolVars, connVars, streamVars, callVars, doomed, agentVars, panicked, faults>>

NoFrame == <<NoConn, 0>>

Init ==
    /\ pool = NoConn
    /\ link = [c \in Conns |-> "none"]
    /\ mode = {}
    /\ loopErr = {}
    /\ pending = [c \in Conns |-> {}]
    /\ readMu = [c \in Conns |-> Free]
    /\ at = [c \in Conns |-> "off"]
    /\ frame = [c \in Conns |-> NoFrame]
    /\ pc = [q \in Requests |-> "get"]
    /\ on = [q \in Requests |-> NoConn]
    /\ frames = [q \in Requests |-> <<>>]
    /\ shut = {}
    /\ left = {}
    /\ victim = [q \in Requests |-> NoConn]
    /\ doomed = [p \in Requests \cup Conns |-> {}]
    /\ asked = {}
    /\ sent = [q \in Requests |-> 0]
    /\ taken = [q \in Requests |-> 0]
    /\ got = [q \in Requests |-> <<>>]
    /\ result = [q \in Requests |-> "none"]
    /\ panicked = FALSE
    /\ faults = 0
-----------------------------------------------------------------------------
(* The pool *)

Goto(q, l) == pc' = [pc EXCEPT ![q] = l]

(* With a connection, SendRequest or, for PushConfig, Send. *)
Connected(q, c) ==
    /\ on' = [on EXCEPT ![q] = c]
    /\ Goto(q, IF q \in Pushes THEN "send" ELSE "start")

(* Get, under the lock. *)
Get(q) ==
    /\ pc[q] = "get"
    /\ \/ pool # NoConn /\ Connected(q, pool)
       \/ pool = NoConn /\ Goto(q, "dial") /\ UNCHANGED on
    /\ UNCHANGED <<poolVars, connVars, streamVars, victim, got, result, doomed, agentVars,
                   panicked, faults>>

(* Get dials outside the lock. *)
Dial(q) ==
    /\ pc[q] = "dial"
    /\ \/ /\ \E c \in Conns :
                /\ link[c] = "none"
                /\ link' = [link EXCEPT ![c] = "open"]
                /\ on' = [on EXCEPT ![q] = c]
          /\ Goto(q, "install")
          /\ UNCHANGED <<result, faults>>
       \/ /\ faults < MaxFaults
          /\ faults' = faults + 1
          /\ result' = [result EXCEPT ![q] = "error"]
          /\ Goto(q, "done")
          /\ UNCHANGED <<link, on>>
    /\ UNCHANGED <<pool, connVars, streamVars, victim, got, doomed, agentVars, panicked>>

(* Mutant: the pool is not looked at again after the dial. *)
InstallBlindly(q) ==
    /\ pc[q] = "install"
    /\ pool' = on[q]
    /\ Connected(q, on[q])
    /\ UNCHANGED <<link, connVars, streamVars, victim, got, result, doomed, agentVars,
                   panicked, faults>>

(* Get, under the lock again: a duplicate is closed. *)
Install(q) ==
    /\ pc[q] = "install"
    /\ \/ /\ pool = NoConn
          /\ pool' = on[q]
          /\ Connected(q, on[q])
          /\ UNCHANGED link
       \/ /\ pool # NoConn
          /\ link' = [link EXCEPT ![on[q]] = "closed"]
          /\ Connected(q, pool)
          /\ UNCHANGED pool
    /\ UNCHANGED <<connVars, streamVars, victim, got, result, doomed, agentVars,
                   panicked, faults>>
-----------------------------------------------------------------------------
(* Callers *)

(* Mutant: nobody removes a connection. *)
RemovesNever(q) == FALSE

Removes(q) == q \in Posts \cup Pushes

(* The request of q failed; most callers take the connection out of the pool. *)
Fail(q, why) ==
    /\ result' = [result EXCEPT ![q] = why]
    /\ Goto(q, IF Removes(q) THEN "remove" ELSE "close")

(* startRequestLoop, once per connection. *)
StartRequestLoop(q) ==
    /\ pc[q] = "start"
    /\ mode' = mode \cup {on[q]}
    /\ at' = IF on[q] \in mode THEN at ELSE [at EXCEPT ![on[q]] = "idle"]
    /\ Goto(q, "register")
    /\ UNCHANGED <<poolVars, loopErr, pending, readMu, frame, streamVars, on, victim, got,
                   result, doomed, agentVars, panicked, faults>>

(* Mutant: a request is registered although the receive loop has ended. *)
RegisterLate(q) ==
    /\ pc[q] = "register"
    /\ pending' = [pending EXCEPT ![on[q]] = @ \cup {q}]
    /\ Goto(q, "send")
    /\ UNCHANGED <<poolVars, mode, loopErr, readMu, at, frame, streamVars, on, victim, got,
                   result, doomed, agentVars, panicked, faults>>

RegisterRequest(q) ==
    /\ pc[q] = "register"
    /\ \/ /\ on[q] \in loopErr
          /\ Fail(q, "error")
          /\ UNCHANGED pending
       \/ /\ on[q] \notin loopErr
          /\ pending' = [pending EXCEPT ![on[q]] = @ \cup {q}]
          /\ Goto(q, "send")
          /\ UNCHANGED result
    /\ UNCHANGED <<poolVars, mode, loopErr, readMu, at, frame, streamVars, on, victim, got,
                   doomed, agentVars, panicked, faults>>

(* RequestStream.Close; PushConfig has no stream, and nothing to unregister. *)
Unregister(q) ==
    /\ left' = left \cup {q}
    /\ pending' = [pending EXCEPT ![on[q]] = @ \ {q}]

(* Send.  A write to a connection the peer has dropped may seem to succeed; *)
(* a failed one closes the stream.                                          *)
Send(q) ==
    /\ pc[q] = "send"
    /\ \/ /\ link[on[q]] \in {"open", "broken"}
          /\ asked' = IF link[on[q]] = "open" THEN asked \cup {q} ELSE asked
          /\ Goto(q, IF q \in Pushes THEN "pull" ELSE "recv")
          /\ UNCHANGED <<pending, left, result>>
       \/ /\ link[on[q]] # "open"
          /\ Fail(q, "error")
          /\ Unregister(q)
          /\ UNCHANGED asked
    /\ UNCHANGED <<poolVars, mode, loopErr, readMu, at, frame, frames, shut, on, victim, got,
                   doomed, sent, taken, panicked, faults>>

(* RequestStream.Recv: the next frame; the answer ends with the last one. *)
Recv(q) ==
    /\ pc[q] = "recv"
    /\ frames[q] # <<>>
    /\ frames' = [frames EXCEPT ![q] = Tail(@)]
    /\ got' = [got EXCEPT ![q] = Append(@, Head(frames[q]))]
    /\ IF Head(frames[q]) = Replies
       THEN Goto(q, "close") /\ result' = [result EXCEPT ![q] = "ok"]
       ELSE UNCHANGED <<pc, result>>
    /\ UNCHANGED <<poolVars, connVars, shut, left, on, victim, doomed, agentVars,
                   panicked, faults>>

(* RequestStream.Recv: frames is closed and empty. *)
RecvClosed(q) ==
    /\ pc[q] = "recv"
    /\ frames[q] = <<>>
    /\ q \in shut
    /\ Fail(q, "error")
    /\ UNCHANGED <<poolVars, connVars, streamVars, on, victim, got, doomed, agentVars,
                   panicked, faults>>

Unlock(c) == readMu' = [readMu EXCEPT ![c] = Free]

(* Mutant of TimeOut: the context is looked at once more after the answer. *)
TimeOutLate(q) ==
    /\ q \notin Relays
    /\ pc[q] \in {"recv", "close", "locked"}
    /\ Fail(q, "timeout")
    /\ IF pc[q] = "locked" THEN Unlock(on[q]) ELSE UNCHANGED readMu
    /\ UNCHANGED <<poolVars, mode, loopErr, pending, at, frame, streamVars, on, victim, got,
                   doomed, agentVars, panicked, faults>>

(* The caller's context ends; PushConfig may be in the middle of a read. *)
TimeOut(q) ==
    /\ q \notin Relays
    /\ pc[q] \in {"recv", "locked"}
    /\ Fail(q, "timeout")
    /\ IF pc[q] = "locked" THEN Unlock(on[q]) ELSE UNCHANGED readMu
    /\ UNCHANGED <<poolVars, mode, loopErr, pending, at, frame, streamVars, on, victim, got,
                   doomed, agentVars, panicked, faults>>

(* Remove, under the lock: whatever connection the pool has by now. *)
Remove(q) ==
    /\ pc[q] = "remove"
    /\ victim' = [victim EXCEPT ![q] = pool]
    /\ pool' = NoConn
    /\ Goto(q, IF pool = NoConn THEN "close" ELSE "shutdown")
    /\ UNCHANGED <<link, connVars, streamVars, on, got, result, doomed, agentVars,
                   panicked, faults>>

(* AgentConn.Close: the net.Conn, then failAllRequests. *)
CloseConn(q) ==
    /\ pc[q] = "shutdown"
    /\ link' = [link EXCEPT ![victim[q]] = "closed"]
    /\ Goto(q, "failall")
    /\ UNCHANGED <<pool, connVars, streamVars, on, victim, got, result, doomed, agentVars,
                   panicked, faults>>

(* failAllRequests, the part under pendingMu, by process p. *)
FailAllRequests(p, c) ==
    /\ loopErr' = loopErr \cup {c}
    /\ doomed' = [doomed EXCEPT ![p] = pending[c]]
    /\ pending' = [pending EXCEPT ![c] = {}]

(* The part after it: one close(request.frames) at a time. *)
CloseFrames(p, r) ==
    /\ r \in doomed[p]
    /\ doomed' = [doomed EXCEPT ![p] = @ \ {r}]
    /\ shut' = shut \cup {r}
    /\ panicked' = (r \in shut)
    /\ UNCHANGED <<frames, left>>

FailAll(q) ==
    /\ pc[q] = "failall"
    /\ FailAllRequests(q, victim[q])
    /\ Goto(q, "closing")
    /\ UNCHANGED <<poolVars, mode, readMu, at, frame, streamVars, on, victim, got, result,
                   agentVars, panicked, faults>>

Closing(q) ==
    /\ pc[q] = "closing"
    /\ \/ /\ \E r \in Streams : CloseFrames(q, r)
          /\ UNCHANGED pc
       \/ /\ doomed[q] = {}
          /\ Goto(q, "close")
          /\ UNCHANGED <<streamVars, doomed, panicked>>
    /\ UNCHANGED <<poolVars, connVars, on, victim, got, result, agentVars, faults>>

(* The deferred request.Close. *)
CloseStream(q) ==
    /\ pc[q] = "close"
    /\ Unregister(q)
    /\ Goto(q, "done")
    /\ UNCHANGED <<poolVars, mode, loopErr, readMu, at, frame, frames, shut, on, victim, got,
                   result, doomed, agentVars, panicked, faults>>
-----------------------------------------------------------------------------
(* Reading from a connection *)

(* The next frame of r can be read from c. *)
Readable(c, r) ==
    /\ link[c] \in {"open", "broken"}
    /\ on[r] = c
    /\ taken[r] < sent[r]

(* A read from c fails. *)
AtEnd(c) ==
    \/ link[c] = "closed"
    \/ link[c] = "broken" /\ \A r \in Requests : ~ Readable(c, r)

Read(r) == taken' = [taken EXCEPT ![r] = @ + 1]

(* PushConfig: AgentConn.Recv refuses once a SendRequest was made. *)
Pull(q) ==
    /\ pc[q] = "pull"
    /\ \/ on[q] \in mode /\ Fail(q, "error")
       \/ on[q] \notin mode /\ Goto(q, "lock") /\ UNCHANGED result
    /\ UNCHANGED <<poolVars, connVars, streamVars, on, victim, got, doomed, agentVars,
                   panicked, faults>>

PullLock(q) ==
    /\ pc[q] = "lock"
    /\ readMu[on[q]] = Free
    /\ readMu' = [readMu EXCEPT ![on[q]] = q]
    /\ Goto(q, "locked")
    /\ UNCHANGED <<poolVars, mode, loopErr, pending, at, frame, streamVars, on, victim, got,
                   result, doomed, agentVars, panicked, faults>>

(* The ack ends the call; a frame of another request, or a heartbeat, is    *)
(* skipped; a failed read ends it.                                          *)
PullFrame(q) ==
    /\ pc[q] = "locked"
    /\ Unlock(on[q])
    /\ \/ /\ Readable(on[q], q)
          /\ Read(q)
          /\ result' = [result EXCEPT ![q] = "ok"]
          /\ Goto(q, "done")
       \/ /\ \E r \in Requests \ {q} : Readable(on[q], r) /\ Read(r)
          /\ Goto(q, "pull")
          /\ UNCHANGED result
       \/ /\ link[on[q]] = "open"
          /\ Goto(q, "pull")
          /\ UNCHANGED <<result, taken>>
       \/ /\ AtEnd(on[q])
          /\ Fail(q, "error")
          /\ UNCHANGED taken
    /\ UNCHANGED <<poolVars, mode, loopErr, pending, at, frame, streamVars, on, victim, got,
                   doomed, asked, sent, panicked, faults>>

(* runRequestLoop: recvFrame takes readMu. *)
LoopLock(c) ==
    /\ at[c] = "idle"
    /\ readMu[c] = Free
    /\ readMu' = [readMu EXCEPT ![c] = c]
    /\ at' = [at EXCEPT ![c] = "read"]
    /\ UNCHANGED <<poolVars, mode, loopErr, pending, frame, streamVars, callVars, doomed,
                   agentVars, panicked, faults>>

(* recvFrame returns a frame, or an error. *)
LoopRead(c) ==
    /\ at[c] = "read"
    /\ Unlock(c)
    /\ \/ \E r \in Requests :
             /\ Readable(c, r)
             /\ Read(r)
             /\ frame' = [frame EXCEPT ![c] = <<r, taken[r] + 1>>]
             /\ at' = [at EXCEPT ![c] = "lookup"]
       \/ /\ AtEnd(c)
          /\ at' = [at EXCEPT ![c] = "fail"]
          /\ UNCHANGED <<taken, frame>>
    /\ UNCHANGED <<poolVars, mode, loopErr, pending, streamVars, callVars, doomed, asked,
                   sent, panicked, faults>>

(* Mutant: a frame goes to whoever waits on the connection. *)
LoopLookupAnyone(c) ==
    /\ at[c] = "lookup"
    /\ \/ /\ \E r \in pending[c] : frame' = [frame EXCEPT ![c] = <<r, frame[c][2]>>]
          /\ at' = [at EXCEPT ![c] = "dispatch"]
       \/ /\ pending[c] = {}
          /\ at' = [at EXCEPT ![c] = "idle"]
          /\ frame' = [frame EXCEPT ![c] = NoFrame]
    /\ UNCHANGED <<poolVars, mode, loopErr, pending, readMu, streamVars, callVars, doomed,
                   agentVars, panicked, faults>>

(* dispatchRequestFrame, under pendingMu: a frame nobody waits for is dropped. *)
LoopLookup(c) ==
    /\ at[c] = "lookup"
    /\ \/ /\ frame[c][1] \in pending[c]
          /\ at' = [at EXCEPT ![c] = "dispatch"]
          /\ UNCHANGED frame
       \/ /\ frame[c][1] \notin pending[c]
          /\ at' = [at EXCEPT ![c] = "idle"]
          /\ frame' = [frame EXCEPT ![c] = NoFrame]
    /\ UNCHANGED <<poolVars, mode, loopErr, pending, readMu, streamVars, callVars, doomed,
                   agentVars, panicked, faults>>

(* The select of dispatchRequestFrame: send, give up on a closed stream, or *)
(* panic on a closed frames channel; it waits while the buffer is full.     *)
LoopDispatch(c) ==
    LET q == frame[c][1] IN
    /\ at[c] = "dispatch"
    /\ \/ /\ q \notin shut
          /\ Len(frames[q]) < Buffer
          /\ frames' = [frames EXCEPT ![q] = Append(@, frame[c][2])]
          /\ UNCHANGED <<pending, panicked>>
       \/ /\ q \in left
          /\ pending' = [pending EXCEPT ![c] = @ \ {q}]
          /\ UNCHANGED <<frames, panicked>>
       \/ /\ q \in shut
          /\ panicked' = TRUE
          /\ UNCHANGED <<frames, pending>>
    /\ at' = [at EXCEPT ![c] = "idle"]
    /\ frame' = [frame EXCEPT ![c] = NoFrame]
    /\ UNCHANGED <<poolVars, mode, loopErr, readMu, shut, left, callVars, doomed, agentVars,
                   faults>>

LoopFail(c) ==
    /\ at[c] = "fail"
    /\ FailAllRequests(c, c)
    /\ at' = [at EXCEPT ![c] = "ended"]
    /\ UNCHANGED <<poolVars, mode, readMu, frame, streamVars, callVars, agentVars, panicked,
                   faults>>

LoopClosing(c) ==
    /\ at[c] = "ended"
    /\ \E r \in Streams : CloseFrames(c, r)
    /\ UNCHANGED <<poolVars, connVars, callVars, agentVars, faults>>
-----------------------------------------------------------------------------
(* The agent and the network *)

Answer(q) == IF q \in Pushes THEN 1 ELSE Replies

AgentReply(q) ==
    /\ q \in asked
    /\ link[on[q]] = "open"
    /\ sent[q] < Answer(q)
    /\ sent' = [sent EXCEPT ![q] = @ + 1]
    /\ UNCHANGED <<poolVars, connVars, streamVars, callVars, doomed, asked, taken, panicked,
                   faults>>

(* The agent closes the connection: it restarts, or fails to read or write. *)
Break(c) ==
    /\ link[c] = "open"
    /\ faults < MaxFaults
    /\ faults' = faults + 1
    /\ link' = [link EXCEPT ![c] = "broken"]
    /\ UNCHANGED <<pool, connVars, streamVars, callVars, doomed, agentVars, panicked>>
-----------------------------------------------------------------------------
StreamStep(q) ==
    StartRequestLoop(q) \/ RegisterRequest(q) \/ Recv(q) \/ RecvClosed(q)

PushStep(q) == Pull(q) \/ PullLock(q) \/ PullFrame(q)

CallStep(q) ==
    \/ Get(q) \/ Dial(q) \/ Install(q) \/ Send(q) \/ StreamStep(q) \/ PushStep(q)
    \/ Remove(q) \/ CloseConn(q) \/ FailAll(q) \/ Closing(q) \/ CloseStream(q)

LoopStep(c) ==
    LoopLock(c) \/ LoopRead(c) \/ LoopLookup(c) \/ LoopDispatch(c) \/ LoopFail(c) \/ LoopClosing(c)

Next ==
    /\ ~ panicked
    /\ \/ \E q \in Requests : CallStep(q) \/ TimeOut(q) \/ AgentReply(q)
       \/ \E c \in Conns : LoopStep(c) \/ Break(c)

Spec == Init /\ [][Next]_vars

(* Goroutines run, and the agent answers what it was asked.  Nothing is     *)
(* said of time-outs, broken connections and the locks PushConfig takes.    *)
Fairness ==
    /\ \A q \in Requests : WF_vars(~ panicked /\ CallStep(q)) /\ WF_vars(~ panicked /\ AgentReply(q))
    /\ \A c \in Conns : WF_vars(~ panicked /\ LoopStep(c))

FairSpec == Spec /\ Fairness
-----------------------------------------------------------------------------
PCs == {"get", "dial", "install", "start", "register", "send", "recv", "pull", "lock", "locked",
        "remove", "shutdown", "failall", "closing", "close", "done"}

PoolType ==
    /\ pool \in Conns \cup {NoConn}
    /\ link \in [Conns -> {"none", "open", "broken", "closed"}]

ConnType ==
    /\ mode \subseteq Conns
    /\ loopErr \subseteq Conns
    /\ pending \in [Conns -> SUBSET Streams]
    /\ readMu \in [Conns -> Pushes \cup Conns \cup {Free}]
    /\ at \in [Conns -> {"off", "idle", "read", "lookup", "dispatch", "fail", "ended"}]
    /\ frame \in [Conns -> (Requests \X (1 .. Replies)) \cup {NoFrame}]

StreamType ==
    /\ shut \subseteq Requests
    /\ left \subseteq Requests
    /\ doomed \in [Requests \cup Conns -> SUBSET Streams]

FramesType ==
    /\ frames \in [Requests -> Seq(1 .. Replies)]
    /\ got \in [Requests -> Seq(1 .. Replies)]

CallType ==
    /\ pc \in [Requests -> PCs]
    /\ on \in [Requests -> Conns \cup {NoConn}]
    /\ victim \in [Requests -> Conns \cup {NoConn}]
    /\ result \in [Requests -> {"none", "ok", "error", "timeout"}]

AgentType ==
    /\ asked \subseteq Requests
    /\ sent \in [Requests -> 0 .. Replies]
    /\ taken \in [Requests -> 0 .. Replies]
    /\ faults \in 0 .. MaxFaults

(* Types: among them, a connection is open for one agent session at a time. *)
TypeOK ==
    /\ PoolType /\ ConnType /\ StreamType /\ FramesType /\ CallType /\ AgentType
    /\ panicked \in BOOLEAN

(* internal/proxy/pool.go:12: SendRequest "routes replies by Frame.ID, so   *)
(* concurrent in-flight requests to the same agent are supported without    *)
(* response cross-talk".  A caller sees the frames of its own answer, each  *)
(* once and in order, and a completed answer has all of them.               *)
NoCrossTalk ==
    \A q \in Streams :
        /\ \A i \in 1 .. Len(got[q]) : got[q][i] = i
        /\ result[q] = "ok" => Len(got[q]) = Replies

(* A connection that was dialed is in the pool, or is being put into it, or *)
(* is on its way to be closed by the caller that took it out: none is lost  *)
(* when callers dial and remove at the same time.                           *)
NoConnLeak ==
    \A c \in Conns : link[c] \in {"open", "broken"} =>
        \/ pool = c
        \/ \E q \in Requests :
              (pc[q] = "install" /\ on[q] = c) \/ (pc[q] = "shutdown" /\ victim[q] = c)

(* Only a caller that is still using its stream is registered, on its own   *)
(* connection and only while that one is read; a caller that waits on a     *)
(* stream that is not registered any more is about to have it closed.       *)
NoWaiterLeak ==
    \A c \in Conns, q \in Streams :
        /\ c \in loopErr => q \notin pending[c]
        /\ q \in pending[c] => on[q] = c /\ pc[q] \notin {"get", "dial", "install", "done"}
        /\ (pc[q] = "recv" /\ on[q] = c /\ q \notin pending[c]) =>
              q \in shut \/ \E p \in Requests \cup Conns : q \in doomed[p]

(* A caller that failed with an error, and removes connections, does not    *)
(* leave the one it failed on in the pool for the next caller.              *)
DeadConnRemoved ==
    \A q \in Posts \cup Pushes :
        result[q] = "error" /\ pc[q] = "done" /\ on[q] # NoConn => pool # on[q]

(* The streams as their callers see them, without connections.              *)
Private == INSTANCE PrivateStreams WITH
    Callers <- Streams,
    written <- [q \in Streams |-> sent[q]],
    got <- [q \in Streams |-> got[q]],
    result <- [q \in Streams |-> result[q]]

(* The multiplexed connections keep the promise of PrivateStreams: whatever *)
(* else is on the wire, in the table and in the pool, every caller gets     *)
(* what the agent wrote for it, in order, and after that nothing, and a     *)
(* caller that was told of a failure is never told of success.              *)
KeepsPrivacy == Private!Spec

(* Every request ends, answered or failed, although the websocket relay has *)
(* no time-out: a connection that dies fails all that wait on it.           *)
RequestsEnd == \A q \in Requests : <>(pc[q] = "done" \/ panicked)
-----------------------------------------------------------------------------
(* What the code does not keep *)

(* internal/proxy/pool.go:13: "concurrent in-flight requests to the same    *)
(* agent are supported".  The process does not panic on a closed channel.   *)
NoPanic == ~ panicked

(* docs/plans/2026-02-24-phase8-proxy-frame-multiplexing-design.md:65:      *)
(* "Timeout/cancel affects only that request unless the underlying conn     *)
(* dies."  A request fails with an error only if a connection broke.        *)
TimeoutIsolated ==
    \A q \in Streams : result[q] = "error" => faults > 0

(* internal/proxy/push.go:12: "PushConfig sends a config_update frame to a  *)
(* running agent and waits for ack."  It fails only if a connection broke.  *)
PushAcked ==
    \A q \in Pushes : result[q] = "error" => faults > 0

(* docs/plans/2026-02-24-phase8-proxy-frame-multiplexing-design.md:64:      *)
(* "Loop failure returns request error and triggers pool removal by caller  *)
(* paths already doing failover."  No caller leaves a connection with an    *)
(* ended receive loop in the pool.                                          *)
DeadConnNeverKept ==
    \A q \in Streams :
        result[q] = "error" /\ pc[q] = "done" /\ on[q] # NoConn => pool # on[q]
=============================================================================
