--------------------------- MODULE AgentConnProofs ---------------------------
(***************************************************************************)
(* What the connection pool and the request streams guarantee for any       *)
(* number of callers and connections, any answer length and buffer size.    *)
(***************************************************************************)
EXTENDS AgentConn, TLAPS

(* Most steps are for Zenon; those that need the SMT solver say so. *)
USE ZenonT(30)

(* A caller past the pool has a connection; only PushConfig reads by itself. *)
Placed ==
    \A q \in Requests :
        /\ pc[q] \in {"get", "dial"} => on[q] = NoConn
        /\ pc[q] \notin {"get", "dial", "done"} => on[q] \in Conns
        /\ pc[q] \in {"shutdown", "failall"} => victim[q] \in Conns
        /\ pc[q] \in {"pull", "lock", "locked"} => q \in Pushes
        /\ pc[q] \in {"start", "register", "recv"} => q \in Streams

(* The receive loop starts with request mode and holds a frame while it     *)
(* dispatches one.                                                          *)
Held ==
    \A c \in Conns :
        /\ c \notin mode => at[c] = "off"
        /\ IF at[c] \in {"lookup", "dispatch"}
           THEN frame[c] \in Requests \X (1 .. Replies)
           ELSE frame[c] = NoFrame

Types == TypeOK /\ Placed /\ Held

(* Types holds at first.                                                    *)
LEMMA TypesInit == Init => Types
<1> SUFFICES ASSUME Init PROVE Types
  OBVIOUS
<1>1. PoolType /\ CallType
  BY DEF Init, PoolType, CallType, PCs
<1>2. ConnType
  BY DEF Init, ConnType
<1>3. StreamType /\ panicked \in BOOLEAN
  BY DEF Init, StreamType
<1>6. FramesType
  BY SMTT(30) DEF Init, FramesType
<1>4. AgentType
  BY SMTT(30), ConstantsAssumption DEF Init, AgentType
<1>5. Placed /\ Held
  BY DEF Init, Placed, Held
<1> QED
  BY <1>1, <1>2, <1>3, <1>4, <1>5, <1>6 DEF Types, TypeOK

(* Every step keeps PoolType.                                               *)
LEMMA PoolStep == Types /\ [Next]_vars => PoolType'
<1>1. SUFFICES ASSUME Types, [Next]_vars PROVE PoolType'
  OBVIOUS
<1>2. ASSUME UNCHANGED poolVars
      PROVE  PoolType'
  BY <1>1, <1>2 DEF Types, TypeOK, PoolType, poolVars
<1>3. CASE Next
  <2>1. ASSUME NEW q \in Requests, Dial(q)
        PROVE  PoolType'
    BY SMTT(30), <1>1, <2>1, ConstantsAssumption DEF Types, TypeOK, PoolType, CallType, Placed, Dial,
       Goto
  <2>2. ASSUME NEW q \in Requests, Install(q)
        PROVE  PoolType'
    BY SMTT(30), <1>1, <2>2, ConstantsAssumption DEF Types, TypeOK, PoolType, CallType, Placed,
       Install, Connected, Goto
  <2>3. ASSUME NEW q \in Requests, Remove(q)
        PROVE  PoolType'
    BY <1>1, <2>3, ConstantsAssumption DEF Types, TypeOK, PoolType, CallType, Placed, Remove,
       Goto
  <2>4. ASSUME NEW q \in Requests, CloseConn(q)
        PROVE  PoolType'
    BY <1>1, <2>4, ConstantsAssumption DEF Types, TypeOK, PoolType, CallType, Placed,
       CloseConn, Goto
  <2>5. ASSUME NEW c \in Conns, Break(c)
        PROVE  PoolType'
    BY <1>1, <2>5, ConstantsAssumption DEF Types, TypeOK, PoolType, CallType, Placed, Break
  <2>6. ASSUME NEW q \in Requests,
               Get(q) \/ Send(q) \/ StartRequestLoop(q) \/ RegisterRequest(q) \/ Recv(q) \/
               RecvClosed(q) \/ Pull(q) \/ PullLock(q) \/ PullFrame(q) \/ FailAll(q) \/
               Closing(q) \/ CloseStream(q) \/ TimeOut(q) \/ AgentReply(q)
        PROVE  PoolType'
    BY <1>2, <2>6 DEF Get, Send, StartRequestLoop, RegisterRequest, Recv, RecvClosed, Pull,
       PullLock, PullFrame, FailAll, Closing, CloseStream, TimeOut, AgentReply, CloseFrames,
       poolVars, connVars, streamVars, callVars, agentVars
  <2>7. ASSUME NEW c \in Conns,
               LoopLock(c) \/ LoopRead(c) \/ LoopLookup(c) \/ LoopDispatch(c) \/ LoopFail(c) \/
               LoopClosing(c)
        PROVE  PoolType'
    BY <1>2, <2>7 DEF LoopLock, LoopRead, LoopLookup, LoopDispatch, LoopFail, LoopClosing,
       CloseFrames, poolVars, connVars, streamVars, callVars, agentVars
  <2> QED
    BY <1>3, <2>1, <2>2, <2>3, <2>4, <2>5, <2>6, <2>7 DEF Next, CallStep, StreamStep,
       PushStep, LoopStep
<1>4. CASE UNCHANGED vars
  BY <1>2, <1>4 DEF vars, poolVars, connVars, streamVars, callVars, agentVars
<1> QED
  BY <1>1, <1>3, <1>4

(* Every step keeps ConnType.                                               *)
LEMMA ConnStep == Types /\ [Next]_vars => ConnType'
<1>1. SUFFICES ASSUME Types, [Next]_vars PROVE ConnType'
  OBVIOUS
<1>2. ASSUME UNCHANGED connVars
      PROVE  ConnType'
  BY <1>1, <1>2 DEF Types, TypeOK, ConnType, connVars
<1>3. CASE Next
  <2>1. ASSUME NEW q \in Requests, Send(q)
        PROVE  ConnType'
    BY SMTT(30), <1>1, <2>1, ConstantsAssumption DEF Types, TypeOK, ConnType, CallType, AgentType,
       Placed, Send, Fail, Removes, Goto, Unregister
  <2>2. ASSUME NEW q \in Requests, StartRequestLoop(q)
        PROVE  ConnType'
    BY SMTT(30), <1>1, <2>2, ConstantsAssumption DEF Types, TypeOK, ConnType, CallType, AgentType,
       Placed, StartRequestLoop, Goto
  <2>3. ASSUME NEW q \in Requests, RegisterRequest(q)
        PROVE  ConnType'
    BY SMTT(30), <1>1, <2>3, ConstantsAssumption DEF Types, TypeOK, ConnType, CallType, AgentType,
       Placed, RegisterRequest, Fail, Removes, Goto
  <2>4. ASSUME NEW q \in Requests, PullLock(q)
        PROVE  ConnType'
    BY <1>1, <2>4, ConstantsAssumption DEF Types, TypeOK, ConnType, CallType, AgentType,
       Placed, PullLock, Goto
  <2>5. ASSUME NEW q \in Requests, PullFrame(q)
        PROVE  ConnType'
    BY <1>1, <2>5, ConstantsAssumption DEF Types, TypeOK, ConnType, CallType, AgentType,
       Placed, PullFrame, Fail, Removes, Goto, Unlock, Read, Readable
  <2>6. ASSUME NEW q \in Requests, FailAll(q)
        PROVE  ConnType'
    BY SMTT(30), <1>1, <2>6, ConstantsAssumption DEF Types, TypeOK, ConnType, CallType, AgentType,
       Placed, FailAll, FailAllRequests, Goto
  <2>7. ASSUME NEW q \in Requests, CloseStream(q)
        PROVE  ConnType'
    BY <1>1, <2>7, ConstantsAssumption DEF Types, TypeOK, ConnType, CallType, AgentType,
       Placed, CloseStream, Unregister, Goto
  <2>8. ASSUME NEW q \in Requests, TimeOut(q)
        PROVE  ConnType'
    BY SMTT(30), <1>1, <2>8, ConstantsAssumption DEF Types, TypeOK, ConnType, CallType, AgentType,
       Placed, TimeOut, Fail, Removes, Goto, Unlock
  <2>9. ASSUME NEW c \in Conns, LoopLock(c)
        PROVE  ConnType'
    BY <1>1, <2>9 DEF Types, TypeOK, ConnType, LoopLock
  <2>10. ASSUME NEW c \in Conns, LoopRead(c)
        PROVE  ConnType'
    BY SMTT(30), <1>1, <2>10, ConstantsAssumption DEF Types, TypeOK, ConnType, CallType, AgentType,
       Placed, LoopRead, Unlock, Read, Readable
  <2>11. ASSUME NEW c \in Conns, LoopLookup(c)
        PROVE  ConnType'
    BY <1>1, <2>11 DEF Types, TypeOK, ConnType, LoopLookup
  <2>12. ASSUME NEW c \in Conns, LoopDispatch(c)
        PROVE  ConnType'
    BY <1>1, <2>12 DEF Types, TypeOK, ConnType, LoopDispatch
  <2>13. ASSUME NEW c \in Conns, LoopFail(c)
        PROVE  ConnType'
    BY <1>1, <2>13 DEF Types, TypeOK, ConnType, LoopFail, FailAllRequests
  <2>14. ASSUME NEW q \in Requests,
               Get(q) \/ Dial(q) \/ Install(q) \/ Recv(q) \/ RecvClosed(q) \/ Pull(q) \/
               Remove(q) \/ CloseConn(q) \/ Closing(q) \/ AgentReply(q)
        PROVE  ConnType'
    BY <1>2, <2>14 DEF Get, Dial, Install, Recv, RecvClosed, Pull, Remove, CloseConn,
       Closing, AgentReply, CloseFrames, poolVars, connVars, streamVars, callVars, agentVars
  <2>15. ASSUME NEW c \in Conns,
               LoopClosing(c) \/ Break(c)
        PROVE  ConnType'
    BY <1>2, <2>15 DEF LoopClosing, Break, CloseFrames, poolVars, connVars, streamVars,
       callVars, agentVars
  <2> QED
    BY <1>3, <2>1, <2>2, <2>3, <2>4, <2>5, <2>6, <2>7, <2>8, <2>9, <2>10, <2>11, <2>12,
       <2>13, <2>14, <2>15 DEF Next, CallStep, StreamStep, PushStep, LoopStep
<1>4. CASE UNCHANGED vars
  BY <1>2, <1>4 DEF vars, poolVars, connVars, streamVars, callVars, agentVars
<1> QED
  BY <1>1, <1>3, <1>4

(* Every step keeps StreamType.                                             *)
LEMMA StreamTypeStep == Types /\ [Next]_vars => StreamType'
<1>1. SUFFICES ASSUME Types, [Next]_vars PROVE StreamType'
  OBVIOUS
<1>2. ASSUME UNCHANGED <<shut, left, doomed>>
      PROVE  StreamType'
  BY <1>1, <1>2 DEF Types, TypeOK, StreamType
<1>3. CASE Next
  <2>1. ASSUME NEW q \in Requests, Send(q)
        PROVE  StreamType'
    BY SMTT(30), <1>1, <2>1, ConstantsAssumption DEF Types, TypeOK, StreamType, ConnType, CallType,
       Placed, Requests, Send, Fail, Removes, Goto, Unregister
  <2>2. ASSUME NEW q \in Requests, FailAll(q)
        PROVE  StreamType'
    <3>1. victim[q] \in Conns
      BY <1>1, <2>2 DEF Types, Placed, FailAll
    <3>2. pending[victim[q]] \in SUBSET Streams
      BY <1>1, <3>1 DEF Types, TypeOK, ConnType
    <3> QED
      BY <1>1, <2>2, <3>2 DEF Types, TypeOK, StreamType, FailAll, FailAllRequests, streamVars
  <2>3. ASSUME NEW q \in Requests, Closing(q)
        PROVE  StreamType'
    <3>1. CASE \E r \in Streams : CloseFrames(q, r)
      <4>1. PICK r \in Streams : CloseFrames(q, r)
        BY <3>1
      <4>2. r \in Requests
        BY DEF Requests
      <4> QED
        BY <1>1, <4>1, <4>2 DEF Types, TypeOK, StreamType, CloseFrames
    <3>2. CASE UNCHANGED <<streamVars, doomed>>
      BY <1>2, <3>2 DEF streamVars
    <3> QED
      BY <2>3, <3>1, <3>2 DEF Closing
  <2>4. ASSUME NEW q \in Requests, CloseStream(q)
        PROVE  StreamType'
    BY <1>1, <2>4 DEF Types, TypeOK, StreamType, CloseStream, Unregister
  <2>5. ASSUME NEW c \in Conns, LoopFail(c)
        PROVE  StreamType'
    <3>1. pending[c] \in SUBSET Streams
      BY <1>1 DEF Types, TypeOK, ConnType
    <3> QED
      BY <1>1, <2>5, <3>1 DEF Types, TypeOK, StreamType, LoopFail, FailAllRequests, streamVars
  <2>6. ASSUME NEW c \in Conns, LoopClosing(c)
        PROVE  StreamType'
    BY SMTT(30), <1>1, <2>6, ConstantsAssumption DEF Types, TypeOK, StreamType, ConnType, CallType,
       Placed, Requests, LoopClosing, CloseFrames
  <2>7. ASSUME NEW q \in Requests,
               Get(q) \/ Dial(q) \/ Install(q) \/ StartRequestLoop(q) \/ RegisterRequest(q) \/
               Recv(q) \/ RecvClosed(q) \/ Pull(q) \/ PullLock(q) \/ PullFrame(q) \/ Remove(q)
               \/ CloseConn(q) \/ TimeOut(q) \/ AgentReply(q)
        PROVE  StreamType'
    BY <1>2, <2>7 DEF Get, Dial, Install, StartRequestLoop, RegisterRequest, Recv,
       RecvClosed, Pull, PullLock, PullFrame, Remove, CloseConn, TimeOut, AgentReply, poolVars,
       connVars, streamVars, callVars, agentVars
  <2>8. ASSUME NEW c \in Conns,
               LoopLock(c) \/ LoopRead(c) \/ LoopLookup(c) \/ LoopDispatch(c) \/ Break(c)
        PROVE  StreamType'
    BY <1>2, <2>8 DEF LoopLock, LoopRead, LoopLookup, LoopDispatch, Break, poolVars,
       connVars, streamVars, callVars, agentVars
  <2> QED
    BY <1>3, <2>1, <2>2, <2>3, <2>4, <2>5, <2>6, <2>7, <2>8 DEF Next, CallStep, StreamStep,
       PushStep, LoopStep
<1>4. CASE UNCHANGED vars
  BY <1>2, <1>4 DEF vars, poolVars, connVars, streamVars, callVars, agentVars
<1> QED
  BY <1>1, <1>3, <1>4

(* Every step keeps FramesType.                                             *)
LEMMA FramesStep == Types /\ [Next]_vars => FramesType'
<1>1. SUFFICES ASSUME Types, [Next]_vars PROVE FramesType'
  OBVIOUS
<1>2. ASSUME UNCHANGED <<frames, got>>
      PROVE  FramesType'
  BY <1>1, <1>2 DEF Types, TypeOK, FramesType
<1>3. CASE Next
  <2>1. ASSUME NEW q \in Requests, Recv(q)
        PROVE  FramesType'
    BY SMTT(30), <1>1, <2>1, ConstantsAssumption DEF Types, TypeOK, FramesType, Held, Recv, Goto
  <2>2. ASSUME NEW c \in Conns, LoopDispatch(c)
        PROVE  FramesType'
    <3>1. frame[c][1] \in Requests /\ frame[c][2] \in 1 .. Replies
      BY <1>1, <2>2 DEF Types, Held, LoopDispatch
    <3>2. got' = got
      BY <2>2 DEF LoopDispatch, callVars
    <3>3. \/ frames' = frames
          \/ frames' = [frames EXCEPT ![frame[c][1]] = Append(@, frame[c][2])]
      BY <2>2 DEF LoopDispatch
    <3>4. frames[frame[c][1]] \in Seq(1 .. Replies)
      BY <1>1, <3>1 DEF Types, TypeOK, FramesType
    <3>5. Append(frames[frame[c][1]], frame[c][2]) \in Seq(1 .. Replies)
      BY SMTT(30), <3>1, <3>4
    <3>6. frames' \in [Requests -> Seq(1 .. Replies)]
      BY <1>1, <3>3, <3>5 DEF Types, TypeOK, FramesType
    <3> QED
      BY <1>1, <3>2, <3>6 DEF Types, TypeOK, FramesType
  <2>3. ASSUME NEW q \in Requests,
               Get(q) \/ Dial(q) \/ Install(q) \/ Send(q) \/ StartRequestLoop(q) \/
               RegisterRequest(q) \/ RecvClosed(q) \/ Pull(q) \/ PullLock(q) \/ PullFrame(q) \/
               Remove(q) \/ CloseConn(q) \/ FailAll(q) \/ Closing(q) \/ CloseStream(q) \/
               TimeOut(q) \/ AgentReply(q)
        PROVE  FramesType'
    BY <1>2, <2>3 DEF Get, Dial, Install, Send, StartRequestLoop, RegisterRequest,
       RecvClosed, Pull, PullLock, PullFrame, Remove, CloseConn, FailAll, Closing, CloseStream,
       TimeOut, AgentReply, CloseFrames, poolVars, connVars, streamVars, callVars, agentVars
  <2>4. ASSUME NEW c \in Conns,
               LoopLock(c) \/ LoopRead(c) \/ LoopLookup(c) \/ LoopFail(c) \/ LoopClosing(c) \/
               Break(c)
        PROVE  FramesType'
    BY <1>2, <2>4 DEF LoopLock, LoopRead, LoopLookup, LoopFail, LoopClosing, Break,
       CloseFrames, poolVars, connVars, streamVars, callVars, agentVars
  <2> QED
    BY <1>3, <2>1, <2>2, <2>3, <2>4 DEF Next, CallStep, StreamStep, PushStep, LoopStep
<1>4. CASE UNCHANGED vars
  BY <1>2, <1>4 DEF vars, poolVars, connVars, streamVars, callVars, agentVars
<1> QED
  BY <1>1, <1>3, <1>4

(* Every step keeps CallType.                                               *)
LEMMA CallTypeStep == Types /\ [Next]_vars => CallType'
<1>1. SUFFICES ASSUME Types, [Next]_vars PROVE CallType'
  OBVIOUS
<1>2. ASSUME UNCHANGED <<pc, on, victim, result>>
      PROVE  CallType'
  BY <1>1, <1>2 DEF Types, TypeOK, CallType
<1>3. CASE Next
  <2>1. ASSUME NEW q \in Requests, Get(q)
        PROVE  CallType'
    BY SMTT(30), <1>1, <2>1, ConstantsAssumption DEF Types, TypeOK, CallType, PoolType, PCs, Get,
       Connected, Goto
  <2>2. ASSUME NEW q \in Requests, Dial(q)
        PROVE  CallType'
    BY SMTT(30), <1>1, <2>2, ConstantsAssumption DEF Types, TypeOK, CallType, PoolType, PCs, Dial, Goto
  <2>3. ASSUME NEW q \in Requests, Install(q)
        PROVE  CallType'
    BY SMTT(30), <1>1, <2>3, ConstantsAssumption DEF Types, TypeOK, CallType, PoolType, PCs, Install,
       Connected, Goto
  <2>4. ASSUME NEW q \in Requests, Send(q)
        PROVE  CallType'
    BY SMTT(30), <1>1, <2>4, ConstantsAssumption DEF Types, TypeOK, CallType, PoolType, PCs, Send,
       Fail, Removes, Goto, Unregister
  <2>5. ASSUME NEW q \in Requests, StartRequestLoop(q)
        PROVE  CallType'
    BY <1>1, <2>5, ConstantsAssumption DEF Types, TypeOK, CallType, PoolType, PCs,
       StartRequestLoop, Goto
  <2>6. ASSUME NEW q \in Requests, RegisterRequest(q)
        PROVE  CallType'
    BY <1>1, <2>6, ConstantsAssumption DEF Types, TypeOK, CallType, PoolType, PCs,
       RegisterRequest, Fail, Removes, Goto
  <2>7. ASSUME NEW q \in Requests, Recv(q)
        PROVE  CallType'
    BY <1>1, <2>7, ConstantsAssumption DEF Types, TypeOK, CallType, PoolType, PCs, Recv, Goto
  <2>8. ASSUME NEW q \in Requests, RecvClosed(q)
        PROVE  CallType'
    BY <1>1, <2>8, ConstantsAssumption DEF Types, TypeOK, CallType, PoolType, PCs,
       RecvClosed, Fail, Removes, Goto
  <2>9. ASSUME NEW q \in Requests, Pull(q)
        PROVE  CallType'
    BY <1>1, <2>9, ConstantsAssumption DEF Types, TypeOK, CallType, PoolType, PCs, Pull,
       Fail, Removes, Goto
  <2>10. ASSUME NEW q \in Requests, PullLock(q)
        PROVE  CallType'
    BY <1>1, <2>10, ConstantsAssumption DEF Types, TypeOK, CallType, PoolType, PCs, PullLock,
       Goto
  <2>11. ASSUME NEW q \in Requests, PullFrame(q)
        PROVE  CallType'
    BY SMTT(30), <1>1, <2>11, ConstantsAssumption DEF Types, TypeOK, CallType, PoolType, PCs,
       PullFrame, Fail, Removes, Goto, Unlock, Read, Readable
  <2>12. ASSUME NEW q \in Requests, Remove(q)
        PROVE  CallType'
    BY <1>1, <2>12, ConstantsAssumption DEF Types, TypeOK, CallType, PoolType, PCs, Remove,
       Goto
  <2>13. ASSUME NEW q \in Requests, CloseConn(q)
        PROVE  CallType'
    BY <1>1, <2>13, ConstantsAssumption DEF Types, TypeOK, CallType, PoolType, PCs,
       CloseConn, Goto
  <2>14. ASSUME NEW q \in Requests, FailAll(q)
        PROVE  CallType'
    BY <1>1, <2>14, ConstantsAssumption DEF Types, TypeOK, CallType, PoolType, PCs, FailAll,
       FailAllRequests, Goto
  <2>15. ASSUME NEW q \in Requests, Closing(q)
        PROVE  CallType'
    BY <1>1, <2>15, ConstantsAssumption DEF Types, TypeOK, CallType, PoolType, PCs, Closing,
       CloseFrames, Goto
  <2>16. ASSUME NEW q \in Requests, CloseStream(q)
        PROVE  CallType'
    BY <1>1, <2>16, ConstantsAssumption DEF Types, TypeOK, CallType, PoolType, PCs,
       CloseStream, Unregister, Goto
  <2>17. ASSUME NEW q \in Requests, TimeOut(q)
        PROVE  CallType'
    BY <1>1, <2>17, ConstantsAssumption DEF Types, TypeOK, CallType, PoolType, PCs, TimeOut,
       Fail, Removes, Goto, Unlock
  <2>18. ASSUME NEW q \in Requests,
               AgentReply(q)
        PROVE  CallType'
    BY <1>2, <2>18 DEF AgentReply, poolVars, connVars, streamVars, callVars, agentVars
  <2>19. ASSUME NEW c \in Conns,
               LoopLock(c) \/ LoopRead(c) \/ LoopLookup(c) \/ LoopDispatch(c) \/ LoopFail(c) \/
               LoopClosing(c) \/ Break(c)
        PROVE  CallType'
    BY <1>2, <2>19 DEF LoopLock, LoopRead, LoopLookup, LoopDispatch, LoopFail, LoopClosing,
       Break, CloseFrames, poolVars, connVars, streamVars, callVars, agentVars
  <2> QED
    BY <1>3, <2>1, <2>2, <2>3, <2>4, <2>5, <2>6, <2>7, <2>8, <2>9, <2>10, <2>11, <2>12,
       <2>13, <2>14, <2>15, <2>16, <2>17, <2>18, <2>19 DEF Next, CallStep, StreamStep, PushStep,
       LoopStep
<1>4. CASE UNCHANGED vars
  BY <1>2, <1>4 DEF vars, poolVars, connVars, streamVars, callVars, agentVars
<1> QED
  BY <1>1, <1>3, <1>4

(* Every step keeps AgentType.                                              *)
LEMMA AgentTypeStep == Types /\ [Next]_vars => AgentType'
<1>1. SUFFICES ASSUME Types, [Next]_vars PROVE AgentType'
  OBVIOUS
<1>2. ASSUME UNCHANGED <<agentVars, faults>>
      PROVE  AgentType'
  BY <1>1, <1>2 DEF Types, TypeOK, AgentType, agentVars
<1>3. CASE Next
  <2>1. ASSUME NEW q \in Requests, Dial(q)
        PROVE  AgentType'
    <3>1. faults' \in 0 .. MaxFaults
      BY SMTT(30), <1>1, <2>1, ConstantsAssumption DEF Types, TypeOK, AgentType, Dial
    <3> QED
      BY <1>1, <2>1, <3>1 DEF Types, TypeOK, AgentType, Dial, agentVars
  <2>2. ASSUME NEW q \in Requests, Send(q)
        PROVE  AgentType'
    BY <1>1, <2>2, ConstantsAssumption DEF Types, TypeOK, AgentType, Send, Fail, Removes,
       Goto, Unregister
  <2>3. ASSUME NEW q \in Requests, PullFrame(q)
        PROVE  AgentType'
    BY SMTT(30), <1>1, <2>3, ConstantsAssumption DEF Types, TypeOK, AgentType, PullFrame, Fail,
       Removes, Goto, Unlock, Read, Readable
  <2>4. ASSUME NEW q \in Requests, AgentReply(q)
        PROVE  AgentType'
    BY SMTT(30), <1>1, <2>4, ConstantsAssumption DEF Types, TypeOK, AgentType, AgentReply, Answer
  <2>5. ASSUME NEW c \in Conns, LoopRead(c)
        PROVE  AgentType'
    BY SMTT(30), <1>1, <2>5, ConstantsAssumption DEF Types, TypeOK, AgentType, LoopRead, Unlock, Read,
       Readable
  <2>6. ASSUME NEW c \in Conns, Break(c)
        PROVE  AgentType'
    <3>1. faults' \in 0 .. MaxFaults
      BY SMTT(30), <1>1, <2>6, ConstantsAssumption DEF Types, TypeOK, AgentType, Break
    <3> QED
      BY <1>1, <2>6, <3>1 DEF Types, TypeOK, AgentType, Break, agentVars
  <2>7. ASSUME NEW q \in Requests,
               Get(q) \/ Install(q) \/ StartRequestLoop(q) \/ RegisterRequest(q) \/ Recv(q) \/
               RecvClosed(q) \/ Pull(q) \/ PullLock(q) \/ Remove(q) \/ CloseConn(q) \/
               FailAll(q) \/ Closing(q) \/ CloseStream(q) \/ TimeOut(q)
        PROVE  AgentType'
    BY <1>2, <2>7 DEF Get, Install, StartRequestLoop, RegisterRequest, Recv, RecvClosed,
       Pull, PullLock, Remove, CloseConn, FailAll, Closing, CloseStream, TimeOut, CloseFrames,
       poolVars, connVars, streamVars, callVars, agentVars
  <2>8. ASSUME NEW c \in Conns,
               LoopLock(c) \/ LoopLookup(c) \/ LoopDispatch(c) \/ LoopFail(c) \/ LoopClosing(c)
        PROVE  AgentType'
    BY <1>2, <2>8 DEF LoopLock, LoopLookup, LoopDispatch, LoopFail, LoopClosing, CloseFrames,
       poolVars, connVars, streamVars, callVars, agentVars
  <2> QED
    BY <1>3, <2>1, <2>2, <2>3, <2>4, <2>5, <2>6, <2>7, <2>8 DEF Next, CallStep, StreamStep,
       PushStep, LoopStep
<1>4. CASE UNCHANGED vars
  BY <1>2, <1>4 DEF vars, poolVars, connVars, streamVars, callVars, agentVars
<1> QED
  BY <1>1, <1>3, <1>4

(* Every step keeps Placed.                                                 *)
LEMMA PlacedStep == Types /\ [Next]_vars => Placed'
<1>1. SUFFICES ASSUME Types, [Next]_vars PROVE Placed'
  OBVIOUS
<1>2. ASSUME UNCHANGED <<pc, on, victim>>
      PROVE  Placed'
  BY <1>1, <1>2 DEF Types, Placed
<1>3. CASE Next
  <2>1. ASSUME NEW q \in Requests, Get(q)
        PROVE  Placed'
    BY SMTT(30), <1>1, <2>1, ConstantsAssumption DEF Types, TypeOK, CallType, PoolType, Placed,
       Requests, Get, Connected, Goto
  <2>2. ASSUME NEW q \in Requests, Dial(q)
        PROVE  Placed'
    BY SMTT(30), <1>1, <2>2, ConstantsAssumption DEF Types, TypeOK, CallType, PoolType, Placed,
       Requests, Dial, Goto
  <2>3. ASSUME NEW q \in Requests, Install(q)
        PROVE  Placed'
    BY SMTT(30), <1>1, <2>3, ConstantsAssumption DEF Types, TypeOK, CallType, PoolType, Placed,
       Requests, Install, Connected, Goto
  <2>4. ASSUME NEW q \in Requests, Send(q)
        PROVE  Placed'
    BY SMTT(30), <1>1, <2>4, ConstantsAssumption DEF Types, TypeOK, CallType, PoolType, Placed,
       Requests, Send, Fail, Removes, Goto, Unregister
  <2>5. ASSUME NEW q \in Requests, StartRequestLoop(q)
        PROVE  Placed'
    BY <1>1, <2>5, ConstantsAssumption DEF Types, TypeOK, CallType, PoolType, Placed,
       Requests, StartRequestLoop, Goto
  <2>6. ASSUME NEW q \in Requests, RegisterRequest(q)
        PROVE  Placed'
    BY SMTT(30), <1>1, <2>6, ConstantsAssumption DEF Types, TypeOK, CallType, PoolType, Placed,
       Requests, RegisterRequest, Fail, Removes, Goto
  <2>7. ASSUME NEW q \in Requests, Recv(q)
        PROVE  Placed'
    BY SMTT(30), <1>1, <2>7, ConstantsAssumption DEF Types, TypeOK, CallType, PoolType, Placed,
       Requests, Recv, Goto
  <2>8. ASSUME NEW q \in Requests, RecvClosed(q)
        PROVE  Placed'
    BY <1>1, <2>8, ConstantsAssumption DEF Types, TypeOK, CallType, PoolType, Placed,
       Requests, RecvClosed, Fail, Removes, Goto
  <2>9. ASSUME NEW q \in Requests, Pull(q)
        PROVE  Placed'
    BY SMTT(30), <1>1, <2>9, ConstantsAssumption DEF Types, TypeOK, CallType, PoolType, Placed,
       Requests, Pull, Fail, Removes, Goto
  <2>10. ASSUME NEW q \in Requests, PullLock(q)
        PROVE  Placed'
    BY <1>1, <2>10, ConstantsAssumption DEF Types, TypeOK, CallType, PoolType, Placed,
       Requests, PullLock, Goto
  <2>11. ASSUME NEW q \in Requests, PullFrame(q)
        PROVE  Placed'
    BY SMTT(30), <1>1, <2>11, ConstantsAssumption DEF Types, TypeOK, CallType, PoolType, Placed,
       Requests, PullFrame, Fail, Removes, Goto, Unlock, Read, Readable
  <2>12. ASSUME NEW q \in Requests, Remove(q)
        PROVE  Placed'
    BY <1>1, <2>12, ConstantsAssumption DEF Types, TypeOK, CallType, PoolType, Placed,
       Requests, Remove, Goto
  <2>13. ASSUME NEW q \in Requests, CloseConn(q)
        PROVE  Placed'
    BY <1>1, <2>13, ConstantsAssumption DEF Types, TypeOK, CallType, PoolType, Placed,
       Requests, CloseConn, Goto
  <2>14. ASSUME NEW q \in Requests, FailAll(q)
        PROVE  Placed'
    BY <1>1, <2>14, ConstantsAssumption DEF Types, TypeOK, CallType, PoolType, Placed,
       Requests, FailAll, FailAllRequests, Goto
  <2>15. ASSUME NEW q \in Requests, Closing(q)
        PROVE  Placed'
    BY SMTT(30), <1>1, <2>15, ConstantsAssumption DEF Types, TypeOK, CallType, PoolType, Placed,
       Requests, Closing, CloseFrames, Goto
  <2>16. ASSUME NEW q \in Requests, CloseStream(q)
        PROVE  Placed'
    BY <1>1, <2>16, ConstantsAssumption DEF Types, TypeOK, CallType, PoolType, Placed,
       Requests, CloseStream, Unregister, Goto
  <2>17. ASSUME NEW q \in Requests, TimeOut(q)
        PROVE  Placed'
    BY <1>1, <2>17, ConstantsAssumption DEF Types, TypeOK, CallType, PoolType, Placed,
       Requests, TimeOut, Fail, Removes, Goto, Unlock
  <2>18. ASSUME NEW q \in Requests,
               AgentReply(q)
        PROVE  Placed'
    BY <1>2, <2>18 DEF AgentReply, poolVars, connVars, streamVars, callVars, agentVars
  <2>19. ASSUME NEW c \in Conns,
               LoopLock(c) \/ LoopRead(c) \/ LoopLookup(c) \/ LoopDispatch(c) \/ LoopFail(c) \/
               LoopClosing(c) \/ Break(c)
        PROVE  Placed'
    BY <1>2, <2>19 DEF LoopLock, LoopRead, LoopLookup, LoopDispatch, LoopFail, LoopClosing,
       Break, CloseFrames, poolVars, connVars, streamVars, callVars, agentVars
  <2> QED
    BY <1>3, <2>1, <2>2, <2>3, <2>4, <2>5, <2>6, <2>7, <2>8, <2>9, <2>10, <2>11, <2>12,
       <2>13, <2>14, <2>15, <2>16, <2>17, <2>18, <2>19 DEF Next, CallStep, StreamStep, PushStep,
       LoopStep
<1>4. CASE UNCHANGED vars
  BY <1>2, <1>4 DEF vars, poolVars, connVars, streamVars, callVars, agentVars
<1> QED
  BY <1>1, <1>3, <1>4

(* Every step keeps Held.                                                   *)
LEMMA HeldStep == Types /\ [Next]_vars => Held'
<1>1. SUFFICES ASSUME Types, [Next]_vars PROVE Held'
  OBVIOUS
<1>2. ASSUME UNCHANGED <<mode, at, frame>>
      PROVE  Held'
  BY <1>1, <1>2 DEF Types, Held
<1>3. CASE Next
  <2>1. ASSUME NEW q \in Requests, StartRequestLoop(q)
        PROVE  Held'
    BY SMTT(30), <1>1, <2>1, ConstantsAssumption DEF Types, TypeOK, ConnType, AgentType, CallType,
       Placed, Held, StartRequestLoop, Goto
  <2>2. ASSUME NEW c \in Conns, LoopLock(c)
        PROVE  Held'
    BY SMTT(30), <1>1, <2>2, ConstantsAssumption DEF Types, TypeOK, ConnType, AgentType, CallType,
       Placed, Held, LoopLock
  <2>3. ASSUME NEW c \in Conns, LoopRead(c)
        PROVE  Held'
    BY SMTT(30), <1>1, <2>3, ConstantsAssumption DEF Types, TypeOK, ConnType, AgentType, CallType,
       Placed, Held, LoopRead, Unlock, Read, Readable
  <2>4. ASSUME NEW c \in Conns, LoopLookup(c)
        PROVE  Held'
    BY SMTT(30), <1>1, <2>4, ConstantsAssumption DEF Types, TypeOK, ConnType, AgentType, CallType,
       Placed, Held, LoopLookup
  <2>5. ASSUME NEW c \in Conns, LoopDispatch(c)
        PROVE  Held'
    BY SMTT(30), <1>1, <2>5, ConstantsAssumption DEF Types, TypeOK, ConnType, AgentType, CallType,
       Placed, Held, LoopDispatch
  <2>6. ASSUME NEW c \in Conns, LoopFail(c)
        PROVE  Held'
    BY SMTT(30), <1>1, <2>6, ConstantsAssumption DEF Types, TypeOK, ConnType, AgentType, CallType,
       Placed, Held, LoopFail, FailAllRequests
  <2>7. ASSUME NEW q \in Requests,
               Get(q) \/ Dial(q) \/ Install(q) \/ Send(q) \/ RegisterRequest(q) \/ Recv(q) \/
               RecvClosed(q) \/ Pull(q) \/ PullLock(q) \/ PullFrame(q) \/ Remove(q) \/
               CloseConn(q) \/ FailAll(q) \/ Closing(q) \/ CloseStream(q) \/ TimeOut(q) \/
               AgentReply(q)
        PROVE  Held'
    BY <1>2, <2>7 DEF Get, Dial, Install, Send, RegisterRequest, Recv, RecvClosed, Pull,
       PullLock, PullFrame, Remove, CloseConn, FailAll, Closing, CloseStream, TimeOut,
       AgentReply, CloseFrames, poolVars, connVars, streamVars, callVars, agentVars
  <2>8. ASSUME NEW c \in Conns,
               LoopClosing(c) \/ Break(c)
        PROVE  Held'
    BY <1>2, <2>8 DEF LoopClosing, Break, CloseFrames, poolVars, connVars, streamVars,
       callVars, agentVars
  <2> QED
    BY <1>3, <2>1, <2>2, <2>3, <2>4, <2>5, <2>6, <2>7, <2>8 DEF Next, CallStep, StreamStep,
       PushStep, LoopStep
<1>4. CASE UNCHANGED vars
  BY <1>2, <1>4 DEF vars, poolVars, connVars, streamVars, callVars, agentVars
<1> QED
  BY <1>1, <1>3, <1>4

(* Every step keeps the type of panicked.                                   *)
LEMMA PanickedStep == Types /\ [Next]_vars => (panicked \in BOOLEAN)'
<1>1. SUFFICES ASSUME Types, [Next]_vars PROVE panicked' \in BOOLEAN
  OBVIOUS
<1>2. CASE Next
  <2>1. ASSUME NEW p, NEW r, CloseFrames(p, r)
        PROVE  panicked' \in BOOLEAN
    BY SMTT(30), <2>1 DEF CloseFrames
  <2>2. ASSUME NEW q \in Requests, Closing(q)
        PROVE  panicked' \in BOOLEAN
    BY <1>1, <2>1, <2>2 DEF Closing, Types, TypeOK
  <2>3. ASSUME NEW c \in Conns, LoopClosing(c) \/ LoopDispatch(c)
        PROVE  panicked' \in BOOLEAN
    BY <1>1, <2>1, <2>3 DEF LoopClosing, LoopDispatch, Types, TypeOK
  <2>4. ASSUME NEW q \in Requests,
               \/ Get(q) \/ Dial(q) \/ Install(q) \/ Send(q) \/ StreamStep(q) \/ PushStep(q)
               \/ Remove(q) \/ CloseConn(q) \/ FailAll(q) \/ CloseStream(q)
               \/ TimeOut(q) \/ AgentReply(q)
        PROVE  panicked' = panicked
    BY <2>4 DEF Get, Dial, Install, Send, StreamStep, StartRequestLoop, RegisterRequest, Recv,
                RecvClosed, PushStep, Pull, PullLock, PullFrame, Remove, CloseConn, FailAll,
                CloseStream, TimeOut, AgentReply
  <2>5. ASSUME NEW c \in Conns,
               LoopLock(c) \/ LoopRead(c) \/ LoopLookup(c) \/ LoopFail(c) \/ Break(c)
        PROVE  panicked' = panicked
    BY <2>5 DEF LoopLock, LoopRead, LoopLookup, LoopFail, Break
  <2> QED
    BY <1>1, <1>2, <2>2, <2>3, <2>4, <2>5 DEF Next, CallStep, LoopStep, Types, TypeOK
<1>3. CASE UNCHANGED vars
  BY <1>1, <1>3 DEF vars, Types, TypeOK
<1> QED
  BY <1>1, <1>2, <1>3

(* The types and what goes with them, one conjunct from each lemma above:   *)
(* the part of the invariant that the proofs below start from.              *)
THEOREM TypesHold == Spec => []Types
<1>1. Types /\ [Next]_vars => Types'
  BY PoolStep, ConnStep, StreamTypeStep, FramesStep, CallTypeStep, AgentTypeStep,
     PlacedStep, HeldStep, PanickedStep DEF Types, TypeOK
<1> QED
  BY <1>1, TypesInit, PTL DEF Spec

(* Type correctness of the pool, the connections, the streams and their     *)
(* callers, for any constants.                                              *)
THEOREM TypeCorrect == Spec => []TypeOK
<1>1. Types => TypeOK
  BY DEF Types
<1> QED
  BY <1>1, TypesHold, PTL
-----------------------------------------------------------------------------
(* Connections are not lost *)

(* Every step keeps NoConnLeak.                                             *)
LEMMA LeakStep == Types /\ NoConnLeak /\ [Next]_vars => NoConnLeak'
<1>1. SUFFICES ASSUME Types, NoConnLeak, [Next]_vars PROVE NoConnLeak'
  OBVIOUS
<1>2. ASSUME UNCHANGED poolVars,
             \A q \in Requests : pc[q] \in {"install", "shutdown"} =>
                 pc'[q] = pc[q] /\ on'[q] = on[q] /\ victim'[q] = victim[q]
      PROVE  NoConnLeak'
  BY SMTT(30), <1>1, <1>2 DEF NoConnLeak, poolVars
<1>3. CASE Next
  <2>1. ASSUME NEW q \in Requests, Dial(q)
        PROVE  NoConnLeak'
    BY SMTT(30), <1>1, <2>1 DEF Types, TypeOK, CallType, PoolType, NoConnLeak, Dial, Goto
  <2>2. ASSUME NEW q \in Requests, Install(q)
        PROVE  NoConnLeak'
    <3>1. /\ pc[q] = "install" /\ on[q] \in Conns /\ UNCHANGED victim
          /\ \A r \in Requests \ {q} : pc'[r] = pc[r] /\ on'[r] = on[r]
      BY <1>1, <2>2 DEF Types, TypeOK, CallType, Placed, Install, Connected, Goto
    <3>2. \/ pool = NoConn /\ pool' = on[q] /\ UNCHANGED link
          \/ pool' = pool /\ link' = [link EXCEPT ![on[q]] = "closed"]
      BY <2>2 DEF Install
    <3>3. \A c \in Conns : link'[c] \in {"open", "broken"} => link'[c] = link[c]
      BY <1>1, <3>1, <3>2 DEF Types, TypeOK, PoolType
    <3>4. pool' # on[q] => link'[on[q]] = "closed"
      BY <1>1, <3>1, <3>2 DEF Types, TypeOK, PoolType
    <3>5. pool # NoConn => pool' = pool
      BY <3>2
    <3>6. ASSUME NEW c \in Conns, link'[c] \in {"open", "broken"}, pool' # c
          PROVE  \E r \in Requests :
                   \/ pc'[r] = "install" /\ on'[r] = c
                   \/ pc'[r] = "shutdown" /\ victim'[r] = c
      <4>1. pool # c
        BY <3>5, <3>6, ConstantsAssumption
      <4>2. PICK r \in Requests :
                   (pc[r] = "install" /\ on[r] = c) \/ (pc[r] = "shutdown" /\ victim[r] = c)
        BY <1>1, <3>3, <3>6, <4>1 DEF NoConnLeak
      <4>3. r # q
        BY <3>1, <3>4, <3>6, <4>2
      <4> QED
        BY <3>1, <4>2, <4>3
    <3> QED
      BY <3>6 DEF NoConnLeak
  <2>3. ASSUME NEW q \in Requests, Remove(q)
        PROVE  NoConnLeak'
    BY SMTT(30), <1>1, <2>3 DEF Types, TypeOK, CallType, PoolType, NoConnLeak, Remove, Goto
  <2>4. ASSUME NEW q \in Requests, CloseConn(q)
        PROVE  NoConnLeak'
    BY SMTT(30), <1>1, <2>4 DEF Types, TypeOK, CallType, PoolType, NoConnLeak, CloseConn, Goto
  <2>5. ASSUME NEW c \in Conns, Break(c)
        PROVE  NoConnLeak'
    BY <1>1, <2>5 DEF Types, TypeOK, PoolType, NoConnLeak, Break, callVars
  <2>6. ASSUME NEW q \in Requests,
               \/ Get(q) \/ Send(q) \/ StreamStep(q) \/ PushStep(q) \/ FailAll(q)
               \/ Closing(q) \/ CloseStream(q) \/ TimeOut(q)
        PROVE  NoConnLeak'
    <3>1. UNCHANGED poolVars
      BY <2>6 DEF Get, Send, StreamStep, StartRequestLoop, RegisterRequest, Recv, RecvClosed,
                  PushStep, Pull, PullLock, PullFrame, FailAll, Closing, CloseStream, TimeOut
    <3>2. pc[q] \notin {"install", "shutdown"}
      BY <2>6 DEF Get, Send, StreamStep, StartRequestLoop, RegisterRequest, Recv, RecvClosed,
                  PushStep, Pull, PullLock, PullFrame, FailAll, Closing, CloseStream, TimeOut
    <3>3. \A r \in Requests \ {q} :
             pc'[r] = pc[r] /\ on'[r] = on[r] /\ victim'[r] = victim[r]
      BY <1>1, <2>6 DEF Types, TypeOK, CallType, Goto, Fail, Connected, Get, Send, StreamStep,
                  StartRequestLoop, RegisterRequest, Recv, RecvClosed, PushStep, Pull,
                  PullLock, PullFrame, FailAll, Closing, CloseStream, TimeOut
    <3> QED
      BY <1>2, <3>1, <3>2, <3>3
  <2>7. ASSUME NEW q \in Requests, AgentReply(q)
        PROVE  NoConnLeak'
    BY <1>2, <2>7 DEF AgentReply, callVars
  <2>8. ASSUME NEW c \in Conns, LoopStep(c)
        PROVE  NoConnLeak'
    BY <1>2, <2>8 DEF LoopStep, LoopLock, LoopRead, LoopLookup, LoopDispatch, LoopFail,
                      LoopClosing, callVars
  <2> QED
    BY <1>3, <2>1, <2>2, <2>3, <2>4, <2>5, <2>6, <2>7, <2>8 DEF Next, CallStep
<1>4. CASE UNCHANGED vars
  BY <1>2, <1>4 DEF vars, callVars
<1> QED
  BY <1>1, <1>3, <1>4

(* However callers dial, install and remove at the same time, an open       *)
(* connection to the agent is in the pool or about to be put into it or     *)
(* closed: ConnPool.Get and Remove leak none.                               *)
THEOREM ConnsKept == Spec => []NoConnLeak
<1>1. Init => NoConnLeak
  BY DEF Init, NoConnLeak
<1> QED
  BY <1>1, LeakStep, TypesHold, PTL DEF Spec
-----------------------------------------------------------------------------
(* Nobody waits for ever on a stream that no one will feed or close *)

Waiting == {"send", "recv"}
Leaving == {"remove", "shutdown", "failall", "closing", "close"}

(* A stream is registered on its caller's connection, until the caller      *)
(* leaves, and never on a connection that is not read any more.             *)
Registered ==
    \A c \in Conns :
        /\ c \in loopErr => pending[c] = {}
        /\ \A q \in pending[c] : on[q] = c /\ pc[q] \in Waiting \cup Leaving

(* A caller waits on a stream that is registered, closed, or to be closed.  *)
Informed ==
    \A q \in Streams : pc[q] \in Waiting =>
        \/ q \in pending[on[q]]
        \/ q \in shut
        \/ \E p \in Requests \cup Conns : q \in doomed[p]

LeftAtEnd == \A q \in left : pc[q] \in Leaving \cup {"done"}

(* Streams are to be closed only while somebody is closing them.            *)
Draining ==
    /\ \A q \in Requests : doomed[q] # {} => pc[q] = "closing"
    /\ \A c \in Conns : doomed[c] # {} => at[c] = "ended"

(* Every step keeps Registered.                                             *)
LEMMA RegisteredStep == Types /\ Registered /\ [Next]_vars => Registered'
<1>1. SUFFICES ASSUME Types, Registered, [Next]_vars PROVE Registered'
  OBVIOUS
<1> USE DEF Waiting, Leaving
<1>2. ASSUME UNCHANGED loopErr,
             \A c \in Conns : pending'[c] \subseteq pending[c],
             \A q \in Requests : pc[q] \in Waiting \cup Leaving =>
                 on'[q] = on[q] /\ pc'[q] \in Waiting \cup Leaving
      PROVE  Registered'
  BY SMTT(30), <1>1, <1>2 DEF Registered, Types, TypeOK, ConnType, Requests
<1>3. CASE Next
  <2>1. ASSUME NEW q \in Requests, RegisterRequest(q)
        PROVE  Registered'
    <3>1. pc[q] = "register" /\ on[q] \in Conns
      BY <1>1, <2>1 DEF Types, Placed, RegisterRequest
    <3>2. CASE on[q] \in loopErr
      <4>1. UNCHANGED <<loopErr, pending, on>> /\ \A r \in Requests \ {q} : pc'[r] = pc[r]
        BY <1>1, <2>1, <3>2 DEF RegisterRequest, Fail, Goto, Types, TypeOK, CallType
      <4> QED
        BY <1>2, <3>1, <4>1
    <3>3. CASE on[q] \notin loopErr
      <4>1. /\ UNCHANGED <<loopErr, on>>
            /\ pending' = [pending EXCEPT ![on[q]] = @ \cup {q}]
            /\ pc' = [pc EXCEPT ![q] = "send"]
        BY <2>1, <3>3 DEF RegisterRequest, Goto
      <4> QED
        BY SMTT(30), <1>1, <3>1, <3>3, <4>1 DEF Registered, Types, TypeOK, ConnType, CallType, Requests
    <3> QED
      BY <3>2, <3>3
  <2>2. ASSUME NEW q \in Requests, CloseStream(q)
        PROVE  Registered'
    <3>1. /\ pc[q] = "close" /\ on[q] \in Conns
          /\ UNCHANGED <<loopErr, on>>
          /\ pending' = [pending EXCEPT ![on[q]] = @ \ {q}]
          /\ pc' = [pc EXCEPT ![q] = "done"]
      BY <1>1, <2>2 DEF CloseStream, Unregister, Goto, Types, Placed
    <3> QED
      BY SMTT(30), <1>1, <3>1 DEF Registered, Types, TypeOK, ConnType, CallType, Requests
  <2>3. ASSUME NEW p, NEW c \in Conns, FailAllRequests(p, c), UNCHANGED on,
               \A q \in Requests : pc[q] \in Waiting \cup Leaving =>
                   pc'[q] \in Waiting \cup Leaving
        PROVE  Registered'
    BY SMTT(30), <1>1, <2>3 DEF FailAllRequests, Registered, Types, TypeOK, ConnType, Requests
  <2>4. ASSUME NEW q \in Requests, FailAll(q)
        PROVE  Registered'
    <3>1. victim[q] \in Conns /\ FailAllRequests(q, victim[q]) /\ UNCHANGED on
      BY <1>1, <2>4 DEF FailAll, Types, Placed
    <3>2. pc' = [pc EXCEPT ![q] = "closing"]
      BY <2>4 DEF FailAll, Goto
    <3> QED
      BY <1>1, <2>3, <3>1, <3>2 DEF Types, TypeOK, CallType
  <2>5. ASSUME NEW c \in Conns, LoopFail(c)
        PROVE  Registered'
    BY <2>3, <2>5 DEF LoopFail, callVars
  <2>6. ASSUME NEW q \in Requests,
               \/ Get(q) \/ Dial(q) \/ Install(q) \/ Pull(q) \/ PullLock(q) \/ PullFrame(q)
               \/ StartRequestLoop(q)
        PROVE  Registered'
    <3>1. pc[q] \notin Waiting \cup Leaving /\ UNCHANGED <<loopErr, pending>>
      BY <2>6 DEF Get, Dial, Install, Pull, PullLock, PullFrame, StartRequestLoop, connVars
    <3>2. \A r \in Requests \ {q} : pc'[r] = pc[r] /\ on'[r] = on[r]
      BY <1>1, <2>6 DEF Get, Dial, Install, Pull, PullLock, PullFrame, StartRequestLoop,
            Connected, Fail, Goto, Types, TypeOK, CallType
    <3> QED
      BY <1>2, <3>1, <3>2
  <2>7. ASSUME NEW q \in Requests, Send(q)
        PROVE  Registered'
    <3>1. on[q] \in Conns /\ UNCHANGED <<loopErr, on>> /\ pc[q] = "send"
      BY <1>1, <2>7 DEF Send, Types, Placed
    <3>2. pending' = pending \/ pending' = [pending EXCEPT ![on[q]] = @ \ {q}]
      BY <2>7 DEF Send, Unregister
    <3>3. \E l \in {"pull", "recv", "remove", "close"} : pc' = [pc EXCEPT ![q] = l]
      BY <2>7 DEF Send, Fail, Goto
    <3>4. q \in Streams => pc'[q] # "pull"
      BY <1>1, <2>7, ConstantsAssumption DEF Send, Fail, Goto, Types, TypeOK, CallType
    <3>5. q \notin Streams => \A c \in Conns : q \notin pending[c]
      BY <1>1 DEF Types, TypeOK, ConnType
    <3> QED
      BY SMTT(30), <1>1, <3>1, <3>2, <3>3, <3>4, <3>5
         DEF Registered, Types, TypeOK, ConnType, CallType, Requests
  <2>8. ASSUME NEW q \in Requests,
               \/ Recv(q) \/ RecvClosed(q) \/ TimeOut(q) \/ Remove(q) \/ CloseConn(q)
               \/ Closing(q)
        PROVE  Registered'
    <3>1. UNCHANGED <<loopErr, pending, on>>
      BY <2>8 DEF Recv, RecvClosed, TimeOut, Remove, CloseConn, Closing, connVars
    <3>2. UNCHANGED pc \/ \E l \in Leaving : pc' = [pc EXCEPT ![q] = l]
      BY <2>8 DEF Recv, RecvClosed, TimeOut, Remove, CloseConn, Closing, Fail, Goto
    <3> QED
      BY <1>1, <1>2, <3>1, <3>2 DEF Types, TypeOK, CallType
  <2>9. ASSUME NEW q \in Requests, AgentReply(q)
        PROVE  Registered'
    BY <1>2, <2>9 DEF AgentReply, callVars, connVars
  <2>10. ASSUME NEW c \in Conns, LoopDispatch(c)
         PROVE  Registered'
    <3>1. \A d \in Conns : pending'[d] \subseteq pending[d]
      BY <1>1, <2>10 DEF LoopDispatch, Types, TypeOK, ConnType
    <3>2. UNCHANGED <<loopErr, on, pc>>
      BY <2>10 DEF LoopDispatch, callVars
    <3> QED
      BY <1>2, <3>1, <3>2
  <2>11. ASSUME NEW c \in Conns,
                LoopLock(c) \/ LoopRead(c) \/ LoopLookup(c) \/ LoopClosing(c) \/ Break(c)
         PROVE  Registered'
    BY <1>2, <2>11 DEF LoopLock, LoopRead, LoopLookup, LoopClosing, Break, callVars, connVars
  <2> QED
    BY <1>3, <2>1, <2>2, <2>4, <2>5, <2>6, <2>7, <2>8, <2>9, <2>10, <2>11
       DEF Next, CallStep, StreamStep, PushStep, LoopStep
<1>4. CASE UNCHANGED vars
  BY <1>2, <1>4 DEF vars, callVars, connVars
<1> QED
  BY <1>1, <1>3, <1>4

(* Every step keeps LeftAtEnd.                                              *)
LEMMA LeftStep == Types /\ LeftAtEnd /\ [Next]_vars => LeftAtEnd'
<1>1. SUFFICES ASSUME Types, LeftAtEnd, [Next]_vars PROVE LeftAtEnd'
  OBVIOUS
<1> USE DEF Waiting, Leaving
<1>2. ASSUME UNCHANGED left,
             \A q \in Requests : pc[q] \in Leaving \cup {"done"} =>
                 pc'[q] \in Leaving \cup {"done"}
      PROVE  LeftAtEnd'
  BY <1>1, <1>2 DEF LeftAtEnd, Types, TypeOK, StreamType
<1>3. CASE Next
  <2>1. ASSUME NEW q \in Requests,
               Get(q) \/ Dial(q) \/ Install(q) \/ StreamStep(q) \/ PushStep(q) \/ TimeOut(q)
        PROVE  LeftAtEnd'
    <3>1. pc[q] \notin Leaving \cup {"done"} /\ UNCHANGED left
      BY <2>1 DEF Get, Dial, Install, Pull, PullLock, PullFrame, StartRequestLoop, StreamStep,
            PushStep, RegisterRequest, Recv, RecvClosed, TimeOut, streamVars
    <3>2. \A r \in Requests \ {q} : pc'[r] = pc[r]
      BY <1>1, <2>1 DEF Get, Dial, Install, Pull, PullLock, PullFrame, StartRequestLoop,
            StreamStep, PushStep, RegisterRequest, Recv, RecvClosed, TimeOut,
            Connected, Fail, Goto, Types, TypeOK, CallType
    <3> QED
      BY <1>2, <3>1, <3>2
  <2>2. ASSUME NEW q \in Requests, Remove(q) \/ CloseConn(q) \/ FailAll(q) \/ Closing(q)
        PROVE  LeftAtEnd'
    <3>1. UNCHANGED left
      BY <2>2 DEF Remove, CloseConn, FailAll, Closing, CloseFrames, streamVars
    <3>2. UNCHANGED pc \/ \E l \in Leaving : pc' = [pc EXCEPT ![q] = l]
      BY <2>2 DEF Remove, CloseConn, FailAll, Closing, Goto
    <3> QED
      BY <1>1, <1>2, <3>1, <3>2 DEF Types, TypeOK, CallType
  <2>3. ASSUME NEW q \in Requests, Send(q) \/ CloseStream(q)
        PROVE  LeftAtEnd'
    <3>1. \/ UNCHANGED left /\ \E l \in {"pull", "recv"} : pc' = [pc EXCEPT ![q] = l]
          \/ left' = left \cup {q} /\ \E l \in Leaving \cup {"done"} : pc' = [pc EXCEPT ![q] = l]
      BY <2>3 DEF Send, CloseStream, Unregister, Fail, Goto
    <3>2. pc[q] \in {"send", "close"} /\ (pc[q] = "close" => pc'[q] = "done")
      BY <1>1, <2>3 DEF Send, CloseStream, Goto, Types, TypeOK, CallType
    <3> QED
      BY <1>1, <3>1, <3>2 DEF LeftAtEnd, Types, TypeOK, CallType, StreamType
  <2>4. ASSUME NEW q \in Requests, AgentReply(q)
        PROVE  LeftAtEnd'
    BY <1>2, <2>4 DEF AgentReply, callVars, streamVars
  <2>5. ASSUME NEW c \in Conns, LoopStep(c) \/ Break(c)
        PROVE  LeftAtEnd'
    BY <1>2, <2>5 DEF LoopStep, LoopLock, LoopRead, LoopLookup, LoopDispatch, LoopFail,
                      LoopClosing, CloseFrames, Break, callVars, streamVars
  <2> QED
    BY <1>3, <2>1, <2>2, <2>3, <2>4, <2>5 DEF Next, CallStep
<1>4. CASE UNCHANGED vars
  BY <1>2, <1>4 DEF vars, callVars, streamVars
<1> QED
  BY <1>1, <1>3, <1>4

(* Every step keeps Draining.                                               *)
LEMMA DrainingStep == Types /\ Draining /\ [Next]_vars => Draining'
<1>1. SUFFICES ASSUME Types, Draining, [Next]_vars PROVE Draining'
  OBVIOUS
<1>2. ASSUME UNCHANGED doomed,
             \A q \in Requests : pc[q] = "closing" => pc'[q] = "closing",
             \A c \in Conns : at[c] = "ended" => at'[c] = "ended"
      PROVE  Draining'
  BY <1>1, <1>2 DEF Draining
<1>3. CASE Next
  <2>1. ASSUME NEW q \in Requests, FailAll(q)
        PROVE  Draining'
    <3>1. /\ doomed' = [doomed EXCEPT ![q] = pending[victim[q]]]
          /\ pc' = [pc EXCEPT ![q] = "closing"] /\ UNCHANGED at
      BY <2>1 DEF FailAll, FailAllRequests, Goto
    <3> QED
      BY <1>1, <3>1, ConstantsAssumption DEF Draining, Types, TypeOK, CallType, StreamType
  <2>2. ASSUME NEW c \in Conns, LoopFail(c)
        PROVE  Draining'
    <3>1. /\ doomed' = [doomed EXCEPT ![c] = pending[c]]
          /\ at' = [at EXCEPT ![c] = "ended"] /\ UNCHANGED pc
      BY <2>2 DEF LoopFail, FailAllRequests, callVars
    <3> QED
      BY <1>1, <3>1, ConstantsAssumption DEF Draining, Types, TypeOK, ConnType, StreamType
  <2>3. ASSUME NEW p \in Requests \cup Conns, NEW r, CloseFrames(p, r), UNCHANGED <<pc, at>>
        PROVE  Draining'
    BY <1>1, <2>3 DEF CloseFrames, Draining, Types, TypeOK, StreamType
  <2>4. ASSUME NEW q \in Requests, Closing(q)
        PROVE  Draining'
    <3>1. UNCHANGED at
      BY <2>4 DEF Closing, connVars
    <3>2. CASE doomed[q] = {} /\ UNCHANGED doomed /\ pc' = [pc EXCEPT ![q] = "close"]
      BY <1>1, <3>1, <3>2 DEF Draining, Types, TypeOK, CallType
    <3>3. CASE UNCHANGED pc /\ \E r \in Streams : CloseFrames(q, r)
      BY <2>3, <3>1, <3>3
    <3> QED
      BY <2>4, <3>2, <3>3 DEF Closing, Goto
  <2>5. ASSUME NEW c \in Conns, LoopClosing(c)
        PROVE  Draining'
    BY <2>3, <2>5 DEF LoopClosing, callVars, connVars
  <2>6. ASSUME NEW q \in Requests,
               \/ Get(q) \/ Dial(q) \/ Install(q) \/ Send(q) \/ StreamStep(q) \/ PushStep(q)
               \/ Remove(q) \/ CloseConn(q) \/ CloseStream(q) \/ TimeOut(q)
        PROVE  Draining'
    <3>1. pc[q] # "closing" /\ UNCHANGED doomed
      BY <2>6 DEF Get, Dial, Install, Send, Pull, PullLock, PullFrame, StartRequestLoop,
            StreamStep, PushStep, RegisterRequest, Recv, RecvClosed, TimeOut, Remove,
            CloseConn, CloseStream
    <3>2. \A r \in Requests \ {q} : pc'[r] = pc[r]
      BY <1>1, <2>6 DEF Get, Dial, Install, Send, Pull, PullLock, PullFrame, StartRequestLoop,
            StreamStep, PushStep, RegisterRequest, Recv, RecvClosed, TimeOut, Remove,
            CloseConn, CloseStream, Connected, Fail, Goto, Types, TypeOK, CallType
    <3>3. \A c \in Conns : at[c] = "ended" => at'[c] = "ended"
      <4>1. CASE StartRequestLoop(q)
        <5>1. pc[q] = "start" /\ on[q] \in Conns
          BY <1>1, <4>1 DEF StartRequestLoop, Types, Placed
        <5>2. on[q] \notin mode => at[on[q]] = "off"
          BY <1>1, <5>1 DEF Types, Held
        <5> QED
          BY <1>1, <4>1, <5>1, <5>2 DEF StartRequestLoop, Types, TypeOK, ConnType
      <4>2. CASE ~ StartRequestLoop(q)
        BY <2>6, <4>2 DEF Get, Dial, Install, Send, Pull, PullLock, PullFrame,
              StreamStep, PushStep, RegisterRequest, Recv, RecvClosed, TimeOut, Remove,
              CloseConn, CloseStream, connVars
      <4> QED
        BY <4>1, <4>2
    <3> QED
      BY <1>2, <3>1, <3>2, <3>3
  <2>7. ASSUME NEW q \in Requests, AgentReply(q)
        PROVE  Draining'
    BY <1>2, <2>7 DEF AgentReply, callVars, connVars
  <2>8. ASSUME NEW c \in Conns,
               \/ LoopLock(c) \/ LoopRead(c) \/ LoopLookup(c) \/ LoopDispatch(c) \/ Break(c)
        PROVE  Draining'
    <3>1. UNCHANGED <<doomed, pc>>
      BY <2>8 DEF LoopLock, LoopRead, LoopLookup, LoopDispatch, Break, callVars
    <3>2. \A d \in Conns : at[d] = "ended" => at'[d] = "ended"
      BY <1>1, <2>8 DEF LoopLock, LoopRead, LoopLookup, LoopDispatch, Break, connVars,
            Types, TypeOK, ConnType
    <3> QED
      BY <1>2, <3>1, <3>2
  <2> QED
    BY <1>3, <2>1, <2>2, <2>4, <2>5, <2>6, <2>7, <2>8 DEF Next, CallStep, LoopStep
<1>4. CASE UNCHANGED vars
  BY <1>2, <1>4 DEF vars, callVars, connVars
<1> QED
  BY <1>1, <1>3, <1>4

(* Every step keeps Informed.                                               *)
LEMMA InformedStep ==
    Types /\ Registered /\ LeftAtEnd /\ Draining /\ Informed /\ [Next]_vars => Informed'
<1>1. SUFFICES ASSUME Types, Registered, LeftAtEnd, Draining, Informed, [Next]_vars
               PROVE  Informed'
  OBVIOUS
<1> USE DEF Waiting, Leaving
<1>2. ASSUME UNCHANGED doomed, shut \subseteq shut',
             \A q \in Streams : pc'[q] \in Waiting =>
                 /\ pc[q] \in Waiting /\ on'[q] = on[q]
                 /\ q \in pending[on[q]] => q \in pending'[on[q]]
      PROVE  Informed'
  BY <1>1, <1>2 DEF Informed
<1>3. \A q \in Streams : q \in Requests /\ q \notin Pushes
  BY ConstantsAssumption DEF Requests
<1>4. CASE Next
  <2>1. ASSUME NEW q \in Requests, RegisterRequest(q)
        PROVE  Informed'
    <3>1. pc[q] = "register" /\ on[q] \in Conns /\ UNCHANGED <<on, doomed, shut>>
      BY <1>1, <2>1 DEF Types, Placed, RegisterRequest, streamVars
    <3>2. \/ UNCHANGED pending /\ \E l \in Leaving : pc' = [pc EXCEPT ![q] = l]
          \/ /\ pending' = [pending EXCEPT ![on[q]] = @ \cup {q}]
             /\ pc' = [pc EXCEPT ![q] = "send"]
      BY <2>1 DEF RegisterRequest, Fail, Goto
    <3>3. pc'[q] \in Waiting => q \in pending'[on[q]]
      BY SMTT(30), <1>1, <3>1, <3>2 DEF Types, TypeOK, ConnType, CallType
    <3>4. \A r \in Requests \ {q} : pc'[r] = pc[r]
      BY <1>1, <3>2 DEF Types, TypeOK, CallType
    <3>5. \A c \in Conns : pending[c] \subseteq pending'[c]
      BY SMTT(30), <1>1, <3>2 DEF Types, TypeOK, ConnType
    <3>6. \A r \in Requests : pc[r] \in Waiting => on[r] \in Conns
      BY <1>1 DEF Types, Placed
    <3>7. ASSUME NEW r \in Streams, pc'[r] \in Waiting
          PROVE  \/ r \in pending'[on'[r]] \/ r \in shut'
                 \/ \E p \in Requests \cup Conns : r \in doomed'[p]
      <4>1. CASE r = q
        BY <3>1, <3>3, <3>7, <4>1
      <4>2. CASE r # q
        BY <1>1, <1>3, <3>1, <3>4, <3>5, <3>6, <3>7, <4>2 DEF Informed
      <4> QED
        BY <4>1, <4>2
    <3> QED
      BY <3>7 DEF Informed
  <2>2. ASSUME NEW p \in Requests \cup Conns, NEW c \in Conns, FailAllRequests(p, c),
               doomed[p] = {}, UNCHANGED <<on, shut>>,
               \A q \in Streams : pc'[q] \in Waiting => pc[q] \in Waiting
        PROVE  Informed'
    <3>1. doomed' = [doomed EXCEPT ![p] = pending[c]] /\ pending' = [pending EXCEPT ![c] = {}]
      BY <2>2 DEF FailAllRequests
    <3>2. doomed'[p] = pending[c]
      BY <1>1, <2>2, <3>1 DEF Types, TypeOK, StreamType
    <3>3. \A o \in Requests \cup Conns : doomed[o] \subseteq doomed'[o]
      BY <1>1, <2>2, <3>1 DEF Types, TypeOK, StreamType
    <3>4. \A d \in Conns \ {c} : pending'[d] = pending[d]
      BY <1>1, <3>1 DEF Types, TypeOK, ConnType
    <3>5. ASSUME NEW q \in Streams, pc'[q] \in Waiting
          PROVE  \/ q \in pending'[on'[q]] \/ q \in shut'
                 \/ \E o \in Requests \cup Conns : q \in doomed'[o]
      <4>1. on[q] \in Conns
        BY <1>1, <1>3, <2>2, <3>5 DEF Types, Placed
      <4> QED
        BY <1>1, <2>2, <3>2, <3>3, <3>4, <3>5, <4>1 DEF Informed
    <3> QED
      BY <3>5 DEF Informed
  <2>3. ASSUME NEW q \in Requests, FailAll(q)
        PROVE  Informed'
    <3>1. /\ victim[q] \in Conns /\ FailAllRequests(q, victim[q]) /\ UNCHANGED <<on, shut>>
          /\ pc[q] = "failall" /\ pc' = [pc EXCEPT ![q] = "closing"]
      BY <1>1, <2>3 DEF FailAll, Goto, Types, Placed, streamVars
    <3>2. doomed[q] = {}
      BY <1>1, <3>1 DEF Draining
    <3> QED
      BY <1>1, <1>3, <2>2, <3>1, <3>2 DEF Types, TypeOK, CallType
  <2>4. ASSUME NEW c \in Conns, LoopFail(c)
        PROVE  Informed'
    <3>1. FailAllRequests(c, c) /\ UNCHANGED <<on, shut, pc>> /\ at[c] = "fail"
      BY <2>4 DEF LoopFail, callVars, streamVars
    <3>2. doomed[c] = {}
      BY <1>1, <3>1 DEF Draining
    <3> QED
      BY <2>2, <3>1, <3>2
  <2>5. ASSUME NEW p \in Requests \cup Conns, NEW r \in Streams, CloseFrames(p, r),
               UNCHANGED <<pc, on, pending>>
        PROVE  Informed'
    <3>1. doomed' = [doomed EXCEPT ![p] = @ \ {r}] /\ shut' = shut \cup {r}
      BY <2>5 DEF CloseFrames
    <3>2. \A o \in Requests \cup Conns : doomed[o] \subseteq doomed'[o] \cup {r}
      BY <1>1, <3>1 DEF Types, TypeOK, StreamType
    <3> QED
      BY <1>1, <2>5, <3>1, <3>2 DEF Informed
  <2>6. ASSUME NEW q \in Requests, Closing(q)
        PROVE  Informed'
    <3>1. UNCHANGED <<on, pending>>
      BY <2>6 DEF Closing, connVars
    <3>2. CASE UNCHANGED <<doomed, shut>> /\ pc' = [pc EXCEPT ![q] = "close"]
      BY <1>1, <1>2, <1>3, <3>1, <3>2 DEF Types, TypeOK, CallType
    <3>3. CASE UNCHANGED pc /\ \E r \in Streams : CloseFrames(q, r)
      BY <2>5, <3>1, <3>3
    <3> QED
      BY <2>6, <3>2, <3>3 DEF Closing, Goto, streamVars
  <2>7. ASSUME NEW c \in Conns, LoopClosing(c)
        PROVE  Informed'
    BY <2>5, <2>7 DEF LoopClosing, callVars, connVars
  <2>8. ASSUME NEW q \in Requests, Send(q) \/ CloseStream(q)
        PROVE  Informed'
    <3>1. /\ UNCHANGED <<doomed, shut, on>> /\ on[q] \in Conns /\ pc[q] \in {"send", "close"}
          /\ pc[q] = "close" => pc' = [pc EXCEPT ![q] = "done"]
      BY <1>1, <2>8 DEF Send, CloseStream, Goto, Types, Placed
    <3>2. \/ UNCHANGED pending /\ \E l \in {"pull", "recv"} : pc' = [pc EXCEPT ![q] = l]
          \/ /\ pending' = [pending EXCEPT ![on[q]] = @ \ {q}]
             /\ \E l \in Leaving \cup {"done"} : pc' = [pc EXCEPT ![q] = l]
      BY <2>8 DEF Send, CloseStream, Unregister, Fail, Goto
    <3>3. ASSUME NEW r \in Streams, pc'[r] \in Waiting
          PROVE  /\ pc[r] \in Waiting /\ on'[r] = on[r]
                 /\ r \in pending[on[r]] => r \in pending'[on[r]]
      <4>1. CASE r = q
        <5>1. UNCHANGED pending /\ pc[q] = "send"
          BY <1>1, <1>3, <3>1, <3>2, <3>3, <4>1 DEF Types, TypeOK, CallType
        <5> QED
          BY <3>1, <4>1, <5>1
      <4>2. CASE r # q
        <5>1. pc'[r] = pc[r]
          BY <1>1, <1>3, <3>2, <4>2 DEF Types, TypeOK, CallType
        <5>2. on[r] \in Conns
          BY <1>1, <1>3, <3>3, <5>1 DEF Types, Placed
        <5> QED
          BY SMTT(30), <1>1, <3>1, <3>2, <3>3, <4>2, <5>1, <5>2 DEF Types, TypeOK, ConnType
      <4> QED
        BY <4>1, <4>2
    <3> QED
      BY <1>2, <3>1, <3>3
  <2>9. ASSUME NEW c \in Conns, LoopDispatch(c)
        PROVE  Informed'
    <3>1. UNCHANGED <<doomed, shut, on, pc>>
      BY <2>9 DEF LoopDispatch, callVars
    <3>2. ASSUME NEW q \in Streams, pc[q] \in Waiting, q \in pending[on[q]]
          PROVE  q \in pending'[on[q]]
      <4>1. q \notin left /\ on[q] \in Conns
        BY <1>1, <1>3, <3>2 DEF LeftAtEnd, Types, Placed
      <4> QED
        BY SMTT(30), <1>1, <2>9, <3>2, <4>1 DEF LoopDispatch, Types, TypeOK, ConnType
    <3> QED
      BY <1>2, <3>1, <3>2
  <2>10. ASSUME NEW q \in Requests,
                \/ Get(q) \/ Dial(q) \/ Install(q) \/ StartRequestLoop(q) \/ Recv(q)
                \/ RecvClosed(q) \/ PushStep(q) \/ Remove(q) \/ CloseConn(q) \/ TimeOut(q)
         PROVE  Informed'
    <3>1. UNCHANGED <<doomed, shut, pending>>
      BY <2>10 DEF Get, Dial, Install, PushStep, Pull, PullLock, PullFrame, StartRequestLoop,
            Recv, RecvClosed, TimeOut, Remove, CloseConn, streamVars, connVars
    <3>2. \A r \in Requests \ {q} : pc'[r] = pc[r] /\ on'[r] = on[r]
      BY <1>1, <2>10 DEF Get, Dial, Install, PushStep, Pull, PullLock, PullFrame,
            StartRequestLoop, Recv, RecvClosed, TimeOut, Remove, CloseConn,
            Connected, Fail, Goto, Types, TypeOK, CallType
    <3>3. q \in Streams /\ pc'[q] \in Waiting => pc[q] \in Waiting /\ on'[q] = on[q]
      BY <1>1, <1>3, <2>10 DEF Get, Dial, Install, PushStep, Pull, PullLock, PullFrame,
            StartRequestLoop, Recv, RecvClosed, TimeOut, Remove, CloseConn,
            Connected, Fail, Goto, Types, TypeOK, CallType
    <3> QED
      BY <1>2, <1>3, <3>1, <3>2, <3>3
  <2>11. ASSUME NEW q \in Requests, AgentReply(q)
         PROVE  Informed'
    BY <1>2, <2>11 DEF AgentReply, callVars, connVars, streamVars
  <2>12. ASSUME NEW c \in Conns, LoopLock(c) \/ LoopRead(c) \/ LoopLookup(c) \/ Break(c)
         PROVE  Informed'
    BY <1>2, <2>12 DEF LoopLock, LoopRead, LoopLookup, Break, callVars, connVars, streamVars
  <2> QED
    BY <1>4, <2>1, <2>3, <2>4, <2>6, <2>7, <2>8, <2>9, <2>10, <2>11, <2>12
       DEF Next, CallStep, StreamStep, LoopStep
<1>5. CASE UNCHANGED vars
  BY <1>2, <1>5 DEF vars, callVars, connVars, streamVars
<1> QED
  BY <1>1, <1>4, <1>5

(* Whatever the order of time-outs, broken connections, removals by other   *)
(* callers and new registrations (registerRequest, RequestStream.Close,     *)
(* failAllRequests), no caller is left waiting on a stream that nobody will *)
(* feed or close, and no stream stays registered after its caller has gone. *)
THEOREM WaitersInformed == Spec => []NoWaiterLeak
<1> DEFINE IInv == Registered /\ LeftAtEnd /\ Draining /\ Informed
<1>1. Init => IInv
  BY DEF Init, Registered, LeftAtEnd, Draining, Informed, Waiting, Leaving, Requests
<1>2. Types /\ IInv /\ [Next]_vars => IInv'
  BY RegisteredStep, LeftStep, DrainingStep, InformedStep
<1>3. IInv => NoWaiterLeak
  BY DEF Registered, Informed, NoWaiterLeak, Waiting, Leaving
<1> HIDE DEF IInv
<1> QED
  BY <1>1, <1>2, <1>3, TypesHold, PTL DEF Spec
-----------------------------------------------------------------------------
(* A connection that failed is not kept *)

(* A connection that is being installed is nobody else's.                   *)
Fresh ==
    /\ \A c \in Conns : link[c] = "none" =>
          pool # c /\ \A q \in Requests : on[q] # c
    /\ \A q \in Requests : pc[q] = "install" =>
          pool # on[q] /\ \A r \in Requests \ {q} : on[r] # on[q]

(* A caller that failed has removed the connection or is about to.          *)
Removed ==
    \A q \in Requests : result[q] = "error" =>
        /\ pc[q] \in Leaving \cup {"done"}
        /\ q \in Posts \cup Pushes /\ pc[q] # "remove" /\ on[q] # NoConn => pool # on[q]

(* Every step keeps Fresh.                                                  *)
LEMMA FreshStep == Types /\ Fresh /\ [Next]_vars => Fresh'
<1>1. SUFFICES ASSUME Types, Fresh, [Next]_vars PROVE Fresh'
  OBVIOUS
<1>2. ASSUME UNCHANGED <<pool, on>>,
             \A c \in Conns : link'[c] = "none" => link[c] = "none",
             \A q \in Requests : pc'[q] = "install" => pc[q] = "install"
      PROVE  Fresh'
  BY <1>1, <1>2 DEF Fresh
<1>3. CASE Next
  <2>1. ASSUME NEW q \in Requests, Get(q)
        PROVE  Fresh'
    <3>1. UNCHANGED poolVars /\ pc[q] = "get"
      BY <2>1 DEF Get
    <3>2. \/ UNCHANGED on /\ pc' = [pc EXCEPT ![q] = "dial"]
          \/ /\ pool # NoConn /\ on' = [on EXCEPT ![q] = pool]
             /\ \E l \in {"send", "start"} : pc' = [pc EXCEPT ![q] = l]
      BY <2>1 DEF Get, Connected, Goto
    <3> QED
      BY SMTT(30), <1>1, <3>1, <3>2 DEF Fresh, poolVars, Types, TypeOK, CallType, PoolType
  <2>2. ASSUME NEW q \in Requests, Dial(q)
        PROVE  Fresh'
    <3>1. UNCHANGED pool
      BY <2>2 DEF Dial
    <3>2. CASE UNCHANGED <<link, on>> /\ pc' = [pc EXCEPT ![q] = "done"]
      BY <1>1, <1>2, <3>1, <3>2 DEF Types, TypeOK, CallType
    <3>3. CASE /\ pc' = [pc EXCEPT ![q] = "install"]
               /\ \E c \in Conns : /\ link[c] = "none" /\ link' = [link EXCEPT ![c] = "open"]
                                   /\ on' = [on EXCEPT ![q] = c]
      BY SMTT(30), <1>1, <3>1, <3>3 DEF Fresh, Types, TypeOK, CallType, PoolType
    <3> QED
      BY <2>2, <3>2, <3>3 DEF Dial, Goto
  <2>3. ASSUME NEW q \in Requests, Install(q)
        PROVE  Fresh'
    <3>1. pc[q] = "install" /\ on[q] \in Conns
      BY <1>1, <2>3 DEF Install, Types, Placed
    <3>2. \E l \in {"send", "start"} : pc' = [pc EXCEPT ![q] = l]
      BY <2>3 DEF Install, Connected, Goto
    <3>3. CASE pool = NoConn /\ pool' = on[q] /\ on' = [on EXCEPT ![q] = on[q]] /\ UNCHANGED link
      BY <1>1, <3>1, <3>2, <3>3 DEF Fresh, Types, TypeOK, CallType, PoolType
    <3>4. CASE /\ pool # NoConn /\ link' = [link EXCEPT ![on[q]] = "closed"]
               /\ on' = [on EXCEPT ![q] = pool] /\ UNCHANGED pool
      BY <1>1, <3>1, <3>2, <3>4 DEF Fresh, Types, TypeOK, CallType, PoolType
    <3> QED
      BY <2>3, <3>3, <3>4 DEF Install, Connected
  <2>4. ASSUME NEW q \in Requests, Remove(q)
        PROVE  Fresh'
    <3>1. pool' = NoConn /\ UNCHANGED <<link, on>>
      BY <2>4 DEF Remove
    <3>2. \A r \in Requests : pc'[r] = "install" => pc[r] = "install" /\ on[r] \in Conns
      BY <1>1, <2>4 DEF Remove, Goto, Types, TypeOK, CallType, Placed
    <3> QED
      BY <1>1, <3>1, <3>2, ConstantsAssumption DEF Fresh
  <2>5. ASSUME NEW q \in Requests,
               \/ Send(q) \/ StreamStep(q) \/ PushStep(q) \/ FailAll(q) \/ TimeOut(q)
               \/ Closing(q) \/ CloseStream(q) \/ CloseConn(q)
        PROVE  Fresh'
    <3>1. UNCHANGED <<pool, on>>
      BY <2>5 DEF Send, StreamStep, StartRequestLoop, RegisterRequest, Recv, RecvClosed,
            PushStep, Pull, PullLock, PullFrame, FailAll, TimeOut, Closing, CloseStream,
            CloseConn, poolVars
    <3>2. \A c \in Conns : link'[c] = "none" => link[c] = "none"
      BY <1>1, <2>5 DEF Send, StreamStep, StartRequestLoop, RegisterRequest, Recv, RecvClosed,
            PushStep, Pull, PullLock, PullFrame, FailAll, TimeOut, Closing, CloseStream,
            CloseConn, poolVars, Types, TypeOK, PoolType
    <3>3. \A r \in Requests : pc'[r] = "install" => pc[r] = "install"
      BY <1>1, <2>5 DEF Send, StreamStep, StartRequestLoop, RegisterRequest, Recv, RecvClosed,
            PushStep, Pull, PullLock, PullFrame, FailAll, TimeOut, Closing, CloseStream,
            CloseConn, Fail, Goto, Types, TypeOK, CallType
    <3> QED
      BY <1>2, <3>1, <3>2, <3>3
  <2>6. ASSUME NEW q \in Requests, AgentReply(q)
        PROVE  Fresh'
    BY <1>2, <2>6 DEF AgentReply, callVars, poolVars
  <2>7. ASSUME NEW c \in Conns, LoopStep(c) \/ Break(c)
        PROVE  Fresh'
    <3>1. \A d \in Conns : link'[d] = "none" => link[d] = "none"
      BY <1>1, <2>7 DEF LoopStep, LoopLock, LoopRead, LoopLookup, LoopDispatch, LoopFail,
            LoopClosing, Break, poolVars, Types, TypeOK, PoolType
    <3>2. UNCHANGED <<pool, on, pc>>
      BY <2>7 DEF LoopStep, LoopLock, LoopRead, LoopLookup, LoopDispatch, LoopFail,
            LoopClosing, Break, poolVars, callVars
    <3> QED
      BY <1>2, <3>1, <3>2
  <2> QED
    BY <1>3, <2>1, <2>2, <2>3, <2>4, <2>5, <2>6, <2>7 DEF Next, CallStep
<1>4. CASE UNCHANGED vars
  BY <1>2, <1>4 DEF vars, callVars, poolVars
<1> QED
  BY <1>1, <1>3, <1>4

(* Every step keeps Removed.                                                *)
LEMMA RemovedStep == Types /\ Fresh /\ Removed /\ [Next]_vars => Removed'
<1>1. SUFFICES ASSUME Types, Fresh, Removed, [Next]_vars PROVE Removed'
  OBVIOUS
<1> USE DEF Waiting, Leaving
<1>2. CASE Next
  <2>1. ASSUME NEW q \in Requests, Get(q)
        PROVE  Removed'
    <3>1. UNCHANGED <<pool, result>> /\ pc[q] = "get"
      BY <2>1 DEF Get, poolVars
    <3>2. \A r \in Requests \ {q} : pc'[r] = pc[r] /\ on'[r] = on[r]
      BY <1>1, <2>1 DEF Get, Connected, Goto, Types, TypeOK, CallType
    <3> QED
      BY <1>1, <3>1, <3>2 DEF Removed
  <2>2. ASSUME NEW q \in Requests, Dial(q)
        PROVE  Removed'
    <3>1. UNCHANGED pool /\ pc[q] = "dial"
      BY <2>2 DEF Dial
    <3>2. \A r \in Requests \ {q} : pc'[r] = pc[r] /\ on'[r] = on[r] /\ result'[r] = result[r]
      BY <1>1, <2>2 DEF Dial, Goto, Types, TypeOK, CallType
    <3>3. result'[q] = "error" => result[q] = "error" \/ (pc'[q] = "done" /\ on'[q] = on[q])
      BY <1>1, <2>2 DEF Dial, Goto, Types, TypeOK, CallType
    <3>4. pc[q] = "dial" => on[q] = NoConn
      BY <1>1, <3>1 DEF Types, Placed
    <3> QED
      BY <1>1, <3>1, <3>2, <3>3, <3>4 DEF Removed
  <2>3. ASSUME NEW q \in Requests, Install(q)
        PROVE  Removed'
    <3>1. UNCHANGED result /\ pc[q] = "install"
      BY <2>3 DEF Install
    <3>2. \A r \in Requests \ {q} : pc'[r] = pc[r] /\ on'[r] = on[r]
      BY <1>1, <2>3 DEF Install, Connected, Goto, Types, TypeOK, CallType
    <3>3. pool' = pool \/ pool' = on[q]
      BY <2>3 DEF Install
    <3>4. \A r \in Requests \ {q} : on[r] # on[q]
      BY <1>1, <3>1 DEF Fresh
    <3> QED
      BY <1>1, <3>1, <3>2, <3>3, <3>4 DEF Removed
  <2>4. ASSUME NEW q \in Requests, Remove(q)
        PROVE  Removed'
    <3>1. pool' = NoConn /\ UNCHANGED <<on, result>>
      BY <2>4 DEF Remove
    <3>2. \E l \in {"close", "shutdown"} : pc' = [pc EXCEPT ![q] = l]
      BY <2>4 DEF Remove, Goto
    <3> QED
      BY <1>1, <3>1, <3>2 DEF Removed, Types, TypeOK, CallType
  <2>5. ASSUME NEW q \in Requests,
               StartRequestLoop(q) \/ Recv(q) \/ PullLock(q)
        PROVE  Removed'
    <3>1. pc[q] \notin Leaving \cup {"done"} /\ UNCHANGED <<pool, on>>
      BY <2>5 DEF StartRequestLoop, Recv, PullLock, poolVars
    <3>2. \A r \in Requests \ {q} : pc'[r] = pc[r] /\ result'[r] = result[r]
      BY <1>1, <2>5 DEF StartRequestLoop, Recv, PullLock, Goto, Types, TypeOK, CallType
    <3>3. result'[q] = "error" => result[q] = "error"
      BY <1>1, <2>5 DEF StartRequestLoop, Recv, PullLock, Types, TypeOK, CallType
    <3> QED
      BY <1>1, <3>1, <3>2, <3>3 DEF Removed
  <2>6. ASSUME NEW q \in Requests,
               \/ RegisterRequest(q) \/ Send(q) \/ RecvClosed(q) \/ TimeOut(q)
               \/ Pull(q) \/ PullFrame(q)
        PROVE  Removed'
    <3>1. pc[q] \notin Leaving \cup {"done"} /\ UNCHANGED <<pool, on>>
      BY <2>6 DEF RegisterRequest, Send, RecvClosed, TimeOut, Pull, PullFrame, poolVars
    <3>2. \A r \in Requests \ {q} : pc'[r] = pc[r] /\ result'[r] = result[r]
      BY <1>1, <2>6 DEF RegisterRequest, Send, RecvClosed, TimeOut, Pull, PullFrame, Fail,
            Goto, Types, TypeOK, CallType
    <3>3. \/ result'[q] = "error" => result[q] = "error"
          \/ /\ q \in Posts \cup Pushes => pc'[q] = "remove"
             /\ q \notin Posts \cup Pushes => pc'[q] = "close"
      BY <1>1, <2>6 DEF RegisterRequest, Send, RecvClosed, TimeOut, Pull, PullFrame, Fail,
            Goto, Removes, Types, TypeOK, CallType
    <3> QED
      BY <1>1, <3>1, <3>2, <3>3 DEF Removed
  <2>7. ASSUME NEW q \in Requests,
               CloseConn(q) \/ FailAll(q) \/ Closing(q) \/ CloseStream(q)
        PROVE  Removed'
    <3>1. pc[q] # "remove" /\ UNCHANGED <<pool, on, result>>
      BY <2>7 DEF CloseConn, FailAll, Closing, CloseStream, poolVars
    <3>2. UNCHANGED pc \/ \E l \in {"failall", "closing", "close", "done"} :
                              pc' = [pc EXCEPT ![q] = l]
      BY <2>7 DEF CloseConn, FailAll, Closing, CloseStream, Goto
    <3> QED
      BY <1>1, <3>1, <3>2 DEF Removed, Types, TypeOK, CallType
  <2>8. ASSUME NEW q \in Requests, AgentReply(q)
        PROVE  Removed'
    BY <1>1, <2>8 DEF AgentReply, callVars, poolVars, Removed
  <2>9. ASSUME NEW c \in Conns, LoopStep(c) \/ Break(c)
        PROVE  Removed'
    BY <1>1, <2>9 DEF LoopStep, LoopLock, LoopRead, LoopLookup, LoopDispatch, LoopFail,
            LoopClosing, Break, poolVars, callVars, Removed
  <2> QED
    BY <1>2, <2>1, <2>2, <2>3, <2>4, <2>5, <2>6, <2>7, <2>8, <2>9
       DEF Next, CallStep, StreamStep, PushStep
<1>3. CASE UNCHANGED vars
  BY <1>1, <1>3 DEF vars, callVars, poolVars, Removed
<1> QED
  BY <1>1, <1>2, <1>3

(* A caller that fails on a connection, and is one that removes, leaves the *)
(* pool without that connection (HandleMessage, HandleStream, channel       *)
(* messages and PushConfig calling ConnPool.Remove), and no later dial      *)
(* brings it back.                                                          *)
THEOREM FailedConnRemoved == Spec => []DeadConnRemoved
<1>1. Init => Fresh /\ Removed
  BY SMTT(30), ConstantsAssumption DEF Init, Fresh, Removed
<1>2. Removed => DeadConnRemoved
  BY DEF Removed, DeadConnRemoved, Requests, Streams
<1> QED
  BY <1>1, <1>2, FreshStep, RemovedStep, TypesHold, PTL DEF Spec
-----------------------------------------------------------------------------
(* Answers do not mix *)

(* The agent knows a request only after it was sent, and a frame is read    *)
(* only after the agent has sent it.                                        *)
Asked ==
    \A q \in Requests :
        /\ q \notin asked => sent[q] = 0
        /\ taken[q] <= sent[q]
        /\ pc[q] \in {"get", "dial", "install", "start", "register", "send"} => q \notin asked

(* The frames of an answer that reached the stream of q. *)
Delivered(q) == Len(got[q]) + Len(frames[q])

(* The frame a receive loop holds is the last one read from the connection, *)
(* and the next one for the stream, if the stream is to have it.            *)
Aligned(c) ==
    at[c] \in {"lookup", "dispatch"} =>
        /\ on[frame[c][1]] = c
        /\ frame[c][2] = taken[frame[c][1]]
        /\ at[c] = "dispatch" \/ frame[c][1] \in pending[c] =>
              frame[c][2] = Delivered(frame[c][1]) + 1

(* Of a registered stream every frame that was read has been delivered, but *)
(* for the one the receive loop holds, which is the next.                   *)
Delivery ==
    /\ \A q \in Requests : Delivered(q) <= taken[q]
    /\ ~ panicked => \A c \in Conns : \A q \in pending[c] :
          frame[c][1] # q => taken[q] = Delivered(q)
    /\ \A c \in Conns : Aligned(c)

(* The caller receives the frames in order and stops at the last.           *)
Ordered ==
    \A q \in Requests :
        /\ \A i \in 1 .. Len(got[q]) : got[q][i] = i
        /\ \A i \in 1 .. Len(frames[q]) : frames[q][i] = Len(got[q]) + i
        /\ result[q] = "ok" => Len(got[q]) = Replies /\ pc[q] \in {"close", "done"}

(* Every step keeps Asked.                                                  *)
LEMMA AskedStep == Types /\ Asked /\ [Next]_vars => Asked'
<1>1. SUFFICES ASSUME Types, Asked, [Next]_vars PROVE Asked'
  OBVIOUS
<1> DEFINE Before == {"get", "dial", "install", "start", "register", "send"}
<1>2. ASSUME UNCHANGED agentVars,
             \A q \in Requests : pc'[q] \in Before => pc[q] \in Before
      PROVE  Asked'
  BY <1>1, <1>2 DEF Asked, agentVars
<1>3. ASSUME NEW r \in Requests, UNCHANGED <<sent, asked>>,
             taken[r] < sent[r], taken' = [taken EXCEPT ![r] = @ + 1],
             \A q \in Requests : pc'[q] \in Before => pc[q] \in Before
      PROVE  Asked'
  BY SMTT(30), <1>1, <1>3 DEF Asked, Types, TypeOK, AgentType
<1>4. CASE Next
  <2>1. ASSUME NEW q \in Requests, Send(q)
        PROVE  Asked'
    <3>1. UNCHANGED <<sent, taken>> /\ asked' \in {asked, asked \cup {q}}
      BY <2>1 DEF Send
    <3>2. \E l \in {"pull", "recv", "remove", "close"} : pc' = [pc EXCEPT ![q] = l]
      BY <2>1 DEF Send, Fail, Goto
    <3> QED
      BY SMTT(30), <1>1, <3>1, <3>2 DEF Asked, Types, TypeOK, CallType
  <2>2. ASSUME NEW q \in Requests, AgentReply(q)
        PROVE  Asked'
    <3>1. UNCHANGED <<asked, taken, pc>> /\ q \in asked /\ sent' = [sent EXCEPT ![q] = @ + 1]
      BY <2>2 DEF AgentReply, callVars
    <3> QED
      BY SMTT(30), <1>1, <3>1 DEF Asked, Types, TypeOK, AgentType
  <2>3. ASSUME NEW q \in Requests, PullFrame(q)
        PROVE  Asked'
    <3>1. \A r \in Requests : pc'[r] \in Before => pc[r] \in Before
      BY <1>1, <2>3 DEF PullFrame, Fail, Goto, Types, TypeOK, CallType
    <3>2. \/ UNCHANGED agentVars
          \/ /\ UNCHANGED <<sent, asked>>
             /\ \E r \in Requests : taken[r] < sent[r] /\ taken' = [taken EXCEPT ![r] = @ + 1]
      BY <2>3 DEF PullFrame, Readable, Read, agentVars
    <3> QED
      BY <1>2, <1>3, <3>1, <3>2
  <2>4. ASSUME NEW c \in Conns, LoopRead(c)
        PROVE  Asked'
    <3>1. \/ UNCHANGED agentVars
          \/ /\ UNCHANGED <<sent, asked>>
             /\ \E r \in Requests : taken[r] < sent[r] /\ taken' = [taken EXCEPT ![r] = @ + 1]
      BY <2>4 DEF LoopRead, Readable, Read, agentVars
    <3> QED
      BY <1>2, <1>3, <2>4, <3>1 DEF LoopRead, callVars
  <2>5. ASSUME NEW q \in Requests,
               \/ Get(q) \/ Dial(q) \/ Install(q) \/ StreamStep(q) \/ Pull(q) \/ PullLock(q)
               \/ Remove(q) \/ CloseConn(q) \/ FailAll(q) \/ Closing(q) \/ CloseStream(q)
               \/ TimeOut(q)
        PROVE  Asked'
    <3>1. UNCHANGED agentVars
      BY <2>5 DEF Get, Dial, Install, StreamStep, StartRequestLoop, RegisterRequest, Recv,
            RecvClosed, Pull, PullLock, Remove, CloseConn, FailAll, Closing, CloseStream, TimeOut
    <3>2. \A r \in Requests : pc'[r] \in Before => pc[r] \in Before
      BY ZenonT(60), <1>1, <2>5 DEF Get, Dial, Install, StreamStep, StartRequestLoop, RegisterRequest,
            Recv, RecvClosed, Pull, PullLock, Remove, CloseConn, FailAll, Closing, CloseStream, TimeOut,
            Connected, Fail, Goto, Types, TypeOK, CallType
    <3> QED
      BY <1>2, <3>1, <3>2
  <2>6. ASSUME NEW c \in Conns,
               \/ LoopLock(c) \/ LoopLookup(c) \/ LoopDispatch(c) \/ LoopFail(c)
               \/ LoopClosing(c) \/ Break(c)
        PROVE  Asked'
    BY <1>2, <2>6 DEF LoopLock, LoopLookup, LoopDispatch, LoopFail, LoopClosing, Break, callVars
  <2> QED
    BY <1>4, <2>1, <2>2, <2>3, <2>4, <2>5, <2>6 DEF Next, CallStep, PushStep, LoopStep
<1>5. CASE UNCHANGED vars
  BY <1>2, <1>5 DEF vars, callVars
<1> QED
  BY <1>1, <1>4, <1>5

(* What a step does to the streams: a receive takes the head of the buffer, *)
(* a dispatch appends to it.                                                *)
LEMMA ReceiveCounts ==
    ASSUME Types, NEW q \in Requests, Recv(q)
    PROVE  /\ frames[q] # <<>>
           /\ Len(got'[q]) = Len(got[q]) + 1 /\ Len(frames'[q]) = Len(frames[q]) - 1
           /\ \A i \in 1 .. Len(got[q]) : got'[q][i] = got[q][i]
           /\ got'[q][Len(got[q]) + 1] = frames[q][1]
           /\ \A i \in 1 .. Len(frames'[q]) : frames'[q][i] = frames[q][i + 1]
           /\ \A r \in Requests \ {q} : got'[r] = got[r] /\ frames'[r] = frames[r]
<1>1. /\ frames[q] \in Seq(1 .. Replies) /\ frames[q] # <<>> /\ got[q] \in Seq(1 .. Replies)
      /\ got'[q] = Append(got[q], Head(frames[q])) /\ frames'[q] = Tail(frames[q])
  BY DEF Recv, Types, TypeOK, FramesType
<1>2. \A r \in Requests \ {q} : got'[r] = got[r] /\ frames'[r] = frames[r]
  BY DEF Recv, Types, TypeOK, FramesType
<1> QED
  BY SMTT(30), <1>1, <1>2

(* A frame handed to a stream comes last in it.                             *)
LEMMA DispatchCounts ==
    ASSUME Types, NEW c \in Conns, NEW q \in Requests, at[c] = "dispatch", q = frame[c][1],
           frames' = [frames EXCEPT ![q] = Append(@, frame[c][2])]
    PROVE  /\ Len(frames'[q]) = Len(frames[q]) + 1
           /\ \A i \in 1 .. Len(frames[q]) : frames'[q][i] = frames[q][i]
           /\ frames'[q][Len(frames[q]) + 1] = frame[c][2]
           /\ \A r \in Requests \ {q} : frames'[r] = frames[r]
<1>1. frames[q] \in Seq(1 .. Replies) /\ frame[c][2] \in 1 .. Replies
  BY DEF Types, TypeOK, FramesType, Held
<1>2. frames'[q] = Append(frames[q], frame[c][2])
  BY <1>1 DEF Types, TypeOK, FramesType
<1>3. \A r \in Requests \ {q} : frames'[r] = frames[r]
  BY <1>1 DEF Types, TypeOK, FramesType
<1>4. /\ Len(frames'[q]) = Len(frames[q]) + 1
      /\ \A i \in 1 .. Len(frames[q]) : frames'[q][i] = frames[q][i]
      /\ frames'[q][Len(frames[q]) + 1] = frame[c][2]
  BY SMTT(30), <1>1, <1>2
<1> QED
  BY <1>3, <1>4

(* Every step keeps Delivery.                                               *)
LEMMA DeliveryStep ==
    ASSUME Pushes = {}
    PROVE  Types /\ Registered /\ Asked /\ Delivery /\ [Next]_vars => Delivery'
<1>1. SUFFICES ASSUME Types, Registered, Asked, Delivery, [Next]_vars PROVE Delivery'
  OBVIOUS
<1>2. \A q \in Requests : taken[q] \in Nat /\ Delivered(q) \in Nat
  BY SMTT(30), <1>1 DEF Types, TypeOK, AgentType, FramesType, Delivered
<1>3. \A c \in Conns : at[c] \in {"lookup", "dispatch"} =>
         frame[c][1] \in Requests /\ frame[c][2] \in 1 .. Replies
  BY <1>1 DEF Types, Held
<1>4. ASSUME UNCHANGED <<frame, taken>>, panicked => panicked',
             \A c \in Conns : pending'[c] \subseteq pending[c],
             \A c \in Conns : at'[c] \in {"lookup", "dispatch"} => at'[c] = at[c],
             \A q \in Requests : Delivered(q)' = Delivered(q),
             \A q \in Requests : taken[q] # 0 => on'[q] = on[q]
      PROVE  Delivery'
  <2>1. \A c \in Conns : at[c] \in {"lookup", "dispatch"} => taken[frame[c][1]] # 0
    BY SMTT(30), <1>1, <1>3 DEF Delivery, Aligned
  <2>2. \A c \in Conns : \A q \in pending[c] : q \in Requests
    BY <1>1 DEF Types, TypeOK, ConnType, Requests
  <2> QED
    BY SMTT(30), <1>1, <1>3, <1>4, <2>1, <2>2 DEF Delivery, Aligned
<1>5. \A q \in Requests :
         pc[q] \in {"get", "dial", "install", "register"} => taken[q] = 0 /\ Delivered(q) = 0
  BY SMTT(30), <1>1, <1>2 DEF Asked, Delivery, Types, TypeOK, AgentType
<1>6. ASSUME UNCHANGED <<got, frames>>
      PROVE  \A q \in Requests : Delivered(q)' = Delivered(q)
  BY <1>6 DEF Delivered
<1>7. CASE Next
  <2>0. ~ panicked
    BY <1>7 DEF Next
  <2>1. ASSUME NEW q \in Requests, Get(q) \/ Dial(q) \/ Install(q)
        PROVE  Delivery'
    <3>1. UNCHANGED <<frame, taken, pending, at, got, frames>>
      BY <2>1 DEF Get, Dial, Install, connVars, streamVars, agentVars
    <3>2. \A r \in Requests \ {q} : on'[r] = on[r]
      BY <1>1, <2>1 DEF Get, Dial, Install, Connected, Types, TypeOK, CallType
    <3>3. taken[q] = 0
      BY <1>5, <2>1 DEF Get, Dial, Install
    <3> QED
      BY <1>4, <2>0, <1>6, <3>1, <3>2, <3>3
  <2>2. ASSUME NEW q \in Requests, RegisterRequest(q)
        PROVE  Delivery'
    <3>1. UNCHANGED <<frame, taken, at, on, got, frames>> /\ pc[q] = "register" /\ on[q] \in Conns
      BY <1>1, <2>2 DEF RegisterRequest, streamVars, agentVars, Types, Placed
    <3>2. pending' = pending \/ pending' = [pending EXCEPT ![on[q]] = @ \cup {q}]
      BY <2>2 DEF RegisterRequest
    <3>3. \A c \in Conns : pending'[c] \subseteq pending[c] \cup {q}
      BY <1>1, <3>1, <3>2 DEF Types, TypeOK, ConnType
    <3>4. taken[q] = 0 /\ Delivered(q) = 0
      BY <1>5, <3>1
    <3>5. \A c \in Conns : at[c] \in {"lookup", "dispatch"} => frame[c][1] # q
      BY SMTT(30), <1>1, <1>3, <3>4 DEF Delivery, Aligned
    <3>6. \A c \in Conns : \A r \in pending'[c] : r \in Requests
      BY <1>1, <3>3 DEF Types, TypeOK, ConnType, Requests
    <3>7. \A r \in Requests : Delivered(r)' = Delivered(r)
      BY <1>6, <3>1
    <3> QED
      BY SMTT(30), <1>1, <1>3, <2>0, <3>1, <3>3, <3>4, <3>5, <3>6, <3>7 DEF Delivery, Aligned
  <2>3. ASSUME NEW q \in Requests, Recv(q)
        PROVE  Delivery'
    <3>1. UNCHANGED <<frame, taken, pending, at, on>>
      BY <2>3 DEF Recv, connVars, agentVars
    <3>2. \A r \in Requests : Len(got[r]) \in Nat /\ Len(frames[r]) \in Nat
      BY SMTT(30), <1>1 DEF Types, TypeOK, FramesType
    <3>3. ASSUME NEW r \in Requests
          PROVE  Delivered(r)' = Delivered(r)
      <4>1. CASE r = q
        <5>1. Len(got'[q]) = Len(got[q]) + 1 /\ Len(frames'[q]) = Len(frames[q]) - 1
          BY <1>1, <2>3, ReceiveCounts
        <5>2. (Len(got[q]) + 1) + (Len(frames[q]) - 1) = Len(got[q]) + Len(frames[q])
          <6>1. \A a, b \in Nat : (a + 1) + (b - 1) = a + b
            BY SMTT(30)
          <6> QED
            BY ONLY ZenonT(30), <3>2, <6>1
        <5>3. Delivered(q)' = Delivered(q)
          BY ONLY ZenonT(30), <5>1, <5>2 DEF Delivered
        <5> QED
          BY <4>1, <5>3
      <4>2. CASE r # q
        <5>1. got'[r] = got[r] /\ frames'[r] = frames[r]
          BY <1>1, <2>3, <4>2, ReceiveCounts
        <5> QED
          BY <5>1 DEF Delivered
      <4> QED
        BY <4>1, <4>2
    <3> QED
      BY <1>4, <2>0, <3>1, <3>3
  <2>4. ASSUME NEW q \in Requests, PushStep(q)
        PROVE  FALSE
    BY <1>1, <2>4 DEF PushStep, Pull, PullLock, PullFrame, Types, Placed
  <2>5. ASSUME NEW q \in Requests, StartRequestLoop(q)
        PROVE  Delivery'
    <3>1. UNCHANGED <<frame, taken, pending, on, got, frames>>
      BY <2>5 DEF StartRequestLoop, agentVars, streamVars
    <3>2. \A c \in Conns : at'[c] \in {"lookup", "dispatch"} => at'[c] = at[c]
      BY <1>1, <2>5 DEF StartRequestLoop, Types, TypeOK, ConnType
    <3> QED
      BY <1>4, <2>0, <1>6, <3>1, <3>2
  <2>6. ASSUME NEW q \in Requests,
               \/ Send(q) \/ RecvClosed(q) \/ TimeOut(q) \/ Remove(q) \/ CloseConn(q)
               \/ FailAll(q) \/ Closing(q) \/ CloseStream(q) \/ AgentReply(q)
        PROVE  Delivery'
    <3>1. UNCHANGED <<frame, taken, at, on, got, frames>>
      BY <2>6 DEF Send, RecvClosed, TimeOut, Remove, CloseConn, FailAll, Closing, CloseFrames,
            CloseStream, AgentReply, connVars, agentVars, streamVars, callVars
    <3>2. \A c \in Conns : pending'[c] \subseteq pending[c]
      BY ZenonT(60), <1>1, <2>6 DEF Send, RecvClosed, TimeOut, Remove, CloseConn, FailAll, Closing,
            FailAllRequests, Unregister, CloseStream, AgentReply, connVars, Types, TypeOK, ConnType
    <3> QED
      BY <1>4, <2>0, <1>6, <3>1, <3>2
  <2>7. ASSUME NEW c \in Conns, LoopRead(c)
        PROVE  Delivery'
    <3>1. UNCHANGED <<pending, on, got, frames>> /\ at[c] = "read"
      BY <2>7 DEF LoopRead, callVars, streamVars
    <3>2. \A r \in Requests : Delivered(r)' = Delivered(r)
      BY <1>6, <3>1
    <3>3. CASE at' = [at EXCEPT ![c] = "fail"] /\ UNCHANGED <<taken, frame>>
      BY <1>1, <1>4, <2>0, <3>1, <3>2, <3>3 DEF Types, TypeOK, ConnType
    <3>4. ASSUME NEW r \in Requests, on[r] = c,
                 taken' = [taken EXCEPT ![r] = @ + 1],
                 frame' = [frame EXCEPT ![c] = <<r, taken[r] + 1>>],
                 at' = [at EXCEPT ![c] = "lookup"]
          PROVE  Delivery'
      <4>1. /\ frame'[c] = <<r, taken[r] + 1>> /\ at'[c] = "lookup" /\ taken'[r] = taken[r] + 1
            /\ \A d \in Conns \ {c} : frame'[d] = frame[d] /\ at'[d] = at[d]
            /\ \A q \in Requests \ {r} : taken'[q] = taken[q]
        BY <1>1, <3>4 DEF Types, TypeOK, ConnType, AgentType
      <4>2. frame[c][1] = NoConn /\ r # NoConn
        BY SMTT(30), <1>1, <3>1, ConstantsAssumption DEF Types, Held, NoFrame
      <4>3. \A d \in Conns : \A q \in pending[d] : q \in Requests /\ on[q] = d
        BY <1>1 DEF Types, TypeOK, ConnType, Requests, Registered
      <4>4. \A d \in Conns \ {c} : at[d] \in {"lookup", "dispatch"} => frame[d][1] # r
        BY <1>1, <3>4 DEF Delivery, Aligned
      <4>5. \A q \in Requests : Delivered(q)' <= taken'[q]
        BY SMTT(30), <1>1, <1>2, <3>2, <4>1 DEF Delivery, Aligned
      <4>6. ASSUME NEW d \in Conns, NEW q \in pending'[d], frame'[d][1] # q
            PROVE  taken'[q] = Delivered(q)'
        <5>1. q \in pending[d] /\ q \in Requests /\ on[q] = d
          BY <3>1, <4>3, <4>6
        <5>2. q # r
          BY SMTT(30), <3>4, <4>1, <4>6, <5>1
        <5>3. frame[d][1] # q
          BY <4>1, <4>2, <4>6, <5>1, ConstantsAssumption
        <5> QED
          BY SMTT(30), <1>1, <2>0, <3>2, <4>1, <5>1, <5>2, <5>3 DEF Delivery, Aligned
      <4>7. ASSUME NEW d \in Conns
            PROVE  Aligned(d)'
        <5>1. CASE d = c
          <6>1. r \in pending[c] => taken[r] = Delivered(r)
            BY <1>1, <2>0, <4>2 DEF Delivery
          <6>2. frame'[d][1] = r /\ frame'[d][2] = taken'[r] /\ at'[d] = "lookup" /\ on'[r] = d
            BY SMTT(30), <3>1, <3>4, <4>1, <5>1
          <6>3. r \in pending'[d] => taken'[r] = Delivered(r)' + 1
            BY <3>1, <3>2, <4>1, <5>1, <6>1
          <6> QED
            BY <6>2, <6>3 DEF Aligned
        <5>2. CASE d # c
          <6>1. frame'[d] = frame[d] /\ at'[d] = at[d]
            BY <4>1, <5>2
          <6>2. CASE at[d] \in {"lookup", "dispatch"}
            <7>1. PICK x \in Requests : x = frame[d][1]
              BY <1>3, <6>2
            <7>2. Delivered(x)' = Delivered(x) /\ taken'[x] = taken[x]
              BY <3>2, <4>1, <4>4, <5>2, <6>2, <7>1
            <7>3. frame'[d][1] = x
              BY <6>1, <7>1
            <7>4. Aligned(d)
              BY <1>1 DEF Delivery
            <7> QED
              BY <3>1, <6>1, <7>1, <7>2, <7>3, <7>4 DEF Aligned
          <6> QED
            BY <6>1, <6>2 DEF Aligned
        <5> QED
          BY <5>1, <5>2
      <4> QED
        BY <4>5, <4>6, <4>7 DEF Delivery, Aligned
    <3> QED
      BY <2>7, <3>3, <3>4 DEF LoopRead, Readable, Read
  <2>8. ASSUME NEW c \in Conns, LoopLookup(c)
        PROVE  Delivery'
    <3>1. UNCHANGED <<pending, on, got, frames, taken>> /\ at[c] = "lookup"
      BY <2>8 DEF LoopLookup, callVars, streamVars, agentVars
    <3>2. \A r \in Requests : Delivered(r)' = Delivered(r)
      BY <1>6, <3>1
    <3>3. \A d \in Conns : \A q \in pending[d] : q \in Requests
      BY <1>1 DEF Types, TypeOK, ConnType, Requests
    <3>4. CASE frame[c][1] \in pending[c] /\ at' = [at EXCEPT ![c] = "dispatch"] /\ UNCHANGED frame
      BY SMTT(30), <1>1, <1>3, <2>0, <3>1, <3>2, <3>3, <3>4 DEF Delivery, Aligned, Types, TypeOK, ConnType
    <3>5. CASE /\ frame[c][1] \notin pending[c] /\ at' = [at EXCEPT ![c] = "idle"]
               /\ frame' = [frame EXCEPT ![c] = NoFrame]
      BY SMTT(30), <1>1, <1>3, <2>0, <3>1, <3>2, <3>3, <3>5 DEF Delivery, Aligned, Types, TypeOK, ConnType
    <3> QED
      BY <2>8, <3>4, <3>5 DEF LoopLookup
  <2>9. ASSUME NEW c \in Conns, LoopDispatch(c)
        PROVE  Delivery'
    <3>0. at[c] = "dispatch" /\ frame[c][1] \in Requests
      BY <1>3, <2>9 DEF LoopDispatch
    <3> PICK q \in Requests : q = frame[c][1]
      BY <3>0
    <3>1. /\ UNCHANGED <<on, got, taken>> /\ at[c] = "dispatch"
          /\ at' = [at EXCEPT ![c] = "idle"] /\ frame' = [frame EXCEPT ![c] = NoFrame]
      BY <2>9 DEF LoopDispatch, callVars, agentVars
    <3>2. q \in Requests /\ on[q] = c /\ taken[q] = Delivered(q) + 1
      BY <1>1, <1>3, <3>1 DEF Delivery, Aligned
    <3>3. /\ at'[c] = "idle"
          /\ \A d \in Conns \ {c} : frame'[d] = frame[d] /\ at'[d] = at[d]
      BY <1>1, <3>1 DEF Types, TypeOK, ConnType
    <3>4. \A d \in Conns : \A r \in pending[d] : r \in Requests /\ on[r] = d
      BY <1>1 DEF Types, TypeOK, ConnType, Requests, Registered
    <3>5. \A d \in Conns \ {c} : at[d] \in {"lookup", "dispatch"} => frame[d][1] # q
      BY <1>1, <3>2 DEF Delivery, Aligned
    <3>6. \A r \in Requests \ {q} : Delivered(r)' = Delivered(r)
      BY <1>1, <2>9, <3>1, <3>2 DEF LoopDispatch, Delivered, Types, TypeOK, FramesType
    <3>7. /\ \A d \in Conns : pending'[d] \subseteq pending[d]
          /\ \/ Delivered(q)' = taken[q]
             \/ Delivered(q)' = Delivered(q) /\ q \notin pending'[c]
             \/ Delivered(q)' = Delivered(q) /\ panicked'
      <4>1. CASE frames' = [frames EXCEPT ![q] = Append(@, frame[c][2])] /\ UNCHANGED pending
        <5>1. Len(frames'[q]) = Len(frames[q]) + 1
          BY <1>1, <3>1, <3>2, <4>1, DispatchCounts
        <5>2. Len(got[q]) \in Nat /\ Len(frames[q]) \in Nat
          BY SMTT(30), <1>1, <3>2 DEF Types, TypeOK, FramesType
        <5>3. Len(got[q]) + (Len(frames[q]) + 1) = (Len(got[q]) + Len(frames[q])) + 1
          <6>1. \A a, b \in Nat : a + (b + 1) = (a + b) + 1
            BY SMTT(30)
          <6> QED
            BY ONLY ZenonT(30), <5>2, <6>1
        <5>4. Delivered(q)' = Delivered(q) + 1
          BY ONLY ZenonT(30), <3>1, <5>1, <5>3 DEF Delivered
        <5> QED
          BY <3>2, <4>1, <5>4
      <4>2. CASE UNCHANGED frames /\ pending' = [pending EXCEPT ![c] = @ \ {q}]
        BY <1>1, <3>1, <4>2 DEF Delivered, Types, TypeOK, ConnType
      <4>3. CASE UNCHANGED <<frames, pending>> /\ panicked' = TRUE
        BY <3>1, <4>3 DEF Delivered
      <4> QED
        BY <2>9, <4>1, <4>2, <4>3 DEF LoopDispatch
    <3>8. \A r \in Requests : Delivered(r)' <= taken'[r]
      BY SMTT(30), <1>1, <1>2, <3>1, <3>2, <3>6, <3>7 DEF Delivery, Aligned
    <3>9. ASSUME ~ panicked', NEW d \in Conns, NEW r \in pending'[d], frame'[d][1] # r
          PROVE  taken'[r] = Delivered(r)'
      <4>1. r \in pending[d] /\ r \in Requests /\ on[r] = d
        BY <3>4, <3>7, <3>9
      <4>2. CASE r = q
        BY <3>1, <3>2, <3>7, <3>9, <4>1, <4>2
      <4>3. CASE r # q
        <5>1. frame[d][1] # r
          BY <3>3, <3>9, <4>3
        <5> QED
          BY SMTT(30), <1>1, <2>0, <3>1, <3>6, <4>1, <4>3, <5>1 DEF Delivery, Aligned
      <4> QED
        BY <4>2, <4>3
    <3>10. ASSUME NEW d \in Conns
           PROVE  Aligned(d)'
      <4>1. CASE at'[d] \in {"lookup", "dispatch"}
        <5>1. d # c /\ frame'[d] = frame[d] /\ at'[d] = at[d]
          BY <3>3, <4>1
        <5>2. PICK x \in Requests : x = frame[d][1]
          BY <1>3, <4>1, <5>1
        <5>3. x # q /\ frame'[d][1] = x
          BY <3>5, <4>1, <5>1, <5>2
        <5>4. Delivered(x)' = Delivered(x)
          BY <3>6, <5>3
        <5>5. Aligned(d)
          BY <1>1 DEF Delivery
        <5> QED
          BY <3>1, <3>7, <5>1, <5>2, <5>3, <5>4, <5>5 DEF Aligned
      <4> QED
        BY <4>1 DEF Aligned
    <3> QED
      BY <3>8, <3>9, <3>10 DEF Delivery, Aligned
  <2>10. ASSUME NEW c \in Conns, LoopLock(c) \/ LoopFail(c) \/ LoopClosing(c) \/ Break(c)
         PROVE  Delivery'
    <3>1. UNCHANGED <<frame, taken, on, got, frames>>
      BY <2>10 DEF LoopLock, LoopFail, LoopClosing, CloseFrames, Break, callVars, agentVars,
            connVars, streamVars
    <3>2. /\ \A d \in Conns : pending'[d] \subseteq pending[d]
          /\ \A d \in Conns : at'[d] \in {"lookup", "dispatch"} => at'[d] = at[d]
      BY <1>1, <2>10 DEF LoopLock, LoopFail, LoopClosing, Break, FailAllRequests, connVars,
            Types, TypeOK, ConnType
    <3> QED
      BY <1>4, <2>0, <1>6, <3>1, <3>2
  <2> QED
    BY <1>7, <2>1, <2>2, <2>3, <2>4, <2>5, <2>6, <2>7, <2>8, <2>9, <2>10
       DEF Next, CallStep, StreamStep, LoopStep
<1>8. CASE UNCHANGED vars
  BY <1>4, <1>6, <1>8 DEF vars, callVars, connVars, agentVars, streamVars
<1> QED
  BY <1>1, <1>7, <1>8

(* Every step keeps Ordered.                                                *)
LEMMA OrderedStep ==
    ASSUME Pushes = {}
    PROVE  Types /\ Delivery /\ Ordered /\ [Next]_vars => Ordered'
<1>1. SUFFICES ASSUME Types, Delivery, Ordered, [Next]_vars PROVE Ordered'
  OBVIOUS
<1>2. ASSUME UNCHANGED <<got, frames>>,
             \A q \in Requests : result'[q] = "ok" =>
                 result[q] = "ok" /\ (pc[q] \in {"close", "done"} => pc'[q] \in {"close", "done"})
      PROVE  Ordered'
  BY <1>1, <1>2 DEF Ordered
<1>3. \A q \in Requests : Len(got[q]) \in Nat /\ Len(frames[q]) \in Nat
  BY SMTT(30), <1>1 DEF Types, TypeOK, FramesType
<1>4. CASE Next
  <2>1. ASSUME NEW q \in Requests, Recv(q)
        PROVE  Ordered'
    <3>1. /\ pc[q] = "recv" /\ frames[q] # <<>> /\ frames[q] \in Seq(1 .. Replies)
          /\ Head(frames[q]) = frames[q][1] /\ Len(frames[q]) >= 1
      BY SMTT(30), <1>1, <2>1 DEF Recv, Types, TypeOK, FramesType
    <3>2. frames[q][1] = Len(got[q]) + 1
      BY SMTT(30), <1>1, <3>1, <1>3 DEF Ordered
    <3>3. \A r \in Requests \ {q} : pc'[r] = pc[r] /\ result'[r] = result[r]
      BY <1>1, <2>1 DEF Recv, Goto, Types, TypeOK, CallType
    <3>4. \A i \in 1 .. Len(got'[q]) : got'[q][i] = i
      <4>1. /\ Len(got'[q]) = Len(got[q]) + 1
            /\ \A i \in 1 .. Len(got[q]) : got'[q][i] = got[q][i]
            /\ got'[q][Len(got[q]) + 1] = frames[q][1]
        BY <1>1, <2>1, ReceiveCounts
      <4>2. \A i \in 1 .. Len(got[q]) : got[q][i] = i
        BY <1>1 DEF Ordered
      <4>3. Len(got[q]) \in Nat
        BY <1>3
      <4> QED
        <5>1. \A i \in 1 .. Len(got'[q]) : i \in 1 .. Len(got[q]) \/ i = Len(got[q]) + 1
          BY ONLY SMTT(30), <4>1, <4>3
        <5> QED
          BY ONLY ZenonT(30), <3>2, <4>1, <4>2, <5>1
    <3>5. \A i \in 1 .. Len(frames'[q]) : frames'[q][i] = Len(got'[q]) + i
      <4>1. /\ Len(frames'[q]) = Len(frames[q]) - 1 /\ Len(got'[q]) = Len(got[q]) + 1
            /\ \A i \in 1 .. Len(frames'[q]) : frames'[q][i] = frames[q][i + 1]
        BY <1>1, <2>1, ReceiveCounts
      <4>2. \A i \in 1 .. Len(frames[q]) : frames[q][i] = Len(got[q]) + i
        BY <1>1 DEF Ordered
      <4>3. Len(got[q]) \in Nat /\ Len(frames[q]) \in Nat
        BY <1>3
      <4> QED
        BY ONLY SMTT(30), <4>1, <4>2, <4>3
    <3>6. result'[q] = "ok" => Len(got'[q]) = Replies /\ pc'[q] \in {"close", "done"}
      <4>1. result[q] # "ok"
        BY <1>1, <3>1 DEF Ordered
      <4>2. Len(got'[q]) = Len(got[q]) + 1
        BY <1>1, <2>1, ReceiveCounts
      <4>3. result'[q] = "ok" => Head(frames[q]) = Replies /\ pc'[q] = "close"
        BY <1>1, <2>1, <4>1 DEF Recv, Goto, Types, TypeOK, CallType
      <4> QED
        BY <3>1, <3>2, <4>2, <4>3
    <3>7. \A r \in Requests \ {q} : got'[r] = got[r] /\ frames'[r] = frames[r]
      BY <1>1, <2>1, ReceiveCounts
    <3> QED
      BY ZenonT(60), <1>1, <3>3, <3>4, <3>5, <3>6, <3>7 DEF Ordered
  <2>2. ASSUME NEW c \in Conns, LoopDispatch(c)
        PROVE  Ordered'
    <3>1. UNCHANGED <<got, result, pc>> /\ at[c] = "dispatch"
      BY <2>2 DEF LoopDispatch, callVars
    <3>2. PICK q \in Requests : q = frame[c][1]
      BY <1>1, <3>1 DEF Types, Held
    <3>3. frame[c][2] = (Len(got[q]) + Len(frames[q])) + 1
      BY <1>1, <3>1, <3>2 DEF Delivery, Aligned, Delivered
    <3>4. CASE UNCHANGED frames
      BY <1>2, <3>1, <3>4
    <3>5. CASE frames' = [frames EXCEPT ![q] = Append(@, frame[c][2])]
      <4>1. /\ Len(frames'[q]) = Len(frames[q]) + 1
            /\ \A i \in 1 .. Len(frames[q]) : frames'[q][i] = frames[q][i]
            /\ frames'[q][Len(frames[q]) + 1] = frame[c][2]
            /\ \A r \in Requests \ {q} : frames'[r] = frames[r]
        BY <1>1, <3>1, <3>2, <3>5, DispatchCounts
      <4>2. \A i \in 1 .. Len(frames[q]) : frames[q][i] = Len(got[q]) + i
        BY <1>1 DEF Ordered
      <4>3. Len(got[q]) \in Nat /\ Len(frames[q]) \in Nat
        BY <1>3
      <4>4. \A i \in 1 .. Len(frames'[q]) : frames'[q][i] = Len(got[q]) + i
        <5>1. \A a, b \in Nat : (a + b) + 1 = a + (b + 1)
          BY SMTT(30)
        <5>2. frames'[q][Len(frames[q]) + 1] = Len(got[q]) + (Len(frames[q]) + 1)
          BY ONLY ZenonT(30), <3>3, <4>1, <4>3, <5>1
        <5>3. \A i \in 1 .. Len(frames'[q]) : i \in 1 .. Len(frames[q]) \/ i = Len(frames[q]) + 1
          BY ONLY SMTT(30), <4>1, <4>3
        <5> QED
          BY ONLY ZenonT(30), <4>1, <4>2, <5>2, <5>3
      <4> QED
        BY ZenonT(60), <1>1, <3>1, <4>1, <4>4 DEF Ordered
    <3> QED
      BY <2>2, <3>2, <3>4, <3>5 DEF LoopDispatch
  <2>3. ASSUME NEW q \in Requests, PushStep(q)
        PROVE  FALSE
    BY <1>1, <2>3 DEF PushStep, Pull, PullLock, PullFrame, Types, Placed
  <2>4. ASSUME NEW q \in Requests,
               \/ Get(q) \/ Dial(q) \/ Install(q) \/ Send(q) \/ StartRequestLoop(q)
               \/ RegisterRequest(q) \/ RecvClosed(q) \/ TimeOut(q) \/ Remove(q) \/ CloseConn(q)
               \/ FailAll(q) \/ Closing(q) \/ CloseStream(q)
        PROVE  Ordered'
    <3>1. UNCHANGED <<got, frames>>
      BY <2>4 DEF Get, Dial, Install, Send, StartRequestLoop, RegisterRequest, RecvClosed,
            TimeOut, Remove, CloseConn, FailAll, Closing, CloseFrames, CloseStream, streamVars
    <3>2. \A r \in Requests \ {q} : pc'[r] = pc[r] /\ result'[r] = result[r]
      BY <1>1, <2>4 DEF Get, Dial, Install, Send, StartRequestLoop, RegisterRequest, RecvClosed,
            TimeOut, Remove, CloseConn, FailAll, Closing, CloseStream, Connected, Fail, Goto,
            Types, TypeOK, CallType
    <3>3. result'[q] = "ok" => result[q] = "ok"
      BY <1>1, <2>4 DEF Get, Dial, Install, Send, StartRequestLoop, RegisterRequest, RecvClosed,
            TimeOut, Remove, CloseConn, FailAll, Closing, CloseStream, Connected, Fail, Goto,
            Types, TypeOK, CallType
    <3>4. pc[q] \in {"close", "done"} => pc'[q] = "done"
      BY <1>1, <2>4 DEF Get, Dial, Install, Send, StartRequestLoop, RegisterRequest, RecvClosed,
            TimeOut, Remove, CloseConn, FailAll, Closing, CloseStream, Goto,
            Types, TypeOK, CallType
    <3> QED
      BY <1>2, <3>1, <3>2, <3>3, <3>4
  <2>5. ASSUME NEW q \in Requests, AgentReply(q)
        PROVE  Ordered'
    BY <1>2, <2>5 DEF AgentReply, callVars, streamVars
  <2>6. ASSUME NEW c \in Conns,
               \/ LoopLock(c) \/ LoopRead(c) \/ LoopLookup(c) \/ LoopFail(c)
               \/ LoopClosing(c) \/ Break(c)
        PROVE  Ordered'
    BY <1>2, <2>6 DEF LoopLock, LoopRead, LoopLookup, LoopFail, LoopClosing, CloseFrames, Break,
          callVars, streamVars
  <2> QED
    BY <1>4, <2>1, <2>2, <2>3, <2>4, <2>5, <2>6 DEF Next, CallStep, StreamStep, LoopStep
<1>5. CASE UNCHANGED vars
  BY <1>2, <1>5 DEF vars, callVars, streamVars
<1> QED
  BY <1>1, <1>4, <1>5

(* What ties the frames got, buffered, in the loop's hand and on the wire   *)
(* of every request together.                                               *)
AnswerInv == Registered /\ Asked /\ Delivery /\ Ordered

(* It holds as long as nobody reads frames behind the receive loops.        *)
LEMMA AnswersKept == ASSUME Pushes = {} PROVE Spec => []AnswerInv
<1>1. Init => AnswerInv
  <2> SUFFICES ASSUME Init PROVE AnswerInv
    OBVIOUS
  <2>1. Registered /\ Asked /\ Ordered
    BY SMTT(30) DEF Init, Registered, Asked, Ordered
  <2>2. Delivery
    BY SMTT(30) DEF Init, Delivery, Aligned, Delivered
  <2> QED
    BY <2>1, <2>2 DEF AnswerInv
<1>2. Types /\ AnswerInv /\ [Next]_vars => AnswerInv'
  BY RegisteredStep, AskedStep, DeliveryStep, OrderedStep DEF AnswerInv
<1> QED
  BY <1>1, <1>2, TypesHold, PTL DEF Spec

(* Among requests that all go through SendRequest, every caller receives    *)
(* the frames of its own answer, each once and in order, and an answer that *)
(* completes is whole, whatever the buffer size, the time-outs, the broken  *)
(* connections and the removals by other callers.  PushConfig is excluded:  *)
(* its raw reads take frames of other requests.                             *)
THEOREM AnswersNotMixed == ASSUME Pushes = {} PROVE Spec => []NoCrossTalk
<1>1. AnswerInv => NoCrossTalk
  BY DEF AnswerInv, Ordered, NoCrossTalk, Requests
<1> QED
  BY <1>1, AnswersKept, PTL
-----------------------------------------------------------------------------
(* Private streams *)

(* Where a caller has not been told anything yet. *)
Under == {"get", "dial", "install", "start", "register", "send", "recv", "pull", "lock", "locked"}

Untold == \A q \in Requests : pc[q] \in Under => result[q] = "none"

(* Every step keeps Untold: whoever tells a caller ends its request.        *)
LEMMA UntoldStep == Types /\ Untold /\ [Next]_vars => Untold'
<1> SUFFICES ASSUME Types, Untold, [Next]_vars PROVE Untold'
  OBVIOUS
<1> DEFINE Told(r) == pc'[r] \in Under => pc[r] \in Under /\ result'[r] = result[r]
<1>1. ASSUME \A r \in Requests : Told(r)
      PROVE  Untold'
  BY <1>1 DEF Untold
<1>2. ASSUME NEW q \in Requests,
             \/ Get(q) \/ Install(q) \/ StartRequestLoop(q) \/ PullLock(q) \/ Remove(q)
             \/ CloseConn(q) \/ FailAll(q) \/ Closing(q) \/ CloseStream(q)
      PROVE  \A r \in Requests : Told(r)
  <2>1. result' = result
    BY <1>2 DEF Get, Install, StartRequestLoop, PullLock, Remove, CloseConn, FailAll, Closing,
                CloseStream
  <2>2. \A r \in Requests : pc'[r] \in Under => pc[r] \in Under
    BY <1>2 DEF Get, Install, StartRequestLoop, PullLock, Remove, CloseConn, FailAll, Closing,
                CloseStream, Connected, Goto, Under, Types, TypeOK, CallType
  <2> QED
    BY <2>1, <2>2
<1>3. ASSUME NEW q \in Requests,
             \/ Dial(q) \/ RegisterRequest(q) \/ Send(q) \/ Recv(q) \/ RecvClosed(q) \/ Pull(q)
             \/ PullFrame(q) \/ TimeOut(q)
      PROVE  \A r \in Requests : Told(r)
  <2>1. /\ \A r \in Requests \ {q} : pc'[r] = pc[r] /\ result'[r] = result[r]
        /\ pc[q] \in Under
    BY <1>3 DEF Dial, RegisterRequest, Send, Recv, RecvClosed, Pull, PullFrame, TimeOut, Fail, Goto,
                Under, Types, TypeOK, CallType
  <2>2. pc'[q] \notin Under \/ result' = result
    BY <1>3 DEF Dial, RegisterRequest, Send, Recv, RecvClosed, Pull, PullFrame, TimeOut, Fail, Goto,
                Under, Types, TypeOK, CallType
  <2> QED
    BY <2>1, <2>2
<1>4. ASSUME \/ \E q \in Requests : AgentReply(q)
             \/ \E c \in Conns : LoopStep(c) \/ Break(c)
             \/ UNCHANGED vars
      PROVE  \A r \in Requests : Told(r)
  <2>1. UNCHANGED <<pc, result>>
    BY <1>4 DEF AgentReply, LoopStep, LoopLock, LoopRead, LoopLookup, LoopDispatch, LoopFail,
                LoopClosing, Break, vars, callVars
  <2> QED
    BY <2>1
<1> HIDE DEF Told
<1> QED
  BY <1>1, <1>2, <1>3, <1>4 DEF Next, CallStep, StreamStep, PushStep

(* Every step is a step of PrivateStreams, or changes nothing that callers  *)
(* see.                                                                     *)
LEMMA PrivateStep ==
    ASSUME Pushes = {}
    PROVE  Types /\ AnswerInv /\ Untold /\ [Next]_vars => [Private!Next]_(Private!vars)
<1> SUFFICES ASSUME Types, AnswerInv, Untold, [Next]_vars
             PROVE  Private!Next \/ UNCHANGED Private!vars
  OBVIOUS
<1>1. Requests = Streams
  BY DEF Requests
<1>2. ASSUME UNCHANGED <<sent, got, result>>
      PROVE  UNCHANGED Private!vars
  BY <1>2 DEF Private!vars
<1>3. ASSUME NEW q \in Requests, NEW why \in {"error", "timeout"}, pc[q] \in Under,
             UNCHANGED <<sent, got>>, result' = [result EXCEPT ![q] = why]
      PROVE  Private!Next
  <2>1. result[q] = "none"
    BY <1>3 DEF Untold
  <2>2. Private!Fail(q, why)
    BY <1>1, <1>3, <2>1 DEF Private!Fail, Types, TypeOK, CallType
  <2> QED
    BY <1>1, <2>2 DEF Private!Next
<1>4. ASSUME NEW q \in Requests, Recv(q)
      PROVE  Private!Next
  <2>1. /\ frames[q] \in Seq(1 .. Replies) /\ frames[q] # <<>> /\ got[q] \in Seq(1 .. Replies)
        /\ taken[q] \in Nat /\ sent[q] \in Nat
    BY SMTT(30), <1>4, ConstantsAssumption DEF Recv, Types, TypeOK, FramesType, AgentType
  <2>2. \A i \in 1 .. Len(frames[q]) : frames[q][i] = Len(got[q]) + i
    BY DEF AnswerInv, Ordered
  <2>3. Head(frames[q]) = Len(got[q]) + 1
    BY SMTT(30), <2>1, <2>2
  <2>4. Len(got[q]) + Len(frames[q]) <= taken[q] /\ taken[q] <= sent[q]
    BY DEF AnswerInv, Delivery, Delivered, Asked
  <2>5. Len(got[q]) < sent[q]
    <3> DEFINE buffered == Len(frames[q])
               had == Len(got[q])
               read == taken[q]
               wrote == sent[q]
    <3>1. buffered \in Nat /\ had \in Nat /\ read \in Nat /\ wrote \in Nat
      BY SMTT(30), <2>1
    <3>2. buffered # 0
      BY SMTT(30), <2>1
    <3>3. had + buffered <= read /\ read <= wrote
      BY <2>4
    <3> HIDE DEF buffered, had, read, wrote
    <3>4. had < wrote
      BY ONLY SMTT(30), <3>1, <3>2, <3>3
    <3> QED
      BY <3>4 DEF had, wrote
  <2>6. result[q] = "none"
    BY <1>4 DEF Untold, Under, Recv
  <2>7. /\ got' = [got EXCEPT ![q] = Append(@, Len(@) + 1)]
        /\ result' = IF Len(got[q]) + 1 = Replies THEN [result EXCEPT ![q] = "ok"] ELSE result
        /\ sent' = sent
    BY <1>4, <2>3 DEF Recv, agentVars, Types, TypeOK, FramesType
  <2>8. Private!Receive(q)
    <3>1. [r \in Streams |-> got'[r]] = [[r \in Streams |-> got[r]] EXCEPT ![q] = Append(@, Len(@) + 1)]
      BY <1>1, <2>7 DEF Types, TypeOK, FramesType
    <3>2. [r \in Streams |-> result'[r]] =
            IF Len(got[q]) + 1 = Replies THEN [[r \in Streams |-> result[r]] EXCEPT ![q] = "ok"]
            ELSE [r \in Streams |-> result[r]]
      BY <1>1, <2>7 DEF Types, TypeOK, CallType
    <3> QED
      BY <1>1, <2>5, <2>6, <2>7, <3>1, <3>2 DEF Private!Receive
  <2> QED
    BY <1>1, <2>8 DEF Private!Next
<1>5. ASSUME NEW q \in Requests, AgentReply(q)
      PROVE  Private!Next
  <2>1. Answer(q) = Replies
    BY DEF Answer
  <2>2. Private!Write(q)
    BY <1>1, <1>5, <2>1 DEF AgentReply, callVars, Private!Write, Types, TypeOK, AgentType
  <2> QED
    BY <1>1, <2>2 DEF Private!Next
<1>6. ASSUME NEW q \in Requests,
             Dial(q) \/ RegisterRequest(q) \/ Send(q) \/ RecvClosed(q) \/ TimeOut(q)
      PROVE  Private!Next \/ UNCHANGED Private!vars
  <2>1. pc[q] \in Under /\ UNCHANGED <<sent, got>>
    BY <1>6 DEF Dial, RegisterRequest, Send, RecvClosed, TimeOut, agentVars, Under
  <2>2. result' = result \/ \E why \in {"error", "timeout"} : result' = [result EXCEPT ![q] = why]
    BY <1>6 DEF Dial, RegisterRequest, Send, RecvClosed, TimeOut, Fail
  <2> QED
    BY <1>2, <1>3, <2>1, <2>2
<1>7. ASSUME NEW q \in Requests,
             \/ Get(q) \/ Install(q) \/ StartRequestLoop(q) \/ Remove(q)
             \/ CloseConn(q) \/ FailAll(q) \/ Closing(q) \/ CloseStream(q)
      PROVE  UNCHANGED <<sent, got, result>>
  BY <1>7 DEF Get, Install, StartRequestLoop, Remove, CloseConn, FailAll, Closing, CloseStream,
              agentVars
<1>8. ASSUME NEW q \in Requests, PushStep(q)
      PROVE  FALSE
  BY <1>8 DEF PushStep, Pull, PullLock, PullFrame, Types, Placed
<1>9. ASSUME \/ \E c \in Conns : LoopStep(c) \/ Break(c)
             \/ UNCHANGED vars
      PROVE  UNCHANGED <<sent, got, result>>
  BY <1>9 DEF LoopStep, LoopLock, LoopRead, LoopLookup, LoopDispatch, LoopFail, LoopClosing, Break,
              vars, agentVars, callVars
<1> QED
  BY <1>2, <1>4, <1>5, <1>6, <1>7, <1>8, <1>9 DEF Next, CallStep, StreamStep

(* The shared connections of an agent implement a stream of its own for     *)
(* every request, as long as no config push reads on them.                  *)
THEOREM ImplementsPrivacy == ASSUME Pushes = {} PROVE Spec => KeepsPrivacy
<1>1. Init => Untold
  BY DEF Init, Untold
<1>2. Init => Private!Init
  <2> SUFFICES ASSUME Init PROVE Private!Init
    OBVIOUS
  <2>1. \A q \in Streams : sent[q] = 0 /\ got[q] = <<>> /\ result[q] = "none"
    BY SMTT(30) DEF Init, Requests
  <2> QED
    BY SMTT(30), <2>1 DEF Private!Init
<1>3. Types /\ AnswerInv /\ Untold /\ [Next]_vars => [Private!Next]_(Private!vars)
  BY PrivateStep
<1> QED
  BY <1>1, <1>2, <1>3, UntoldStep, AnswersKept, TypesHold, PTL
  DEF Spec, KeepsPrivacy, Private!Spec
=============================================================================
