---------------------------- MODULE IngressProofs ----------------------------
(***************************************************************************)
(* Proofs about Ingress, for every set of messages and requests.            *)
(***************************************************************************)
EXTENDS Ingress, FiniteSetTheorems, TLAPS

(* Most steps are for Zenon; those that need the SMT solver say so. *)
USE ZenonT(30)

(* The part of TypeOK that is about requests. *)
RequestTypes ==
    /\ pc \in [Requests -> PCs]
    /\ batch \in [Requests -> Batches \cup {<<>>}]
    /\ pos \in [Requests -> Nat \ {0}]
    /\ \A r \in Requests : pc[r] # "idle" => batch[r] \in Batches /\ pos[r] <= Len(batch[r])
    /\ start \in [Requests -> Nat]
    /\ decision \in [Requests -> Terminal \cup {"none"}]
    /\ text \in [Requests -> BOOLEAN]
    /\ flag \in [Requests -> {"unset", "true", "false"}]
    /\ enqueueFailed \in [Requests -> BOOLEAN]

(* A request that is at work has a message. *)
LEMMA MsgType ==
    ASSUME TypeOK, NEW r \in Requests, pc[r] # "idle"
    PROVE  /\ Msg(r) \in Messages
           /\ Carries(batch[r], Msg(r))
<1>1. /\ batch[r] \in Seq(Messages)
      /\ pos[r] \in 1 .. Len(batch[r])
  BY SMTT(30), ConstantsAssumption DEF TypeOK
<1> QED
  BY SMTT(30), <1>1 DEF Msg, Carries

(* A request that ends keeps its types.                                     *)
LEMMA EndRequestTypes ==
    ASSUME TypeOK, NEW r \in Requests, EndRequest(r)
    PROVE  RequestTypes'
<1>1. /\ pc' \in [Requests -> PCs]
      /\ batch' \in [Requests -> Batches \cup {<<>>}]
      /\ pos' \in [Requests -> Nat \ {0}]
      /\ start' \in [Requests -> Nat]
  BY SMTT(30) DEF TypeOK, EndRequest, PCs
<1>2. \A q \in Requests : pc'[q] # "idle" => batch'[q] \in Batches /\ pos'[q] <= Len(batch'[q])
  BY DEF TypeOK, EndRequest
<1>3. /\ decision' \in [Requests -> Terminal \cup {"none"}]
      /\ text' \in [Requests -> BOOLEAN]
      /\ flag' \in [Requests -> {"unset", "true", "false"}]
      /\ enqueueFailed' \in [Requests -> BOOLEAN]
  BY DEF TypeOK, EndRequest
<1> QED
  BY <1>1, <1>2, <1>3 DEF RequestTypes

(* So does one that goes on to its next message.                            *)
LEMMA NextMessageTypes ==
    ASSUME TypeOK, NEW r \in Requests, pc[r] # "idle", NextMessage(r)
    PROVE  RequestTypes'
<1>1. /\ pc' \in [Requests -> PCs]
      /\ batch' \in [Requests -> Batches \cup {<<>>}]
      /\ pos' \in [Requests -> Nat \ {0}]
      /\ start' \in [Requests -> Nat]
  BY SMTT(30) DEF TypeOK, NextMessage, PCs
<1>2. ASSUME NEW q \in Requests, pc'[q] # "idle"
      PROVE  batch'[q] \in Batches /\ pos'[q] <= Len(batch'[q])
  <2>1. CASE q = r
    <3>1. /\ batch[r] \in Batches
          /\ pos[r] < Len(batch[r])
          /\ pos[r] \in Nat
          /\ batch'[r] = batch[r]
          /\ pos'[r] = pos[r] + 1
      BY DEF TypeOK, NextMessage
    <3>2. Len(batch[r]) \in Nat
      BY SMTT(30), <3>1, ConstantsAssumption
    <3> QED
      BY SMTT(30), <2>1, <3>1, <3>2
  <2>2. CASE q # r
    BY <1>2, <2>2 DEF TypeOK, NextMessage
  <2> QED
    BY <2>1, <2>2
<1>3. /\ decision' \in [Requests -> Terminal \cup {"none"}]
      /\ text' \in [Requests -> BOOLEAN]
      /\ flag' \in [Requests -> {"unset", "true", "false"}]
      /\ enqueueFailed' \in [Requests -> BOOLEAN]
  BY DEF TypeOK, NextMessage
<1> QED
  BY <1>1, <1>2, <1>3 DEF RequestTypes

(* And one that is done with a message, with the acknowledgements.          *)
LEMMA MessageDoneTypes ==
    ASSUME TypeOK, NEW r \in Requests, pc[r] # "idle", MessageDone(r)
    PROVE  RequestTypes' /\ acked' \in [Messages -> BOOLEAN]
<1>1. CASE NextMessage(r)
  <2>1. RequestTypes'
    BY <1>1, NextMessageTypes
  <2>2. acked' = acked
    BY <1>1 DEF NextMessage
  <2> QED
    BY <2>1, <2>2 DEF TypeOK
<1>2. CASE Acknowledge(r)
  <2>1. RequestTypes'
    BY <1>2, EndRequestTypes DEF Acknowledge
  <2>2. acked' \in [Messages -> BOOLEAN]
    BY <1>2, Zenon DEF Acknowledge, Carries, TypeOK
  <2> QED
    BY <2>1, <2>2
<1> QED
  BY <1>1, <1>2 DEF MessageDone

(* The part of TypeOK that is about the two tables. *)
RowTypes ==
    /\ status \in [Messages -> Statuses]
    /\ failed \in [Messages -> BOOLEAN]
    /\ reply \in [Messages -> BOOLEAN]
    /\ expires \in [Messages -> Nat]
    /\ before \in [Messages -> SUBSET Messages]
    /\ outbox \in [Messages -> Nat]

(* The rest of it. *)
OtherTypes ==
    /\ now \in Nat
    /\ stamp \in [Messages -> Int]
    /\ lives \in [Messages -> Nat]
    /\ handed \in [Messages -> Nat]
    /\ acked \in [Messages -> BOOLEAN]
    /\ deliveries \in Nat
    /\ faults \in Nat

(* TypeOK in three parts.                                                   *)
LEMMA TypeParts == TypeOK <=> RowTypes /\ RequestTypes /\ OtherTypes
  BY DEF TypeOK, RowTypes, RequestTypes, OtherTypes

(* Every step keeps the types. *)
LEMMA TypeStep == TypeOK /\ [Next]_vars => TypeOK'
<1>1. SUFFICES ASSUME TypeOK, [Next]_vars
               PROVE  RowTypes' /\ RequestTypes' /\ OtherTypes'
  BY DEF TypeOK, RowTypes, RequestTypes, OtherTypes
<1>0. RowTypes /\ RequestTypes /\ OtherTypes
  BY <1>1, TypeParts
<1>2. CASE Next
  <2>1. ASSUME NEW r \in Requests, NEW b \in Batches, Deliver(r, b)
        PROVE  RowTypes' /\ RequestTypes' /\ OtherTypes'
    <3>1. RowTypes'
      BY <1>0, <2>1 DEF RowTypes, Deliver, rowVars
    <3>2. OtherTypes'
      BY SMTT(30), <1>0, <2>1, ConstantsAssumption DEF OtherTypes, Deliver
    <3>3. b \in Seq(Messages) /\ b # <<>>
      BY ConstantsAssumption
    <3>4. Len(b) \in Nat /\ Len(b) # 0
      BY SMTT(30), <3>3
    <3>5. RequestTypes'
      <4>1. /\ pc' \in [Requests -> PCs]
            /\ batch' \in [Requests -> Batches \cup {<<>>}]
            /\ pos' \in [Requests -> Nat \ {0}]
            /\ start' \in [Requests -> Nat]
        BY SMTT(30), <1>0, <2>1 DEF RequestTypes, OtherTypes, Deliver, PCs
      <4>2. ASSUME NEW q \in Requests, pc'[q] # "idle"
            PROVE  batch'[q] \in Batches /\ pos'[q] <= Len(batch'[q])
        <5>1. CASE q = r
          <6>1. batch'[q] = b /\ pos'[q] = 1
            BY <1>0, <2>1, <5>1 DEF RequestTypes, Deliver
          <6> QED
            BY SMTT(30), <3>4, <6>1
        <5>2. CASE q # r
          BY <1>0, <2>1, <4>2, <5>2 DEF RequestTypes, Deliver
        <5> QED
          BY <5>1, <5>2
      <4> QED
        BY <1>0, <2>1, <4>1, <4>2 DEF RequestTypes, Deliver
    <3> QED
      BY <3>1, <3>2, <3>5
  <2>2. ASSUME NEW r \in Requests, ReplayCheck(r)
        PROVE  RowTypes' /\ RequestTypes' /\ OtherTypes'
    <3>1. RequestTypes' /\ acked' \in [Messages -> BOOLEAN]
      <4>1. CASE MessageDone(r)
        BY <1>1, <2>2, <4>1, MessageDoneTypes DEF ReplayCheck
      <4>2. CASE ~MessageDone(r)
        BY <1>0, <2>2, <4>2 DEF ReplayCheck, RequestTypes, OtherTypes, PCs
      <4> QED
        BY <4>1, <4>2
    <3>2. RowTypes' /\ OtherTypes'
      BY <1>0, <2>2, <3>1 DEF ReplayCheck, RowTypes, OtherTypes, rowVars
    <3> QED
      BY <3>1, <3>2
  <2>3. ASSUME NEW r \in Requests, InsertIdempotency(r)
        PROVE  RowTypes' /\ RequestTypes' /\ OtherTypes'
    <3>1. Msg(r) \in Messages
      BY <1>1, <2>3, MsgType DEF InsertIdempotency
    <3>2. start[r] + Retention \in Nat
      BY SMTT(30), <1>0, ConstantsAssumption DEF RequestTypes
    <3>3. RowTypes'
      BY SMTT(30), <1>0, <2>3, <3>1, <3>2 DEF InsertIdempotency, RowTypes, Statuses
    <3>4. RequestTypes'
      BY <1>0, <2>3 DEF InsertIdempotency, RequestTypes, PCs
    <3>5. OtherTypes'
      BY SMTT(30), <1>0, <2>3, <3>1 DEF InsertIdempotency, OtherTypes
    <3> QED
      BY <3>3, <3>4, <3>5
  <2>4. ASSUME NEW r \in Requests, Execute(r)
        PROVE  RowTypes' /\ RequestTypes' /\ OtherTypes'
    <3>1. Msg(r) \in Messages
      BY <1>1, <2>4, MsgType DEF Execute
    <3>2. RowTypes'
      BY <1>0, <2>4 DEF Execute, RowTypes, rowVars
    <3>3. CASE Msg(r) \in Blank
      <4>1. MessageDone(r) /\ handed' = handed
        BY <2>4, <3>3 DEF Execute
      <4>2. RequestTypes' /\ acked' \in [Messages -> BOOLEAN]
        BY <1>1, <2>4, <4>1, MessageDoneTypes DEF Execute
      <4> QED
        BY <1>0, <2>4, <3>2, <4>1, <4>2 DEF Execute, OtherTypes
    <3>4. CASE Msg(r) \notin Blank
      <4>1. PICK res \in Results :
              /\ decision' = [decision EXCEPT ![r] = res.decision]
              /\ text' = [text EXCEPT ![r] = res.text]
              /\ handed' = [handed EXCEPT ![Msg(r)] = @ + res.handed]
              /\ pc' = [pc EXCEPT ![r] = IF res.text THEN "enqueue" ELSE "update"]
        BY <2>4, <3>4 DEF Execute
      <4>2. /\ res.decision \in Terminal
            /\ res.text \in BOOLEAN
            /\ res.handed \in Nat
        <5>1. CASE res \in [decision : {"executed"}, text : BOOLEAN, handed : {1}]
          BY SMTT(30), <5>1 DEF Terminal
        <5>2. CASE res \in [decision : {"denied"}, text : {TRUE}, handed : {0}]
          <6>1. res.text \in {TRUE}
            BY <5>2, Zenon
          <6>2. res.text \in BOOLEAN
            BY <6>1, Zenon
          <6> QED
            BY SMTT(30), <5>2, <6>2 DEF Terminal
        <5>3. CASE res \in [decision : {"dispatch_failed"}, text : {TRUE}, handed : {0, 1}]
          <6>1. res.text \in {TRUE}
            BY <5>3, Zenon
          <6>2. res.text \in BOOLEAN
            BY <6>1, Zenon
          <6> QED
            BY SMTT(30), <5>3, <6>2 DEF Terminal
        <5> QED
          BY <5>1, <5>2, <5>3 DEF Results
      <4>3. UNCHANGED <<batch, pos, start, flag, enqueueFailed, acked>>
        BY <2>4, <3>4 DEF Execute
      <4>4. /\ decision' \in [Requests -> Terminal \cup {"none"}]
            /\ text' \in [Requests -> BOOLEAN]
            /\ pc' \in [Requests -> PCs]
        BY <1>0, <4>1, <4>2 DEF RequestTypes, PCs
      <4>5. \A q \in Requests : pc'[q] # "idle" => pc[q] # "idle"
        BY <1>0, <2>4, <4>1 DEF RequestTypes, Execute
      <4>6. RequestTypes'
        BY <1>0, <4>3, <4>4, <4>5 DEF RequestTypes
      <4>7. OtherTypes'
        <5>1. handed' \in [Messages -> Nat]
          BY SMTT(30), <1>0, <3>1, <4>1, <4>2 DEF OtherTypes
        <5> QED
          BY <1>0, <2>4, <4>3, <5>1 DEF OtherTypes, Execute
      <4> QED
        BY <3>2, <4>6, <4>7
    <3> QED
      BY <3>3, <3>4
  <2>5. ASSUME NEW r \in Requests, EnqueueOutbound(r)
        PROVE  RowTypes' /\ RequestTypes' /\ OtherTypes'
    <3>1. Msg(r) \in Messages
      BY <1>1, <2>5, MsgType DEF EnqueueOutbound
    <3>2. outbox' \in [Messages -> Nat]
      BY SMTT(30), <1>0, <2>5, <3>1 DEF EnqueueOutbound, EnqueueSucceeds, EnqueueFails, RowTypes
    <3>3. RowTypes'
      BY <1>0, <2>5, <3>2 DEF EnqueueOutbound, RowTypes
    <3>4. /\ decision' \in [Requests -> Terminal \cup {"none"}]
          /\ flag' \in [Requests -> {"unset", "true", "false"}]
          /\ enqueueFailed' \in [Requests -> BOOLEAN]
      BY <1>0, <2>5 DEF EnqueueOutbound, EnqueueSucceeds, EnqueueFails, RequestTypes, Terminal
    <3>5. RequestTypes'
      BY <1>0, <2>5, <3>4 DEF EnqueueOutbound, RequestTypes, PCs
    <3>6. OtherTypes'
      BY SMTT(30), <1>0, <2>5 DEF EnqueueOutbound, EnqueueSucceeds, EnqueueFails, OtherTypes
    <3> QED
      BY <3>3, <3>5, <3>6
  <2>6. ASSUME NEW r \in Requests, LookupDuplicate(r)
        PROVE  RowTypes' /\ RequestTypes' /\ OtherTypes'
    <3>1. RequestTypes' /\ acked' \in [Messages -> BOOLEAN]
      <4>1. CASE MessageDone(r)
        BY <1>1, <2>6, <4>1, MessageDoneTypes DEF LookupDuplicate
      <4>2. CASE EndRequest(r) /\ UNCHANGED acked
        BY <1>0, <1>1, <4>2, EndRequestTypes DEF OtherTypes
      <4>3. CASE ~MessageDone(r) /\ ~(EndRequest(r) /\ UNCHANGED acked)
        BY <1>0, <2>6, <4>3 DEF LookupDuplicate, RequestTypes, OtherTypes, PCs
      <4> QED
        BY <4>1, <4>2, <4>3
    <3>2. RowTypes' /\ OtherTypes'
      BY <1>0, <2>6, <3>1 DEF LookupDuplicate, RowTypes, OtherTypes, rowVars
    <3> QED
      BY <3>1, <3>2
  <2>7. ASSUME NEW r \in Requests, ReenqueueDuplicate(r)
        PROVE  RowTypes' /\ RequestTypes' /\ OtherTypes'
    <3>1. Msg(r) \in Messages
      BY <1>1, <2>7, MsgType DEF ReenqueueDuplicate
    <3>2. outbox' \in [Messages -> Nat]
      BY SMTT(30), <1>0, <2>7, <3>1 DEF ReenqueueDuplicate, RowTypes
    <3>3. RequestTypes'
      <4>1. CASE EndRequest(r)
        BY <1>1, <4>1, EndRequestTypes
      <4>2. CASE ~EndRequest(r)
        BY <1>0, <2>7, <4>2 DEF ReenqueueDuplicate, RequestTypes, PCs, Terminal
      <4> QED
        BY <4>1, <4>2
    <3>4. RowTypes' /\ OtherTypes'
      BY <1>0, <2>7, <3>2 DEF ReenqueueDuplicate, RowTypes, OtherTypes
    <3> QED
      BY <3>3, <3>4
  <2>8. ASSUME NEW r \in Requests, UpdateMessageStatus(r)
        PROVE  RowTypes' /\ RequestTypes' /\ OtherTypes'
    <3>1. Msg(r) \in Messages
      BY <1>1, <2>8, MsgType DEF UpdateMessageStatus
    <3>2. /\ failed' \in [Messages -> BOOLEAN]
          /\ reply' \in [Messages -> BOOLEAN]
      BY <1>0, <2>8, <3>1, Zenon DEF UpdateMessageStatus, MergedFlag, RowTypes
    <3>3. status' \in [Messages -> Statuses]
      BY <1>0, <2>8, <3>1 DEF UpdateMessageStatus, RowTypes, RequestTypes, Terminal, Statuses
    <3>4. RowTypes'
      BY <1>0, <2>8, <3>2, <3>3 DEF UpdateMessageStatus, RowTypes
    <3>5. RequestTypes' /\ acked' \in [Messages -> BOOLEAN]
      <4>1. CASE MessageDone(r)
        BY <1>1, <2>8, <4>1, MessageDoneTypes DEF UpdateMessageStatus
      <4>2. CASE EndRequest(r) /\ UNCHANGED acked
        BY <1>0, <1>1, <4>2, EndRequestTypes DEF OtherTypes
      <4> QED
        BY <2>8, <4>1, <4>2 DEF UpdateMessageStatus
    <3>6. OtherTypes'
      BY <1>0, <2>8, <3>5 DEF UpdateMessageStatus, OtherTypes
    <3> QED
      BY <3>4, <3>5, <3>6
  <2>9. ASSUME NEW r \in Requests, Abandon(r)
        PROVE  RowTypes' /\ RequestTypes' /\ OtherTypes'
    <3>1. RequestTypes'
      BY <1>1, <2>9, EndRequestTypes DEF Abandon
    <3>2. RowTypes' /\ OtherTypes'
      BY SMTT(30), <1>0, <2>9 DEF Abandon, RowTypes, OtherTypes, rowVars
    <3> QED
      BY <3>1, <3>2
  <2>10. ASSUME RecoverDispatchFailures
         PROVE  RowTypes' /\ RequestTypes' /\ OtherTypes'
    <3>1. RowTypes'
      BY SMTT(30), <1>0, <2>10 DEF RecoverDispatchFailures, RowTypes, Statuses
    <3>2. RequestTypes' /\ OtherTypes'
      BY <1>0, <2>10 DEF RecoverDispatchFailures, RequestTypes, OtherTypes, reqVars
    <3> QED
      BY <3>1, <3>2
  <2>11. ASSUME NEW m \in Messages, DeleteExpiredMessage(m)
         PROVE  RowTypes' /\ RequestTypes' /\ OtherTypes'
    <3>1. RowTypes'
      BY <1>0, <2>11 DEF DeleteExpiredMessage, RowTypes, Statuses
    <3>2. RequestTypes' /\ OtherTypes'
      BY <1>0, <2>11 DEF DeleteExpiredMessage, RequestTypes, OtherTypes, reqVars
    <3> QED
      BY <3>1, <3>2
  <2>12. ASSUME Tick
         PROVE  RowTypes' /\ RequestTypes' /\ OtherTypes'
    BY SMTT(30), <1>0, <2>12 DEF Tick, RowTypes, RequestTypes, OtherTypes, rowVars, reqVars
  <2> QED
    BY <1>2, <2>1, <2>2, <2>3, <2>4, <2>5, <2>6, <2>7, <2>8, <2>9, <2>10, <2>11, <2>12
    DEF Next, HandleWebhook
<1>3. CASE UNCHANGED vars
  BY <1>0, <1>3 DEF vars, rowVars, reqVars, RowTypes, RequestTypes, OtherTypes
<1> QED
  BY <1>1, <1>2, <1>3

(* Every variable of the ingress keeps its type. *)
THEOREM TypeCorrect == Spec => []TypeOK
<1>1. Init => TypeOK
  BY SMTT(30), ConstantsAssumption DEF Init, TypeOK, Statuses, PCs
<1> QED
  BY <1>1, TypeStep, PTL DEF Spec

-----------------------------------------------------------------------------
(* One execution for each row *)

(* The requests that hold the right to execute m. *)
Executing(m) == {r \in Requests : pc[r] = "execute" /\ Msg(r) = m}

(* Each row that was inserted pays for one execution, past or to come. *)
PaidByRow == \A m \in Messages : handed[m] + Cardinality(Executing(m)) <= lives[m]

(* A step of request r alone. *)
OnlyMoves(r) ==
    \A q \in Requests \ {r} : pc'[q] = pc[q] /\ batch'[q] = batch[q] /\ pos'[q] = pos[q]

(* The requests that execute a message can be counted.                      *)
LEMMA ExecutingFinite ==
    ASSUME NEW m \in Messages
    PROVE  IsFiniteSet(Executing(m)) /\ Cardinality(Executing(m)) \in Nat
<1>1. IsFiniteSet(Executing(m))
  BY ConstantsAssumption, FS_Subset DEF Executing
<1> QED
  BY <1>1, FS_CardinalityType

(* A request that moves elsewhere is one less that executes.                *)
LEMMA LeavesExecute ==
    ASSUME TypeOK, NEW r \in Requests, OnlyMoves(r), pc'[r] # "execute"
    PROVE  \A m \in Messages :
             /\ Executing(m)' = Executing(m) \ {r}
             /\ Cardinality(Executing(m)') \in Nat
             /\ Cardinality(Executing(m)') <= Cardinality(Executing(m))
             /\ r \in Executing(m) =>
                  Cardinality(Executing(m)') = Cardinality(Executing(m)) - 1
<1>1. SUFFICES ASSUME NEW m \in Messages
               PROVE  /\ Executing(m)' = Executing(m) \ {r}
                      /\ Cardinality(Executing(m)') \in Nat
                      /\ Cardinality(Executing(m)') <= Cardinality(Executing(m))
                      /\ r \in Executing(m) =>
                           Cardinality(Executing(m)') = Cardinality(Executing(m)) - 1
  OBVIOUS
<1>2. Executing(m)' = Executing(m) \ {r}
  BY DEF Executing, Msg, OnlyMoves
<1>3. IsFiniteSet(Executing(m)) /\ Cardinality(Executing(m)) \in Nat
  BY ExecutingFinite
<1>4. /\ IsFiniteSet(Executing(m) \ {r})
      /\ Cardinality(Executing(m) \ {r}) =
           IF r \in Executing(m) THEN Cardinality(Executing(m)) - 1
                                 ELSE Cardinality(Executing(m))
  BY <1>3, FS_RemoveElement
<1>5. Cardinality(Executing(m) \ {r}) \in Nat
  BY <1>4, FS_CardinalityType
<1> QED
  BY SMTT(30), <1>2, <1>3, <1>4, <1>5

(* Such a move keeps PaidByRow.                                             *)
LEMMA PaidUnlessUsed ==
    ASSUME TypeOK, PaidByRow, NEW r \in Requests, OnlyMoves(r), pc'[r] # "execute",
           UNCHANGED <<handed, lives>>
    PROVE  PaidByRow'
<1>1. SUFFICES ASSUME NEW m \in Messages
               PROVE  handed'[m] + Cardinality(Executing(m)') <= lives'[m]
  BY DEF PaidByRow
<1>2. /\ Cardinality(Executing(m)') \in Nat
      /\ Cardinality(Executing(m)') <= Cardinality(Executing(m))
  BY LeavesExecute
<1>3. Cardinality(Executing(m)) \in Nat
  BY ExecutingFinite
<1>4. handed[m] + Cardinality(Executing(m)) <= lives[m]
  BY DEF PaidByRow
<1>5. handed[m] \in Nat /\ lives[m] \in Nat /\ handed'[m] = handed[m] /\ lives'[m] = lives[m]
  BY DEF TypeOK
<1> QED
  BY SMTT(30), <1>2, <1>3, <1>4, <1>5

(* Where MessageDone and EndRequest leave a request. *)
LEMMA DoneMoves ==
    ASSUME TypeOK, NEW r \in Requests, MessageDone(r) \/ EndRequest(r)
    PROVE  /\ OnlyMoves(r)
           /\ pc'[r] \in {"idle", "check"}
           /\ start'[r] = start[r] \/ pc'[r] = "idle"
           /\ batch'[r] = batch[r] \/ pc'[r] = "idle"
           /\ \A q \in Requests \ {r} : start'[q] = start[q]
  BY DEF TypeOK, MessageDone, NextMessage, Acknowledge, EndRequest, OnlyMoves

(* Every step keeps PaidByRow: an execution is paid for by a row.           *)
LEMMA PaidStep == TypeOK /\ PaidByRow /\ [Next]_vars => PaidByRow'
<1>1. SUFFICES ASSUME TypeOK, PaidByRow, [Next]_vars
               PROVE  PaidByRow'
  OBVIOUS
<1>2. CASE Next
  <2>1. ASSUME NEW r \in Requests, NEW b \in Batches, Deliver(r, b)
        PROVE  PaidByRow'
    <3>1. OnlyMoves(r) /\ pc'[r] # "execute" /\ UNCHANGED <<handed, lives>>
      BY <1>1, <2>1 DEF Deliver, OnlyMoves, TypeOK
    <3> QED
      BY <1>1, <3>1, PaidUnlessUsed
  <2>2. ASSUME NEW r \in Requests, ReplayCheck(r)
        PROVE  PaidByRow'
    <3>1. OnlyMoves(r) /\ pc'[r] # "execute"
      <4>1. CASE MessageDone(r)
        BY <1>1, <4>1, DoneMoves
      <4>2. CASE ~MessageDone(r)
        BY <1>1, <2>2, <4>2 DEF ReplayCheck, OnlyMoves, TypeOK
      <4> QED
        BY <4>1, <4>2
    <3>2. UNCHANGED <<handed, lives>>
      BY <2>2 DEF ReplayCheck
    <3> QED
      BY <1>1, <3>1, <3>2, PaidUnlessUsed
  <2>3. ASSUME NEW r \in Requests, InsertIdempotency(r)
        PROVE  PaidByRow'
    <3>1. OnlyMoves(r) /\ handed' = handed /\ pc[r] = "insert"
      BY <1>1, <2>3 DEF InsertIdempotency, OnlyMoves, TypeOK
    <3>2. CASE status[Msg(r)] # "none"
      <4>1. pc'[r] # "execute" /\ lives' = lives
        BY <1>1, <2>3, <3>2 DEF InsertIdempotency, TypeOK
      <4> QED
        BY <1>1, <3>1, <4>1, PaidUnlessUsed
    <3>3. CASE status[Msg(r)] = "none"
      <4>1. /\ lives' = [lives EXCEPT ![Msg(r)] = @ + 1]
            /\ pc' = [pc EXCEPT ![r] = "execute"]
            /\ batch' = batch /\ pos' = pos
        BY <2>3, <3>3 DEF InsertIdempotency
      <4>2. ASSUME NEW m \in Messages
            PROVE  handed'[m] + Cardinality(Executing(m)') <= lives'[m]
        <5>0. /\ handed[m] + Cardinality(Executing(m)) <= lives[m]
              /\ handed[m] \in Nat /\ lives[m] \in Nat /\ handed'[m] = handed[m]
          BY <1>1, <3>1 DEF PaidByRow, TypeOK
        <5>1. IsFiniteSet(Executing(m)) /\ Cardinality(Executing(m)) \in Nat
          BY ExecutingFinite
        <5>2. CASE m = Msg(r)
          <6>1. Executing(m)' = Executing(m) \cup {r}
            BY <1>1, <4>1, <5>2 DEF Executing, Msg, TypeOK
          <6>2. r \notin Executing(m)
            BY <3>1 DEF Executing
          <6>3. Cardinality(Executing(m) \cup {r}) = Cardinality(Executing(m)) + 1
            BY <5>1, <6>2, FS_AddElement
          <6>4. lives'[m] = lives[m] + 1
            BY <1>1, <4>1, <5>2 DEF TypeOK
          <6> QED
            BY SMTT(30), <5>0, <5>1, <6>1, <6>3, <6>4
        <5>3. CASE m # Msg(r)
          <6>1. Executing(m)' = Executing(m)
            BY <1>1, <3>1, <4>1, <5>3 DEF Executing, Msg, TypeOK
          <6>2. lives'[m] = lives[m]
            BY <1>1, <4>1, <5>3 DEF TypeOK
          <6> QED
            BY <5>0, <6>1, <6>2
        <5> QED
          BY <5>2, <5>3
      <4> QED
        BY <4>2 DEF PaidByRow
    <3> QED
      BY <3>2, <3>3
  <2>4. ASSUME NEW r \in Requests, Execute(r)
        PROVE  PaidByRow'
    <3>1. pc[r] = "execute" /\ lives' = lives
      BY <2>4 DEF Execute
    <3>2. CASE Msg(r) \in Blank
      <4>1. MessageDone(r) /\ handed' = handed
        BY <2>4, <3>2 DEF Execute
      <4> QED
        BY <1>1, <3>1, <4>1, DoneMoves, PaidUnlessUsed
    <3>3. CASE Msg(r) \notin Blank
      <4>1. PICK res \in Results :
              /\ handed' = [handed EXCEPT ![Msg(r)] = @ + res.handed]
              /\ pc' = [pc EXCEPT ![r] = IF res.text THEN "enqueue" ELSE "update"]
        BY <2>4, <3>3 DEF Execute
      <4>2. batch' = batch /\ pos' = pos
        BY <2>4, <3>3 DEF Execute
      <4>3. OnlyMoves(r) /\ pc'[r] # "execute"
        BY <1>1, <4>1, <4>2 DEF OnlyMoves, TypeOK
      <4>4. res.handed \in {0, 1}
        BY DEF Results
      <4>5. ASSUME NEW m \in Messages
            PROVE  handed'[m] + Cardinality(Executing(m)') <= lives'[m]
        <5>1. /\ handed[m] + Cardinality(Executing(m)) <= lives[m]
              /\ handed[m] \in Nat /\ lives[m] \in Nat /\ lives'[m] = lives[m]
          BY <1>1, <3>1 DEF PaidByRow, TypeOK
        <5>2. Cardinality(Executing(m)) \in Nat
          BY ExecutingFinite
        <5>3. /\ Cardinality(Executing(m)') \in Nat
              /\ Cardinality(Executing(m)') <= Cardinality(Executing(m))
              /\ r \in Executing(m) =>
                   Cardinality(Executing(m)') = Cardinality(Executing(m)) - 1
          BY <1>1, <4>3, LeavesExecute
        <5>4. CASE m = Msg(r)
          <6>1. r \in Executing(m)
            BY <3>1, <5>4 DEF Executing
          <6>2. handed'[m] = handed[m] + res.handed
            BY <1>1, <4>1, <5>4 DEF TypeOK
          <6> QED
            BY SMTT(30), <4>4, <5>1, <5>2, <5>3, <6>1, <6>2
        <5>5. CASE m # Msg(r)
          <6>1. handed'[m] = handed[m]
            BY <1>1, <4>1, <5>5 DEF TypeOK
          <6> QED
            BY SMTT(30), <5>1, <5>2, <5>3, <6>1
        <5> QED
          BY <5>4, <5>5
      <4> QED
        BY <4>5 DEF PaidByRow
    <3> QED
      BY <3>2, <3>3
  <2>5. ASSUME NEW r \in Requests, EnqueueOutbound(r)
        PROVE  PaidByRow'
    <3>1. OnlyMoves(r) /\ pc'[r] # "execute" /\ UNCHANGED <<handed, lives>>
      BY <1>1, <2>5 DEF EnqueueOutbound, OnlyMoves, TypeOK
    <3> QED
      BY <1>1, <3>1, PaidUnlessUsed
  <2>6. ASSUME NEW r \in Requests, LookupDuplicate(r)
        PROVE  PaidByRow'
    <3>1. OnlyMoves(r) /\ pc'[r] # "execute"
      <4>1. CASE MessageDone(r) \/ EndRequest(r)
        BY <1>1, <4>1, DoneMoves
      <4>2. CASE ~(MessageDone(r) \/ EndRequest(r))
        BY <1>1, <2>6, <4>2 DEF LookupDuplicate, OnlyMoves, TypeOK
      <4> QED
        BY <4>1, <4>2
    <3>2. UNCHANGED <<handed, lives>>
      BY <2>6 DEF LookupDuplicate
    <3> QED
      BY <1>1, <3>1, <3>2, PaidUnlessUsed
  <2>7. ASSUME NEW r \in Requests, ReenqueueDuplicate(r)
        PROVE  PaidByRow'
    <3>1. OnlyMoves(r) /\ pc'[r] # "execute"
      <4>1. CASE MessageDone(r) \/ EndRequest(r)
        BY <1>1, <4>1, DoneMoves
      <4>2. CASE ~(MessageDone(r) \/ EndRequest(r))
        BY <1>1, <2>7, <4>2 DEF ReenqueueDuplicate, OnlyMoves, TypeOK
      <4> QED
        BY <4>1, <4>2
    <3>2. UNCHANGED <<handed, lives>>
      BY <2>7 DEF ReenqueueDuplicate
    <3> QED
      BY <1>1, <3>1, <3>2, PaidUnlessUsed
  <2>8. ASSUME NEW r \in Requests, UpdateMessageStatus(r)
        PROVE  PaidByRow'
    <3>1. OnlyMoves(r) /\ pc'[r] # "execute"
      <4>1. CASE MessageDone(r) \/ EndRequest(r)
        BY <1>1, <4>1, DoneMoves
      <4>2. CASE ~(MessageDone(r) \/ EndRequest(r))
        BY <1>1, <2>8, <4>2 DEF UpdateMessageStatus, OnlyMoves, TypeOK
      <4> QED
        BY <4>1, <4>2
    <3>2. UNCHANGED <<handed, lives>>
      BY <2>8 DEF UpdateMessageStatus
    <3> QED
      BY <1>1, <3>1, <3>2, PaidUnlessUsed
  <2>9. ASSUME NEW r \in Requests, Abandon(r)
        PROVE  PaidByRow'
    <3>1. OnlyMoves(r) /\ pc'[r] # "execute"
      <4>1. CASE MessageDone(r) \/ EndRequest(r)
        BY <1>1, <4>1, DoneMoves
      <4>2. CASE ~(MessageDone(r) \/ EndRequest(r))
        BY <1>1, <2>9, <4>2 DEF Abandon, OnlyMoves, TypeOK
      <4> QED
        BY <4>1, <4>2
    <3>2. UNCHANGED <<handed, lives>>
      BY <2>9 DEF Abandon
    <3> QED
      BY <1>1, <3>1, <3>2, PaidUnlessUsed
  <2>10. ASSUME \/ RecoverDispatchFailures
                \/ \E m \in Messages : DeleteExpiredMessage(m)
                \/ Tick
         PROVE  PaidByRow'
    <3>1. UNCHANGED <<pc, batch, pos, handed, lives>>
      BY <2>10 DEF RecoverDispatchFailures, DeleteExpiredMessage, Tick, reqVars
    <3>2. \A m \in Messages : Executing(m)' = Executing(m)
      BY <3>1 DEF Executing, Msg
    <3> QED
      BY <1>1, <3>1, <3>2 DEF PaidByRow
  <2> QED
    BY <1>2, <2>1, <2>2, <2>3, <2>4, <2>5, <2>6, <2>7, <2>8, <2>9, <2>10
    DEF Next, HandleWebhook
<1>3. CASE UNCHANGED vars
  <2>1. UNCHANGED <<pc, batch, pos, handed, lives>>
    BY <1>3 DEF vars, reqVars
  <2>2. \A m \in Messages : Executing(m)' = Executing(m)
    BY <2>1 DEF Executing, Msg
  <2> QED
    BY <1>1, <2>1, <2>2 DEF PaidByRow
<1> QED
  BY <1>1, <1>2, <1>3

(* PaidByRow is what ExecutedOncePerRow needs.                              *)
LEMMA PaidGives == TypeOK /\ PaidByRow => ExecutedOncePerRow
<1>1. SUFFICES ASSUME TypeOK, PaidByRow, NEW m \in Messages
               PROVE  handed[m] <= lives[m]
  BY DEF ExecutedOncePerRow
<1>2. Cardinality(Executing(m)) \in Nat
  BY ExecutingFinite
<1>3. handed[m] \in Nat /\ lives[m] \in Nat
  BY <1>1 DEF TypeOK
<1> QED
  BY SMTT(30), <1>1, <1>2, <1>3 DEF PaidByRow

(* PaidByRow holds at first.                                                *)
LEMMA PaidInit == Init => PaidByRow
<1>1. SUFFICES ASSUME Init, NEW m \in Messages
               PROVE  handed[m] + Cardinality(Executing(m)) <= lives[m]
  BY DEF PaidByRow
<1>2. Executing(m) = {}
  BY <1>1 DEF Executing, Init
<1>3. Cardinality(Executing(m)) = 0
  BY <1>2, FS_EmptySet
<1> QED
  BY SMTT(30), <1>1, <1>3 DEF Init

(* However many requests deliver a message, and however they interleave,    *)
(* no more of them give it to an agent than InsertIdempotency inserted rows.*)
THEOREM OncePerRow == Spec => []ExecutedOncePerRow
<1>1. Init => TypeOK
  BY SMTT(30), ConstantsAssumption DEF Init, TypeOK, Statuses, PCs
<1> QED
  BY <1>1, TypeStep, PaidInit, PaidStep, PaidGives, PTL DEF Spec

-----------------------------------------------------------------------------
(* One execution for ever *)

(* The replay window closes, for a message and for every request that       *)
(* carries it, before the row of its first delivery can be deleted.         *)
WindowFits == ReplayWindow + ClockSkew + RequestTime < Retention

(* The times of requests: none is older than RequestTime. *)
RequestsLive ==
    \A r \in Requests : pc[r] # "idle" => start[r] <= now /\ now <= start[r] + RequestTime

(* The times of message m. *)
Timely(m) ==
    /\ stamp[m] <= now + ClockSkew
    /\ lives[m] <= 1
    /\ lives[m] = 1 \/ status[m] # "none" => stamp[m] # -1
    /\ status[m] # "none" => stamp[m] + Retention <= expires[m] + ClockSkew
    /\ status[m] = "none" /\ lives[m] = 1 => stamp[m] + Retention <= now + ClockSkew
    /\ \A r \in Requests : pc[r] # "idle" /\ Carries(batch[r], m) =>
         /\ stamp[m] # -1
         /\ stamp[m] <= start[r] + ClockSkew
    /\ \A r \in Requests : pc[r] = "insert" /\ Msg(r) = m =>
         start[r] <= stamp[m] + ReplayWindow

AllTimely == RequestsLive /\ \A m \in Messages \ Restamped : Timely(m)

(* A request that is about to write a decision has one. *)
Decided == \A r \in Requests : pc[r] \in {"enqueue", "update"} => decision[r] \in Terminal

(* Every step keeps Decided.                                                *)
LEMMA DecidedStep == TypeOK /\ Decided /\ [Next]_vars => Decided'
<1>1. SUFFICES ASSUME TypeOK, Decided, [Next]_vars, NEW q \in Requests,
                      pc'[q] \in {"enqueue", "update"}
               PROVE  decision'[q] \in Terminal
  BY DEF Decided
<1>2. CASE Next
  <2>1. ASSUME NEW r \in Requests, NEW b \in Batches, Deliver(r, b)
        PROVE  decision'[q] \in Terminal
    BY <1>1, <2>1 DEF Deliver, TypeOK, Decided
  <2>2. ASSUME NEW r \in Requests, MessageDone(r) \/ EndRequest(r)
        PROVE  decision'[q] \in Terminal
    BY <1>1, <2>2 DEF MessageDone, NextMessage, Acknowledge, EndRequest, TypeOK, Decided
  <2>3. ASSUME NEW r \in Requests, ReplayCheck(r)
        PROVE  decision'[q] \in Terminal
    BY <1>1, <2>2, <2>3 DEF ReplayCheck, TypeOK, Decided
  <2>4. ASSUME NEW r \in Requests, InsertIdempotency(r)
        PROVE  decision'[q] \in Terminal
    BY SMTT(30), <1>1, <2>4 DEF InsertIdempotency, TypeOK, Decided
  <2>5. ASSUME NEW r \in Requests, Execute(r)
        PROVE  decision'[q] \in Terminal
    <3>1. CASE Msg(r) \in Blank
      BY <2>2, <2>5, <3>1 DEF Execute
    <3>2. CASE Msg(r) \notin Blank
      <4>1. PICK res \in Results :
              /\ decision' = [decision EXCEPT ![r] = res.decision]
              /\ pc' = [pc EXCEPT ![r] = IF res.text THEN "enqueue" ELSE "update"]
        BY <2>5, <3>2 DEF Execute
      <4>2. res.decision \in Terminal
        BY DEF Results, Terminal
      <4> QED
        BY <1>1, <4>1, <4>2 DEF TypeOK, Decided
    <3> QED
      BY <3>1, <3>2
  <2>6. ASSUME NEW r \in Requests, EnqueueOutbound(r)
        PROVE  decision'[q] \in Terminal
    BY <1>1, <2>6 DEF EnqueueOutbound, EnqueueSucceeds, EnqueueFails, TypeOK, Decided, Terminal
  <2>7. ASSUME NEW r \in Requests, LookupDuplicate(r)
        PROVE  decision'[q] \in Terminal
    BY <1>1, <2>2, <2>7 DEF LookupDuplicate, TypeOK, Decided
  <2>8. ASSUME NEW r \in Requests, ReenqueueDuplicate(r)
        PROVE  decision'[q] \in Terminal
    BY <1>1, <2>2, <2>8 DEF ReenqueueDuplicate, TypeOK, Decided, Terminal
  <2>9. ASSUME NEW r \in Requests, UpdateMessageStatus(r)
        PROVE  decision'[q] \in Terminal
    BY <2>2, <2>9 DEF UpdateMessageStatus
  <2>10. ASSUME NEW r \in Requests, Abandon(r)
         PROVE  decision'[q] \in Terminal
    BY <2>2, <2>10 DEF Abandon
  <2>11. ASSUME \/ RecoverDispatchFailures
                \/ \E m \in Messages : DeleteExpiredMessage(m)
                \/ Tick
         PROVE  decision'[q] \in Terminal
    BY <1>1, <2>11 DEF RecoverDispatchFailures, DeleteExpiredMessage, Tick, reqVars, Decided
  <2> QED
    BY <1>2, <2>1, <2>3, <2>4, <2>5, <2>6, <2>7, <2>8, <2>9, <2>10, <2>11
    DEF Next, HandleWebhook
<1>3. CASE UNCHANGED vars
  BY <1>1, <1>3 DEF vars, reqVars, Decided
<1> QED
  BY <1>1, <1>2, <1>3

(* A step of one request that inserts no row and passes no replay check.    *)
LEMMA QuietStep ==
    ASSUME TypeOK, AllTimely, NEW r \in Requests, OnlyMoves(r), pc[r] # "idle",
           pc'[r] # "insert",
           pc'[r] = "idle" \/ (start'[r] = start[r] /\ batch'[r] = batch[r]),
           \A q \in Requests \ {r} : start'[q] = start[q],
           UNCHANGED <<now, stamp, lives, expires>>,
           \A m \in Messages : status'[m] = "none" <=> status[m] = "none"
    PROVE  AllTimely'
<1>1. RequestsLive'
  BY DEF AllTimely, RequestsLive, OnlyMoves
<1>2. ASSUME NEW m \in Messages \ Restamped
      PROVE  Timely(m)'
  <2>1. Timely(m)
    BY DEF AllTimely
  <2>2. \A q \in Requests : pc'[q] # "idle" /\ Carries(batch'[q], m) =>
          /\ stamp'[m] # -1
          /\ stamp'[m] <= start'[q] + ClockSkew
    BY <2>1 DEF Timely, OnlyMoves
  <2>3. \A q \in Requests : pc'[q] = "insert" /\ batch'[q][pos'[q]] = m =>
          start'[q] <= stamp'[m] + ReplayWindow
    BY <2>1 DEF Timely, OnlyMoves, Msg
  <2> QED
    BY <2>1, <2>2, <2>3 DEF Timely, Carries, Msg
<1> QED
  BY <1>1, <1>2 DEF AllTimely
(* The replay check and the row hand over to each other.  The one step that *)
(* matters inserts a row: were it the second one of the message, the        *)
(* request would have outlived RequestTime.                                 *)
LEMMA TimelyStep ==
    ASSUME WindowFits
    PROVE  TypeOK /\ Decided /\ AllTimely /\ [Next]_vars => AllTimely'
<1>1. SUFFICES ASSUME TypeOK, Decided, AllTimely, [Next]_vars
               PROVE  AllTimely'
  OBVIOUS
<1>c. /\ ReplayWindow \in Nat
      /\ Retention \in Nat
      /\ ClockSkew \in Nat
      /\ RequestTime \in Nat
  BY ConstantsAssumption
<1>2. CASE Next
  <2>1. ASSUME NEW r \in Requests, NEW b \in Batches, Deliver(r, b)
        PROVE  AllTimely'
    <3>1. /\ pc[r] = "idle"
          /\ pc' = [pc EXCEPT ![r] = "check"]
          /\ batch' = [batch EXCEPT ![r] = b]
          /\ pos' = [pos EXCEPT ![r] = 1]
          /\ start' = [start EXCEPT ![r] = now]
          /\ UNCHANGED <<now, status, expires, lives>>
      BY <2>1 DEF Deliver, rowVars
    <3>2. RequestsLive'
      BY SMTT(30), <1>1, <1>c, <3>1 DEF AllTimely, RequestsLive, TypeOK
    <3>3. ASSUME NEW m \in Messages \ Restamped
          PROVE  Timely(m)'
      <4>1. PICK s \in [Messages -> {-1} \cup 0 .. now + ClockSkew] :
              /\ \A x \in Messages :
                   IF stamp[x] = -1 /\ Carries(b, x) THEN s[x] # -1 ELSE s[x] = stamp[x]
              /\ stamp' = s
        BY <2>1 DEF Deliver
      <4>2. s[m] \in Int /\ s[m] <= now + ClockSkew
        BY SMTT(30), <1>1, <1>c, <4>1 DEF TypeOK
      <4>3. Timely(m)
        BY <1>1 DEF AllTimely
      <4>4. stamp[m] # -1 => s[m] = stamp[m]
        BY <4>1
      <4>5. Carries(b, m) => s[m] # -1
        BY <4>1
      <4>6. /\ lives[m] = 1 \/ status[m] # "none" => s[m] = stamp[m]
            /\ \A q \in Requests : pc[q] # "idle" /\ Carries(batch[q], m) => s[m] = stamp[m]
        BY <4>3, <4>4 DEF Timely
      <4>7. /\ status[m] # "none" => s[m] + Retention <= expires[m] + ClockSkew
            /\ status[m] = "none" /\ lives[m] = 1 => s[m] + Retention <= now + ClockSkew
        BY <4>3, <4>6, <4>1 DEF Timely
      <4>8. \A q \in Requests : pc'[q] # "idle" /\ Carries(batch'[q], m) =>
              s[m] # -1 /\ s[m] <= start'[q] + ClockSkew
        <5>1. SUFFICES ASSUME NEW q \in Requests, pc'[q] # "idle", Carries(batch'[q], m)
                       PROVE  s[m] # -1 /\ s[m] <= start'[q] + ClockSkew
          OBVIOUS
        <5>2. CASE q = r
          BY <1>1, <3>1, <4>2, <4>5, <5>1, <5>2 DEF TypeOK
        <5>3. CASE q # r
          <6>1. pc'[q] = pc[q] /\ batch'[q] = batch[q] /\ start'[q] = start[q]
            BY <1>1, <3>1, <5>3 DEF TypeOK
          <6> QED
            BY <4>3, <4>6, <5>1, <6>1 DEF Timely
        <5> QED
          BY <5>2, <5>3
      <4>9. \A q \in Requests : pc'[q] = "insert" /\ batch'[q][pos'[q]] = m =>
              start'[q] <= s[m] + ReplayWindow
        <5>1. SUFFICES ASSUME NEW q \in Requests, pc'[q] = "insert", batch'[q][pos'[q]] = m
                       PROVE  start'[q] <= s[m] + ReplayWindow
          OBVIOUS
        <5>2. q # r
          BY <1>1, <3>1, <5>1 DEF TypeOK
        <5>3. pc'[q] = pc[q] /\ batch'[q] = batch[q] /\ start'[q] = start[q] /\ pos'[q] = pos[q]
          BY <1>1, <3>1, <5>2 DEF TypeOK
        <5>4. Msg(q) = m
          BY <5>1, <5>3 DEF Msg
        <5>5. Carries(batch[q], m)
          BY <1>1, <5>1, <5>3, <5>4, MsgType
        <5> QED
          BY <4>3, <4>6, <5>1, <5>3, <5>4, <5>5 DEF Timely
      <4> QED
        BY <3>1, <4>1, <4>2, <4>3, <4>6, <4>7, <4>8, <4>9 DEF Timely, Carries, Msg
    <3> QED
      BY <3>2, <3>3 DEF AllTimely
  <2>2. ASSUME NEW r \in Requests, MessageDone(r) \/ EndRequest(r), pc[r] # "idle",
               UNCHANGED <<now, stamp, lives, expires>>,
               \A m \in Messages : status'[m] = "none" <=> status[m] = "none"
        PROVE  AllTimely'
    <3>1. /\ OnlyMoves(r)
          /\ pc'[r] \in {"idle", "check"}
          /\ start'[r] = start[r] \/ pc'[r] = "idle"
          /\ batch'[r] = batch[r] \/ pc'[r] = "idle"
          /\ \A q \in Requests \ {r} : start'[q] = start[q]
      BY <1>1, <2>2, DoneMoves
    <3> QED
      BY <1>1, <2>2, <3>1, QuietStep
  <2>3. ASSUME NEW r \in Requests, pc[r] # "idle", NEW l, l # "insert",
               pc' = [pc EXCEPT ![r] = l],
               UNCHANGED <<batch, pos, start, now, stamp, lives, expires>>,
               \A m \in Messages : status'[m] = "none" <=> status[m] = "none"
        PROVE  AllTimely'
    <3>1. OnlyMoves(r) /\ pc'[r] # "insert"
      BY <1>1, <2>3 DEF OnlyMoves, TypeOK
    <3> QED
      BY <1>1, <2>3, <3>1, QuietStep
  <2>4. ASSUME NEW r \in Requests, ReplayCheck(r)
        PROVE  AllTimely'
    <3>1. /\ pc[r] = "check"
          /\ UNCHANGED <<now, stamp, status, lives, expires>>
      BY <2>4 DEF ReplayCheck, rowVars
    <3>2. CASE MessageDone(r)
      BY <2>2, <3>1, <3>2
    <3>3. CASE /\ ~OutsideWindow(OccurredAt(r))
               /\ pc' = [pc EXCEPT ![r] = "insert"]
               /\ UNCHANGED <<batch, pos, start>>
      <4>1. RequestsLive'
        BY <1>1, <3>1, <3>3 DEF AllTimely, RequestsLive, TypeOK
      <4>2. ASSUME NEW m \in Messages \ Restamped
            PROVE  Timely(m)'
        <5>1. Timely(m)
          BY <1>1 DEF AllTimely
        <5>2. stamp[m] \in Int /\ now \in Nat /\ start[r] \in Nat /\ start[r] <= now
          BY <1>1, <3>1 DEF AllTimely, RequestsLive, TypeOK
        <5>3. Msg(r) = m => start[r] <= stamp[m] + ReplayWindow
          BY SMTT(30), <1>c, <3>3, <4>2, <5>2 DEF OutsideWindow, OccurredAt
        <5>4. \A q \in Requests : pc'[q] = "insert" /\ Msg(q) = m =>
                start[q] <= stamp[m] + ReplayWindow
          BY <1>1, <3>3, <5>1, <5>3 DEF Timely, TypeOK
        <5>5. \A q \in Requests : pc'[q] # "idle" => pc[q] # "idle"
          BY <1>1, <3>1, <3>3 DEF TypeOK
        <5> QED
          BY <3>1, <3>3, <5>1, <5>4, <5>5 DEF Timely, Carries, Msg
      <4> QED
        BY <4>1, <4>2 DEF AllTimely
    <3> QED
      BY <2>4, <3>2, <3>3 DEF ReplayCheck
  <2>5. ASSUME NEW r \in Requests, InsertIdempotency(r)
        PROVE  AllTimely'
    <3>1. /\ pc[r] = "insert"
          /\ UNCHANGED <<now, stamp, batch, pos, start>>
      BY <2>5 DEF InsertIdempotency
    <3>2. CASE /\ pc' = [pc EXCEPT ![r] = "lookup"]
               /\ UNCHANGED <<status, expires, lives>>
      BY <2>3, <3>1, <3>2
    <3>3. CASE /\ status[Msg(r)] = "none"
               /\ status' = [status EXCEPT ![Msg(r)] = "accepted"]
               /\ expires' = [expires EXCEPT ![Msg(r)] = start[r] + Retention]
               /\ lives' = [lives EXCEPT ![Msg(r)] = @ + 1]
               /\ pc' = [pc EXCEPT ![r] = "execute"]
      <4>1. Msg(r) \in Messages /\ Carries(batch[r], Msg(r))
        BY <1>1, <3>1, MsgType
      <4>2. RequestsLive'
        BY <1>1, <3>1, <3>3 DEF AllTimely, RequestsLive, TypeOK
      <4>3. /\ start[r] \in Nat /\ now \in Nat
            /\ start[r] <= now /\ now <= start[r] + RequestTime
        BY <1>1, <3>1 DEF AllTimely, RequestsLive, TypeOK
      <4>4. ASSUME NEW m \in Messages \ Restamped
            PROVE  Timely(m)'
        <5>1. Timely(m)
          BY <1>1 DEF AllTimely
        <5>2. stamp[m] \in Int /\ lives[m] \in Nat
          BY <1>1 DEF TypeOK
        <5>3. \A q \in Requests : pc'[q] # "idle" => pc[q] # "idle"
          BY <1>1, <3>1, <3>3 DEF TypeOK
        <5>4. \A q \in Requests : pc'[q] = "insert" => pc[q] = "insert"
          BY <1>1, <3>1, <3>3 DEF TypeOK
        <5>5. CASE m = Msg(r)
          <6>1. /\ stamp[m] # -1
                /\ stamp[m] <= start[r] + ClockSkew
                /\ start[r] <= stamp[m] + ReplayWindow
            BY <3>1, <4>1, <5>1, <5>5 DEF Timely
          <6>2. lives[m] # 1
            <7>1. SUFFICES ASSUME lives[m] = 1 PROVE FALSE
              OBVIOUS
            <7>2. stamp[m] + Retention <= now + ClockSkew
              BY <3>3, <5>1, <5>5, <7>1 DEF Timely
            <7> QED
              BY SMTT(30), <1>c, <4>3, <5>2, <6>1, <7>2 DEF WindowFits
          <6>3. lives[m] = 0
            BY SMTT(30), <5>1, <5>2, <6>2 DEF Timely
          <6>4. /\ lives'[m] = 1
                /\ status'[m] = "accepted"
                /\ expires'[m] = start[r] + Retention
            BY SMTT(30), <1>1, <3>3, <5>5, <6>3 DEF TypeOK
          <6>5. stamp[m] + Retention <= expires'[m] + ClockSkew
            BY SMTT(30), <1>c, <4>3, <5>2, <6>1, <6>4
          <6> QED
            BY SMTT(30), <3>1, <5>1, <5>3, <5>4, <6>1, <6>4, <6>5 DEF Timely, Carries, Msg
        <5>6. CASE m # Msg(r)
          <6>1. lives'[m] = lives[m] /\ status'[m] = status[m] /\ expires'[m] = expires[m]
            BY <1>1, <3>3, <4>1, <5>6 DEF TypeOK
          <6> QED
            BY <3>1, <5>1, <5>3, <5>4, <6>1 DEF Timely, Carries, Msg
        <5> QED
          BY <5>5, <5>6
      <4> QED
        BY <4>2, <4>4 DEF AllTimely
    <3> QED
      BY <2>5, <3>2, <3>3 DEF InsertIdempotency
  <2>6. ASSUME NEW r \in Requests, Execute(r)
        PROVE  AllTimely'
    <3>1. pc[r] = "execute" /\ UNCHANGED <<now, stamp, status, lives, expires>>
      BY <2>6 DEF Execute, rowVars
    <3>2. CASE MessageDone(r)
      BY <2>2, <3>1, <3>2
    <3>3. CASE ~MessageDone(r)
      <4>1. PICK res \in Results : pc' = [pc EXCEPT ![r] = IF res.text THEN "enqueue" ELSE "update"]
        BY <2>6, <3>3 DEF Execute
      <4>2. UNCHANGED <<batch, pos, start>>
        BY <2>6, <3>3 DEF Execute
      <4> QED
        BY <2>3, <3>1, <4>1, <4>2
    <3> QED
      BY <3>2, <3>3
  <2>7. ASSUME NEW r \in Requests, EnqueueOutbound(r)
        PROVE  AllTimely'
    BY <2>3, <2>7 DEF EnqueueOutbound
  <2>8. ASSUME NEW r \in Requests, LookupDuplicate(r)
        PROVE  AllTimely'
    BY <2>2, <2>3, <2>8 DEF LookupDuplicate, rowVars
  <2>9. ASSUME NEW r \in Requests, ReenqueueDuplicate(r)
        PROVE  AllTimely'
    BY <2>2, <2>3, <2>9 DEF ReenqueueDuplicate
  <2>10. ASSUME NEW r \in Requests, UpdateMessageStatus(r)
         PROVE  AllTimely'
    <3>1. /\ pc[r] = "update"
          /\ UNCHANGED <<now, stamp, lives, expires>>
          /\ MessageDone(r) \/ EndRequest(r)
      BY <2>10 DEF UpdateMessageStatus
    <3>2. Msg(r) \in Messages /\ decision[r] # "none"
      BY <1>1, <3>1, MsgType DEF Decided, Terminal
    <3>3. \A m \in Messages : status'[m] = "none" <=> status[m] = "none"
      BY <1>1, <2>10, <3>2 DEF UpdateMessageStatus, TypeOK
    <3> QED
      BY <2>2, <3>1, <3>3
  <2>11. ASSUME NEW r \in Requests, Abandon(r)
         PROVE  AllTimely'
    BY <2>2, <2>11 DEF Abandon, rowVars
  <2>12. CASE RecoverDispatchFailures
    <3>1. UNCHANGED <<now, stamp, lives, expires, pc, batch, pos, start>>
      BY <2>12 DEF RecoverDispatchFailures, reqVars
    <3>2. \A m \in Messages : status'[m] = "none" <=> status[m] = "none"
      BY <1>1, <2>12 DEF RecoverDispatchFailures, TypeOK
    <3> QED
      BY <1>1, <3>1, <3>2 DEF AllTimely, RequestsLive, Timely, Carries, Msg
  <2>13. ASSUME NEW d \in Messages, DeleteExpiredMessage(d)
         PROVE  AllTimely'
    <3>1. /\ status[d] # "none" /\ expires[d] <= now
          /\ status' = [status EXCEPT ![d] = "none"]
          /\ expires' = [expires EXCEPT ![d] = 0]
          /\ UNCHANGED <<now, stamp, lives, pc, batch, pos, start>>
      BY <2>13 DEF DeleteExpiredMessage, reqVars
    <3>2. RequestsLive'
      BY <1>1, <3>1 DEF AllTimely, RequestsLive
    <3>3. ASSUME NEW m \in Messages \ Restamped
          PROVE  Timely(m)'
      <4>1. Timely(m) /\ stamp[m] \in Int /\ expires[m] \in Nat /\ now \in Nat
        BY <1>1 DEF AllTimely, TypeOK
      <4>2. /\ status'[m] # "none" => stamp[m] + Retention <= expires'[m] + ClockSkew
            /\ status'[m] = "none" /\ lives[m] = 1 => stamp[m] + Retention <= now + ClockSkew
        <5>1. CASE m = d
          BY SMTT(30), <1>1, <1>c, <3>1, <4>1, <5>1 DEF Timely, TypeOK
        <5>2. CASE m # d
          BY <1>1, <3>1, <4>1, <5>2 DEF Timely, TypeOK
        <5> QED
          BY <5>1, <5>2
      <4> QED
        BY SMTT(30), <3>1, <4>1, <4>2 DEF Timely, Carries, Msg
    <3> QED
      BY <3>2, <3>3 DEF AllTimely
  <2>14. CASE Tick
    <3>1. /\ now' = now + 1
          /\ UNCHANGED <<stamp, status, expires, lives, pc, batch, pos, start>>
          /\ \A r \in Requests : pc[r] # "idle" => now - start[r] < RequestTime
      BY <2>14 DEF Tick, rowVars, reqVars
    <3>2. RequestsLive'
      BY SMTT(30), <1>1, <1>c, <3>1 DEF AllTimely, RequestsLive, TypeOK
    <3>3. ASSUME NEW m \in Messages \ Restamped
          PROVE  Timely(m)'
      <4>1. Timely(m) /\ stamp[m] \in Int /\ now \in Nat
        BY <1>1 DEF AllTimely, TypeOK
      <4>2. /\ stamp[m] <= now' + ClockSkew
            /\ status[m] = "none" /\ lives[m] = 1 => stamp[m] + Retention <= now' + ClockSkew
        BY SMTT(30), <1>c, <3>1, <4>1 DEF Timely
      <4> QED
        BY <3>1, <4>1, <4>2 DEF Timely, Carries, Msg
    <3> QED
      BY <3>2, <3>3 DEF AllTimely
  <2> QED
    BY <1>2, <2>1, <2>4, <2>5, <2>6, <2>7, <2>8, <2>9, <2>10, <2>11, <2>12, <2>13, <2>14
    DEF Next, HandleWebhook
<1>3. CASE UNCHANGED vars
  BY <1>1, <1>3 DEF vars, rowVars, reqVars, AllTimely, RequestsLive, Timely, Carries, Msg
<1> QED
  BY <1>1, <1>2, <1>3

(* With AllTimely, a second row is never paid for an old message.           *)
LEMMA TimelyGives == TypeOK /\ PaidByRow /\ AllTimely => ExecutedOnce
<1>1. SUFFICES ASSUME TypeOK, PaidByRow, AllTimely, NEW m \in Messages \ Restamped
               PROVE  handed[m] <= 1
  BY DEF ExecutedOnce
<1>2. handed[m] <= lives[m]
  BY <1>1, PaidGives DEF ExecutedOncePerRow
<1>3. lives[m] <= 1 /\ handed[m] \in Nat /\ lives[m] \in Nat
  BY <1>1 DEF AllTimely, Timely, TypeOK
<1> QED
  BY SMTT(30), <1>2, <1>3

(* If the replay window, the clock skew and the life of a request together  *)
(* are shorter than the retention of channel_messages, a message that       *)
(* carries its own time is given to an agent at most once, for any number   *)
(* of redeliveries, concurrent requests and deletions of its row.           *)
THEOREM OnceForEver == ASSUME WindowFits PROVE Spec => []ExecutedOnce
<1>1. Init => TypeOK
  BY SMTT(30), ConstantsAssumption DEF Init, TypeOK, Statuses, PCs
<1>2. Init => Decided
  BY DEF Init, Decided
<1>3. Init => AllTimely
  BY SMTT(30), ConstantsAssumption DEF Init, AllTimely, RequestsLive, Timely
<1>4. TypeOK /\ Decided /\ AllTimely /\ [Next]_vars => AllTimely'
  BY TimelyStep
<1> QED
  BY <1>1, <1>2, <1>3, <1>4, TypeStep, PaidInit, PaidStep, DecidedStep, TimelyGives, PTL
  DEF Spec
-----------------------------------------------------------------------------
(* A reply is not lost, and a decision is final *)

(* The requests that work on the row of m. *)
Busy(m) ==
    {r \in Requests : pc[r] \in {"execute", "enqueue", "reenqueue", "update"} /\ Msg(r) = m}

(* Before the row: nobody is past the insert. *)
Fresh(m) ==
    lives[m] = 0 =>
      /\ status[m] = "none" /\ ~reply[m]
      /\ \A r \in Requests : Msg(r) = m => pc[r] \in {"idle", "check", "insert"}

(* A row that is accepted belongs to the request that inserted it. *)
Accepted(m) ==
    status[m] = "accepted" =>
      /\ ~reply[m]
      /\ \A r, q \in Busy(m) : r = q
      /\ \A r \in Busy(m) :
           /\ pc[r] # "reenqueue"
           /\ pc[r] = "update" => \/ outbox[m] > 0 \/ ~text[r]
                                  \/ flag[r] = "true" /\ decision[r] \in {"denied", "dispatch_failed"}

(* After the decision only duplicates write, to say that the message was    *)
(* executed, and only once its reply is in the outbox.                      *)
Settled(m) ==
    status[m] \in Terminal =>
      /\ \A r \in Busy(m) :
           /\ status[m] # "denied"
           /\ pc[r] = "reenqueue" \/ (pc[r] = "update" /\ decision[r] = "executed" /\ outbox[m] > 0)
      /\ reply[m] => outbox[m] > 0 \/ (failed[m] /\ status[m] # "executed")

OneRow(m) == Fresh(m) /\ Accepted(m) /\ Settled(m)

AllOneRow == \A m \in Messages \ Restamped : OneRow(m)

(* A step of request r alone, in its own variables. *)
OnlyWrites(r) ==
    /\ OnlyMoves(r)
    /\ \A q \in Requests \ {r} : text'[q] = text[q] /\ flag'[q] = flag[q] /\ decision'[q] = decision[q]

SameRow(m) ==
    /\ status'[m] = status[m] /\ reply'[m] = reply[m] /\ failed'[m] = failed[m]
    /\ outbox'[m] = outbox[m] /\ lives'[m] = lives[m]

(* A step of a request that does not work on the row of m, or not any more. *)
LEMMA RowAlone ==
    ASSUME TypeOK, NEW m, OneRow(m), NEW r \in Requests, OnlyWrites(r), SameRow(m),
           \/ pc'[r] \in {"idle", "check", "insert"}
           \/ batch'[r] = batch[r] /\ pos'[r] = pos[r] /\ Msg(r) # m
    PROVE  OneRow(m)'
<1>1. \A q \in Requests \ {r} : /\ pc'[q] = pc[q] /\ Msg(q)' = Msg(q)
                                /\ text'[q] = text[q] /\ flag'[q] = flag[q] /\ decision'[q] = decision[q]
  BY DEF OnlyWrites, OnlyMoves, Msg
<1>2. pc'[r] \in {"idle", "check", "insert"} \/ Msg(r)' # m
  BY DEF Msg
<1>3. \A q \in Busy(m)' : q # r /\ q \in Busy(m)
  BY <1>1, <1>2 DEF Busy
<1>4. Fresh(m)'
  BY <1>1, <1>2 DEF OneRow, Fresh, SameRow
<1>5. Accepted(m)'
  <2>1. \A q \in Busy(m)' : /\ q \in Busy(m) /\ pc'[q] = pc[q]
                             /\ text'[q] = text[q] /\ flag'[q] = flag[q] /\ decision'[q] = decision[q]
    BY <1>1, <1>3 DEF Busy
  <2> QED
    BY <2>1 DEF OneRow, Accepted, SameRow
<1>6. Settled(m)'
  <2>1. \A q \in Busy(m)' : q \in Busy(m) /\ pc'[q] = pc[q] /\ decision'[q] = decision[q]
    BY <1>1, <1>3 DEF Busy
  <2> QED
    BY <2>1 DEF OneRow, Settled, SameRow
<1> QED
  BY <1>4, <1>5, <1>6 DEF OneRow

(* A step of no request.                                                    *)
LEMMA RowOnly ==
    ASSUME TypeOK, NEW m, OneRow(m), UNCHANGED reqVars, lives'[m] = lives[m],
           \/ SameRow(m)
           \/ status'[m] = "none" /\ reply'[m] = FALSE
           \/ /\ outbox'[m] > 0 /\ reply'[m] = reply[m] /\ status[m] \in {"denied", "dispatch_failed"}
              /\ status'[m] = IF status[m] = "dispatch_failed" THEN "executed" ELSE status[m]
    PROVE  OneRow(m)'
<1>1. \A q \in Requests : Msg(q)' = Msg(q)
  BY DEF reqVars, Msg
<1>2. Busy(m)' = Busy(m) /\ UNCHANGED <<pc, text, flag, decision>>
  BY <1>1 DEF Busy, reqVars
<1>3. Fresh(m)'
  BY <1>1, <1>2 DEF OneRow, Fresh, SameRow
<1>4. Accepted(m)'
  BY <1>2 DEF OneRow, Accepted, SameRow
<1>5. Settled(m)'
  BY <1>2 DEF OneRow, Settled, SameRow, Terminal
<1> QED
  BY <1>3, <1>4, <1>5 DEF OneRow

(* A request that is done with its message, or ends.                        *)
LEMMA DoneWrites ==
    ASSUME TypeOK, NEW r \in Requests, MessageDone(r) \/ EndRequest(r)
    PROVE  OnlyWrites(r) /\ pc'[r] \in {"idle", "check"}
  BY DoneMoves DEF TypeOK, MessageDone, NextMessage, Acknowledge, EndRequest, OnlyWrites

(* A step that ends the work on a message and writes no row.                *)
LEMMA DoneRow ==
    ASSUME TypeOK, NEW m, OneRow(m), NEW r \in Requests, MessageDone(r) \/ EndRequest(r), SameRow(m)
    PROVE  OneRow(m)'
  BY DoneWrites, RowAlone

(* INSERT: the row of m is new, and its own.                                *)
LEMMA InsertRow ==
    ASSUME TypeOK, NEW m \in Messages, OneRow(m), NEW r \in Requests, InsertIdempotency(r),
           lives'[m] <= 1
    PROVE  OneRow(m)'
<1>1. /\ OnlyWrites(r) /\ pc'[r] \in {"execute", "lookup"} /\ pc[r] = "insert"
      /\ batch' = batch /\ pos' = pos /\ \A q \in Requests : Msg(q)' = Msg(q)
      /\ UNCHANGED <<reply, failed, outbox, text, flag, decision>>
  BY DEF InsertIdempotency, OnlyWrites, OnlyMoves, TypeOK, Msg
<1>2. CASE Msg(r) # m
  <2>1. SameRow(m)
    BY <1>2 DEF InsertIdempotency, SameRow, TypeOK
  <2> QED
    BY <1>1, <1>2, <2>1, RowAlone
<1>3. CASE Msg(r) = m /\ status[m] # "none"
  <2>1. status' = status /\ lives' = lives /\ pc'[r] = "lookup"
    BY <1>1, <1>3 DEF InsertIdempotency, TypeOK
  <2>2. \A q \in Requests \ {r} : pc'[q] = pc[q]
    BY <1>1 DEF OnlyWrites, OnlyMoves
  <2>3. Busy(m)' = Busy(m) /\ r \notin Busy(m)
    BY <1>1, <2>1, <2>2 DEF Busy
  <2>4. \A q \in Busy(m) : pc'[q] = pc[q]
    BY <2>2, <2>3 DEF Busy
  <2>5. Fresh(m)'
    BY <1>3, <2>1 DEF OneRow, Fresh
  <2>6. Accepted(m)'
    BY <1>1, <2>1, <2>3, <2>4 DEF OneRow, Accepted
  <2>7. Settled(m)'
    BY <1>1, <2>1, <2>3, <2>4 DEF OneRow, Settled
  <2> QED
    BY <2>5, <2>6, <2>7 DEF OneRow
<1>4. CASE Msg(r) = m /\ status[m] = "none"
  <2>1. lives'[m] = lives[m] + 1 /\ status'[m] = "accepted" /\ lives[m] \in Nat
    BY <1>1, <1>4 DEF InsertIdempotency, TypeOK
  <2>2. lives[m] = 0 /\ lives'[m] # 0
    BY SMTT(30), <2>1
  <2>3. ~reply[m] /\ \A q \in Requests : Msg(q) = m => pc[q] \in {"idle", "check", "insert"}
    BY <2>2 DEF OneRow, Fresh
  <2>4. pc'[r] = "execute" /\ \A q \in Requests \ {r} : pc'[q] = pc[q]
    BY <1>1, <1>4 DEF InsertIdempotency, OnlyWrites, OnlyMoves, TypeOK
  <2>5. \A q \in Busy(m)' : q = r
    BY <1>1, <2>3, <2>4 DEF Busy
  <2> QED
    BY <1>1, <2>1, <2>2, <2>3, <2>4, <2>5 DEF OneRow, Fresh, Accepted, Settled, Terminal
<1> QED
  BY <1>2, <1>3, <1>4

(* A request goes from one place to the next with the same message m, and   *)
(* leaves the status and the reply to others.                               *)
LEMMA NextPlace ==
    ASSUME TypeOK, NEW m \in Messages, OneRow(m), NEW r \in Requests, Msg(r) = m, OnlyWrites(r),
           batch'[r] = batch[r], pos'[r] = pos[r], lives'[m] = lives[m],
           status'[m] = status[m], reply'[m] = reply[m], failed'[m] = failed[m],
           outbox[m] > 0 => outbox'[m] > 0,
           pc[r] \notin {"idle", "check", "insert"},
           pc'[r] \in {"enqueue", "reenqueue", "update"},
           status[m] = "accepted" =>
             /\ r \in Busy(m)
             /\ pc'[r] # "reenqueue"
             /\ pc'[r] = "update" =>
                  \/ outbox'[m] > 0 \/ ~text'[r]
                  \/ flag'[r] = "true" /\ decision'[r] \in {"denied", "dispatch_failed"},
           status[m] \in Terminal =>
             /\ status[m] # "denied"
             /\ pc'[r] = "reenqueue" \/ (pc'[r] = "update" /\ decision'[r] = "executed" /\ outbox'[m] > 0)
    PROVE  OneRow(m)'
<1>1. \A q \in Requests : Msg(q)' = Msg(q)
  BY DEF OnlyWrites, OnlyMoves, Msg
<1>2. \A q \in Requests \ {r} : /\ pc'[q] = pc[q]
                                /\ text'[q] = text[q] /\ flag'[q] = flag[q] /\ decision'[q] = decision[q]
  BY DEF OnlyWrites, OnlyMoves
<1>3. \A q \in Busy(m)' : q = r \/ q \in Busy(m)
  BY <1>1, <1>2 DEF Busy
<1>4. lives[m] # 0
  BY DEF OneRow, Fresh
<1>5. Fresh(m)'
  BY <1>4 DEF Fresh
<1>6. Accepted(m)'
  <2>1. SUFFICES ASSUME status[m] = "accepted" PROVE Accepted(m)'
    BY DEF Accepted
  <2>2. \A q \in Busy(m)' : q = r
    BY <1>3, <2>1 DEF OneRow, Accepted
  <2> QED
    BY <2>1, <2>2 DEF OneRow, Accepted
<1>7. Settled(m)'
  <2>1. SUFFICES ASSUME status[m] \in Terminal PROVE Settled(m)'
    BY DEF Settled
  <2>2. reply[m] => outbox'[m] > 0 \/ (failed[m] /\ status[m] # "executed")
    BY <2>1 DEF OneRow, Settled
  <2>3. ASSUME NEW q \in Busy(m)', q # r
        PROVE  pc'[q] = "reenqueue" \/ (pc'[q] = "update" /\ decision'[q] = "executed" /\ outbox'[m] > 0)
    BY <1>2, <1>3, <2>1, <2>3 DEF OneRow, Settled, Busy
  <2> QED
    BY <2>1, <2>2, <2>3 DEF Settled
<1> QED
  BY <1>5, <1>6, <1>7 DEF OneRow

(* UPDATE: the request that inserted the row decides, or a duplicate says   *)
(* once more that the message was executed.                                 *)
LEMMA UpdateRow ==
    ASSUME TypeOK, Decided, NEW m \in Messages, OneRow(m), NEW r \in Requests, UpdateMessageStatus(r)
    PROVE  OneRow(m)'
<1>1. OnlyWrites(r) /\ pc'[r] \in {"idle", "check"} /\ pc[r] = "update" /\ UNCHANGED <<lives, outbox>>
  <2>1. MessageDone(r) \/ EndRequest(r)
    BY DEF UpdateMessageStatus
  <2> QED
    BY <2>1, DoneWrites DEF UpdateMessageStatus
<1>2. CASE Msg(r) # m \/ status[Msg(r)] = "none"
  <2>1. SameRow(m)
    BY <1>1, <1>2 DEF UpdateMessageStatus, SameRow, TypeOK
  <2> QED
    BY <1>1, <2>1, RowAlone
<1>3. CASE Msg(r) = m /\ status[m] # "none"
  <2>1. /\ status'[m] = decision[r] /\ decision[r] \in Terminal
        /\ failed'[m] = MergedFlag(r) /\ reply'[m] = (reply[m] \/ text[r])
    BY <1>1, <1>3 DEF UpdateMessageStatus, TypeOK, Decided
  <2>2. r \in Busy(m)
    BY <1>1, <1>3 DEF Busy
  <2>3. \A q \in Busy(m)' : /\ q # r /\ q \in Busy(m) /\ pc'[q] = pc[q] /\ decision'[q] = decision[q]
    BY <1>1 DEF Busy, OnlyWrites, OnlyMoves, Msg
  <2>4. lives[m] # 0
    BY <1>3 DEF OneRow, Fresh
  <2>5. Fresh(m)' /\ Accepted(m)'
    BY <1>1, <2>1, <2>4 DEF Fresh, Accepted, Terminal
  <2>6. status[m] = "accepted" \/ status[m] \in Terminal
    BY <1>3 DEF TypeOK, Statuses, Terminal
  <2>7. CASE status[m] = "accepted"
    <3>1. Busy(m)' = {}
      BY <2>2, <2>3, <2>7 DEF OneRow, Accepted
    <3>2. \/ outbox[m] > 0 \/ ~text[r]
          \/ flag[r] = "true" /\ decision[r] \in {"denied", "dispatch_failed"}
      BY <1>1, <2>2, <2>7 DEF OneRow, Accepted
    <3>3. ~reply[m]
      BY <2>7 DEF OneRow, Accepted
    <3>4. reply'[m] => outbox'[m] > 0 \/ (failed'[m] /\ status'[m] # "executed")
      BY <1>1, <2>1, <3>2, <3>3 DEF MergedFlag
    <3> QED
      BY <2>5, <3>1, <3>4 DEF OneRow, Settled
  <2>8. CASE status[m] \in Terminal
    <3>1. status[m] # "denied" /\ decision[r] = "executed" /\ outbox[m] > 0
      BY <1>1, <2>2, <2>8 DEF OneRow, Settled
    <3>2. Settled(m)'
      BY <1>1, <2>1, <2>3, <2>8, <3>1 DEF OneRow, Settled
    <3> QED
      BY <2>5, <3>2 DEF OneRow
  <2> QED
    BY <2>6, <2>7, <2>8
<1> QED
  BY <1>2, <1>3

(* The calls between the insert and the update.                             *)
LEMMA WorkRow ==
    ASSUME TypeOK, Decided, NEW m \in Messages, OneRow(m), NEW r \in Requests,
           Execute(r) \/ EnqueueOutbound(r) \/ LookupDuplicate(r) \/ ReenqueueDuplicate(r)
    PROVE  OneRow(m)'
<1>0. /\ pc[r] \in {"execute", "enqueue", "lookup", "reenqueue"} /\ outbox[m] \in Nat
      /\ UNCHANGED <<status, reply, failed, lives>>
  BY DEF Execute, EnqueueOutbound, LookupDuplicate, ReenqueueDuplicate, rowVars, TypeOK
<1>1. CASE MessageDone(r) \/ EndRequest(r)
  <2>1. outbox' = outbox
    BY <1>0, <1>1, DoneWrites DEF Execute, EnqueueOutbound, LookupDuplicate, ReenqueueDuplicate, rowVars, TypeOK
  <2> QED
    BY <1>0, <1>1, <2>1, DoneRow DEF SameRow
<1>2. CASE ~(MessageDone(r) \/ EndRequest(r))
  <2>1. /\ OnlyWrites(r) /\ UNCHANGED <<batch, pos>>
        /\ pc'[r] \in {"enqueue", "reenqueue", "update"}
    BY <1>2 DEF Execute, EnqueueOutbound, EnqueueSucceeds, EnqueueFails, LookupDuplicate, ReenqueueDuplicate,
                TypeOK, OnlyWrites, OnlyMoves
  <2>2. outbox'[m] = outbox[m] \/ Msg(r) = m
    BY <1>2 DEF Execute, EnqueueOutbound, EnqueueSucceeds, EnqueueFails, LookupDuplicate, ReenqueueDuplicate,
                rowVars, TypeOK
  <2>3. CASE Msg(r) # m
    BY <1>0, <2>1, <2>2, <2>3, RowAlone DEF SameRow
  <2>4. CASE Msg(r) = m
    <3>1. r \in Busy(m) \/ pc[r] = "lookup"
      BY <1>0, <2>4 DEF Busy
    <3>2. CASE Execute(r)
      <4>1. outbox' = outbox /\ pc[r] = "execute" /\ (pc'[r] = "update" => ~text'[r]) /\ pc'[r] # "reenqueue"
        BY <1>2, <3>2 DEF Execute, rowVars, TypeOK
      <4>2. status[m] \notin Terminal
        BY <3>1, <4>1 DEF OneRow, Settled
      <4> QED
        BY <1>0, <2>1, <2>4, <3>1, <4>1, <4>2, NextPlace
    <3>3. CASE EnqueueOutbound(r)
      <4>1. pc[r] = "enqueue" /\ pc'[r] = "update"
        BY <3>3 DEF EnqueueOutbound, TypeOK
      <4>2. status[m] \notin Terminal
        BY <3>1, <4>1 DEF OneRow, Settled
      <4>3. CASE outbox'[m] = outbox[m] + 1
        <5>1. outbox'[m] > 0
          BY SMTT(30), <1>0, <4>3
        <5> QED
          BY <1>0, <2>1, <2>4, <3>1, <4>1, <4>2, <5>1, NextPlace
      <4>4. CASE /\ outbox' = outbox /\ flag'[r] = "true"
                 /\ decision'[r] = IF decision[r] = "executed" THEN "dispatch_failed" ELSE decision[r]
        <5>1. decision'[r] \in {"denied", "dispatch_failed"}
          BY <4>1, <4>4 DEF Decided, Terminal
        <5> QED
          BY <1>0, <2>1, <2>4, <3>1, <4>1, <4>2, <4>4, <5>1, NextPlace
      <4> QED
        BY <2>4, <3>3, <4>3, <4>4 DEF EnqueueOutbound, EnqueueSucceeds, EnqueueFails, TypeOK
    <3>4. CASE LookupDuplicate(r)
      <4>1. outbox' = outbox /\ pc'[r] = "reenqueue" /\ Recoverable(m)
        BY <1>2, <2>4, <3>4 DEF LookupDuplicate, rowVars, TypeOK
      <4> QED
        BY <1>0, <2>1, <2>4, <4>1, NextPlace DEF Recoverable
    <3>5. CASE ReenqueueDuplicate(r)
      <4>1. /\ outbox'[m] = outbox[m] + 1 /\ pc[r] = "reenqueue" /\ pc'[r] = "update" /\ decision'[r] = "executed"
        BY <1>2, <2>4, <3>5 DEF ReenqueueDuplicate, TypeOK
      <4>2. outbox'[m] > 0
        BY SMTT(30), <1>0, <4>1
      <4>3. status[m] \in Terminal => status[m] # "denied"
        BY <3>1, <4>1 DEF OneRow, Settled
      <4>4. status[m] # "accepted"
        BY <3>1, <4>1 DEF OneRow, Accepted
      <4> QED
        BY <1>0, <2>1, <2>4, <3>1, <4>1, <4>2, <4>3, <4>4, NextPlace
    <3> QED
      BY <3>2, <3>3, <3>4, <3>5
  <2> QED
    BY <2>3, <2>4
<1> QED
  BY <1>1, <1>2

(* Every other step leaves the row of m, or deletes or recovers it.         *)
LEMMA RestRow ==
    ASSUME TypeOK, NEW m \in Messages, OneRow(m),
           \/ \E r \in Requests, b \in Batches : Deliver(r, b)
           \/ \E r \in Requests : ReplayCheck(r) \/ Abandon(r)
           \/ RecoverDispatchFailures
           \/ \E x \in Messages : DeleteExpiredMessage(x)
           \/ Tick
    PROVE  OneRow(m)'
<1>1. CASE \E r \in Requests, b \in Batches : Deliver(r, b)
  <2>1. PICK r \in Requests, b \in Batches : Deliver(r, b)
    BY <1>1
  <2>2. OnlyWrites(r) /\ pc'[r] = "check" /\ SameRow(m)
    BY <2>1 DEF Deliver, rowVars, TypeOK, OnlyWrites, OnlyMoves, SameRow
  <2> QED
    BY <2>2, RowAlone
<1>2. CASE \E r \in Requests : ReplayCheck(r)
  <2>1. PICK r \in Requests : ReplayCheck(r)
    BY <1>2
  <2>2. SameRow(m)
    BY <2>1 DEF ReplayCheck, rowVars, SameRow
  <2>3. CASE MessageDone(r)
    BY <2>2, <2>3, DoneRow
  <2>4. CASE ~MessageDone(r)
    <3>1. OnlyWrites(r) /\ pc'[r] = "insert"
      BY <2>1, <2>4 DEF ReplayCheck, TypeOK, OnlyWrites, OnlyMoves
    <3> QED
      BY <2>2, <3>1, RowAlone
  <2> QED
    BY <2>3, <2>4
<1>3. CASE \E r \in Requests : Abandon(r)
  BY <1>3, DoneRow DEF Abandon, rowVars, SameRow
<1>4. CASE RecoverDispatchFailures
  <2>1. PICK S \in SUBSET Messages :
          /\ S \subseteq Candidates
          /\ outbox' = [x \in Messages |-> IF x \in S \ Unroutable THEN outbox[x] + 1 ELSE outbox[x]]
          /\ failed' = [x \in Messages |-> x \notin S \ Unroutable /\ failed[x]]
          /\ status' = [x \in Messages |-> IF x \in S \ Unroutable /\ status[x] = "dispatch_failed"
                                            THEN "executed" ELSE status[x]]
    BY <1>4 DEF RecoverDispatchFailures, Locked
  <2>2. UNCHANGED <<reply, lives, reqVars>>
    BY <1>4 DEF RecoverDispatchFailures
  <2>3. CASE m \in S \ Unroutable
    <3>1. outbox'[m] > 0
      BY SMTT(30), <2>1, <2>3 DEF TypeOK
    <3>2. status[m] \in {"denied", "dispatch_failed"}
      BY <2>1, <2>3 DEF Candidates
    <3>3. status'[m] = IF status[m] = "dispatch_failed" THEN "executed" ELSE status[m]
      BY <2>1, <2>3
    <3> QED
      BY <2>2, <3>1, <3>2, <3>3, RowOnly
  <2>4. CASE m \notin S \ Unroutable
    <3>1. SameRow(m)
      BY <2>1, <2>2, <2>4 DEF SameRow, TypeOK
    <3> QED
      BY <2>2, <3>1, RowOnly
  <2> QED
    BY <2>3, <2>4
<1>5. CASE \E x \in Messages : DeleteExpiredMessage(x)
  <2>1. PICK x \in Messages : DeleteExpiredMessage(x)
    BY <1>5
  <2>2. SameRow(m) \/ (status'[m] = "none" /\ reply'[m] = FALSE)
    BY <2>1 DEF DeleteExpiredMessage, SameRow, TypeOK
  <2> QED
    BY <2>1, <2>2, RowOnly DEF DeleteExpiredMessage
<1>6. CASE Tick
  BY <1>6, RowOnly DEF Tick, rowVars, SameRow
<1> QED
  BY <1>1, <1>2, <1>3, <1>4, <1>5, <1>6

(* Every step keeps AllOneRow.  The next state of AllTimely says that an    *)
(* insert is the first one.                                                 *)
LEMMA RowsStep == TypeOK /\ Decided /\ AllOneRow /\ AllTimely' /\ [Next]_vars => AllOneRow'
<1>1. SUFFICES ASSUME TypeOK, Decided, AllOneRow, AllTimely', [Next]_vars, NEW m \in Messages \ Restamped
               PROVE  OneRow(m)'
  BY DEF AllOneRow
<1>2. OneRow(m) /\ lives'[m] <= 1
  BY <1>1 DEF AllOneRow, AllTimely, Timely
<1>3. CASE UNCHANGED vars
  BY <1>1, <1>2, <1>3, RowOnly DEF vars, rowVars, SameRow
<1>4. CASE \E r \in Requests : InsertIdempotency(r)
  BY <1>1, <1>2, <1>4, InsertRow
<1>5. CASE \E r \in Requests : UpdateMessageStatus(r)
  BY <1>1, <1>2, <1>5, UpdateRow
<1>6. CASE \E r \in Requests : \/ Execute(r) \/ EnqueueOutbound(r)
                               \/ LookupDuplicate(r) \/ ReenqueueDuplicate(r)
  BY <1>1, <1>2, <1>6, WorkRow
<1>7. CASE \/ \E r \in Requests, b \in Batches : Deliver(r, b)
           \/ \E r \in Requests : ReplayCheck(r) \/ Abandon(r)
           \/ RecoverDispatchFailures
           \/ \E x \in Messages : DeleteExpiredMessage(x)
           \/ Tick
  BY <1>1, <1>2, <1>7, RestRow
<1> QED
  BY <1>1, <1>3, <1>4, <1>5, <1>6, <1>7 DEF Next, HandleWebhook

(* The three invariants of the handler hold together.                       *)
LEMMA RowsHold == ASSUME WindowFits PROVE Spec => [](TypeOK /\ Decided /\ AllOneRow)
<1>1. Init => TypeOK
  BY SMTT(30), ConstantsAssumption DEF Init, TypeOK, Statuses, PCs
<1>2. Init => Decided
  BY DEF Init, Decided
<1>3. Init => AllTimely
  BY SMTT(30), ConstantsAssumption DEF Init, AllTimely, RequestsLive, Timely
<1>4. TypeOK /\ Decided /\ AllTimely /\ [Next]_vars => AllTimely'
  BY TimelyStep
<1>5. Init => AllOneRow
  <2>1. SUFFICES ASSUME Init, NEW m \in Messages
                 PROVE  OneRow(m)
    BY DEF AllOneRow
  <2>2. status[m] = "none" /\ ~reply[m] /\ \A r \in Requests : pc[r] = "idle"
    BY <2>1 DEF Init
  <2>3. "none" \notin Terminal /\ "none" # "accepted"
    BY DEF Terminal
  <2> QED
    BY <2>2, <2>3 DEF OneRow, Fresh, Accepted, Settled
<1> QED
  BY <1>1, <1>2, <1>3, <1>4, <1>5, TypeStep, DecidedStep, RowsStep, PTL DEF Spec

(* Under the same condition the key has one row for ever, and no reply is   *)
(* lost between the statements of HandleWebhook, a redelivery that recovers *)
(* it, the outbox worker's recovery and the failures of any of them.        *)
THEOREM NoReplyLost == ASSUME WindowFits PROVE Spec => []ReplyNotLost
<1>1. TypeOK /\ AllOneRow => ReplyNotLost
  <2>1. SUFFICES ASSUME TypeOK, AllOneRow, NEW m \in Messages \ Restamped, status[m] \in Terminal, reply[m]
                 PROVE  outbox[m] > 0 \/ m \in Candidates
    BY DEF ReplyNotLost
  <2>2. outbox[m] > 0 \/ (failed[m] /\ status[m] # "executed")
    BY <2>1 DEF AllOneRow, OneRow, Settled
  <2> QED
    BY <2>1, <2>2 DEF Candidates, Terminal
<1> QED
  BY <1>1, RowsHold, PTL

(* And what updateMessageStatus and the recovery write never changes an     *)
(* executed or a denied row.                                                *)
THEOREM DecisionsFinal == ASSUME WindowFits PROVE Spec => DecisionFinal
<1> DEFINE Kept(m) == status[m] \in {"executed", "denied"} => status'[m] \in {status[m], "none"}
<1>1. TypeOK /\ Decided /\ AllOneRow /\ [Next]_vars => [\A m \in Messages \ Restamped : Kept(m)]_vars
  <2>1. SUFFICES ASSUME TypeOK, AllOneRow, Next, NEW m \in Messages \ Restamped,
                        status[m] \in {"executed", "denied"}
                 PROVE  status'[m] \in {status[m], "none"}
    BY DEF vars, rowVars
  <2>2. CASE \E r \in Requests : InsertIdempotency(r)
    BY <2>1, <2>2 DEF InsertIdempotency, TypeOK
  <2>3. CASE \E r \in Requests : UpdateMessageStatus(r)
    <3>1. PICK r \in Requests : UpdateMessageStatus(r)
      BY <2>3
    <3>2. CASE Msg(r) = m
      <4>1. r \in Busy(m) /\ pc[r] = "update"
        BY <3>1, <3>2 DEF UpdateMessageStatus, Busy
      <4>2. status[m] # "denied" /\ decision[r] = "executed"
        BY <2>1, <4>1 DEF AllOneRow, OneRow, Settled, Terminal
      <4>3. status'[m] \in {status[m], decision[r]}
        BY <2>1, <3>1, <3>2 DEF UpdateMessageStatus, TypeOK
      <4> QED
        BY <2>1, <4>2, <4>3
    <3>3. CASE Msg(r) # m
      BY <2>1, <3>1, <3>3 DEF UpdateMessageStatus, TypeOK
    <3> QED
      BY <3>2, <3>3
  <2>4. CASE RecoverDispatchFailures
    BY <2>1, <2>4 DEF RecoverDispatchFailures
  <2>5. CASE \E x \in Messages : DeleteExpiredMessage(x)
    BY <2>1, <2>5 DEF DeleteExpiredMessage, TypeOK
  <2>6. CASE UNCHANGED status
    BY <2>6
  <2> QED
    BY <2>1, <2>2, <2>3, <2>4, <2>5, <2>6
    DEF Next, HandleWebhook, Deliver, ReplayCheck, Execute, EnqueueOutbound, LookupDuplicate,
        ReenqueueDuplicate, Abandon, Tick, rowVars
<1> QED
  BY <1>1, RowsHold, PTL DEF Spec, DecisionFinal
-----------------------------------------------------------------------------
(* The life of a message *)

(* Only an agent may have nothing to say. *)
Spoken ==
    \A r \in Requests : /\ pc[r] = "enqueue" => text[r]
                        /\ pc[r] = "update" => text[r] \/ decision[r] = "executed"

(* What request r knows of the row of its message m: retention leaves the   *)
(* row to the request that inserted it until the enqueueing is over, a      *)
(* duplicate found a reply, and the decision tells what the agent got.      *)
OwnedBy(m, r) ==
    /\ pc[r] \in {"execute", "enqueue"} => status[m] # "none" /\ expires[m] = start[r] + Retention
    /\ pc[r] = "reenqueue" /\ status[m] # "none" => reply[m]
    /\ pc[r] \in {"enqueue", "update"} /\ status[m] = "accepted" =>
         /\ decision[r] = "executed" => handed[m] = 1
         /\ decision[r] = "denied" => handed[m] = 0

AllOwned == \A m \in Messages \ Restamped, r \in Requests : Msg(r) = m => OwnedBy(m, r)

(* Every step keeps Spoken.                                                 *)
LEMMA SpokenStep == TypeOK /\ Spoken /\ [Next]_vars => Spoken'
<1>1. SUFFICES ASSUME TypeOK, Spoken, [Next]_vars, NEW q \in Requests
               PROVE  /\ pc'[q] = "enqueue" => text'[q]
                      /\ pc'[q] = "update" => text'[q] \/ decision'[q] = "executed"
  BY DEF Spoken
<1> DEFINE Goal == /\ pc'[q] = "enqueue" => text'[q]
                   /\ pc'[q] = "update" => text'[q] \/ decision'[q] = "executed"
<1>2. ASSUME NEW r \in Requests, OnlyWrites(r), r # q \/ pc'[r] \notin {"enqueue", "update"}
      PROVE  Goal
  BY <1>1, <1>2 DEF Spoken, OnlyWrites, OnlyMoves
<1>3. ASSUME NEW r \in Requests, MessageDone(r) \/ EndRequest(r)
      PROVE  Goal
  BY <1>1, <1>2, <1>3, DoneWrites
<1>4. ASSUME NEW r \in Requests, NEW b \in Batches, Deliver(r, b)
      PROVE  Goal
  <2>1. OnlyWrites(r) /\ pc'[r] = "check"
    BY <1>1, <1>4 DEF Deliver, OnlyWrites, OnlyMoves, TypeOK
  <2> QED
    BY <1>2, <2>1
<1>5. ASSUME NEW r \in Requests, ReplayCheck(r) \/ InsertIdempotency(r) \/ LookupDuplicate(r)
      PROVE  Goal
  <2>1. CASE ~(MessageDone(r) \/ EndRequest(r))
    <3>1. OnlyWrites(r) /\ pc'[r] \in {"insert", "execute", "lookup", "reenqueue"}
      BY <1>1, <1>5, <2>1 DEF ReplayCheck, InsertIdempotency, LookupDuplicate, OnlyWrites, OnlyMoves, TypeOK
    <3> QED
      BY <1>2, <3>1
  <2> QED
    BY <1>3, <2>1
<1>6. ASSUME NEW r \in Requests, Execute(r)
      PROVE  Goal
  <2>1. CASE Msg(r) \in Blank
    BY <1>3, <1>6, <2>1 DEF Execute
  <2>2. CASE Msg(r) \notin Blank
    <3>1. PICK res \in Results :
            /\ decision' = [decision EXCEPT ![r] = res.decision]
            /\ text' = [text EXCEPT ![r] = res.text]
            /\ pc' = [pc EXCEPT ![r] = IF res.text THEN "enqueue" ELSE "update"]
      BY <1>6, <2>2 DEF Execute
    <3>2. res.text \/ res.decision = "executed"
      BY DEF Results
    <3> QED
      BY <1>1, <3>1, <3>2 DEF Spoken, TypeOK
  <2> QED
    BY <2>1, <2>2
<1>7. ASSUME NEW r \in Requests, EnqueueOutbound(r)
      PROVE  Goal
  <2>1. /\ pc[r] = "enqueue" /\ text' = text /\ pc'[r] = "update"
        /\ \A x \in Requests \ {r} : pc'[x] = pc[x] /\ decision'[x] = decision[x]
    BY <1>1, <1>7 DEF EnqueueOutbound, EnqueueSucceeds, EnqueueFails, TypeOK
  <2> QED
    BY <1>1, <2>1 DEF Spoken
<1>8. ASSUME NEW r \in Requests, ReenqueueDuplicate(r)
      PROVE  Goal
  BY <1>1, <1>3, <1>8 DEF ReenqueueDuplicate, Spoken, TypeOK
<1>9. ASSUME NEW r \in Requests, UpdateMessageStatus(r) \/ Abandon(r)
      PROVE  Goal
  BY <1>3, <1>9 DEF UpdateMessageStatus, Abandon
<1>10. ASSUME RecoverDispatchFailures \/ Tick \/ UNCHANGED vars \/ \E m \in Messages : DeleteExpiredMessage(m)
       PROVE  Goal
  <2>1. UNCHANGED <<pc, text, decision>>
    BY <1>10 DEF RecoverDispatchFailures, DeleteExpiredMessage, Tick, vars, reqVars
  <2> QED
    BY <1>1, <2>1 DEF Spoken
<1> QED
  BY <1>1, <1>4, <1>5, <1>6, <1>7, <1>8, <1>9, <1>10 DEF Next, HandleWebhook

(* A request that stands still, while the row changes under it only as far  *)
(* as it may.                                                               *)
LEMMA OwnedStill ==
    ASSUME NEW m, NEW q, OwnedBy(m, q),
           pc'[q] = pc[q], start'[q] = start[q], decision'[q] = decision[q],
           pc[q] \in {"execute", "enqueue"} => status'[m] # "none" /\ expires'[m] = expires[m],
           pc[q] = "reenqueue" /\ status'[m] # "none" => status[m] # "none" /\ (reply[m] => reply'[m]),
           pc[q] \in {"enqueue", "update"} /\ status'[m] = "accepted" =>
             status[m] = "accepted" /\ handed'[m] = handed[m]
    PROVE  OwnedBy(m, q)'
  BY DEF OwnedBy

(* What the executor returns is a decision and a number.                    *)
LEMMA ResultsType == \A res \in Results : res.handed \in {0, 1} /\ res.decision \in Terminal
  BY DEF Results, Terminal

(* The request that may give a message to an agent is the first to do so.   *)
LEMMA UnhandedYet ==
    ASSUME TypeOK, PaidByRow, NEW m \in Messages, lives[m] <= 1, NEW r \in Requests,
           pc[r] = "execute", Msg(r) = m
    PROVE  handed[m] = 0
<1>1. r \in Executing(m) /\ IsFiniteSet(Executing(m)) /\ Cardinality(Executing(m)) \in Nat
  BY ExecutingFinite DEF Executing
<1>2. Cardinality(Executing(m)) # 0
  BY <1>1, FS_EmptySet
<1>3. handed[m] + Cardinality(Executing(m)) <= lives[m] /\ handed[m] \in Nat /\ lives[m] \in Nat
  BY DEF PaidByRow, TypeOK
<1> QED
  BY SMTT(30), <1>1, <1>2, <1>3

(* A request that passes on to no place where it owns anything.             *)
LEMMA OwnsNothing ==
    ASSUME NEW m, NEW q, pc'[q] \notin {"execute", "enqueue", "reenqueue", "update"}
    PROVE  OwnedBy(m, q)'
  BY DEF OwnedBy

(* Every step keeps AllOwned.  That the request which inserted the row must *)
(* end before the row expires is RequestsLive.                              *)
LEMMA OwnedStep ==
    ASSUME WindowFits
    PROVE  /\ TypeOK /\ Decided /\ PaidByRow /\ AllTimely /\ AllOneRow /\ AllOwned
           /\ AllTimely' /\ [Next]_vars
           => AllOwned'
<1>1. SUFFICES ASSUME TypeOK, Decided, PaidByRow, AllTimely, AllOneRow, AllOwned, AllTimely', [Next]_vars,
                      NEW m \in Messages \ Restamped, NEW q \in Requests, Msg(q)' = m
               PROVE  OwnedBy(m, q)'
  BY DEF AllOwned
<1>2. /\ OneRow(m) /\ Timely(m) /\ lives'[m] <= 1 /\ lives[m] <= 1
      /\ Msg(q) = m => OwnedBy(m, q)
  BY <1>1 DEF AllOneRow, AllTimely, Timely, AllOwned
<1>3. ASSUME NEW r \in Requests, OnlyWrites(r), \A x \in Requests \ {r} : start'[x] = start[x], q # r
      PROVE  /\ Msg(q) = m /\ OwnedBy(m, q)
             /\ pc'[q] = pc[q] /\ start'[q] = start[q] /\ decision'[q] = decision[q]
  BY <1>1, <1>2, <1>3 DEF OnlyWrites, OnlyMoves, Msg
<1>4. ASSUME NEW r \in Requests, OnlyWrites(r), \A x \in Requests \ {r} : start'[x] = start[x],
             pc'[r] \notin {"execute", "enqueue", "reenqueue", "update"} \/ r # q,
             status'[m] = status[m], expires'[m] = expires[m], reply'[m] = reply[m], handed'[m] = handed[m]
      PROVE  OwnedBy(m, q)'
  <2>1. CASE q = r
    BY <1>4, <2>1, OwnsNothing
  <2>2. CASE q # r
    <3>1. pc[q] \in {"execute", "enqueue"} => status[m] # "none"
      BY <1>3, <1>4, <2>2 DEF OwnedBy
    <3> QED
      BY <1>3, <1>4, <2>2, <3>1, OwnedStill
  <2> QED
    BY <2>1, <2>2
<1>5. ASSUME NEW r \in Requests, MessageDone(r) \/ EndRequest(r),
             status'[m] = status[m], expires'[m] = expires[m], reply'[m] = reply[m], handed'[m] = handed[m]
      PROVE  OwnedBy(m, q)'
  <2>1. OnlyWrites(r) /\ pc'[r] \in {"idle", "check"} /\ \A x \in Requests \ {r} : start'[x] = start[x]
    BY <1>1, <1>5, DoneWrites, DoneMoves
  <2> QED
    BY <1>4, <1>5, <2>1
<1>6. ASSUME NEW r \in Requests, NEW b \in Batches, Deliver(r, b)
      PROVE  OwnedBy(m, q)'
  <2>1. /\ OnlyWrites(r) /\ pc'[r] = "check" /\ \A x \in Requests \ {r} : start'[x] = start[x]
        /\ status' = status /\ expires' = expires /\ reply' = reply /\ handed' = handed
    BY <1>1, <1>6 DEF Deliver, OnlyWrites, OnlyMoves, TypeOK, rowVars
  <2> QED
    BY <1>4, <2>1
<1>7. ASSUME NEW r \in Requests, ReplayCheck(r)
      PROVE  OwnedBy(m, q)'
  <2>1. status' = status /\ expires' = expires /\ reply' = reply /\ handed' = handed
    BY <1>7 DEF ReplayCheck, rowVars
  <2>2. CASE ~MessageDone(r)
    <3>1. OnlyWrites(r) /\ pc'[r] = "insert" /\ \A x \in Requests \ {r} : start'[x] = start[x]
      BY <1>1, <1>7, <2>2 DEF ReplayCheck, OnlyWrites, OnlyMoves, TypeOK
    <3> QED
      BY <1>4, <2>1, <3>1
  <2> QED
    BY <1>5, <2>1, <2>2
<1>8. ASSUME NEW r \in Requests, InsertIdempotency(r)
      PROVE  OwnedBy(m, q)'
  <2>1. /\ OnlyWrites(r) /\ pc'[r] \in {"execute", "lookup"} /\ pc[r] = "insert"
        /\ UNCHANGED <<batch, pos, start, reply, handed, decision>>
        /\ Msg(q) = m
    BY <1>1, <1>8 DEF InsertIdempotency, OnlyWrites, OnlyMoves, TypeOK, Msg
  <2>2. CASE status'[m] = status[m] /\ expires'[m] = expires[m] /\ (q = r => pc'[r] = "lookup")
    BY <1>4, <2>1, <2>2
  <2>3. CASE Msg(r) = m /\ status[m] = "none"
    <3>0. /\ lives' = [lives EXCEPT ![m] = @ + 1] /\ status' = [status EXCEPT ![m] = "accepted"]
          /\ expires' = [expires EXCEPT ![m] = start[r] + Retention]
          /\ pc' = [pc EXCEPT ![r] = "execute"]
      BY <1>8, <2>3 DEF InsertIdempotency
    <3>1. /\ lives'[m] = lives[m] + 1 /\ lives[m] \in Nat
          /\ status'[m] = "accepted" /\ expires'[m] = start[r] + Retention /\ pc'[r] = "execute"
      BY <1>1, <3>0 DEF TypeOK
    <3>2. lives[m] = 0
      BY SMTT(30), <1>2, <3>1
    <3>3. pc[q] \in {"idle", "check", "insert"}
      BY <1>2, <2>1, <3>2 DEF OneRow, Fresh
    <3>4. CASE q = r
      BY <2>1, <3>1, <3>4 DEF OwnedBy
    <3>5. CASE q # r
      <4>1. pc'[q] = pc[q]
        BY <2>1, <3>5 DEF OnlyWrites, OnlyMoves
      <4> QED
        BY <3>3, <4>1, OwnsNothing
    <3> QED
      BY <3>4, <3>5
  <2>4. Msg(r) # m \/ status[m] # "none" =>
          status'[m] = status[m] /\ expires'[m] = expires[m] /\ (q = r => pc'[r] = "lookup")
    BY <1>1, <1>8, <2>1 DEF InsertIdempotency, TypeOK
  <2> QED
    BY <2>2, <2>3, <2>4
<1>9. ASSUME NEW r \in Requests, Execute(r)
      PROVE  OwnedBy(m, q)'
  <2>1. pc[r] = "execute" /\ UNCHANGED <<status, expires, reply>>
    BY <1>9 DEF Execute, rowVars
  <2>2. CASE Msg(r) \in Blank
    <3>1. MessageDone(r) /\ handed' = handed
      BY <1>9, <2>2 DEF Execute
    <3> QED
      BY <1>5, <2>1, <3>1
  <2>3. CASE Msg(r) \notin Blank
    <3>1. PICK res \in Results :
            /\ decision' = [decision EXCEPT ![r] = res.decision]
            /\ handed' = [handed EXCEPT ![Msg(r)] = @ + res.handed]
            /\ pc' = [pc EXCEPT ![r] = IF res.text THEN "enqueue" ELSE "update"]
      BY <1>9, <2>3 DEF Execute
    <3>2. /\ OnlyWrites(r) /\ UNCHANGED <<batch, pos, start>> /\ Msg(q) = m
      BY <1>1, <1>9, <2>3 DEF Execute, OnlyWrites, OnlyMoves, TypeOK, Msg
    <3>3. CASE Msg(r) # m
      <4>1. handed'[m] = handed[m] /\ q # r
        BY <1>1, <3>1, <3>2, <3>3 DEF TypeOK
      <4> QED
        BY <1>4, <2>1, <3>2, <4>1
    <3>4. CASE Msg(r) = m
      <4>1. OwnedBy(m, r) /\ r \in Busy(m)
        BY <1>1, <2>1, <3>4 DEF AllOwned, Busy
      <4>2. status[m] = "accepted"
        <5>1. status[m] # "none" /\ status[m] \notin Terminal
          BY <1>2, <2>1, <4>1 DEF OwnedBy, OneRow, Settled
        <5> QED
          BY <1>1, <5>1 DEF TypeOK, Statuses, Terminal
      <4>3. handed[m] = 0
        BY <1>1, <1>2, <2>1, <3>4, UnhandedYet
      <4>4. CASE q = r
        <5>1. handed'[m] = res.handed
          <6>1. handed'[m] = handed[m] + res.handed
            BY <1>1, <3>1, <3>4 DEF TypeOK
          <6>2. res.handed \in {0, 1}
            BY ResultsType
          <6> QED
            BY SMTT(30), <4>3, <6>1, <6>2
        <5>2. /\ res.decision = "executed" => res.handed = 1
              /\ res.decision = "denied" => res.handed = 0
          BY DEF Results
        <5>3. /\ decision'[q] = res.decision /\ pc'[q] \in {"enqueue", "update"}
              /\ start'[q] = start[q]
          BY <1>1, <3>1, <3>2, <4>4 DEF TypeOK
        <5> QED
          BY <2>1, <4>1, <4>4, <5>1, <5>2, <5>3 DEF OwnedBy
      <4>5. CASE q # r
        <5>1. pc[q] \notin {"execute", "enqueue", "reenqueue", "update"}
          BY <1>2, <3>2, <4>1, <4>2, <4>5 DEF OneRow, Accepted, Busy
        <5>2. pc'[q] = pc[q]
          BY <3>2, <4>5 DEF OnlyWrites, OnlyMoves
        <5> QED
          BY <5>1, <5>2, OwnsNothing
      <4> QED
        BY <4>4, <4>5
    <3> QED
      BY <3>3, <3>4
  <2> QED
    BY <2>2, <2>3
<1>10. ASSUME NEW r \in Requests, EnqueueOutbound(r)
       PROVE  OwnedBy(m, q)'
  <2>1. /\ OnlyWrites(r) /\ UNCHANGED <<batch, pos, start, status, expires, reply, handed>>
        /\ pc[r] = "enqueue" /\ pc'[r] = "update" /\ Msg(q) = m
        /\ decision'[r] = decision[r] \/ decision'[r] = "dispatch_failed"
    BY <1>1, <1>10 DEF EnqueueOutbound, EnqueueSucceeds, EnqueueFails, OnlyWrites, OnlyMoves, TypeOK, Msg
  <2>2. CASE q = r
    BY <1>2, <2>1, <2>2 DEF OwnedBy
  <2> QED
    BY <1>4, <2>1, <2>2
<1>11. ASSUME NEW r \in Requests, LookupDuplicate(r)
       PROVE  OwnedBy(m, q)'
  <2>1. UNCHANGED <<status, expires, reply, handed>>
    BY <1>11 DEF LookupDuplicate, rowVars
  <2>2. CASE ~(MessageDone(r) \/ EndRequest(r))
    <3>1. /\ OnlyWrites(r) /\ UNCHANGED <<batch, pos, start>> /\ Msg(q) = m
          /\ pc'[r] = "reenqueue" /\ Recoverable(Msg(r))
      BY <1>1, <1>11, <2>2 DEF LookupDuplicate, OnlyWrites, OnlyMoves, TypeOK, Msg
    <3>2. CASE q = r
      BY <2>1, <3>1, <3>2 DEF OwnedBy, Recoverable
    <3> QED
      BY <1>4, <2>1, <3>1, <3>2
  <2> QED
    BY <1>5, <2>1, <2>2
<1>12. ASSUME NEW r \in Requests, ReenqueueDuplicate(r)
       PROVE  OwnedBy(m, q)'
  <2>1. UNCHANGED <<status, expires, reply, handed>> /\ pc[r] = "reenqueue"
    BY <1>12 DEF ReenqueueDuplicate
  <2>2. CASE ~EndRequest(r)
    <3>1. /\ OnlyWrites(r) /\ UNCHANGED <<batch, pos, start>> /\ Msg(q) = m /\ pc'[r] = "update"
      BY <1>1, <1>12, <2>2 DEF ReenqueueDuplicate, OnlyWrites, OnlyMoves, TypeOK, Msg
    <3>2. CASE q = r
      <4>1. status[m] # "accepted"
        BY <1>2, <2>1, <3>1, <3>2 DEF OneRow, Accepted, Busy
      <4> QED
        BY <2>1, <3>1, <3>2, <4>1 DEF OwnedBy
    <3> QED
      BY <1>4, <2>1, <3>1, <3>2
  <2> QED
    BY <1>5, <2>1, <2>2
<1>13. ASSUME NEW r \in Requests, UpdateMessageStatus(r)
       PROVE  OwnedBy(m, q)'
  <2>1. /\ MessageDone(r) \/ EndRequest(r)
        /\ UNCHANGED <<expires, handed>> /\ pc[r] = "update"
    BY <1>13 DEF UpdateMessageStatus
  <2>2. OnlyWrites(r) /\ pc'[r] \in {"idle", "check"} /\ \A x \in Requests \ {r} : start'[x] = start[x]
    BY <1>1, <2>1, DoneWrites, DoneMoves
  <2>3. \/ status'[m] = status[m] /\ reply'[m] = reply[m]
        \/ status[m] # "none" /\ status'[m] \in Terminal /\ (reply[m] => reply'[m])
    BY <1>1, <1>13, <2>1 DEF UpdateMessageStatus, Decided, TypeOK
  <2>4. CASE status'[m] = status[m] /\ reply'[m] = reply[m]
    BY <1>5, <2>1, <2>4
  <2>5. CASE q = r
    BY <2>2, <2>5, OwnsNothing
  <2>6. CASE q # r /\ status[m] # "none" /\ status'[m] \in Terminal /\ (reply[m] => reply'[m])
    <3>1. status'[m] # "none" /\ status'[m] # "accepted"
      BY <2>6 DEF Terminal
    <3> QED
      BY <1>3, <2>1, <2>2, <2>6, <3>1, OwnedStill
  <2> QED
    BY <2>3, <2>4, <2>5, <2>6
<1>14. ASSUME NEW r \in Requests, Abandon(r)
       PROVE  OwnedBy(m, q)'
  BY <1>5, <1>14 DEF Abandon, rowVars
<1>15. ASSUME UNCHANGED reqVars
       PROVE  /\ Msg(q) = m /\ OwnedBy(m, q)
              /\ pc'[q] = pc[q] /\ start'[q] = start[q] /\ decision'[q] = decision[q]
  BY <1>1, <1>2, <1>15 DEF reqVars, Msg
<1>16. CASE Tick \/ UNCHANGED vars
  <2>1. UNCHANGED <<reqVars, status, expires, reply, handed>>
    BY <1>16 DEF Tick, vars, rowVars
  <2>2. pc[q] \in {"execute", "enqueue"} => status[m] # "none"
    BY <1>15, <2>1 DEF OwnedBy
  <2> QED
    BY <1>15, <2>1, <2>2, OwnedStill
<1>17. CASE RecoverDispatchFailures
  <2>1. /\ UNCHANGED <<reqVars, expires, reply, handed>>
        /\ status'[m] = status[m] \/ (status[m] = "dispatch_failed" /\ status'[m] = "executed")
    BY <1>17 DEF RecoverDispatchFailures
  <2>2. pc[q] \in {"execute", "enqueue"} => status'[m] # "none"
    BY <1>15, <2>1 DEF OwnedBy
  <2> QED
    BY <1>15, <2>1, <2>2, OwnedStill
<1>18. ASSUME NEW x \in Messages, DeleteExpiredMessage(x)
       PROVE  OwnedBy(m, q)'
  <2>1. UNCHANGED <<reqVars, handed>> /\ expires[x] <= now
    BY <1>18 DEF DeleteExpiredMessage
  <2>2. CASE x # m
    <3>1. status'[m] = status[m] /\ expires'[m] = expires[m] /\ reply'[m] = reply[m]
      BY <1>1, <1>18, <2>2 DEF DeleteExpiredMessage, TypeOK
    <3>2. pc[q] \in {"execute", "enqueue"} => status[m] # "none"
      BY <1>15, <2>1 DEF OwnedBy
    <3> QED
      BY <1>15, <2>1, <3>1, <3>2, OwnedStill
  <2>3. CASE x = m
    <3>1. status'[m] = "none"
      BY <1>1, <1>18, <2>3 DEF DeleteExpiredMessage, TypeOK
    <3>2. pc[q] \notin {"execute", "enqueue"}
      <4>1. SUFFICES ASSUME pc[q] \in {"execute", "enqueue"} PROVE FALSE
        OBVIOUS
      <4>2. expires[m] = start[q] + Retention
        BY <1>15, <2>1, <4>1 DEF OwnedBy
      <4>3. now <= start[q] + RequestTime /\ now \in Nat /\ start[q] \in Nat
        BY <1>1, <4>1 DEF AllTimely, RequestsLive, TypeOK
      <4> QED
        BY SMTT(30), <2>1, <2>3, <4>2, <4>3, ConstantsAssumption DEF WindowFits
    <3> QED
      BY <1>15, <2>1, <3>1, <3>2, OwnedStill
  <2> QED
    BY <2>2, <2>3
<1> QED
  BY <1>1, <1>6, <1>7, <1>8, <1>9, <1>10, <1>11, <1>12, <1>13, <1>14, <1>16, <1>17, <1>18
  DEF Next, HandleWebhook

(* The refinement mapping, message by message. *)
Row(m) == IF status[m] # "none" THEN status[m] ELSE IF lives[m] = 0 THEN "new" ELSE "gone"
Answer(m) == IF outbox[m] > 0 THEN "queued" ELSE IF m \in Candidates THEN "owed" ELSE "none"

Same(m) == Row(m)' = Row(m) /\ handed'[m] = handed[m] /\ Answer(m)' = Answer(m)

(* What MessageLifecycle allows one message. *)
LifeStep(m) ==
    \/ Same(m)
    \/ /\ Row(m) = "new" /\ Row(m)' = "accepted"
       /\ handed'[m] = handed[m] /\ Answer(m)' = Answer(m)
    \/ /\ Row(m) = "accepted" /\ handed[m] = 0 /\ handed'[m] = 1
       /\ Row(m)' = Row(m) /\ Answer(m)' = Answer(m)
    \/ /\ Row(m) = "accepted" \/ (Row(m) = "dispatch_failed" /\ Answer(m) # "none")
       /\ Answer(m)' = "queued" /\ Row(m)' = Row(m) /\ handed'[m] = handed[m]
    \/ \E d \in {"executed", "denied", "dispatch_failed"} :
         /\ Row(m) = "accepted" /\ Row(m)' = d
         /\ d = "executed" => handed[m] = 1
         /\ d = "denied" => handed[m] = 0
         /\ Answer(m)' = IF d # "executed" /\ Answer(m) = "none" THEN "owed" ELSE Answer(m)
         /\ handed'[m] = handed[m]
    \/ /\ Row(m) = "dispatch_failed" /\ Answer(m) # "none"
       /\ Row(m)' = "executed" /\ Answer(m)' = "queued" /\ handed'[m] = handed[m]
    \/ /\ Row(m) \notin {"new", "gone"} /\ Row(m)' = "gone"
       /\ Answer(m)' = "none" /\ handed'[m] = handed[m]

(* Where no message moves, MessageLifecycle stutters.                       *)
LEMMA NoneMoves ==
    ASSUME \A x \in Messages \ Restamped : Same(x)
    PROVE  UNCHANGED Lifecycle!vars
  BY DEF Same, Row, Answer, Candidates, Lifecycle!vars

(* Where one message moves, MessageLifecycle takes its step.                *)
LEMMA OneMoves ==
    ASSUME NEW m \in Messages \ Restamped, LifeStep(m),
           \A x \in (Messages \ Restamped) \ {m} : Same(x)
    PROVE  Lifecycle!Next \/ UNCHANGED Lifecycle!vars
<1> DEFINE row == [x \in Messages \ Restamped |-> Row(x)]
           got == [x \in Messages \ Restamped |-> handed[x]]
           answer == [x \in Messages \ Restamped |-> Answer(x)]
<1>0. \A x \in (Messages \ Restamped) \ {m} :
        Row(x)' = Row(x) /\ handed'[x] = handed[x] /\ Answer(x)' = Answer(x)
  BY DEF Same
<1>1. CASE Same(m)
  BY <1>1, NoneMoves
<1>2. CASE /\ Row(m) = "new" /\ Row(m)' = "accepted"
           /\ handed'[m] = handed[m] /\ Answer(m)' = Answer(m)
  <2>1. row' = [row EXCEPT ![m] = "accepted"] /\ got' = got /\ answer' = answer
    BY <1>0, <1>2
  <2>2. Lifecycle!Accept(m)
    BY <1>2, <2>1 DEF Lifecycle!Accept, Row, Answer, Candidates
  <2> QED
    BY <2>2 DEF Lifecycle!Next
<1>3. CASE /\ Row(m) = "accepted" /\ handed[m] = 0 /\ handed'[m] = 1
           /\ Row(m)' = Row(m) /\ Answer(m)' = Answer(m)
  <2>1. row' = row /\ got' = [got EXCEPT ![m] = 1] /\ answer' = answer
    BY <1>0, <1>3
  <2>2. Lifecycle!Hand(m)
    BY <1>3, <2>1 DEF Lifecycle!Hand, Row, Answer, Candidates
  <2> QED
    BY <2>2 DEF Lifecycle!Next
<1>4. CASE /\ Row(m) = "accepted" \/ (Row(m) = "dispatch_failed" /\ Answer(m) # "none")
           /\ Answer(m)' = "queued" /\ Row(m)' = Row(m) /\ handed'[m] = handed[m]
  <2>1. row' = row /\ got' = got /\ answer' = [answer EXCEPT ![m] = "queued"]
    BY <1>0, <1>4
  <2>2. Lifecycle!Queue(m)
    BY <1>4, <2>1 DEF Lifecycle!Queue, Row, Answer, Candidates
  <2> QED
    BY <2>2 DEF Lifecycle!Next
<1>5. ASSUME NEW d \in {"executed", "denied", "dispatch_failed"},
             Row(m) = "accepted", Row(m)' = d,
             d = "executed" => handed[m] = 1,
             d = "denied" => handed[m] = 0,
             Answer(m)' = IF d # "executed" /\ Answer(m) = "none" THEN "owed" ELSE Answer(m),
             handed'[m] = handed[m]
      PROVE  Lifecycle!Next
  <2>1. /\ row' = [row EXCEPT ![m] = d] /\ got' = got
        /\ answer' = IF d # "executed" /\ Answer(m) = "none" THEN [answer EXCEPT ![m] = "owed"] ELSE answer
    BY <1>0, <1>5
  <2>2. Lifecycle!Decide(m, d)
    BY <1>5, <2>1 DEF Lifecycle!Decide, Row, Answer, Candidates
  <2> QED
    BY <2>2 DEF Lifecycle!Next
<1>6. CASE /\ Row(m) = "dispatch_failed" /\ Answer(m) # "none"
           /\ Row(m)' = "executed" /\ Answer(m)' = "queued" /\ handed'[m] = handed[m]
  <2>1. /\ row' = [x \in Messages \ Restamped |->
                     IF x \in {m} /\ Row(x) = "dispatch_failed" THEN "executed" ELSE Row(x)]
        /\ got' = got
        /\ answer' = [x \in Messages \ Restamped |-> IF x \in {m} THEN "queued" ELSE Answer(x)]
    BY <1>0, <1>6
  <2>2. Lifecycle!Recover({m})
    BY <1>6, <2>1 DEF Lifecycle!Recover, Row, Answer, Candidates
  <2> QED
    BY <2>2 DEF Lifecycle!Next
<1>7. CASE /\ Row(m) \notin {"new", "gone"} /\ Row(m)' = "gone"
           /\ Answer(m)' = "none" /\ handed'[m] = handed[m]
  <2>1. row' = [row EXCEPT ![m] = "gone"] /\ got' = got /\ answer' = [answer EXCEPT ![m] = "none"]
    BY <1>0, <1>7
  <2>2. Lifecycle!Forget(m)
    BY <1>7, <2>1 DEF Lifecycle!Forget, Row, Answer, Candidates
  <2> QED
    BY <2>2 DEF Lifecycle!Next
<1> QED
  BY <1>1, <1>2, <1>3, <1>4, <1>5, <1>6, <1>7 DEF LifeStep

(* A row that nobody touches is the same message.                           *)
LEMMA SameMessage ==
    ASSUME NEW m \in Messages, SameRow(m), handed'[m] = handed[m]
    PROVE  Same(m)
  BY DEF Same, SameRow, Row, Answer, Candidates

(* INSERT accepts a message that has never had a row.                       *)
LEMMA InsertLife ==
    ASSUME TypeOK, NEW m \in Messages, NEW r \in Requests, InsertIdempotency(r), Msg(r) = m, lives'[m] <= 1
    PROVE  LifeStep(m)
<1>0. UNCHANGED <<failed, reply, outbox, handed>>
  BY DEF InsertIdempotency
<1>1. CASE status[m] # "none"
  <2>1. status' = status /\ lives' = lives
    BY <1>1 DEF InsertIdempotency
  <2> QED
    BY <1>0, <2>1, SameMessage DEF SameRow, LifeStep
<1>2. CASE status[m] = "none"
  <2>1. status' = [status EXCEPT ![m] = "accepted"] /\ lives' = [lives EXCEPT ![m] = @ + 1]
    BY <1>2 DEF InsertIdempotency
  <2>2. status'[m] = "accepted" /\ lives'[m] = lives[m] + 1 /\ lives[m] \in Nat
    BY <2>1 DEF TypeOK
  <2>3. lives[m] = 0
    BY SMTT(30), <2>2
  <2>4. Row(m) = "new" /\ Row(m)' = "accepted"
    BY <1>2, <2>2, <2>3 DEF Row
  <2>5. Answer(m)' = Answer(m)
    BY <1>0, <1>2, <2>2 DEF Answer, Candidates
  <2> QED
    BY <1>0, <2>4, <2>5 DEF LifeStep
<1> QED
  BY <1>1, <1>2

(* The executor gives a message to an agent once, while it is accepted.     *)
LEMMA ExecuteLife ==
    ASSUME TypeOK, PaidByRow, NEW m \in Messages, OneRow(m), lives[m] <= 1,
           NEW r \in Requests, Execute(r), Msg(r) = m, OwnedBy(m, r)
    PROVE  LifeStep(m)
<1>1. pc[r] = "execute" /\ UNCHANGED <<rowVars, lives>>
  BY DEF Execute
<1>2. Row(m)' = Row(m) /\ Answer(m)' = Answer(m)
  BY <1>1 DEF rowVars, Row, Answer, Candidates
<1>3. Row(m) = "accepted"
  BY <1>1 DEF OwnedBy, OneRow, Settled, Busy, TypeOK, Statuses, Terminal, Row
<1>4. handed[m] = 0
  BY <1>1, UnhandedYet
<1>5. CASE handed'[m] = handed[m]
  BY <1>2, <1>5 DEF LifeStep, Same
<1>6. CASE handed'[m] = 1
  BY <1>2, <1>3, <1>4, <1>6 DEF LifeStep
<1>7. handed'[m] \in {0, 1}
  <2>1. CASE handed' = handed
    BY <1>4, <2>1
  <2>2. CASE \E res \in Results : handed' = [handed EXCEPT ![m] = @ + res.handed]
    <3>1. PICK res \in Results : handed' = [handed EXCEPT ![m] = @ + res.handed]
      BY <2>2
    <3>2. handed'[m] = handed[m] + res.handed
      BY <3>1 DEF TypeOK
    <3>3. res.handed \in {0, 1}
      BY ResultsType
    <3> QED
      BY SMTT(30), <1>4, <3>2, <3>3
  <2> QED
    BY <2>1, <2>2 DEF Execute
<1> QED
  BY <1>4, <1>5, <1>6, <1>7

(* An answer is queued while the message is accepted, or where one is owed  *)
(* or queued already.                                                       *)
LEMMA EnqueueLife ==
    ASSUME TypeOK, NEW m \in Messages, OneRow(m), NEW r \in Requests, Msg(r) = m, OwnedBy(m, r),
           EnqueueOutbound(r) \/ ReenqueueDuplicate(r)
    PROVE  LifeStep(m)
<1>0. UNCHANGED <<status, failed, reply, lives, handed>>
  BY DEF EnqueueOutbound, ReenqueueDuplicate
<1>1. CASE outbox' = outbox
  BY <1>0, <1>1, SameMessage DEF SameRow, LifeStep
<1>2. CASE outbox' # outbox
  <2>1. outbox' = [outbox EXCEPT ![m] = @ + 1] /\ status[m] # "none"
    BY <1>2 DEF EnqueueOutbound, EnqueueSucceeds, EnqueueFails, ReenqueueDuplicate
  <2>2. outbox'[m] = outbox[m] + 1 /\ outbox[m] \in Nat
    BY <2>1 DEF TypeOK
  <2>3. outbox'[m] > 0
    BY SMTT(30), <2>2
  <2>4. Answer(m)' = "queued" /\ Row(m)' = Row(m) /\ Row(m) = status[m]
    BY <1>0, <2>1, <2>3 DEF Answer, Row
  <2>5. r \in Busy(m)
    BY DEF EnqueueOutbound, ReenqueueDuplicate, Busy
  <2>6. CASE status[m] = "accepted"
    BY <1>0, <2>4, <2>6 DEF LifeStep
  <2>7. CASE status[m] \in Terminal
    <3>1. pc[r] = "reenqueue" /\ reply[m] /\ status[m] # "denied"
      BY <2>1, <2>5, <2>7 DEF EnqueueOutbound, ReenqueueDuplicate, OneRow, Settled, OwnedBy
    <3>2. outbox[m] > 0 \/ (failed[m] /\ status[m] = "dispatch_failed")
      BY <2>7, <3>1 DEF OneRow, Settled, Terminal
    <3>3. Answer(m) # "none"
      BY <3>1, <3>2 DEF Answer, Candidates
    <3>4. CASE status[m] = "dispatch_failed"
      BY <1>0, <2>4, <3>3, <3>4 DEF LifeStep
    <3>5. CASE status[m] # "dispatch_failed"
      <4>1. Answer(m) = "queued"
        BY <3>2, <3>5 DEF Answer
      <4> QED
        BY <1>0, <2>4, <4>1 DEF LifeStep, Same
    <3> QED
      BY <3>4, <3>5
  <2> QED
    BY <2>1, <2>6, <2>7 DEF TypeOK, Statuses, Terminal
<1> QED
  BY <1>1, <1>2

(* The first update decides; a later one completes a recovery.              *)
LEMMA UpdateLife ==
    ASSUME TypeOK, Decided, Spoken, NEW m \in Messages, OneRow(m), NEW r \in Requests, Msg(r) = m,
           OwnedBy(m, r), UpdateMessageStatus(r)
    PROVE  LifeStep(m)
<1>0. UNCHANGED <<outbox, lives, handed>> /\ pc[r] = "update" /\ r \in Busy(m)
  BY DEF UpdateMessageStatus, Busy
<1>1. CASE status[m] = "none"
  <2>1. UNCHANGED <<status, failed, reply>>
    BY <1>1 DEF UpdateMessageStatus
  <2> QED
    BY <1>0, <2>1, SameMessage DEF SameRow, LifeStep
<1>2. CASE status[m] # "none"
  <2>1. /\ status' = [status EXCEPT ![m] = decision[r]]
        /\ failed' = [failed EXCEPT ![m] = MergedFlag(r)]
        /\ reply' = [reply EXCEPT ![m] = @ \/ text[r]]
    BY <1>2 DEF UpdateMessageStatus
  <2>2. /\ status'[m] = decision[r] /\ failed'[m] = MergedFlag(r) /\ reply'[m] = (reply[m] \/ text[r])
        /\ decision[r] \in Terminal
    BY <1>0, <2>1 DEF TypeOK, Decided
  <2>3. Row(m) = status[m] /\ Row(m)' = decision[r]
    BY <1>2, <2>2 DEF Row, Terminal
  <2>4. CASE status[m] = "accepted"
    <3>1. /\ decision[r] = "executed" => handed[m] = 1
          /\ decision[r] = "denied" => handed[m] = 0
      BY <1>0, <2>4 DEF OwnedBy
    <3>2. Answer(m) = IF outbox[m] > 0 THEN "queued" ELSE "none"
      BY <2>4 DEF Answer, Candidates
    <3>3. decision[r] # "executed" /\ ~(outbox[m] > 0) => failed'[m] /\ reply'[m]
      BY <1>0, <2>2, <2>4 DEF OneRow, Accepted, Spoken, MergedFlag
    <3>4. Answer(m)' = IF outbox[m] > 0 THEN "queued" ELSE IF decision[r] # "executed" THEN "owed" ELSE "none"
      BY <1>0, <2>2, <3>3 DEF Answer, Candidates, Terminal
    <3> QED
      BY <1>0, <2>2, <2>3, <2>4, <3>1, <3>2, <3>4 DEF LifeStep, Terminal
  <2>5. CASE status[m] \in Terminal
    <3>1. status[m] # "denied" /\ decision[r] = "executed" /\ outbox[m] > 0
      BY <1>0, <2>5 DEF OneRow, Settled
    <3>2. Answer(m) = "queued" /\ Answer(m)' = "queued"
      BY <1>0, <3>1 DEF Answer
    <3> QED
      BY <1>0, <2>3, <2>5, <3>1, <3>2 DEF LifeStep, Same, Terminal
  <2> QED
    BY <1>2, <2>4, <2>5 DEF TypeOK, Statuses, Terminal
<1> QED
  BY <1>1, <1>2

(* A step of the handler is about the message of the request.               *)
LEMMA OthersSame ==
    ASSUME TypeOK, NEW r \in Requests, pc[r] # "idle",
           \/ InsertIdempotency(r) \/ Execute(r) \/ EnqueueOutbound(r)
           \/ ReenqueueDuplicate(r) \/ UpdateMessageStatus(r),
           NEW x \in Messages, x # Msg(r)
    PROVE  Same(x)
<1>1. Msg(r) \in Messages
  BY MsgType
<1>2. CASE InsertIdempotency(r) \/ Execute(r)
  <2>1. SameRow(x) /\ handed'[x] = handed[x]
    BY <1>1, <1>2 DEF InsertIdempotency, Execute, rowVars, TypeOK, SameRow
  <2> QED
    BY <2>1, SameMessage
<1>3. CASE EnqueueOutbound(r) \/ ReenqueueDuplicate(r)
  <2>1. SameRow(x) /\ handed'[x] = handed[x]
    BY <1>1, <1>3 DEF EnqueueOutbound, EnqueueSucceeds, EnqueueFails, ReenqueueDuplicate, TypeOK, SameRow
  <2> QED
    BY <2>1, SameMessage
<1>4. CASE UpdateMessageStatus(r)
  <2>1. SameRow(x) /\ handed'[x] = handed[x]
    BY <1>1, <1>4 DEF UpdateMessageStatus, TypeOK, SameRow
  <2> QED
    BY <2>1, SameMessage
<1> QED
  BY <1>2, <1>3, <1>4

(* The recovery queues the answers of a set of messages.                    *)
LEMMA RecoverLife ==
    ASSUME TypeOK, RecoverDispatchFailures
    PROVE  Lifecycle!Next
<1>1. PICK S \in SUBSET Messages :
        /\ S \subseteq Candidates
        /\ outbox' = [x \in Messages |-> IF x \in S \ Unroutable THEN outbox[x] + 1 ELSE outbox[x]]
        /\ failed' = [x \in Messages |-> x \notin S \ Unroutable /\ failed[x]]
        /\ status' = [x \in Messages |-> IF x \in S \ Unroutable /\ status[x] = "dispatch_failed"
                                          THEN "executed" ELSE status[x]]
  BY DEF RecoverDispatchFailures, Locked
<1>2. UNCHANGED <<reply, lives, handed>>
  BY DEF RecoverDispatchFailures
<1> DEFINE R == (S \ Unroutable) \ Restamped
<1>3. ASSUME NEW x \in R
      PROVE  /\ Row(x) \in {"denied", "dispatch_failed"} /\ Answer(x) # "none"
             /\ Row(x)' = IF Row(x) = "dispatch_failed" THEN "executed" ELSE Row(x)
             /\ Answer(x)' = "queued"
  <2>1. x \in Candidates /\ x \in Messages /\ status[x] \in {"denied", "dispatch_failed"}
    BY <1>1 DEF Candidates
  <2>2. outbox'[x] = outbox[x] + 1 /\ outbox[x] \in Nat
    BY <1>1, <2>1 DEF TypeOK
  <2>3. outbox'[x] > 0
    BY SMTT(30), <2>2
  <2>4. status'[x] = IF status[x] = "dispatch_failed" THEN "executed" ELSE status[x]
    BY <1>1, <2>1
  <2> QED
    BY <2>1, <2>3, <2>4 DEF Row, Answer
<1>4. ASSUME NEW x \in (Messages \ Restamped) \ R
      PROVE  Same(x)
  <2>1. SameRow(x) /\ handed'[x] = handed[x]
    BY <1>1, <1>2 DEF SameRow, TypeOK
  <2> QED
    BY <2>1, SameMessage
<1>5. /\ [x \in Messages \ Restamped |-> Row(x)'] =
           [x \in Messages \ Restamped |->
              IF x \in R /\ Row(x) = "dispatch_failed" THEN "executed" ELSE Row(x)]
      /\ [x \in Messages \ Restamped |-> Answer(x)'] =
           [x \in Messages \ Restamped |-> IF x \in R THEN "queued" ELSE Answer(x)]
  BY <1>3, <1>4 DEF Same
<1>6. Lifecycle!Recover(R)
  BY <1>2, <1>3, <1>5 DEF Lifecycle!Recover, Row, Answer, Candidates
<1> QED
  BY <1>6 DEF Lifecycle!Next

(* Every step is a step of MessageLifecycle, or changes nothing of it.      *)
LEMMA LifecycleStep ==
    /\ TypeOK /\ Decided /\ PaidByRow /\ AllTimely /\ AllOneRow /\ Spoken /\ AllOwned /\ AllTimely' /\ [Next]_vars
    => [Lifecycle!Next]_(Lifecycle!vars)
<1>1. SUFFICES ASSUME TypeOK, Decided, PaidByRow, AllTimely, AllOneRow, Spoken, AllOwned, AllTimely', [Next]_vars
               PROVE  Lifecycle!Next \/ UNCHANGED Lifecycle!vars
  OBVIOUS
<1>2. ASSUME NEW r \in Requests,
             \/ InsertIdempotency(r) \/ Execute(r) \/ EnqueueOutbound(r)
             \/ ReenqueueDuplicate(r) \/ UpdateMessageStatus(r)
      PROVE  Lifecycle!Next \/ UNCHANGED Lifecycle!vars
  <2>1. pc[r] # "idle"
    BY <1>2 DEF InsertIdempotency, Execute, EnqueueOutbound, ReenqueueDuplicate, UpdateMessageStatus
  <2>2. Msg(r) \in Messages
    BY <1>1, <2>1, MsgType
  <2>3. \A x \in Messages : x # Msg(r) => Same(x)
    BY <1>1, <1>2, <2>1, OthersSame
  <2>4. CASE Msg(r) \in Restamped
    BY <2>3, <2>4, NoneMoves
  <2>5. CASE Msg(r) \notin Restamped
    <3>1. /\ OneRow(Msg(r)) /\ OwnedBy(Msg(r), r) /\ lives[Msg(r)] <= 1
      BY <1>1, <2>2, <2>5 DEF AllOneRow, AllOwned, AllTimely, Timely
    <3>2. lives'[Msg(r)] <= 1
      BY <1>1, <2>2, <2>5 DEF AllTimely, Timely
    <3>3. LifeStep(Msg(r))
      BY <1>1, <1>2, <2>2, <3>1, <3>2, InsertLife, ExecuteLife, EnqueueLife, UpdateLife
    <3> QED
      BY <2>2, <2>3, <2>5, <3>3, OneMoves
  <2> QED
    BY <2>4, <2>5
<1>3. ASSUME NEW d \in Messages, DeleteExpiredMessage(d)
      PROVE  Lifecycle!Next \/ UNCHANGED Lifecycle!vars
  <2>1. UNCHANGED <<lives, handed>> /\ status[d] # "none"
    BY <1>3 DEF DeleteExpiredMessage
  <2>2. ASSUME NEW x \in Messages, x # d
        PROVE  Same(x)
    <3>1. SameRow(x)
      BY <1>1, <1>3, <2>1, <2>2 DEF DeleteExpiredMessage, TypeOK, SameRow
    <3> QED
      BY <2>1, <3>1, SameMessage
  <2>3. CASE d \in Restamped
    BY <2>2, <2>3, NoneMoves
  <2>4. CASE d \notin Restamped
    <3>1. lives[d] # 0
      BY <1>1, <2>1, <2>4 DEF AllOneRow, OneRow, Fresh
    <3>2. status'[d] = "none" /\ outbox'[d] = 0
      BY <1>1, <1>3 DEF DeleteExpiredMessage, TypeOK
    <3>3. ~(0 > 0)
      BY SMTT(30)
    <3>4. Answer(d)' = "none" /\ Row(d)' = "gone"
      BY <2>1, <3>1, <3>2, <3>3 DEF Answer, Row, Candidates
    <3>5. Row(d) \notin {"new", "gone"}
      BY <1>1, <2>1 DEF Row, TypeOK, Statuses
    <3>6. LifeStep(d)
      BY <2>1, <3>4, <3>5 DEF LifeStep
    <3> QED
      BY <2>2, <2>4, <3>6, OneMoves
  <2> QED
    BY <2>3, <2>4
<1>4. ASSUME \/ \E r \in Requests, b \in Batches : Deliver(r, b)
             \/ \E r \in Requests : ReplayCheck(r) \/ LookupDuplicate(r) \/ Abandon(r)
             \/ Tick
             \/ UNCHANGED vars
      PROVE  UNCHANGED Lifecycle!vars
  <2>1. UNCHANGED <<rowVars, lives, handed>>
    BY <1>4 DEF Deliver, ReplayCheck, LookupDuplicate, Abandon, Tick, vars
  <2>2. \A x \in Messages : Same(x)
    BY <2>1, SameMessage DEF rowVars, SameRow
  <2> QED
    BY <2>2, NoneMoves
<1> QED
  BY <1>1, <1>2, <1>3, <1>4, RecoverLife DEF Next, HandleWebhook

(* HandleWebhook under redelivery and failure, the recovery and the         *)
(* retention implement MessageLifecycle for every message that carries its  *)
(* own time, if the replay window fits into the retention.                  *)
THEOREM ImplementsMessageLifecycle == ASSUME WindowFits PROVE Spec => KeepsMessageLifecycle
<1>1. Init => TypeOK /\ Decided /\ Spoken
  BY SMTT(30), ConstantsAssumption DEF Init, TypeOK, Statuses, PCs, Decided, Spoken
<1>2. Init => AllTimely
  BY SMTT(30), ConstantsAssumption DEF Init, AllTimely, RequestsLive, Timely
<1>3. Init => AllOwned
  BY DEF Init, AllOwned, OwnedBy
<1>4. Init => Lifecycle!Init
  <2>1. SUFFICES ASSUME Init PROVE Lifecycle!Init
    OBVIOUS
  <2>2. ASSUME NEW m \in Messages
        PROVE  Row(m) = "new" /\ handed[m] = 0 /\ Answer(m) = "none"
    BY SMTT(30), <2>1 DEF Init, Row, Answer, Candidates
  <2> QED
    BY <2>2 DEF Lifecycle!Init, Row, Answer, Candidates
<1>5. TypeOK /\ Decided /\ AllTimely /\ [Next]_vars => AllTimely'
  BY TimelyStep
<1>6. /\ TypeOK /\ Decided /\ PaidByRow /\ AllTimely /\ AllOneRow /\ AllOwned /\ AllTimely' /\ [Next]_vars
      => AllOwned'
  BY OwnedStep
<1>7. Spec => [](TypeOK /\ Decided /\ AllOneRow)
  BY RowsHold
<1> QED
  BY <1>1, <1>2, <1>3, <1>4, <1>5, <1>6, <1>7, PaidInit, PaidStep, SpokenStep, LifecycleStep, PTL
  DEF Spec, KeepsMessageLifecycle, Lifecycle!Spec
=============================================================================
