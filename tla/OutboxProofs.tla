---------------------------- MODULE OutboxProofs ----------------------------
(***************************************************************************)
(* Proofs about Outbox, for any set of jobs, dispatchers and reviews and    *)
(* any batch sizes, timeouts and bounds.                                    *)
(***************************************************************************)
EXTENDS Outbox, FiniteSetTheorems, TLAPS

(* Most steps are for Zenon; those that need the SMT solver say so. *)
USE ZenonT(30)

-----------------------------------------------------------------------------
(* Type correctness.                                                        *)

RowTypes ==
    /\ status   \in [Jobs -> Statuses]
    /\ attempts \in [Jobs -> Nat]
    /\ wait     \in [Jobs -> 0 .. MaxRetryDelay]
    /\ age      \in [Jobs -> 0 .. LockTimeout + 1]

PassTypes ==
    /\ pc      \in [Workers -> PCs]
    /\ batch   \in [Workers -> SUBSET Jobs]
    /\ cur     \in [Workers -> Jobs \cup {NoJob}]
    /\ seen    \in [Workers -> [Jobs -> Nat]]
    /\ outcome \in [Workers -> Outcomes]
    /\ busy    \in [Workers -> 0 .. JobTime]

WorkerTypes == PassTypes /\ window \in [Workers -> SUBSET Jobs]

(* A dispatcher in the middle of a job still has that job in its batch.     *)
CurHeld ==
    \A w \in Workers : pc[w] \in {"send", "mark", "hold"} => cur[w] \in batch[w]

(* Going on with the batch keeps the types of the pass.                     *)
LEMMA NextJobTypes ==
    ASSUME TypeOK, NEW w \in Workers, NEW j \in Jobs, NextJob(w, j)
    PROVE  PassTypes'
<1>1. pc' \in [Workers -> PCs] /\ batch' \in [Workers -> SUBSET Jobs]
  BY DEF NextJob, TypeOK, PCs
<1>2. cur' \in [Workers -> Jobs \cup {NoJob}] /\ outcome' \in [Workers -> Outcomes]
  BY DEF NextJob, TypeOK, Outcomes
<1>3. seen' \in [Workers -> [Jobs -> Nat]]
  BY DEF NextJob, TypeOK
<1>4. busy' \in [Workers -> 0 .. JobTime]
  BY SMTT(30), ConstantsAssumption DEF NextJob, TypeOK
<1> QED
  BY <1>1, <1>2, <1>3, <1>4 DEF PassTypes

(* So does ending it.                                                       *)
LEMMA EndPassTypes ==
    ASSUME TypeOK, NEW w \in Workers, EndPass(w)
    PROVE  WorkerTypes'
  BY SMTT(30), ConstantsAssumption DEF EndPass, TypeOK, WorkerTypes, PassTypes, PCs, Outcomes

(* A Mark statement writes values of the columns' types.                    *)
LEMMA MarkRowTypes ==
    ASSUME TypeOK, NEW w \in Workers, NEW j \in Jobs, NEW new \in Statuses, NEW counted \in {0, 1},
           MarkRow(w, j, new, counted)
    PROVE  /\ status' \in [Jobs -> Statuses]
           /\ attempts' \in [Jobs -> Nat]
           /\ age' \in [Jobs -> 0 .. LockTimeout + 1]
<1>1. status' \in [Jobs -> Statuses]
  BY DEF MarkRow, TypeOK
<1>2. attempts' \in [Jobs -> Nat]
  BY SMTT(30) DEF MarkRow, TypeOK
<1>3. age' \in [Jobs -> 0 .. LockTimeout + 1]
  <2>1. 0 \in 0 .. LockTimeout + 1
    BY SMTT(30), ConstantsAssumption
  <2> QED
    BY <2>1 DEF MarkRow, TypeOK
<1> QED
  BY <1>1, <1>2, <1>3

(* The two outcomes of a Mark together.                                     *)
LEMMA MarkTypes ==
    ASSUME TypeOK, NEW w \in Workers, NEW j \in Jobs, NEW new \in Statuses, NEW counted \in {0, 1},
           Mark(w, j, new, counted)
    PROVE  RowTypes' /\ WorkerTypes'
<1>1. CASE MarkRow(w, j, new, counted) /\ UNCHANGED <<wait, window>>
  <2>1. PassTypes'
    BY <1>1, NextJobTypes DEF MarkRow
  <2> QED
    BY SMTT(30), <1>1, <2>1, MarkRowTypes DEF RowTypes, WorkerTypes, TypeOK
<1>2. CASE MarkNotFound(w, j)
  BY <1>2, EndPassTypes DEF MarkNotFound, RowTypes, TypeOK
<1> QED
  BY <1>1, <1>2 DEF Mark

(* Every variable keeps its type in every step.                             *)
LEMMA TypeStep == TypeOK /\ CurHeld /\ [Next]_vars => TypeOK'
<1>2. SUFFICES ASSUME TypeOK, CurHeld, [Next]_vars PROVE TypeOK'
  OBVIOUS
<1>3. CASE Next
    <2>1. ASSUME NEW j \in Jobs, EnqueueOutbound(j) PROVE TypeOK'
      BY SMTT(30), ConstantsAssumption, <1>2, <2>1 DEF TypeOK, Statuses, PCs, Outcomes, rowVars, reviewVars, workerVars, history, EnqueueOutbound
    <2>2. ASSUME NEW j \in Jobs, RequeueOutboxDead(j) PROVE TypeOK'
      BY SMTT(30), ConstantsAssumption, <1>2, <2>2 DEF TypeOK, Statuses, PCs, Outcomes, rowVars, reviewVars, workerVars, history, RequeueOutboxDead, DueNow
    <2>3. ASSUME NEW j \in Jobs, DeleteExpiredMessage(j) PROVE TypeOK'
      BY SMTT(30), ConstantsAssumption, <1>2, <2>3 DEF TypeOK, Statuses, PCs, Outcomes, rowVars, reviewVars, workerVars, history, DeleteExpiredMessage
    <2>4. ASSUME NEW w \in Workers, RecoverStaleSending(w) PROVE TypeOK'
      BY SMTT(30), ConstantsAssumption, <1>2, <2>4 DEF TypeOK, Statuses, PCs, Outcomes, rowVars, reviewVars, workerVars, history, RecoverStaleSending, Limit, Stale
    <2>5. ASSUME NEW w \in Workers, ClaimNothing(w) PROVE TypeOK'
      BY ConstantsAssumption, <1>2, <2>5 DEF TypeOK, Statuses, PCs, Outcomes, rowVars, reviewVars, workerVars, history, ClaimNothing
    <2>6. ASSUME NEW w \in Workers, ClaimPendingOutbox(w) PROVE TypeOK'
      BY SMTT(30), ConstantsAssumption, <1>2, <2>6 DEF TypeOK, Statuses, PCs, Outcomes, rowVars, reviewVars, workerVars, history, ClaimPendingOutbox, Limit, Due
    <2>7. ASSUME NEW w \in Workers, NEW j \in Jobs, BlockJob(w, j) PROVE TypeOK'
      <3>1. Mark(w, j, "dead", 1)
        BY <2>7 DEF BlockJob
      <3>2. RowTypes' /\ WorkerTypes'
        <4>1. j \in Jobs
          BY <2>7, <1>2 DEF BlockJob, CurHeld, TypeOK
        <4> QED
          BY <3>1, <4>1, <1>2, MarkTypes DEF Statuses
      <3> QED
        BY <2>7, <3>2, <1>2 DEF BlockJob, RowTypes, WorkerTypes, PassTypes, TypeOK, Statuses, PCs, Outcomes, rowVars, reviewVars, workerVars, history
    <2>8. ASSUME NEW w \in Workers, NEW j \in Jobs, CreateReview(w, j) PROVE TypeOK'
      BY SMTT(30), ConstantsAssumption, <1>2, <2>8 DEF TypeOK, Statuses, PCs, Outcomes, rowVars, reviewVars, workerVars, history, CreateReview
    <2>9. ASSUME NEW w \in Workers, NEW j \in Jobs, CreateReviewRefused(w, j) PROVE TypeOK'
      BY SMTT(30), ConstantsAssumption, <1>2, <2>9 DEF TypeOK, Statuses, PCs, Outcomes, rowVars, reviewVars, workerVars, history, CreateReviewRefused, EndPass
    <2>10. ASSUME NEW w \in Workers, NEW j \in Jobs, Send(w, j) PROVE TypeOK'
      BY ConstantsAssumption, <1>2, <2>10 DEF TypeOK, Statuses, PCs, Outcomes, rowVars, reviewVars, workerVars, history, Send
    <2>11. ASSUME NEW w \in Workers, SendReturns(w) PROVE TypeOK'
      <3>1. outcome' \in [Workers -> Outcomes]
        BY <2>11, <1>2 DEF SendReturns, TypeOK, Outcomes
      <3>2. provider' \in [Jobs -> {"untouched", "called", "accepted"}]
        BY <2>11, <1>2 DEF SendReturns, TypeOK
      <3>3. pc' \in [Workers -> PCs]
        BY <2>11, <1>2 DEF SendReturns, TypeOK, PCs
      <3> QED
        BY <2>11, <3>1, <3>2, <3>3, <1>2 DEF SendReturns, TypeOK, rowVars, reviewVars
    <2>12. ASSUME NEW w \in Workers, MarkOutboxSent(w) PROVE TypeOK'
      <3>1. Mark(w, cur[w], "sent", 0)
        BY <2>12 DEF MarkOutboxSent
      <3>2. RowTypes' /\ WorkerTypes'
        <4>1. cur[w] \in Jobs
          BY <2>12, <1>2 DEF MarkOutboxSent, CurHeld, TypeOK
        <4> QED
          BY <3>1, <4>1, <1>2, MarkTypes DEF Statuses
      <3> QED
        BY <2>12, <3>2, <1>2 DEF MarkOutboxSent, RowTypes, WorkerTypes, PassTypes, TypeOK, Statuses, PCs, Outcomes, rowVars, reviewVars, workerVars, history
    <2>13. ASSUME NEW w \in Workers, MarkOutboxDead(w) PROVE TypeOK'
      <3>1. Mark(w, cur[w], "dead", 1)
        BY <2>13 DEF MarkOutboxDead
      <3>2. RowTypes' /\ WorkerTypes'
        <4>1. cur[w] \in Jobs
          BY <2>13, <1>2 DEF MarkOutboxDead, CurHeld, TypeOK
        <4> QED
          BY <3>1, <4>1, <1>2, MarkTypes DEF Statuses
      <3> QED
        BY <2>13, <3>2, <1>2 DEF MarkOutboxDead, RowTypes, WorkerTypes, PassTypes, TypeOK, Statuses, PCs, Outcomes, rowVars, reviewVars, workerVars, history
    <2>14. ASSUME NEW w \in Workers, MarkOutboxRetry(w) PROVE TypeOK'
      <3>0. cur[w] \in Jobs
        BY <2>14, <1>2 DEF MarkOutboxRetry, CurHeld, TypeOK
      <3>1. CASE MarkRow(w, cur[w], "pending", 1)
        <4>1. status' \in [Jobs -> Statuses] /\ attempts' \in [Jobs -> Nat] /\ age' \in [Jobs -> 0 .. LockTimeout + 1]
          BY <3>0, <3>1, <1>2, MarkRowTypes DEF Statuses
        <4>2. PassTypes'
          BY <3>0, <3>1, <1>2, NextJobTypes DEF MarkRow
        <4>3. PICK d \in 0 .. MaxRetryDelay, V \in SUBSET (Workers \ {w}) :
                /\ wait' = [wait EXCEPT ![cur[w]] = d]
                /\ window' = [v \in Workers |-> IF v \in V THEN window[v] ELSE window[v] \ {cur[w]}]
          BY <2>14, <3>1 DEF MarkOutboxRetry, MarkRow, MarkNotFound
        <4>4. wait' \in [Jobs -> 0 .. MaxRetryDelay] /\ window' \in [Workers -> SUBSET Jobs]
          BY <4>3, <1>2 DEF TypeOK
        <4> QED
          BY <2>14, <4>1, <4>2, <4>4, <1>2 DEF MarkOutboxRetry, PassTypes, TypeOK, Statuses, PCs, Outcomes, rowVars, reviewVars, workerVars, history
      <3>2. CASE MarkNotFound(w, cur[w])
        BY <2>14, <3>2, <1>2, ConstantsAssumption, EndPassTypes DEF MarkOutboxRetry, MarkNotFound, WorkerTypes, PassTypes, TypeOK, Statuses, PCs, Outcomes, rowVars, reviewVars, workerVars, history
      <3> QED
        BY <2>14, <3>1, <3>2 DEF MarkOutboxRetry
    <2>15. ASSUME NEW w \in Workers, MarkOutboxPendingApproval(w) PROVE TypeOK'
      <3>1. Mark(w, cur[w], "pending_approval", 0)
        BY <2>15 DEF MarkOutboxPendingApproval
      <3>2. RowTypes' /\ WorkerTypes'
        <4>1. cur[w] \in Jobs
          BY <2>15, <1>2 DEF MarkOutboxPendingApproval, CurHeld, TypeOK
        <4> QED
          BY <3>1, <4>1, <1>2, MarkTypes DEF Statuses
      <3> QED
        BY <2>15, <3>2, <1>2 DEF MarkOutboxPendingApproval, RowTypes, WorkerTypes, PassTypes, TypeOK, Statuses, PCs, Outcomes, rowVars, reviewVars, workerVars, history
    <2>16. ASSUME NEW w \in Workers, AbortPass(w) PROVE TypeOK'
      BY SMTT(30), ConstantsAssumption, <1>2, <2>16 DEF TypeOK, Statuses, PCs, Outcomes, rowVars, reviewVars, workerVars, history, AbortPass, EndPass
    <2>17. ASSUME NEW r \in Reviews, NEW d \in {"approved", "denied"}, ResolveReview(r, d) PROVE TypeOK'
      BY ConstantsAssumption, <1>2, <2>17 DEF TypeOK, Statuses, PCs, Outcomes, rowVars, reviewVars, workerVars, history, ResolveReview
    <2>18. ASSUME NEW r \in Reviews, UpdateLinkedOutbox(r) PROVE TypeOK'
      <3>1. applying' \in [Reviews -> BOOLEAN] /\ status' \in [Jobs -> Statuses] /\ released' \in [Jobs -> BOOLEAN]
        BY ZenonT(60), <2>18, <1>2 DEF UpdateLinkedOutbox, DueNow, TypeOK, Statuses
      <3>2. wait' \in [Jobs -> 0 .. MaxRetryDelay] /\ window' \in [Workers -> SUBSET Jobs]
        <4>1. 0 \in 0 .. MaxRetryDelay
          BY SMTT(30), ConstantsAssumption
        <4>2. CASE DueNow(reviewJob[r])
          BY <4>1, <4>2, <1>2 DEF DueNow, TypeOK
        <4>3. CASE UNCHANGED <<wait, window>>
          BY <4>3, <1>2 DEF TypeOK
        <4> QED
          BY <2>18, <4>2, <4>3 DEF UpdateLinkedOutbox
      <3> QED
        BY <2>18, <3>1, <3>2, <1>2 DEF UpdateLinkedOutbox, TypeOK
    <2>19. ASSUME NEW r \in Reviews, ResolverDies(r) PROVE TypeOK'
      BY SMTT(30), ConstantsAssumption, <1>2, <2>19 DEF TypeOK, Statuses, PCs, Outcomes, rowVars, reviewVars, workerVars, history, ResolverDies
    <2>20. CASE Tick
      <3>1. busy' \in [Workers -> 0 .. JobTime]
        <4>1. ASSUME NEW v \in Workers PROVE busy'[v] \in 0 .. JobTime
          <5>1. busy[v] \in Nat /\ busy[v] <= JobTime /\ JobTime \in Nat
            BY SMTT(30), <1>2, ConstantsAssumption DEF TypeOK
          <5>2. CASE batch[v] = {}
            BY SMTT(30), <2>20, <5>1, <5>2 DEF Tick
          <5>3. CASE batch[v] # {}
            <6>1. busy[v] < JobTime /\ busy'[v] = busy[v] + 1
              BY <2>20, <5>3 DEF Tick
            <6> QED
              BY SMTT(30), <5>1, <6>1
          <5> QED
            BY <5>2, <5>3
        <4> QED
          BY <2>20, <4>1 DEF Tick
      <3>2. wait' \in [Jobs -> 0 .. MaxRetryDelay]
        <4>1. ASSUME NEW k \in Jobs PROVE wait'[k] \in 0 .. MaxRetryDelay
          BY SMTT(30), <2>20, <1>2, ConstantsAssumption DEF Tick, TypeOK
        <4> QED
          BY <2>20, <4>1 DEF Tick
      <3>3. age' \in [Jobs -> 0 .. LockTimeout + 1]
        <4>1. ASSUME NEW k \in Jobs PROVE age'[k] \in 0 .. LockTimeout + 1
          BY SMTT(30), <2>20, <1>2, ConstantsAssumption DEF Tick, TypeOK
        <4> QED
          BY <2>20, <4>1 DEF Tick
      <3> QED
        BY <2>20, <3>1, <3>2, <3>3, <1>2 DEF Tick, TypeOK, reviewVars, history
    <2> QED
      BY <1>3, <2>1, <2>2, <2>3, <2>4, <2>5, <2>6, <2>7, <2>8, <2>9, <2>10, <2>11, <2>12, <2>13, <2>14, <2>15, <2>16, <2>17, <2>18, <2>19, <2>20 DEF Next, DispatchOnce
<1>4. CASE UNCHANGED vars
  BY <1>2, <1>4 DEF TypeOK, vars, rowVars, reviewVars, workerVars, history
<1> QED
  BY <1>2, <1>3, <1>4

(* The five steps that mark the row of a claimed job.                       *)
MarkAction(w) ==
    \/ \E j \in Jobs : BlockJob(w, j)
    \/ MarkOutboxSent(w)
    \/ MarkOutboxDead(w)
    \/ MarkOutboxRetry(w)
    \/ MarkOutboxPendingApproval(w)

(* Dispatcher v is where it was, with what it had.                          *)
SameFor(v) ==
    /\ pc'[v] = pc[v]
    /\ batch'[v] = batch[v]
    /\ cur'[v] = cur[v]
    /\ seen'[v] = seen[v]
    /\ outcome'[v] = outcome[v]
    /\ busy'[v] = busy[v]

(* What they have in common: dispatcher w is done with job j, whose row     *)
(* either left sending by this step or was not sending any more.            *)
MarkEffect(w, j) ==
    /\ j \in batch[w]
    /\ pc'[w] \in {"idle", "claim", "job"}
    /\ batch'[w] \subseteq batch[w] \ {j}
    /\ batch'[w] = {} \/ batch'[w] = batch[w] \ {j}
    /\ busy'[w] = 0
    /\ \A k \in batch'[w] : seen'[w][k] = seen[w][k]
    /\ \A v \in Workers : v # w => SameFor(v)
    /\ \A k \in Jobs : k # j => /\ status'[k] = status[k]
                                /\ age'[k] = age[k]
                                /\ attempts'[k] = attempts[k]
    /\ \/ status[j] # "sending" /\ UNCHANGED <<status, age, attempts>>
       \/ /\ status[j] = "sending"
          /\ status'[j] \in {"sent", "dead", "pending", "pending_approval"}
    /\ UNCHANGED <<verdict, reviewVars, history>>

(* Going on with the batch, or ending the pass, has this effect on w.       *)
LEMMA NextJobEffect ==
    ASSUME TypeOK, NEW w \in Workers, NEW j \in batch[w], NextJob(w, j)
    PROVE  /\ pc'[w] \in {"claim", "job"}
           /\ batch'[w] = batch[w] \ {j}
           /\ busy'[w] = 0
           /\ \A k \in batch'[w] : seen'[w][k] = seen[w][k]
           /\ \A v \in Workers : v # w => SameFor(v)
<1>1. pc'[w] \in {"claim", "job"} /\ batch'[w] = batch[w] \ {j} /\ busy'[w] = 0
  BY DEF NextJob, TypeOK
<1>2. \A k \in batch'[w] : seen'[w][k] = seen[w][k]
  BY <1>1 DEF NextJob, TypeOK
<1>3. \A v \in Workers : v # w => SameFor(v)
  BY DEF NextJob, TypeOK, SameFor
<1> QED
  BY <1>1, <1>2, <1>3

(* Every marking step has that effect on some job.                          *)
LEMMA MarkHasEffect ==
    ASSUME TypeOK, CurHeld, NEW w \in Workers, MarkAction(w)
    PROVE  \E j \in Jobs : MarkEffect(w, j)
<1> DEFINE Marked(k) ==
        /\ k \in batch[w]
        /\ \/ \E new \in {"sent", "dead", "pending", "pending_approval"}, c \in {0, 1} : MarkRow(w, k, new, c)
           \/ MarkNotFound(w, k)
        /\ UNCHANGED <<verdict, reviewVars, history>>
<1>1. PICK j \in Jobs : Marked(j)
  <2>1. ASSUME NEW k \in Jobs, BlockJob(w, k) PROVE Marked(k)
    BY <2>1 DEF BlockJob, Mark
  <2>2. CASE ~ \E j \in Jobs : BlockJob(w, j)
    <3>1. cur[w] \in batch[w] /\ cur[w] \in Jobs
      BY <2>2 DEF MarkAction, MarkOutboxSent, MarkOutboxDead, MarkOutboxRetry, MarkOutboxPendingApproval, CurHeld, TypeOK
    <3> QED
      BY <2>2, <3>1 DEF MarkAction, MarkOutboxSent, MarkOutboxDead, MarkOutboxRetry, MarkOutboxPendingApproval, Mark
  <2> QED
    BY <2>1, <2>2
<1>2. ASSUME NEW new \in {"sent", "dead", "pending", "pending_approval"}, NEW c \in {0, 1}, MarkRow(w, j, new, c)
      PROVE  MarkEffect(w, j)
  <2>1. NextJob(w, j)
    BY <1>2 DEF MarkRow
  <2>2. \A k \in Jobs : k # j => status'[k] = status[k] /\ age'[k] = age[k] /\ attempts'[k] = attempts[k]
    BY <1>2 DEF MarkRow, TypeOK
  <2>3. status[j] = "sending" /\ status'[j] = new
    BY <1>2 DEF MarkRow, TypeOK
  <2> QED
    BY <1>1, <2>1, <2>2, <2>3, NextJobEffect DEF MarkEffect
<1>3. CASE MarkNotFound(w, j)
  <2>1. pc'[w] = "idle" /\ batch'[w] = {} /\ busy'[w] = 0 /\ \A v \in Workers : v # w => SameFor(v)
    BY <1>3 DEF MarkNotFound, EndPass, SameFor, TypeOK
  <2> QED
    BY <1>1, <1>3, <2>1 DEF MarkNotFound, MarkEffect
<1> QED
  BY <1>1, <1>2, <1>3

(* A job leaves a batch only when its dispatcher moves on or gives up.      *)
LEMMA CurStep == TypeOK /\ CurHeld /\ [Next]_vars => CurHeld'
<1>1. SUFFICES ASSUME TypeOK, CurHeld, [Next]_vars PROVE CurHeld'
  OBVIOUS
<1>2. CASE Next
    <2>1. ASSUME NEW j \in Jobs, EnqueueOutbound(j) PROVE CurHeld'
      BY <1>1, <2>1 DEF CurHeld, TypeOK, rowVars, reviewVars, workerVars, history, EnqueueOutbound
    <2>2. ASSUME NEW j \in Jobs, RequeueOutboxDead(j) PROVE CurHeld'
      BY <1>1, <2>2 DEF CurHeld, TypeOK, rowVars, reviewVars, workerVars, history, RequeueOutboxDead, DueNow
    <2>3. ASSUME NEW j \in Jobs, DeleteExpiredMessage(j) PROVE CurHeld'
      BY <1>1, <2>3 DEF CurHeld, TypeOK, rowVars, reviewVars, workerVars, history, DeleteExpiredMessage
    <2>4. ASSUME NEW w \in Workers, RecoverStaleSending(w) PROVE CurHeld'
      BY <1>1, <2>4 DEF CurHeld, TypeOK, rowVars, reviewVars, workerVars, history, RecoverStaleSending, Limit, Stale
    <2>5. ASSUME NEW w \in Workers, ClaimNothing(w) PROVE CurHeld'
      BY <1>1, <2>5 DEF CurHeld, TypeOK, rowVars, reviewVars, workerVars, history, ClaimNothing
    <2>6. ASSUME NEW w \in Workers, ClaimPendingOutbox(w) PROVE CurHeld'
      BY <1>1, <2>6 DEF CurHeld, TypeOK, rowVars, reviewVars, workerVars, history, ClaimPendingOutbox, Limit, Due
    <2>7. ASSUME NEW w \in Workers, NEW j \in Jobs, CreateReview(w, j) PROVE CurHeld'
      BY <1>1, <2>7 DEF CurHeld, TypeOK, rowVars, reviewVars, workerVars, history, CreateReview
    <2>8. ASSUME NEW w \in Workers, NEW j \in Jobs, CreateReviewRefused(w, j) PROVE CurHeld'
      BY <1>1, <2>8 DEF CurHeld, TypeOK, rowVars, reviewVars, workerVars, history, CreateReviewRefused, EndPass
    <2>9. ASSUME NEW w \in Workers, NEW j \in Jobs, Send(w, j) PROVE CurHeld'
      BY <1>1, <2>9 DEF CurHeld, TypeOK, rowVars, reviewVars, workerVars, history, Send
    <2>10. ASSUME NEW w \in Workers, SendReturns(w) PROVE CurHeld'
      BY SMTT(30), <1>1, <2>10 DEF CurHeld, TypeOK, rowVars, reviewVars, workerVars, history, SendReturns
    <2>11. ASSUME NEW w \in Workers, AbortPass(w) PROVE CurHeld'
      BY <1>1, <2>11 DEF CurHeld, TypeOK, rowVars, reviewVars, workerVars, history, AbortPass, EndPass
    <2>12. ASSUME NEW r \in Reviews, NEW d \in {"approved", "denied"}, ResolveReview(r, d) PROVE CurHeld'
      BY <1>1, <2>12 DEF CurHeld, TypeOK, rowVars, reviewVars, workerVars, history, ResolveReview
    <2>13. ASSUME NEW r \in Reviews, UpdateLinkedOutbox(r) PROVE CurHeld'
      BY <1>1, <2>13 DEF CurHeld, TypeOK, rowVars, reviewVars, workerVars, history, UpdateLinkedOutbox, DueNow
    <2>14. ASSUME NEW r \in Reviews, ResolverDies(r) PROVE CurHeld'
      BY <1>1, <2>14 DEF CurHeld, TypeOK, rowVars, reviewVars, workerVars, history, ResolverDies
    <2>15. CASE Tick
      BY <1>1, <2>15 DEF CurHeld, TypeOK, rowVars, reviewVars, workerVars, history, Tick
    <2>16. ASSUME NEW w \in Workers, MarkAction(w) PROVE CurHeld'
      <3>1. PICK j \in Jobs : MarkEffect(w, j)
        BY <1>1, <2>16, MarkHasEffect
      <3> QED
        BY <1>1, <3>1 DEF MarkEffect, SameFor, CurHeld, TypeOK, rowVars, reviewVars, workerVars, history
    <2> QED
      BY <1>2, <2>1, <2>2, <2>3, <2>4, <2>5, <2>6, <2>7, <2>8, <2>9, <2>10, <2>11, <2>12, <2>13, <2>14, <2>15, <2>16 DEF Next, DispatchOnce, MarkAction
<1>3. CASE UNCHANGED vars
  BY <1>1, <1>3 DEF CurHeld, TypeOK, rowVars, reviewVars, workerVars, history, vars
<1> QED
  BY <1>1, <1>2, <1>3

-----------------------------------------------------------------------------
(* What was handed to a provider, and what was accepted.                    *)

(* A claimed job has, or had, a row.                                        *)
BatchQueued ==
    \A w \in Workers : \A j \in batch[w] : status[j] # "none"

(* Send is called for rows that exist, and only without findings.           *)
HandedClean ==
    \A j \in Jobs : provider[j] # "untouched" => status[j] # "none" /\ verdict[j] = "clean"

(* While Send runs, the history knows of it; once it succeeded, of that.    *)
SendKnown ==
    \A w \in Workers :
        /\ pc[w] = "send" => provider[cur[w]] # "untouched"
        /\ pc[w] = "mark" /\ outcome[w] = "ok" => provider[cur[w]] = "accepted"

(* Rows are never un-inserted.                                              *)
LEMMA BatchStep == TypeOK /\ CurHeld /\ BatchQueued /\ [Next]_vars => BatchQueued'
<1>1. SUFFICES ASSUME TypeOK, CurHeld, BatchQueued, [Next]_vars PROVE BatchQueued'
  OBVIOUS
<1>2. CASE Next
    <2>1. ASSUME NEW j \in Jobs, EnqueueOutbound(j) PROVE BatchQueued'
      BY <1>1, <2>1 DEF BatchQueued, CurHeld, TypeOK, rowVars, reviewVars, workerVars, history, EnqueueOutbound
    <2>2. ASSUME NEW j \in Jobs, RequeueOutboxDead(j) PROVE BatchQueued'
      BY <1>1, <2>2 DEF BatchQueued, CurHeld, TypeOK, rowVars, reviewVars, workerVars, history, RequeueOutboxDead, DueNow
    <2>3. ASSUME NEW j \in Jobs, DeleteExpiredMessage(j) PROVE BatchQueued'
      BY <1>1, <2>3 DEF BatchQueued, CurHeld, TypeOK, rowVars, reviewVars, workerVars, history, DeleteExpiredMessage
    <2>4. ASSUME NEW w \in Workers, RecoverStaleSending(w) PROVE BatchQueued'
      BY SMTT(30), <1>1, <2>4 DEF BatchQueued, CurHeld, TypeOK, rowVars, reviewVars, workerVars, history, RecoverStaleSending, Limit, Stale
    <2>5. ASSUME NEW w \in Workers, ClaimNothing(w) PROVE BatchQueued'
      BY <1>1, <2>5 DEF BatchQueued, CurHeld, TypeOK, rowVars, reviewVars, workerVars, history, ClaimNothing
    <2>6. ASSUME NEW w \in Workers, ClaimPendingOutbox(w) PROVE BatchQueued'
      BY SMTT(30), <1>1, <2>6 DEF BatchQueued, CurHeld, TypeOK, rowVars, reviewVars, workerVars, history, ClaimPendingOutbox, Limit, Due
    <2>7. ASSUME NEW w \in Workers, NEW j \in Jobs, CreateReview(w, j) PROVE BatchQueued'
      BY <1>1, <2>7 DEF BatchQueued, CurHeld, TypeOK, rowVars, reviewVars, workerVars, history, CreateReview
    <2>8. ASSUME NEW w \in Workers, NEW j \in Jobs, CreateReviewRefused(w, j) PROVE BatchQueued'
      BY <1>1, <2>8 DEF BatchQueued, CurHeld, TypeOK, rowVars, reviewVars, workerVars, history, CreateReviewRefused, EndPass
    <2>9. ASSUME NEW w \in Workers, NEW j \in Jobs, Send(w, j) PROVE BatchQueued'
      BY <1>1, <2>9 DEF BatchQueued, CurHeld, TypeOK, rowVars, reviewVars, workerVars, history, Send
    <2>10. ASSUME NEW w \in Workers, SendReturns(w) PROVE BatchQueued'
      BY SMTT(30), <1>1, <2>10 DEF BatchQueued, CurHeld, TypeOK, rowVars, reviewVars, workerVars, history, SendReturns
    <2>11. ASSUME NEW w \in Workers, AbortPass(w) PROVE BatchQueued'
      BY SMTT(30), <1>1, <2>11 DEF BatchQueued, CurHeld, TypeOK, rowVars, reviewVars, workerVars, history, AbortPass, EndPass
    <2>12. ASSUME NEW r \in Reviews, NEW d \in {"approved", "denied"}, ResolveReview(r, d) PROVE BatchQueued'
      BY <1>1, <2>12 DEF BatchQueued, CurHeld, TypeOK, rowVars, reviewVars, workerVars, history, ResolveReview
    <2>13. ASSUME NEW r \in Reviews, UpdateLinkedOutbox(r) PROVE BatchQueued'
      BY SMTT(30), <1>1, <2>13 DEF BatchQueued, CurHeld, TypeOK, rowVars, reviewVars, workerVars, history, UpdateLinkedOutbox, DueNow
    <2>14. ASSUME NEW r \in Reviews, ResolverDies(r) PROVE BatchQueued'
      BY <1>1, <2>14 DEF BatchQueued, CurHeld, TypeOK, rowVars, reviewVars, workerVars, history, ResolverDies
    <2>15. CASE Tick
      BY <1>1, <2>15 DEF BatchQueued, CurHeld, TypeOK, rowVars, reviewVars, workerVars, history, Tick
    <2>16. ASSUME NEW w \in Workers, MarkAction(w) PROVE BatchQueued'
      <3>1. PICK j \in Jobs : MarkEffect(w, j)
        BY <1>1, <2>16, MarkHasEffect
      <3>2. \A k \in Jobs : status[k] # "none" => status'[k] # "none"
        BY <3>1 DEF MarkEffect
      <3>3. \A v \in Workers : batch'[v] \subseteq batch[v] /\ batch[v] \subseteq Jobs
        BY <1>1, <3>1 DEF MarkEffect, SameFor, TypeOK
      <3> QED
        BY <1>1, <3>2, <3>3 DEF BatchQueued
    <2> QED
      BY <1>2, <2>1, <2>2, <2>3, <2>4, <2>5, <2>6, <2>7, <2>8, <2>9, <2>10, <2>11, <2>12, <2>13, <2>14, <2>15, <2>16 DEF Next, DispatchOnce, MarkAction
<1>3. CASE UNCHANGED vars
  BY <1>1, <1>3 DEF BatchQueued, CurHeld, TypeOK, rowVars, reviewVars, workerVars, history, vars
<1> QED
  BY <1>1, <1>2, <1>3

(* A payload is scanned before each call and does not change.               *)
LEMMA HandedStep == TypeOK /\ CurHeld /\ BatchQueued /\ SendKnown /\ HandedClean /\ [Next]_vars => HandedClean'
<1>1. SUFFICES ASSUME TypeOK, CurHeld, BatchQueued, SendKnown, HandedClean, [Next]_vars PROVE HandedClean'
  OBVIOUS
<1>2. CASE Next
    <2>1. ASSUME NEW j \in Jobs, EnqueueOutbound(j) PROVE HandedClean'
      BY SMTT(30), <1>1, <2>1 DEF HandedClean, SendKnown, BatchQueued, CurHeld, TypeOK, rowVars, reviewVars, workerVars, history, EnqueueOutbound
    <2>2. ASSUME NEW j \in Jobs, RequeueOutboxDead(j) PROVE HandedClean'
      BY <1>1, <2>2 DEF HandedClean, SendKnown, BatchQueued, CurHeld, TypeOK, rowVars, reviewVars, workerVars, history, RequeueOutboxDead, DueNow
    <2>3. ASSUME NEW j \in Jobs, DeleteExpiredMessage(j) PROVE HandedClean'
      BY SMTT(30), <1>1, <2>3 DEF HandedClean, SendKnown, BatchQueued, CurHeld, TypeOK, rowVars, reviewVars, workerVars, history, DeleteExpiredMessage
    <2>4. ASSUME NEW w \in Workers, RecoverStaleSending(w) PROVE HandedClean'
      BY SMTT(30), <1>1, <2>4 DEF HandedClean, SendKnown, BatchQueued, CurHeld, TypeOK, rowVars, reviewVars, workerVars, history, RecoverStaleSending, Limit, Stale
    <2>5. ASSUME NEW w \in Workers, ClaimNothing(w) PROVE HandedClean'
      BY <1>1, <2>5 DEF HandedClean, SendKnown, BatchQueued, CurHeld, TypeOK, rowVars, reviewVars, workerVars, history, ClaimNothing
    <2>6. ASSUME NEW w \in Workers, ClaimPendingOutbox(w) PROVE HandedClean'
      BY SMTT(30), <1>1, <2>6 DEF HandedClean, SendKnown, BatchQueued, CurHeld, TypeOK, rowVars, reviewVars, workerVars, history, ClaimPendingOutbox, Limit, Due
    <2>7. ASSUME NEW w \in Workers, NEW j \in Jobs, CreateReview(w, j) PROVE HandedClean'
      BY <1>1, <2>7 DEF HandedClean, SendKnown, BatchQueued, CurHeld, TypeOK, rowVars, reviewVars, workerVars, history, CreateReview
    <2>8. ASSUME NEW w \in Workers, NEW j \in Jobs, CreateReviewRefused(w, j) PROVE HandedClean'
      BY <1>1, <2>8 DEF HandedClean, SendKnown, BatchQueued, CurHeld, TypeOK, rowVars, reviewVars, workerVars, history, CreateReviewRefused, EndPass
    <2>9. ASSUME NEW w \in Workers, NEW j \in Jobs, Send(w, j) PROVE HandedClean'
      BY SMTT(30), <1>1, <2>9 DEF HandedClean, SendKnown, BatchQueued, CurHeld, TypeOK, rowVars, reviewVars, workerVars, history, Send
    <2>10. ASSUME NEW w \in Workers, SendReturns(w) PROVE HandedClean'
      BY SMTT(30), <1>1, <2>10 DEF HandedClean, SendKnown, BatchQueued, CurHeld, TypeOK, rowVars, reviewVars, workerVars, history, SendReturns
    <2>11. ASSUME NEW w \in Workers, AbortPass(w) PROVE HandedClean'
      BY SMTT(30), <1>1, <2>11 DEF HandedClean, SendKnown, BatchQueued, CurHeld, TypeOK, rowVars, reviewVars, workerVars, history, AbortPass, EndPass
    <2>12. ASSUME NEW r \in Reviews, NEW d \in {"approved", "denied"}, ResolveReview(r, d) PROVE HandedClean'
      BY <1>1, <2>12 DEF HandedClean, SendKnown, BatchQueued, CurHeld, TypeOK, rowVars, reviewVars, workerVars, history, ResolveReview
    <2>13. ASSUME NEW r \in Reviews, UpdateLinkedOutbox(r) PROVE HandedClean'
      BY SMTT(30), <1>1, <2>13 DEF HandedClean, SendKnown, BatchQueued, CurHeld, TypeOK, rowVars, reviewVars, workerVars, history, UpdateLinkedOutbox, DueNow
    <2>14. ASSUME NEW r \in Reviews, ResolverDies(r) PROVE HandedClean'
      BY <1>1, <2>14 DEF HandedClean, SendKnown, BatchQueued, CurHeld, TypeOK, rowVars, reviewVars, workerVars, history, ResolverDies
    <2>15. CASE Tick
      BY <1>1, <2>15 DEF HandedClean, SendKnown, BatchQueued, CurHeld, TypeOK, rowVars, reviewVars, workerVars, history, Tick
    <2>16. ASSUME NEW w \in Workers, MarkAction(w) PROVE HandedClean'
      <3>1. PICK j \in Jobs : MarkEffect(w, j)
        BY <1>1, <2>16, MarkHasEffect
      <3> QED
        BY SMTT(30), <1>1, <3>1 DEF MarkEffect, SameFor, HandedClean, SendKnown, BatchQueued, CurHeld, TypeOK, rowVars, reviewVars, workerVars, history
    <2> QED
      BY <1>2, <2>1, <2>2, <2>3, <2>4, <2>5, <2>6, <2>7, <2>8, <2>9, <2>10, <2>11, <2>12, <2>13, <2>14, <2>15, <2>16 DEF Next, DispatchOnce, MarkAction
<1>3. CASE UNCHANGED vars
  BY <1>1, <1>3 DEF HandedClean, SendKnown, BatchQueued, CurHeld, TypeOK, rowVars, reviewVars, workerVars, history, vars
<1> QED
  BY <1>1, <1>2, <1>3

(* The history of a provider call only grows.                               *)
LEMMA SendStep == TypeOK /\ CurHeld /\ SendKnown /\ [Next]_vars => SendKnown'
<1>1. SUFFICES ASSUME TypeOK, CurHeld, SendKnown, [Next]_vars PROVE SendKnown'
  OBVIOUS
<1>2. CASE Next
    <2>1. ASSUME NEW j \in Jobs, EnqueueOutbound(j) PROVE SendKnown'
      BY <1>1, <2>1 DEF SendKnown, CurHeld, TypeOK, rowVars, reviewVars, workerVars, history, EnqueueOutbound
    <2>2. ASSUME NEW j \in Jobs, RequeueOutboxDead(j) PROVE SendKnown'
      BY <1>1, <2>2 DEF SendKnown, CurHeld, TypeOK, rowVars, reviewVars, workerVars, history, RequeueOutboxDead, DueNow
    <2>3. ASSUME NEW j \in Jobs, DeleteExpiredMessage(j) PROVE SendKnown'
      BY <1>1, <2>3 DEF SendKnown, CurHeld, TypeOK, rowVars, reviewVars, workerVars, history, DeleteExpiredMessage
    <2>4. ASSUME NEW w \in Workers, RecoverStaleSending(w) PROVE SendKnown'
      BY <1>1, <2>4 DEF SendKnown, CurHeld, TypeOK, rowVars, reviewVars, workerVars, history, RecoverStaleSending, Limit, Stale
    <2>5. ASSUME NEW w \in Workers, ClaimNothing(w) PROVE SendKnown'
      BY <1>1, <2>5 DEF SendKnown, CurHeld, TypeOK, rowVars, reviewVars, workerVars, history, ClaimNothing
    <2>6. ASSUME NEW w \in Workers, ClaimPendingOutbox(w) PROVE SendKnown'
      BY <1>1, <2>6 DEF SendKnown, CurHeld, TypeOK, rowVars, reviewVars, workerVars, history, ClaimPendingOutbox, Limit, Due
    <2>7. ASSUME NEW w \in Workers, NEW j \in Jobs, CreateReview(w, j) PROVE SendKnown'
      BY <1>1, <2>7 DEF SendKnown, CurHeld, TypeOK, rowVars, reviewVars, workerVars, history, CreateReview
    <2>8. ASSUME NEW w \in Workers, NEW j \in Jobs, CreateReviewRefused(w, j) PROVE SendKnown'
      BY <1>1, <2>8 DEF SendKnown, CurHeld, TypeOK, rowVars, reviewVars, workerVars, history, CreateReviewRefused, EndPass
    <2>9. ASSUME NEW w \in Workers, NEW j \in Jobs, Send(w, j) PROVE SendKnown'
      BY <1>1, <2>9 DEF SendKnown, CurHeld, TypeOK, rowVars, reviewVars, workerVars, history, Send
    <2>10. ASSUME NEW w \in Workers, SendReturns(w) PROVE SendKnown'
      BY SMTT(30), <1>1, <2>10 DEF SendKnown, CurHeld, TypeOK, rowVars, reviewVars, workerVars, history, SendReturns
    <2>11. ASSUME NEW w \in Workers, AbortPass(w) PROVE SendKnown'
      BY SMTT(30), <1>1, <2>11 DEF SendKnown, CurHeld, TypeOK, rowVars, reviewVars, workerVars, history, AbortPass, EndPass
    <2>12. ASSUME NEW r \in Reviews, NEW d \in {"approved", "denied"}, ResolveReview(r, d) PROVE SendKnown'
      BY <1>1, <2>12 DEF SendKnown, CurHeld, TypeOK, rowVars, reviewVars, workerVars, history, ResolveReview
    <2>13. ASSUME NEW r \in Reviews, UpdateLinkedOutbox(r) PROVE SendKnown'
      BY <1>1, <2>13 DEF SendKnown, CurHeld, TypeOK, rowVars, reviewVars, workerVars, history, UpdateLinkedOutbox, DueNow
    <2>14. ASSUME NEW r \in Reviews, ResolverDies(r) PROVE SendKnown'
      BY <1>1, <2>14 DEF SendKnown, CurHeld, TypeOK, rowVars, reviewVars, workerVars, history, ResolverDies
    <2>15. CASE Tick
      BY <1>1, <2>15 DEF SendKnown, CurHeld, TypeOK, rowVars, reviewVars, workerVars, history, Tick
    <2>16. ASSUME NEW w \in Workers, MarkAction(w) PROVE SendKnown'
      <3>1. PICK j \in Jobs : MarkEffect(w, j)
        BY <1>1, <2>16, MarkHasEffect
      <3> QED
        BY SMTT(30), <1>1, <3>1 DEF MarkEffect, SameFor, SendKnown, CurHeld, TypeOK, rowVars, reviewVars, workerVars, history
    <2> QED
      BY <1>2, <2>1, <2>2, <2>3, <2>4, <2>5, <2>6, <2>7, <2>8, <2>9, <2>10, <2>11, <2>12, <2>13, <2>14, <2>15, <2>16 DEF Next, DispatchOnce, MarkAction
<1>3. CASE UNCHANGED vars
  BY <1>1, <1>3 DEF SendKnown, CurHeld, TypeOK, rowVars, reviewVars, workerVars, history, vars
<1> QED
  BY <1>1, <1>2, <1>3

(* A row becomes sent only by MarkOutboxSent, after a successful call.      *)
LEMMA SentStep == TypeOK /\ CurHeld /\ SendKnown /\ SentWasAccepted /\ [Next]_vars => SentWasAccepted'
<1>1. SUFFICES ASSUME TypeOK, CurHeld, SendKnown, SentWasAccepted, [Next]_vars PROVE SentWasAccepted'
  OBVIOUS
<1>2. CASE Next
    <2>1. ASSUME NEW j \in Jobs, EnqueueOutbound(j) PROVE SentWasAccepted'
      BY <1>1, <2>1 DEF SentWasAccepted, SendKnown, CurHeld, TypeOK, rowVars, reviewVars, workerVars, history, EnqueueOutbound
    <2>2. ASSUME NEW j \in Jobs, RequeueOutboxDead(j) PROVE SentWasAccepted'
      BY <1>1, <2>2 DEF SentWasAccepted, SendKnown, CurHeld, TypeOK, rowVars, reviewVars, workerVars, history, RequeueOutboxDead, DueNow
    <2>3. ASSUME NEW j \in Jobs, DeleteExpiredMessage(j) PROVE SentWasAccepted'
      BY <1>1, <2>3 DEF SentWasAccepted, SendKnown, CurHeld, TypeOK, rowVars, reviewVars, workerVars, history, DeleteExpiredMessage
    <2>4. ASSUME NEW w \in Workers, RecoverStaleSending(w) PROVE SentWasAccepted'
      BY SMTT(30), <1>1, <2>4 DEF SentWasAccepted, SendKnown, CurHeld, TypeOK, rowVars, reviewVars, workerVars, history, RecoverStaleSending, Limit, Stale
    <2>5. ASSUME NEW w \in Workers, ClaimNothing(w) PROVE SentWasAccepted'
      BY <1>1, <2>5 DEF SentWasAccepted, SendKnown, CurHeld, TypeOK, rowVars, reviewVars, workerVars, history, ClaimNothing
    <2>6. ASSUME NEW w \in Workers, ClaimPendingOutbox(w) PROVE SentWasAccepted'
      BY SMTT(30), <1>1, <2>6 DEF SentWasAccepted, SendKnown, CurHeld, TypeOK, rowVars, reviewVars, workerVars, history, ClaimPendingOutbox, Limit, Due
    <2>7. ASSUME NEW w \in Workers, NEW j \in Jobs, BlockJob(w, j) PROVE SentWasAccepted'
      BY SMTT(30), <1>1, <2>7 DEF SentWasAccepted, SendKnown, CurHeld, TypeOK, rowVars, reviewVars, workerVars, history, BlockJob, Mark, MarkRow, MarkNotFound, NextJob, EndPass
    <2>8. ASSUME NEW w \in Workers, NEW j \in Jobs, CreateReview(w, j) PROVE SentWasAccepted'
      BY <1>1, <2>8 DEF SentWasAccepted, SendKnown, CurHeld, TypeOK, rowVars, reviewVars, workerVars, history, CreateReview
    <2>9. ASSUME NEW w \in Workers, NEW j \in Jobs, CreateReviewRefused(w, j) PROVE SentWasAccepted'
      BY <1>1, <2>9 DEF SentWasAccepted, SendKnown, CurHeld, TypeOK, rowVars, reviewVars, workerVars, history, CreateReviewRefused, EndPass
    <2>10. ASSUME NEW w \in Workers, NEW j \in Jobs, Send(w, j) PROVE SentWasAccepted'
      BY <1>1, <2>10 DEF SentWasAccepted, SendKnown, CurHeld, TypeOK, rowVars, reviewVars, workerVars, history, Send
    <2>11. ASSUME NEW w \in Workers, SendReturns(w) PROVE SentWasAccepted'
      BY SMTT(30), <1>1, <2>11 DEF SentWasAccepted, SendKnown, CurHeld, TypeOK, rowVars, reviewVars, workerVars, history, SendReturns
    <2>12. ASSUME NEW w \in Workers, MarkOutboxSent(w) PROVE SentWasAccepted'
      BY SMTT(30), <1>1, <2>12 DEF SentWasAccepted, SendKnown, CurHeld, TypeOK, rowVars, reviewVars, workerVars, history, MarkOutboxSent, Mark, MarkRow, MarkNotFound, NextJob, EndPass
    <2>13. ASSUME NEW w \in Workers, MarkOutboxDead(w) PROVE SentWasAccepted'
      BY SMTT(30), <1>1, <2>13 DEF SentWasAccepted, SendKnown, CurHeld, TypeOK, rowVars, reviewVars, workerVars, history, MarkOutboxDead, AttemptsAfter, Mark, MarkRow, MarkNotFound, NextJob, EndPass
    <2>14. ASSUME NEW w \in Workers, MarkOutboxRetry(w) PROVE SentWasAccepted'
      BY SMTT(30), <1>1, <2>14 DEF SentWasAccepted, SendKnown, CurHeld, TypeOK, rowVars, reviewVars, workerVars, history, MarkOutboxRetry, AttemptsAfter, MarkRow, MarkNotFound, NextJob, EndPass
    <2>15. ASSUME NEW w \in Workers, MarkOutboxPendingApproval(w) PROVE SentWasAccepted'
      BY SMTT(30), <1>1, <2>15 DEF SentWasAccepted, SendKnown, CurHeld, TypeOK, rowVars, reviewVars, workerVars, history, MarkOutboxPendingApproval, Mark, MarkRow, MarkNotFound, NextJob, EndPass
    <2>16. ASSUME NEW w \in Workers, AbortPass(w) PROVE SentWasAccepted'
      BY SMTT(30), <1>1, <2>16 DEF SentWasAccepted, SendKnown, CurHeld, TypeOK, rowVars, reviewVars, workerVars, history, AbortPass, EndPass
    <2>17. ASSUME NEW r \in Reviews, NEW d \in {"approved", "denied"}, ResolveReview(r, d) PROVE SentWasAccepted'
      BY <1>1, <2>17 DEF SentWasAccepted, SendKnown, CurHeld, TypeOK, rowVars, reviewVars, workerVars, history, ResolveReview
    <2>18. ASSUME NEW r \in Reviews, UpdateLinkedOutbox(r) PROVE SentWasAccepted'
      BY SMTT(30), <1>1, <2>18 DEF SentWasAccepted, SendKnown, CurHeld, TypeOK, rowVars, reviewVars, workerVars, history, UpdateLinkedOutbox, DueNow
    <2>19. ASSUME NEW r \in Reviews, ResolverDies(r) PROVE SentWasAccepted'
      BY <1>1, <2>19 DEF SentWasAccepted, SendKnown, CurHeld, TypeOK, rowVars, reviewVars, workerVars, history, ResolverDies
    <2>20. CASE Tick
      BY <1>1, <2>20 DEF SentWasAccepted, SendKnown, CurHeld, TypeOK, rowVars, reviewVars, workerVars, history, Tick
    <2> QED
      BY <1>2, <2>1, <2>2, <2>3, <2>4, <2>5, <2>6, <2>7, <2>8, <2>9, <2>10, <2>11, <2>12, <2>13, <2>14, <2>15, <2>16, <2>17, <2>18, <2>19, <2>20 DEF Next, DispatchOnce
<1>3. CASE UNCHANGED vars
  BY <1>1, <1>3 DEF SentWasAccepted, SendKnown, CurHeld, TypeOK, rowVars, reviewVars, workerVars, history, vars
<1> QED
  BY <1>1, <1>2, <1>3

(* The part of the argument that needs no timing.                           *)
SafeInv ==
    TypeOK /\ CurHeld /\ BatchQueued /\ HandedClean /\ SendKnown /\ SentWasAccepted

(* SafeInv is inductive.                                                    *)
LEMMA SafeStep == SafeInv /\ [Next]_vars => SafeInv'
  BY TypeStep, CurStep, BatchStep, HandedStep, SendStep, SentStep DEF SafeInv

(* SafeInv holds throughout.                                                *)
THEOREM SafeInvariant == Spec => []SafeInv
<1>1. Init => SafeInv
  BY SMTT(30), ConstantsAssumption DEF Init, SafeInv, TypeOK, CurHeld, BatchQueued, HandedClean, SendKnown,
     SentWasAccepted, Statuses, PCs, Outcomes
<1> QED
  BY <1>1, SafeStep, PTL DEF Spec

(* All variables keep their types.                                          *)
THEOREM TypeCorrect == Spec => []TypeOK
<1>1. SafeInv => TypeOK
  BY DEF SafeInv
<1> QED
  BY <1>1, SafeInvariant, PTL

(* A row marked sent was accepted by the provider (MarkOutboxSent), with    *)
(* any number of dispatchers taking over each other's claims.               *)
THEOREM SentAccepted == Spec => []SentWasAccepted
<1>1. SafeInv => SentWasAccepted
  BY DEF SafeInv
<1> QED
  BY <1>1, SafeInvariant, PTL

(* Content with a finding is never handed to a provider (applyOutboundScan).*)
THEOREM CleanHanded == Spec => []OnlyCleanContentHanded
<1>1. SafeInv => OnlyCleanContentHanded
  BY DEF SafeInv, HandedClean, OnlyCleanContentHanded
<1> QED
  BY <1>1, SafeInvariant, PTL

-----------------------------------------------------------------------------
(* Every step of the outbox is a step of the lifecycle of one delivery, or  *)
(* changes nothing the lifecycle speaks of.                                 *)
LEMMA LifecycleStep == SafeInv /\ [Next]_vars => [Lifecycle!Next]_(Lifecycle!vars)
<1>1. SUFFICES ASSUME SafeInv, [Next]_vars PROVE Lifecycle!Next \/ UNCHANGED Lifecycle!vars
  OBVIOUS
<1>2. CASE Next
  <2>1. ASSUME NEW j \in Jobs, EnqueueOutbound(j) PROVE Lifecycle!Next \/ UNCHANGED Lifecycle!vars
    <3>1. Lifecycle!Enqueue(j)
      BY SMTT(30), <1>1, <2>1, ConstantsAssumption DEF EnqueueOutbound, Lifecycle!Enqueue, Lifecycle!Step, Lifecycle!Steps, SafeInv, TypeOK, history
    <3> QED
      BY <3>1 DEF Lifecycle!Next
  <2>2. ASSUME NEW j \in Jobs, RequeueOutboxDead(j) PROVE Lifecycle!Next \/ UNCHANGED Lifecycle!vars
    <3>1. Lifecycle!Requeue(j)
      BY SMTT(30), <1>1, <2>2, ConstantsAssumption DEF RequeueOutboxDead, Lifecycle!Requeue, Lifecycle!Step, Lifecycle!Steps, SafeInv, TypeOK, history
    <3> QED
      BY <3>1 DEF Lifecycle!Next
  <2>3. ASSUME NEW j \in Jobs, DeleteExpiredMessage(j) PROVE Lifecycle!Next \/ UNCHANGED Lifecycle!vars
    <3>1. Lifecycle!Expire(j)
      BY <1>1, <2>3, ConstantsAssumption DEF DeleteExpiredMessage, Lifecycle!Expire, Lifecycle!Step, Lifecycle!Steps, SafeInv, TypeOK, history
    <3> QED
      BY <3>1 DEF Lifecycle!Next
  <2>4. ASSUME NEW w \in Workers, RecoverStaleSending(w) PROVE Lifecycle!Next \/ UNCHANGED Lifecycle!vars
    <3>1. PICK S \in SUBSET Jobs : Lifecycle!Recover(S)
      BY <1>1, <2>4 DEF RecoverStaleSending, Limit, Stale, Lifecycle!Recover, Lifecycle!Steps, history
    <3> QED
      BY <3>1 DEF Lifecycle!Next
  <2>5. ASSUME NEW w \in Workers, ClaimNothing(w) PROVE Lifecycle!Next \/ UNCHANGED Lifecycle!vars
    BY <2>5 DEF ClaimNothing, rowVars, history, Lifecycle!vars
  <2>6. ASSUME NEW w \in Workers, ClaimPendingOutbox(w) PROVE Lifecycle!Next \/ UNCHANGED Lifecycle!vars
    <3>1. PICK S \in SUBSET Jobs : Lifecycle!Claim(S)
      BY <1>1, <2>6 DEF ClaimPendingOutbox, Limit, Due, Lifecycle!Claim, Lifecycle!Steps, history, SafeInv, TypeOK
    <3> QED
      BY <3>1 DEF Lifecycle!Next
  <2>7. ASSUME NEW w \in Workers, NEW j \in Jobs, BlockJob(w, j) PROVE Lifecycle!Next \/ UNCHANGED Lifecycle!vars
    <3>1. j \in Jobs
      BY <1>1, <2>7 DEF BlockJob, SafeInv, CurHeld, TypeOK
    <3>2. CASE MarkRow(w, j, "dead", 1)
      <4>1. Lifecycle!Dead(j)
        BY <1>1, <2>7, <3>1, <3>2 DEF BlockJob, MarkRow, history, Lifecycle!Dead, Lifecycle!Step, SafeInv, TypeOK
      <4> QED
        BY <3>1, <4>1 DEF Lifecycle!Next
    <3>3. CASE MarkNotFound(w, j)
      BY <2>7, <3>3 DEF BlockJob, MarkNotFound, history, Lifecycle!vars
    <3> QED
      BY <2>7, <3>2, <3>3 DEF BlockJob, Mark
  <2>8. ASSUME NEW w \in Workers, NEW j \in Jobs, CreateReview(w, j) PROVE Lifecycle!Next \/ UNCHANGED Lifecycle!vars
    BY <2>8 DEF CreateReview, rowVars, history, Lifecycle!vars
  <2>9. ASSUME NEW w \in Workers, NEW j \in Jobs, CreateReviewRefused(w, j) PROVE Lifecycle!Next \/ UNCHANGED Lifecycle!vars
    BY <2>9 DEF CreateReviewRefused, rowVars, history, Lifecycle!vars
  <2>10. ASSUME NEW w \in Workers, NEW j \in Jobs, Send(w, j) PROVE Lifecycle!Next \/ UNCHANGED Lifecycle!vars
    <3>1. \A k \in Jobs : (provider'[k] = "accepted") <=> (provider[k] = "accepted")
      BY <1>1, <2>10 DEF Send, SafeInv, TypeOK
    <3> QED
      BY <2>10, <3>1 DEF Send, rowVars, Lifecycle!vars
  <2>11. ASSUME NEW w \in Workers, SendReturns(w) PROVE Lifecycle!Next \/ UNCHANGED Lifecycle!vars
    <3>0. cur[w] \in Jobs /\ status[cur[w]] # "none"
      BY <1>1, <2>11 DEF SendReturns, SafeInv, CurHeld, BatchQueued, TypeOK
    <3>1. CASE \A k \in Jobs : (provider'[k] = "accepted") <=> (provider[k] = "accepted")
      BY <2>11, <3>1 DEF SendReturns, rowVars, Lifecycle!vars
    <3>2. CASE provider' = [provider EXCEPT ![cur[w]] = "accepted"]
      <4>1. \A k \in Jobs : (provider'[k] = "accepted") <=> (k = cur[w] \/ provider[k] = "accepted")
        BY <1>1, <3>2 DEF SafeInv, TypeOK
      <4>2. Lifecycle!Accept(cur[w])
        BY <2>11, <3>0, <4>1 DEF SendReturns, rowVars, Lifecycle!Accept
      <4>3. \E k \in Jobs : Lifecycle!Accept(k)
        BY <3>0, <4>2 DEF Lifecycle!Accept
      <4> QED
        BY <4>3, Zenon DEF Lifecycle!Next
    <3> QED
      BY <1>1, <2>11, <3>0, <3>1, <3>2 DEF SendReturns, SafeInv, TypeOK
  <2>12. ASSUME NEW w \in Workers, MarkOutboxSent(w) PROVE Lifecycle!Next \/ UNCHANGED Lifecycle!vars
    <3>1. cur[w] \in Jobs
      BY <1>1, <2>12 DEF MarkOutboxSent, SafeInv, CurHeld, TypeOK
    <3>2. CASE MarkRow(w, cur[w], "sent", 0)
      <4>1. Lifecycle!Sent(cur[w])
        BY <1>1, <2>12, <3>1, <3>2 DEF MarkOutboxSent, MarkRow, history, Lifecycle!Sent, Lifecycle!Step, SafeInv, TypeOK, SendKnown
      <4> QED
        BY <3>1, <4>1 DEF Lifecycle!Next
    <3>3. CASE MarkNotFound(w, cur[w])
      BY <2>12, <3>3 DEF MarkOutboxSent, MarkNotFound, history, Lifecycle!vars
    <3> QED
      BY <2>12, <3>2, <3>3 DEF MarkOutboxSent, Mark
  <2>13. ASSUME NEW w \in Workers, MarkOutboxDead(w) PROVE Lifecycle!Next \/ UNCHANGED Lifecycle!vars
    <3>1. cur[w] \in Jobs
      BY <1>1, <2>13 DEF MarkOutboxDead, SafeInv, CurHeld, TypeOK
    <3>2. CASE MarkRow(w, cur[w], "dead", 1)
      <4>1. Lifecycle!Dead(cur[w])
        BY <1>1, <2>13, <3>1, <3>2 DEF MarkOutboxDead, MarkRow, history, Lifecycle!Dead, Lifecycle!Step, SafeInv, TypeOK
      <4> QED
        BY <3>1, <4>1 DEF Lifecycle!Next
    <3>3. CASE MarkNotFound(w, cur[w])
      BY <2>13, <3>3 DEF MarkOutboxDead, MarkNotFound, history, Lifecycle!vars
    <3> QED
      BY <2>13, <3>2, <3>3 DEF MarkOutboxDead, Mark
  <2>14. ASSUME NEW w \in Workers, MarkOutboxRetry(w) PROVE Lifecycle!Next \/ UNCHANGED Lifecycle!vars
    <3>1. cur[w] \in Jobs
      BY <1>1, <2>14 DEF MarkOutboxRetry, SafeInv, CurHeld, TypeOK
    <3>2. CASE MarkRow(w, cur[w], "pending", 1)
      <4>1. Lifecycle!Retry(cur[w])
        BY <1>1, <2>14, <3>1, <3>2 DEF MarkOutboxRetry, MarkRow, history, Lifecycle!Retry, Lifecycle!Step, SafeInv, TypeOK
      <4> QED
        BY <3>1, <4>1 DEF Lifecycle!Next
    <3>3. CASE MarkNotFound(w, cur[w])
      BY <2>14, <3>3 DEF MarkOutboxRetry, MarkNotFound, history, Lifecycle!vars
    <3> QED
      BY <2>14, <3>2, <3>3 DEF MarkOutboxRetry, Mark
  <2>15. ASSUME NEW w \in Workers, MarkOutboxPendingApproval(w) PROVE Lifecycle!Next \/ UNCHANGED Lifecycle!vars
    <3>1. cur[w] \in Jobs
      BY <1>1, <2>15 DEF MarkOutboxPendingApproval, SafeInv, CurHeld, TypeOK
    <3>2. CASE MarkRow(w, cur[w], "pending_approval", 0)
      <4>1. Lifecycle!Hold(cur[w])
        BY <1>1, <2>15, <3>1, <3>2 DEF MarkOutboxPendingApproval, MarkRow, history, Lifecycle!Hold, Lifecycle!Step, SafeInv, TypeOK
      <4> QED
        BY <3>1, <4>1 DEF Lifecycle!Next
    <3>3. CASE MarkNotFound(w, cur[w])
      BY <2>15, <3>3 DEF MarkOutboxPendingApproval, MarkNotFound, history, Lifecycle!vars
    <3> QED
      BY <2>15, <3>2, <3>3 DEF MarkOutboxPendingApproval, Mark
  <2>16. ASSUME NEW w \in Workers, AbortPass(w) PROVE Lifecycle!Next \/ UNCHANGED Lifecycle!vars
    <3>1. CASE UNCHANGED provider
      BY <2>16, <3>1 DEF AbortPass, rowVars, Lifecycle!vars
    <3>2. CASE pc[w] = "send" /\ provider' = [provider EXCEPT ![cur[w]] = "accepted"]
      <4>1. cur[w] \in Jobs /\ status[cur[w]] # "none"
        BY <1>1, <3>2 DEF SafeInv, CurHeld, BatchQueued, TypeOK
      <4>2. \A k \in Jobs : (provider'[k] = "accepted") <=> (k = cur[w] \/ provider[k] = "accepted")
        BY <1>1, <3>2 DEF SafeInv, TypeOK
      <4>3. Lifecycle!Accept(cur[w])
        BY <2>16, <4>1, <4>2 DEF AbortPass, rowVars, Lifecycle!Accept
      <4>4. \E k \in Jobs : Lifecycle!Accept(k)
        BY <4>1, <4>3 DEF Lifecycle!Accept
      <4> QED
        BY <4>4, Zenon DEF Lifecycle!Next
    <3> QED
      BY <2>16, <3>1, <3>2 DEF AbortPass
  <2>17. ASSUME NEW r \in Reviews, NEW d \in {"approved", "denied"}, ResolveReview(r, d) PROVE Lifecycle!Next \/ UNCHANGED Lifecycle!vars
    BY <2>17 DEF ResolveReview, rowVars, history, Lifecycle!vars
  <2>18. ASSUME NEW r \in Reviews, UpdateLinkedOutbox(r) PROVE Lifecycle!Next \/ UNCHANGED Lifecycle!vars
    <3>1. CASE reviewJob[r] # NoJob /\ status[reviewJob[r]] = "pending_approval"
      <4>1. reviewJob[r] \in Jobs
        BY <1>1, <3>1 DEF SafeInv, TypeOK
      <4>2. Lifecycle!Release(reviewJob[r]) \/ Lifecycle!Deny(reviewJob[r])
        BY SMTT(30), <1>1, <2>18, <3>1, <4>1 DEF UpdateLinkedOutbox, Lifecycle!Release, Lifecycle!Deny, Lifecycle!Step, SafeInv, TypeOK
      <4> QED
        BY <4>1, <4>2 DEF Lifecycle!Next
    <3>2. CASE ~(reviewJob[r] # NoJob /\ status[reviewJob[r]] = "pending_approval")
      BY <2>18, <3>2 DEF UpdateLinkedOutbox, Lifecycle!vars
    <3> QED
      BY <3>1, <3>2
  <2>19. ASSUME NEW r \in Reviews, ResolverDies(r) PROVE Lifecycle!Next \/ UNCHANGED Lifecycle!vars
    BY <2>19 DEF ResolverDies, rowVars, history, Lifecycle!vars
  <2>20. CASE Tick
    BY <2>20 DEF Tick, history, Lifecycle!vars
  <2> QED
    BY <1>2, <2>1, <2>2, <2>3, <2>4, <2>5, <2>6, <2>7, <2>8, <2>9, <2>10, <2>11, <2>12, <2>13, <2>14, <2>15, <2>16, <2>17, <2>18, <2>19, <2>20 DEF Next, DispatchOnce
<1>3. CASE UNCHANGED vars
  BY <1>3 DEF vars, rowVars, history, Lifecycle!vars
<1> QED
  BY <1>1, <1>2, <1>3

(* The outbox implements OutboxLifecycle.                                   *)
THEOREM ImplementsLifecycle == Spec => KeepsLifecycle
<1>1. Init => Lifecycle!Init
  BY ZenonT(60) DEF Init, Lifecycle!Init
<1> QED
  BY <1>1, LifecycleStep, SafeInvariant, PTL DEF Spec, KeepsLifecycle, Lifecycle!Spec

-----------------------------------------------------------------------------
(* What holds when the time a dispatcher may spend on a whole batch fits in *)
(* the lock timeout.                                                        *)

(* Exclusive holding.  The lock of a claimed job is as old as the time its  *)
(* dispatcher has spent on the batch: at most JobTime for each job it has   *)
(* finished, and busy on the present one.  If a whole batch fits in the     *)
(* lock timeout, a job in hand never looks stale.                           *)

(* The longest time a dispatcher can have spent when n jobs are left.       *)
Spent(n) == (ClaimBatchSize - n) * JobTime

BatchFits == ClaimBatchSize * JobTime <= LockTimeout

Lease ==
    \A w \in Workers :
        /\ Cardinality(batch[w]) <= ClaimBatchSize
        /\ \A j \in batch[w] :
              /\ status[j] \in {"sending", "deleted"}
              /\ age[j] <= Spent(Cardinality(batch[w])) + busy[w]

LeaseInv == SafeInv /\ Lease /\ ExclusiveHolding

(* Batches are finite, and finishing a job makes them smaller by one.       *)
LEMMA BatchFinite ==
    ASSUME TypeOK, NEW w \in Workers
    PROVE  /\ IsFiniteSet(batch[w])
           /\ Cardinality(batch[w]) \in Nat
           /\ \A j \in batch[w] : /\ Cardinality(batch[w]) >= 1
                                  /\ Cardinality(batch[w] \ {j}) = Cardinality(batch[w]) - 1
<1>1. batch[w] \subseteq Jobs
  BY DEF TypeOK
<1>2. IsFiniteSet(batch[w])
  BY <1>1, JobsFinite, FS_Subset
<1>3. Cardinality(batch[w]) \in Nat
  BY <1>2, FS_CardinalityType
<1>4. ASSUME NEW j \in batch[w]
      PROVE  Cardinality(batch[w]) >= 1 /\ Cardinality(batch[w] \ {j}) = Cardinality(batch[w]) - 1
  <2>1. Cardinality(batch[w] \ {j}) = Cardinality(batch[w]) - 1
    BY <1>2, FS_RemoveElement
  <2>2. Cardinality(batch[w]) # 0
    BY <1>2, FS_EmptySet
  <2> QED
    BY SMTT(30), <1>3, <2>1, <2>2
<1> QED
  BY <1>2, <1>3, <1>4

(* Arithmetic of the time budget.                                           *)
LEMMA SpentFacts ==
    ASSUME NEW n \in Nat, n <= ClaimBatchSize
    PROVE  /\ Spent(n) \in Nat
           /\ n >= 1 => Spent(n - 1) = Spent(n) + JobTime
           /\ n >= 1 /\ BatchFits => Spent(n) + JobTime <= LockTimeout
<1> USE ConstantsAssumption
<1>1. (ClaimBatchSize - n) \in Nat
  BY SMTT(30)
<1>2. Spent(n) \in Nat
  BY SMTT(30), <1>1 DEF Spent
<1>3. Spent(n - 1) = Spent(n) + JobTime
  BY SMTT(30) DEF Spent
<1>4. ASSUME n >= 1 PROVE Spent(n - 1) <= ClaimBatchSize * JobTime
  <2> DEFINE m == ClaimBatchSize - (n - 1)
  <2>1. m \in Nat /\ m <= ClaimBatchSize
    BY SMTT(30), <1>4
  <2>2. ClaimBatchSize * JobTime = m * JobTime + (ClaimBatchSize - m) * JobTime
    BY SMTT(30), <2>1
  <2>3. (ClaimBatchSize - m) \in Nat
    BY SMTT(30), <2>1
  <2>4. (ClaimBatchSize - m) * JobTime \in Nat /\ m * JobTime \in Nat
    BY SMTT(30), <2>1, <2>3
  <2> QED
    BY SMTT(30), <2>2, <2>4 DEF Spent
<1> QED
  BY SMTT(30), <1>2, <1>3, <1>4 DEF BatchFits

(* A job in hand is not stale.                                              *)
LEMMA HeldIsFresh ==
    ASSUME BatchFits, LeaseInv, NEW w \in Workers, NEW j \in batch[w]
    PROVE  j \in Jobs /\ age[j] \in Nat /\ age[j] <= LockTimeout /\ j \notin Stale
<1> USE ConstantsAssumption DEF LeaseInv, SafeInv
<1>1. j \in Jobs /\ age[j] \in Nat /\ busy[w] \in Nat /\ busy[w] <= JobTime
  BY SMTT(30) DEF TypeOK
<1> DEFINE n == Cardinality(batch[w])
<1>2. n \in Nat /\ n >= 1 /\ n <= ClaimBatchSize
  BY BatchFinite DEF Lease
<1>3. Spent(n) \in Nat /\ Spent(n) + JobTime <= LockTimeout
  BY <1>2, SpentFacts
<1>4. age[j] <= Spent(n) + busy[w]
  BY DEF Lease
<1>5. age[j] <= LockTimeout
  <2> HIDE DEF n
  <2> QED
    BY SMTT(30), <1>1, <1>3, <1>4
<1> QED
  BY SMTT(30), <1>1, <1>5 DEF Stale

(* A step that leaves the batches alone keeps Lease and ExclusiveHolding if *)
(* held rows stay sending, or are deleted, and their locks get no older.    *)
LEMMA QuietStep ==
    ASSUME LeaseInv, batch' = batch, busy' = busy,
           \A w \in Workers : \A j \in batch[w] :
               status'[j] \in {"sending", "deleted"} /\ (age'[j] = age[j] \/ age'[j] = 0)
    PROVE  (Lease /\ ExclusiveHolding)'
<1>1. ExclusiveHolding'
  BY DEF LeaseInv, ExclusiveHolding
<1>2. ASSUME NEW w \in Workers, NEW j \in batch[w]
      PROVE  age'[j] <= Spent(Cardinality(batch[w])) + busy[w]
  <2>1. age[j] <= Spent(Cardinality(batch[w])) + busy[w] /\ Cardinality(batch[w]) <= ClaimBatchSize
    BY DEF LeaseInv, Lease
  <2>2. Spent(Cardinality(batch[w])) \in Nat
    BY <2>1, BatchFinite, SpentFacts DEF LeaseInv, SafeInv
  <2>3. busy[w] \in Nat
    BY SMTT(30) DEF LeaseInv, SafeInv, TypeOK
  <2> QED
    BY SMTT(30), <2>1, <2>2, <2>3
<1>3. Lease'
  BY <1>2 DEF LeaseInv, Lease
<1> QED
  BY <1>1, <1>3

(* A dispatcher that drops its batch, or the job it marked, holds less.     *)
LEMMA DropStep ==
    ASSUME LeaseInv, NEW w \in Workers,
           batch'[w] = {} \/ \E j \in batch[w] : batch'[w] = batch[w] \ {j},
           busy'[w] = 0,
           \A v \in Workers : v # w => batch'[v] = batch[v] /\ busy'[v] = busy[v],
           \A v \in Workers : \A j \in batch'[v] : status'[j] = status[j] /\ age'[j] = age[j]
    PROVE  (Lease /\ ExclusiveHolding)'
<1>1. \A v \in Workers : batch'[v] \subseteq batch[v]
  OBVIOUS
<1>2. ExclusiveHolding'
  BY <1>1 DEF LeaseInv, ExclusiveHolding
<1>3. ASSUME NEW v \in Workers, v # w
      PROVE  /\ Cardinality(batch'[v]) <= ClaimBatchSize
             /\ \A k \in batch'[v] : /\ status'[k] \in {"sending", "deleted"}
                                     /\ age'[k] <= Spent(Cardinality(batch'[v])) + busy'[v]
  BY <1>3 DEF LeaseInv, Lease
<1>4. CASE batch'[w] = {}
  <2>1. Cardinality(batch'[w]) = 0
    BY <1>4, FS_EmptySet
  <2> QED
    BY SMTT(30), <1>2, <1>3, <1>4, <2>1, ConstantsAssumption DEF Lease
<1>5. ASSUME NEW j \in batch[w], batch'[w] = batch[w] \ {j}
      PROVE  (Lease /\ ExclusiveHolding)'
  <2> DEFINE n == Cardinality(batch[w])
  <2>1. n \in Nat /\ n >= 1 /\ n <= ClaimBatchSize /\ Cardinality(batch'[w]) = n - 1
    BY <1>5, BatchFinite DEF LeaseInv, SafeInv, Lease
  <2>2. Spent(n) \in Nat /\ Spent(n - 1) = Spent(n) + JobTime
    BY <2>1, SpentFacts
  <2>3. busy[w] \in Nat /\ busy[w] <= JobTime
    BY SMTT(30), ConstantsAssumption DEF LeaseInv, SafeInv, TypeOK
  <2>4. ASSUME NEW k \in batch'[w]
        PROVE  status'[k] \in {"sending", "deleted"} /\ age'[k] <= Spent(n - 1) + busy'[w]
    <3>1. k \in batch[w] /\ status'[k] = status[k] /\ age'[k] = age[k]
      BY <1>1
    <3>2. status[k] \in {"sending", "deleted"} /\ age[k] <= Spent(n) + busy[w]
      BY <3>1 DEF LeaseInv, Lease
    <3>3. age[k] \in Nat
      BY SMTT(30), <3>1 DEF LeaseInv, SafeInv, TypeOK
    <3>4. age[k] <= Spent(n) + JobTime
      <4> HIDE DEF n
      <4> QED
        BY SMTT(30), <3>2, <3>3, <2>2, <2>3, ConstantsAssumption
    <3> QED
      BY SMTT(30), <3>1, <3>2, <3>3, <3>4, <2>2, ConstantsAssumption
  <2>5. Cardinality(batch'[w]) <= ClaimBatchSize
    BY SMTT(30), <2>1, ConstantsAssumption
  <2> QED
    BY <1>2, <1>3, <2>1, <2>4, <2>5 DEF Lease
<1> QED
  BY <1>4, <1>5

(* Lease and ExclusiveHolding are inductive when a batch fits.              *)
LEMMA LeaseStep == BatchFits /\ LeaseInv /\ [Next]_vars => (Lease /\ ExclusiveHolding)'
<1>1. SUFFICES ASSUME BatchFits, LeaseInv, [Next]_vars PROVE (Lease /\ ExclusiveHolding)'
  OBVIOUS
<1>2. CASE Next
    <2>1. ASSUME NEW j \in Jobs, EnqueueOutbound(j) PROVE (Lease /\ ExclusiveHolding)'
      <3>1. batch' = batch /\ busy' = busy
        BY <2>1 DEF EnqueueOutbound, workerVars
      <3>2. \A v \in Workers : \A k \in batch[v] :
               status'[k] \in {"sending", "deleted"} /\ (age'[k] = age[k] \/ age'[k] = 0)
        BY <1>1, <2>1 DEF EnqueueOutbound, rowVars, LeaseInv, SafeInv, Lease, TypeOK
      <3> QED
        BY <1>1, <3>1, <3>2, QuietStep
    <2>2. ASSUME NEW j \in Jobs, RequeueOutboxDead(j) PROVE (Lease /\ ExclusiveHolding)'
      <3>1. batch' = batch /\ busy' = busy
        BY <2>2 DEF RequeueOutboxDead, DueNow, workerVars
      <3>2. \A v \in Workers : \A k \in batch[v] :
               status'[k] \in {"sending", "deleted"} /\ (age'[k] = age[k] \/ age'[k] = 0)
        BY <1>1, <2>2 DEF RequeueOutboxDead, DueNow, rowVars, LeaseInv, SafeInv, Lease, TypeOK
      <3> QED
        BY <1>1, <3>1, <3>2, QuietStep
    <2>3. ASSUME NEW j \in Jobs, DeleteExpiredMessage(j) PROVE (Lease /\ ExclusiveHolding)'
      <3>1. batch' = batch /\ busy' = busy
        BY <2>3 DEF DeleteExpiredMessage, workerVars
      <3>2. \A v \in Workers : \A k \in batch[v] :
               status'[k] \in {"sending", "deleted"} /\ (age'[k] = age[k] \/ age'[k] = 0)
        BY <1>1, <2>3 DEF DeleteExpiredMessage, rowVars, LeaseInv, SafeInv, Lease, TypeOK
      <3> QED
        BY <1>1, <3>1, <3>2, QuietStep
    <2>4. ASSUME NEW w \in Workers, RecoverStaleSending(w) PROVE (Lease /\ ExclusiveHolding)'
      <3>1. batch' = batch /\ busy' = busy
        BY <2>4 DEF RecoverStaleSending
      <3>2. ASSUME NEW v \in Workers, NEW k \in batch[v] PROVE status'[k] = status[k] /\ age'[k] = age[k]
        <4>1. k \in Jobs /\ k \notin Stale
          BY <1>1, HeldIsFresh
        <4> QED
          BY <2>4, <4>1 DEF RecoverStaleSending, Limit
      <3>3. \A v \in Workers : \A k \in batch[v] : status[k] \in {"sending", "deleted"}
        BY <1>1 DEF LeaseInv, Lease
      <3> QED
        BY <1>1, <3>1, <3>2, <3>3, QuietStep
    <2>5. ASSUME NEW w \in Workers, ClaimNothing(w) PROVE (Lease /\ ExclusiveHolding)'
      <3>1. batch' = batch /\ busy' = busy
        BY <2>5 DEF ClaimNothing, workerVars
      <3>2. \A v \in Workers : \A k \in batch[v] :
               status'[k] \in {"sending", "deleted"} /\ (age'[k] = age[k] \/ age'[k] = 0)
        BY <1>1, <2>5 DEF ClaimNothing, rowVars, LeaseInv, SafeInv, Lease, TypeOK
      <3> QED
        BY <1>1, <3>1, <3>2, QuietStep
    <2>6. ASSUME NEW w \in Workers, ClaimPendingOutbox(w) PROVE (Lease /\ ExclusiveHolding)'
      <3>1. PICK B \in Limit(Due(w), ClaimBatchSize) :
              /\ status' = [j \in Jobs |-> IF j \in B THEN "sending" ELSE status[j]]
              /\ age' = [j \in Jobs |-> IF j \in B THEN 0 ELSE age[j]]
              /\ batch' = [batch EXCEPT ![w] = B]
        BY <2>6 DEF ClaimPendingOutbox
      <3>2. B \subseteq Jobs /\ \A j \in B : status[j] = "pending"
        BY <1>1, <3>1 DEF Limit, Due, LeaseInv, SafeInv, TypeOK
      <3>3. B \subseteq Jobs /\ IsFiniteSet(B) /\ Cardinality(B) \in Nat /\ Cardinality(B) <= ClaimBatchSize
        <4>1. IsFiniteSet(B)
          BY <3>2, JobsFinite, FS_Subset
        <4>2. Cardinality(B) \in Nat
          BY <4>1, FS_CardinalityType
        <4>3. Cardinality(B) <= ClaimBatchSize
          <5>1. Cardinality(B) = IF Cardinality(Due(w)) < ClaimBatchSize THEN Cardinality(Due(w)) ELSE ClaimBatchSize
            BY <3>1 DEF Limit
          <5>2. CASE Cardinality(Due(w)) < ClaimBatchSize
            BY SMTT(30), <5>1, <5>2, <4>2, ConstantsAssumption
          <5>3. CASE ~(Cardinality(Due(w)) < ClaimBatchSize)
            BY SMTT(30), <5>1, <5>3, ConstantsAssumption
          <5> QED
            BY <5>2, <5>3
        <4> QED
          BY <3>2, <4>1, <4>2, <4>3
      <3>4. busy'[w] = 0 /\ batch'[w] = B
            /\ \A v \in Workers : v # w => batch'[v] = batch[v] /\ busy'[v] = busy[v]
        BY SMTT(30), <1>1, <2>6, <3>1 DEF ClaimPendingOutbox, LeaseInv, SafeInv, TypeOK
      <3>5. \A v \in Workers : batch[v] \cap B = {}
        BY <1>1, <3>2 DEF LeaseInv, Lease
      <3>6. ExclusiveHolding'
        BY <1>1, <3>4, <3>5 DEF LeaseInv, ExclusiveHolding
      <3>7. ASSUME NEW v \in Workers, v # w
            PROVE  /\ Cardinality(batch'[v]) <= ClaimBatchSize
                   /\ \A k \in batch'[v] : /\ status'[k] \in {"sending", "deleted"}
                                           /\ age'[k] <= Spent(Cardinality(batch'[v])) + busy'[v]
        <4>1. \A k \in batch[v] : k \in Jobs /\ status'[k] = status[k] /\ age'[k] = age[k]
          BY <1>1, <3>1, <3>5 DEF LeaseInv, SafeInv, TypeOK
        <4> QED
          BY <1>1, <3>4, <3>7, <4>1 DEF LeaseInv, Lease
      <3>8. \A k \in B : status'[k] = "sending" /\ age'[k] = 0
        BY <3>1, <3>2
      <3>9. Spent(Cardinality(B)) \in Nat
        BY <3>3, SpentFacts
      <3> QED
        BY SMTT(30), <3>3, <3>4, <3>6, <3>7, <3>8, <3>9 DEF Lease
    <2>7. ASSUME NEW w \in Workers, NEW j \in Jobs, CreateReview(w, j) PROVE (Lease /\ ExclusiveHolding)'
      <3>1. batch' = batch /\ busy' = busy
        BY <2>7 DEF CreateReview, workerVars
      <3>2. \A v \in Workers : \A k \in batch[v] :
               status'[k] \in {"sending", "deleted"} /\ (age'[k] = age[k] \/ age'[k] = 0)
        BY <1>1, <2>7 DEF CreateReview, rowVars, LeaseInv, SafeInv, Lease, TypeOK
      <3> QED
        BY <1>1, <3>1, <3>2, QuietStep
    <2>8. ASSUME NEW w \in Workers, NEW j \in Jobs, CreateReviewRefused(w, j) PROVE (Lease /\ ExclusiveHolding)'
      <3>1. batch'[w] = {} /\ busy'[w] = 0 /\ \A v \in Workers : v # w => batch'[v] = batch[v] /\ busy'[v] = busy[v]
        BY <1>1, <2>8 DEF CreateReviewRefused, EndPass, LeaseInv, SafeInv, TypeOK
      <3>2. status' = status /\ age' = age
        BY <2>8 DEF CreateReviewRefused, rowVars
      <3> QED
        BY <1>1, <3>1, <3>2, DropStep
    <2>9. ASSUME NEW w \in Workers, NEW j \in Jobs, Send(w, j) PROVE (Lease /\ ExclusiveHolding)'
      <3>1. batch' = batch /\ busy' = busy
        BY <2>9 DEF Send, workerVars
      <3>2. \A v \in Workers : \A k \in batch[v] :
               status'[k] \in {"sending", "deleted"} /\ (age'[k] = age[k] \/ age'[k] = 0)
        BY <1>1, <2>9 DEF Send, rowVars, LeaseInv, SafeInv, Lease, TypeOK
      <3> QED
        BY <1>1, <3>1, <3>2, QuietStep
    <2>10. ASSUME NEW w \in Workers, SendReturns(w) PROVE (Lease /\ ExclusiveHolding)'
      <3>1. batch' = batch /\ busy' = busy
        BY <2>10 DEF SendReturns, workerVars
      <3>2. \A v \in Workers : \A k \in batch[v] :
               status'[k] \in {"sending", "deleted"} /\ (age'[k] = age[k] \/ age'[k] = 0)
        BY <1>1, <2>10 DEF SendReturns, rowVars, LeaseInv, SafeInv, Lease, TypeOK
      <3> QED
        BY <1>1, <3>1, <3>2, QuietStep
    <2>11. ASSUME NEW w \in Workers, AbortPass(w) PROVE (Lease /\ ExclusiveHolding)'
      <3>1. batch'[w] = {} /\ busy'[w] = 0 /\ \A v \in Workers : v # w => batch'[v] = batch[v] /\ busy'[v] = busy[v]
        BY SMTT(30), <1>1, <2>11 DEF AbortPass, EndPass, LeaseInv, SafeInv, TypeOK
      <3>2. status' = status /\ age' = age
        BY <2>11 DEF AbortPass, rowVars
      <3> QED
        BY <1>1, <3>1, <3>2, DropStep
    <2>12. ASSUME NEW r \in Reviews, NEW d \in {"approved", "denied"}, ResolveReview(r, d) PROVE (Lease /\ ExclusiveHolding)'
      <3>1. batch' = batch /\ busy' = busy
        BY <2>12 DEF ResolveReview, workerVars
      <3>2. \A v \in Workers : \A k \in batch[v] :
               status'[k] \in {"sending", "deleted"} /\ (age'[k] = age[k] \/ age'[k] = 0)
        BY <1>1, <2>12 DEF ResolveReview, rowVars, LeaseInv, SafeInv, Lease, TypeOK
      <3> QED
        BY <1>1, <3>1, <3>2, QuietStep
    <2>13. ASSUME NEW r \in Reviews, UpdateLinkedOutbox(r) PROVE (Lease /\ ExclusiveHolding)'
      <3>1. batch' = batch /\ busy' = busy /\ age' = age
        BY <2>13 DEF UpdateLinkedOutbox
      <3>2. \A k \in Jobs : status[k] \in {"sending", "deleted"} => status'[k] = status[k]
        BY <1>1, <2>13 DEF UpdateLinkedOutbox, LeaseInv, SafeInv, TypeOK
      <3>3. \A v \in Workers : \A k \in batch[v] : k \in Jobs /\ status[k] \in {"sending", "deleted"}
        BY <1>1 DEF LeaseInv, SafeInv, Lease, TypeOK
      <3> QED
        BY <1>1, <3>1, <3>2, <3>3, QuietStep
    <2>14. ASSUME NEW r \in Reviews, ResolverDies(r) PROVE (Lease /\ ExclusiveHolding)'
      <3>1. batch' = batch /\ busy' = busy
        BY <2>14 DEF ResolverDies, workerVars
      <3>2. \A v \in Workers : \A k \in batch[v] :
               status'[k] \in {"sending", "deleted"} /\ (age'[k] = age[k] \/ age'[k] = 0)
        BY <1>1, <2>14 DEF ResolverDies, rowVars, LeaseInv, SafeInv, Lease, TypeOK
      <3> QED
        BY <1>1, <3>1, <3>2, QuietStep
    <2>15. CASE Tick
      <3>1. batch' = batch /\ status' = status
        BY <2>15 DEF Tick
      <3>2. ASSUME NEW v \in Workers, NEW k \in batch[v]
            PROVE  age'[k] <= Spent(Cardinality(batch[v])) + busy'[v]
        <4>1. k \in Jobs /\ age[k] \in Nat /\ busy[v] \in Nat
          BY SMTT(30), <1>1 DEF LeaseInv, SafeInv, TypeOK
        <4>2. busy'[v] = busy[v] + 1
          BY <2>15 DEF Tick
        <4>3. age'[k] \in {age[k], age[k] + 1}
          BY <2>15, <4>1 DEF Tick
        <4>4. age[k] <= Spent(Cardinality(batch[v])) + busy[v] /\ Cardinality(batch[v]) <= ClaimBatchSize
          BY <1>1 DEF LeaseInv, Lease
        <4>5. Spent(Cardinality(batch[v])) \in Nat
          BY <1>1, <4>4, BatchFinite, SpentFacts DEF LeaseInv, SafeInv
        <4> QED
          BY SMTT(30), <4>1, <4>2, <4>3, <4>4, <4>5
      <3> QED
        BY <1>1, <3>1, <3>2 DEF LeaseInv, Lease, ExclusiveHolding
    <2>16. ASSUME NEW w \in Workers, MarkAction(w) PROVE (Lease /\ ExclusiveHolding)'
      <3>1. PICK j \in Jobs : MarkEffect(w, j)
        BY <1>1, <2>16, MarkHasEffect DEF LeaseInv, SafeInv
      <3>2. batch'[w] = {} \/ \E k \in batch[w] : batch'[w] = batch[w] \ {k}
        BY <3>1 DEF MarkEffect
      <3>3. busy'[w] = 0 /\ \A v \in Workers : v # w => batch'[v] = batch[v] /\ busy'[v] = busy[v]
        BY <3>1 DEF MarkEffect, SameFor
      <3>4. \A v \in Workers : v # w => j \notin batch[v]
        BY <1>1, <3>1 DEF MarkEffect, LeaseInv, ExclusiveHolding
      <3>5. ASSUME NEW v \in Workers, NEW k \in batch'[v] PROVE k # j /\ k \in Jobs
        <4>1. batch[v] \subseteq Jobs
          BY <1>1 DEF LeaseInv, SafeInv, TypeOK
        <4>2. CASE v = w
          BY <3>1, <4>1, <4>2 DEF MarkEffect
        <4>3. CASE v # w
          BY <3>3, <3>4, <4>1, <4>3
        <4> QED
          BY <4>2, <4>3
      <3>6. \A v \in Workers : \A k \in batch'[v] : status'[k] = status[k] /\ age'[k] = age[k]
        BY <3>1, <3>5 DEF MarkEffect
      <3> QED
        BY <1>1, <3>2, <3>3, <3>6, DropStep
    <2> QED
      BY <1>2, <2>1, <2>2, <2>3, <2>4, <2>5, <2>6, <2>7, <2>8, <2>9, <2>10, <2>11, <2>12, <2>13, <2>14, <2>15, <2>16 DEF Next, DispatchOnce, MarkAction
<1>3. CASE UNCHANGED vars
  BY <1>1, <1>3 DEF LeaseInv, Lease, ExclusiveHolding, rowVars, reviewVars, workerVars, history, vars
<1> QED
  BY <1>1, <1>2, <1>3

(* No dispatcher holds anything at first.                                   *)
LEMMA InitLease == Init => LeaseInv
<1>1. Init => SafeInv
  BY SMTT(30), ConstantsAssumption DEF Init, SafeInv, TypeOK, CurHeld, BatchQueued, HandedClean, SendKnown,
     SentWasAccepted, Statuses, PCs, Outcomes
<1>2. Cardinality({}) = 0
  BY FS_EmptySet
<1> QED
  BY SMTT(30), <1>1, <1>2, ConstantsAssumption DEF Init, LeaseInv, Lease, ExclusiveHolding

(* If the time for a whole batch fits in the lock timeout, no two           *)
(* dispatchers ever have the same job in hand (RecoverStaleSending).        *)
THEOREM Exclusive == ASSUME BatchFits PROVE Spec => []ExclusiveHolding
<1>2. LeaseInv /\ [Next]_vars => LeaseInv'
  BY LeaseStep, SafeStep DEF LeaseInv
<1>3. LeaseInv => ExclusiveHolding
  BY DEF LeaseInv
<1> QED
  BY InitLease, <1>2, <1>3, PTL DEF Spec

-----------------------------------------------------------------------------
(* Attempts.  A dispatcher decides between retry and dead with the count it *)
(* read when it claimed; that count is still the row's when claims are      *)
(* exclusive.                                                               *)

SeenExact ==
    \A w \in Workers : \A j \in batch[w] : seen[w][j] = attempts[j]

(* A row that may still be sent has an attempt left.                        *)
AttemptLeft ==
    \A j \in Jobs : status[j] \in {"none", "pending", "sending", "pending_approval"} =>
                       attempts[j] < MaxAttempts + requeues[j]

AttemptInv == LeaseInv /\ SeenExact /\ AttemptLeft /\ AttemptBudget

(* Nobody else counts an attempt of a job in hand.                          *)
LEMMA SeenStep == AttemptInv /\ [Next]_vars => SeenExact'
<1>1. SUFFICES ASSUME AttemptInv, [Next]_vars PROVE SeenExact'
  OBVIOUS
<1>2. CASE Next
    <2>1. ASSUME NEW j \in Jobs, EnqueueOutbound(j) PROVE SeenExact'
      <3>1. batch' = batch /\ seen' = seen /\ attempts' = attempts
        BY <2>1 DEF EnqueueOutbound, workerVars, rowVars
      <3> QED
        BY <1>1, <3>1 DEF AttemptInv, SeenExact
    <2>2. ASSUME NEW j \in Jobs, RequeueOutboxDead(j) PROVE SeenExact'
      <3>1. batch' = batch /\ seen' = seen /\ attempts' = attempts
        BY <2>2 DEF RequeueOutboxDead, workerVars, rowVars
      <3> QED
        BY <1>1, <3>1 DEF AttemptInv, SeenExact
    <2>3. ASSUME NEW j \in Jobs, DeleteExpiredMessage(j) PROVE SeenExact'
      <3>1. batch' = batch /\ seen' = seen /\ attempts' = attempts
        BY <2>3 DEF DeleteExpiredMessage, workerVars, rowVars
      <3> QED
        BY <1>1, <3>1 DEF AttemptInv, SeenExact
    <2>4. ASSUME NEW w \in Workers, RecoverStaleSending(w) PROVE SeenExact'
      <3>1. batch' = batch /\ seen' = seen /\ attempts' = attempts
        BY <2>4 DEF RecoverStaleSending, workerVars, rowVars
      <3> QED
        BY <1>1, <3>1 DEF AttemptInv, SeenExact
    <2>5. ASSUME NEW w \in Workers, ClaimNothing(w) PROVE SeenExact'
      <3>1. batch' = batch /\ seen' = seen /\ attempts' = attempts
        BY <2>5 DEF ClaimNothing, workerVars, rowVars
      <3> QED
        BY <1>1, <3>1 DEF AttemptInv, SeenExact
    <2>6. ASSUME NEW w \in Workers, ClaimPendingOutbox(w) PROVE SeenExact'
      <3>1. PICK B \in Limit(Due(w), ClaimBatchSize) :
              /\ batch' = [batch EXCEPT ![w] = B]
              /\ seen' = [seen EXCEPT ![w] = [j \in Jobs |-> IF j \in B THEN attempts[j] ELSE 0]]
        BY <2>6 DEF ClaimPendingOutbox
      <3>2. B \subseteq Jobs
        BY <1>1, <3>1 DEF Limit, Due, AttemptInv, LeaseInv, SafeInv, TypeOK
      <3>3. attempts' = attempts /\ batch'[w] = B /\ \A k \in B : seen'[w][k] = attempts[k]
        BY <1>1, <2>6, <3>1, <3>2 DEF ClaimPendingOutbox, AttemptInv, LeaseInv, SafeInv, TypeOK
      <3>4. \A v \in Workers : v # w => batch'[v] = batch[v] /\ seen'[v] = seen[v]
        BY <1>1, <3>1 DEF AttemptInv, LeaseInv, SafeInv, TypeOK
      <3> QED
        BY SMTT(30), <1>1, <3>3, <3>4 DEF AttemptInv, SeenExact
    <2>7. ASSUME NEW w \in Workers, NEW j \in Jobs, CreateReview(w, j) PROVE SeenExact'
      <3>1. batch' = batch /\ seen' = seen /\ attempts' = attempts
        BY <2>7 DEF CreateReview, workerVars, rowVars
      <3> QED
        BY <1>1, <3>1 DEF AttemptInv, SeenExact
    <2>8. ASSUME NEW w \in Workers, NEW j \in Jobs, CreateReviewRefused(w, j) PROVE SeenExact'
      <3>1. batch'[w] = {} /\ attempts' = attempts
            /\ \A v \in Workers : v # w => batch'[v] = batch[v] /\ seen'[v] = seen[v]
        BY <1>1, <2>8 DEF CreateReviewRefused, EndPass, rowVars, AttemptInv, LeaseInv, SafeInv, TypeOK
      <3> QED
        BY SMTT(30), <1>1, <3>1 DEF AttemptInv, SeenExact
    <2>9. ASSUME NEW w \in Workers, NEW j \in Jobs, Send(w, j) PROVE SeenExact'
      <3>1. batch' = batch /\ seen' = seen /\ attempts' = attempts
        BY <2>9 DEF Send, workerVars, rowVars
      <3> QED
        BY <1>1, <3>1 DEF AttemptInv, SeenExact
    <2>10. ASSUME NEW w \in Workers, SendReturns(w) PROVE SeenExact'
      <3>1. batch' = batch /\ seen' = seen /\ attempts' = attempts
        BY <2>10 DEF SendReturns, workerVars, rowVars
      <3> QED
        BY <1>1, <3>1 DEF AttemptInv, SeenExact
    <2>11. ASSUME NEW w \in Workers, AbortPass(w) PROVE SeenExact'
      <3>1. batch'[w] = {} /\ attempts' = attempts
            /\ \A v \in Workers : v # w => batch'[v] = batch[v] /\ seen'[v] = seen[v]
        BY SMTT(30), <1>1, <2>11 DEF AbortPass, EndPass, rowVars, AttemptInv, LeaseInv, SafeInv, TypeOK
      <3> QED
        BY SMTT(30), <1>1, <3>1 DEF AttemptInv, SeenExact
    <2>12. ASSUME NEW r \in Reviews, NEW d \in {"approved", "denied"}, ResolveReview(r, d) PROVE SeenExact'
      <3>1. batch' = batch /\ seen' = seen /\ attempts' = attempts
        BY <2>12 DEF ResolveReview, workerVars, rowVars
      <3> QED
        BY <1>1, <3>1 DEF AttemptInv, SeenExact
    <2>13. ASSUME NEW r \in Reviews, UpdateLinkedOutbox(r) PROVE SeenExact'
      <3>1. batch' = batch /\ seen' = seen /\ attempts' = attempts
        BY <2>13 DEF UpdateLinkedOutbox, workerVars, rowVars
      <3> QED
        BY <1>1, <3>1 DEF AttemptInv, SeenExact
    <2>14. ASSUME NEW r \in Reviews, ResolverDies(r) PROVE SeenExact'
      <3>1. batch' = batch /\ seen' = seen /\ attempts' = attempts
        BY <2>14 DEF ResolverDies, workerVars, rowVars
      <3> QED
        BY <1>1, <3>1 DEF AttemptInv, SeenExact
    <2>15. CASE Tick
      <3>1. batch' = batch /\ seen' = seen /\ attempts' = attempts
        BY <2>15 DEF Tick, workerVars, rowVars
      <3> QED
        BY <1>1, <3>1 DEF AttemptInv, SeenExact
    <2>16. ASSUME NEW w \in Workers, MarkAction(w) PROVE SeenExact'
      <3>1. PICK j \in Jobs : MarkEffect(w, j)
        BY <1>1, <2>16, MarkHasEffect DEF AttemptInv, LeaseInv, SafeInv
      <3>2. ASSUME NEW v \in Workers, NEW k \in batch'[v] PROVE seen'[v][k] = attempts'[k]
        <4>1. batch[v] \subseteq Jobs
          BY <1>1 DEF AttemptInv, LeaseInv, SafeInv, TypeOK
        <4>2. CASE v = w
          BY <1>1, <3>1, <4>1, <4>2, <3>2 DEF MarkEffect, AttemptInv, SeenExact
        <4>3. CASE v # w
          <5>1. batch'[v] = batch[v] /\ seen'[v] = seen[v]
            BY <3>1, <4>3 DEF MarkEffect, SameFor
          <5>2. k # j
            BY <1>1, <3>1, <3>2, <4>3, <5>1 DEF MarkEffect, AttemptInv, LeaseInv, ExclusiveHolding
          <5> QED
            BY SMTT(30), <1>1, <3>1, <3>2, <4>1, <5>1, <5>2 DEF MarkEffect, AttemptInv, SeenExact
        <4> QED
          BY <4>2, <4>3
      <3> QED
        BY <3>2 DEF SeenExact
    <2> QED
      BY <1>2, <2>1, <2>2, <2>3, <2>4, <2>5, <2>6, <2>7, <2>8, <2>9, <2>10, <2>11, <2>12, <2>13, <2>14, <2>15, <2>16 DEF Next, DispatchOnce, MarkAction
<1>3. CASE UNCHANGED vars
  BY <1>1, <1>3 DEF AttemptInv, SeenExact, rowVars, reviewVars, workerVars, history, vars
<1> QED
  BY <1>1, <1>2, <1>3

(* A Mark stays within the budget if it keeps the row from being sent       *)
(* again, does not count, or counts an attempt that is not the last.        *)
LEMMA RowCounted ==
    ASSUME AttemptInv, NEW w \in Workers, NEW j \in Jobs, j \in batch[w],
           NEW new, NEW c \in {0, 1}, MarkRow(w, j, new, c),
           new \in {"sent", "dead"} \/ c = 0 \/ seen[w][j] + 1 < MaxAttempts,
           requeues' = requeues
    PROVE  (AttemptLeft /\ AttemptBudget)'
<1>1. \A k \in Jobs : k # j => attempts'[k] = attempts[k] /\ status'[k] = status[k]
  BY DEF MarkRow, AttemptInv, LeaseInv, SafeInv, TypeOK
<1>2. status[j] = "sending" /\ status'[j] = new /\ attempts'[j] = attempts[j] + c
  BY DEF MarkRow, AttemptInv, LeaseInv, SafeInv, TypeOK
<1>3. attempts[j] \in Nat /\ requeues[j] \in Nat /\ seen[w][j] = attempts[j]
  BY SMTT(30) DEF AttemptInv, SeenExact, LeaseInv, SafeInv, TypeOK
<1>4. attempts[j] < MaxAttempts + requeues[j]
  BY <1>2 DEF AttemptInv, AttemptLeft
<1>5. attempts'[j] <= MaxAttempts + requeues[j]
  BY SMTT(30), <1>2, <1>3, <1>4, ConstantsAssumption
<1>6. new \notin {"sent", "dead"} => attempts'[j] < MaxAttempts + requeues[j]
  BY SMTT(30), <1>2, <1>3, <1>4, ConstantsAssumption
<1>7. AttemptBudget'
  BY <1>1, <1>5 DEF AttemptInv, AttemptBudget
<1>8. AttemptLeft'
  BY <1>1, <1>2, <1>6 DEF AttemptInv, AttemptLeft
<1> QED
  BY <1>7, <1>8

(* Retry needs an attempt left, and requeue gives one more.                 *)
LEMMA CountStep == AttemptInv /\ [Next]_vars => (AttemptLeft /\ AttemptBudget)'
<1>1. SUFFICES ASSUME AttemptInv, [Next]_vars PROVE (AttemptLeft /\ AttemptBudget)'
  OBVIOUS
<1>2. CASE Next
    <2>1. ASSUME NEW j \in Jobs, EnqueueOutbound(j) PROVE (AttemptLeft /\ AttemptBudget)'
      <3>1. attempts' = attempts /\ requeues' = requeues
        BY <2>1 DEF EnqueueOutbound, history
      <3>2. \A k \in Jobs : status'[k] \in {"none", "pending", "sending", "pending_approval"} =>
                             status[k] \in {"none", "pending", "sending", "pending_approval"}
        BY <1>1, <2>1 DEF EnqueueOutbound,  AttemptInv, LeaseInv, SafeInv, TypeOK
      <3> QED
        BY <1>1, <3>1, <3>2 DEF AttemptInv, AttemptLeft, AttemptBudget
    <2>2. ASSUME NEW j \in Jobs, RequeueOutboxDead(j) PROVE (AttemptLeft /\ AttemptBudget)'
      <3>1. attempts' = attempts /\ requeues'[j] = requeues[j] + 1
        BY <1>1, <2>2 DEF RequeueOutboxDead, AttemptInv, LeaseInv, SafeInv, TypeOK
      <3>2. \A k \in Jobs : k # j => requeues'[k] = requeues[k] /\ status'[k] = status[k]
        BY <1>1, <2>2 DEF RequeueOutboxDead, AttemptInv, LeaseInv, SafeInv, TypeOK
      <3>3. \A k \in Jobs : attempts[k] \in Nat /\ requeues[k] \in Nat
        BY SMTT(30), <1>1 DEF AttemptInv, LeaseInv, SafeInv, TypeOK
      <3>4. attempts'[j] < MaxAttempts + requeues'[j] /\ attempts'[j] <= MaxAttempts + requeues'[j]
        BY SMTT(30), <1>1, <3>1, <3>3, ConstantsAssumption DEF AttemptInv, AttemptBudget
      <3> QED
        BY <1>1, <3>1, <3>2, <3>4 DEF AttemptInv, AttemptLeft, AttemptBudget
    <2>3. ASSUME NEW j \in Jobs, DeleteExpiredMessage(j) PROVE (AttemptLeft /\ AttemptBudget)'
      <3>1. attempts' = attempts /\ requeues' = requeues
        BY <2>3 DEF DeleteExpiredMessage, history
      <3>2. \A k \in Jobs : status'[k] \in {"none", "pending", "sending", "pending_approval"} =>
                             status[k] \in {"none", "pending", "sending", "pending_approval"}
        BY <1>1, <2>3 DEF DeleteExpiredMessage,  AttemptInv, LeaseInv, SafeInv, TypeOK
      <3> QED
        BY <1>1, <3>1, <3>2 DEF AttemptInv, AttemptLeft, AttemptBudget
    <2>4. ASSUME NEW w \in Workers, RecoverStaleSending(w) PROVE (AttemptLeft /\ AttemptBudget)'
      <3>1. attempts' = attempts /\ requeues' = requeues
        BY <2>4 DEF RecoverStaleSending, history
      <3>2. \A k \in Jobs : status'[k] \in {"none", "pending", "sending", "pending_approval"} =>
                             status[k] \in {"none", "pending", "sending", "pending_approval"}
        BY SMTT(30), <1>1, <2>4 DEF RecoverStaleSending, Limit, Stale, AttemptInv, LeaseInv, SafeInv, TypeOK
      <3> QED
        BY <1>1, <3>1, <3>2 DEF AttemptInv, AttemptLeft, AttemptBudget
    <2>5. ASSUME NEW w \in Workers, ClaimNothing(w) PROVE (AttemptLeft /\ AttemptBudget)'
      <3>1. attempts' = attempts /\ status' = status /\ requeues' = requeues
        BY <2>5 DEF ClaimNothing, rowVars, history
      <3> QED
        BY <1>1, <3>1 DEF AttemptInv, AttemptLeft, AttemptBudget
    <2>6. ASSUME NEW w \in Workers, ClaimPendingOutbox(w) PROVE (AttemptLeft /\ AttemptBudget)'
      <3>1. attempts' = attempts /\ requeues' = requeues
        BY <2>6 DEF ClaimPendingOutbox, history
      <3>2. \A k \in Jobs : status'[k] \in {"none", "pending", "sending", "pending_approval"} =>
                             status[k] \in {"none", "pending", "sending", "pending_approval"}
        BY SMTT(30), <1>1, <2>6 DEF ClaimPendingOutbox, Limit, Due, AttemptInv, LeaseInv, SafeInv, TypeOK
      <3> QED
        BY <1>1, <3>1, <3>2 DEF AttemptInv, AttemptLeft, AttemptBudget
    <2>7. ASSUME NEW w \in Workers, NEW j \in Jobs, BlockJob(w, j) PROVE (AttemptLeft /\ AttemptBudget)'
      <3>1. j \in Jobs /\ j \in batch[w]
        BY <1>1, <2>7 DEF BlockJob, AttemptInv, LeaseInv, SafeInv, CurHeld, TypeOK
      <3>2. CASE MarkRow(w, j, "dead", 1)
        BY <1>1, <2>7, <3>1, <3>2, RowCounted DEF BlockJob, history
      <3>3. CASE MarkNotFound(w, j)
        BY <1>1, <2>7, <3>3 DEF BlockJob, MarkNotFound, history, AttemptInv, AttemptLeft, AttemptBudget
      <3> QED
        BY <2>7, <3>2, <3>3 DEF BlockJob, Mark
    <2>8. ASSUME NEW w \in Workers, NEW j \in Jobs, CreateReview(w, j) PROVE (AttemptLeft /\ AttemptBudget)'
      <3>1. attempts' = attempts /\ status' = status /\ requeues' = requeues
        BY <2>8 DEF CreateReview, rowVars, history
      <3> QED
        BY <1>1, <3>1 DEF AttemptInv, AttemptLeft, AttemptBudget
    <2>9. ASSUME NEW w \in Workers, NEW j \in Jobs, CreateReviewRefused(w, j) PROVE (AttemptLeft /\ AttemptBudget)'
      <3>1. attempts' = attempts /\ status' = status /\ requeues' = requeues
        BY <2>9 DEF CreateReviewRefused, rowVars, history
      <3> QED
        BY <1>1, <3>1 DEF AttemptInv, AttemptLeft, AttemptBudget
    <2>10. ASSUME NEW w \in Workers, NEW j \in Jobs, Send(w, j) PROVE (AttemptLeft /\ AttemptBudget)'
      <3>1. attempts' = attempts /\ status' = status /\ requeues' = requeues
        BY <2>10 DEF Send, rowVars, history
      <3> QED
        BY <1>1, <3>1 DEF AttemptInv, AttemptLeft, AttemptBudget
    <2>11. ASSUME NEW w \in Workers, SendReturns(w) PROVE (AttemptLeft /\ AttemptBudget)'
      <3>1. attempts' = attempts /\ status' = status /\ requeues' = requeues
        BY <2>11 DEF SendReturns, rowVars, history
      <3> QED
        BY <1>1, <3>1 DEF AttemptInv, AttemptLeft, AttemptBudget
    <2>12. ASSUME NEW w \in Workers, MarkOutboxSent(w) PROVE (AttemptLeft /\ AttemptBudget)'
      <3>1. cur[w] \in Jobs /\ cur[w] \in batch[w]
        BY <1>1, <2>12 DEF MarkOutboxSent, AttemptInv, LeaseInv, SafeInv, CurHeld, TypeOK
      <3>2. CASE MarkRow(w, cur[w], "sent", 0)
        BY <1>1, <2>12, <3>1, <3>2, RowCounted DEF MarkOutboxSent, history
      <3>3. CASE MarkNotFound(w, cur[w])
        BY <1>1, <2>12, <3>3 DEF MarkOutboxSent, MarkNotFound, history, AttemptInv, AttemptLeft, AttemptBudget
      <3> QED
        BY <2>12, <3>2, <3>3 DEF MarkOutboxSent, Mark
    <2>13. ASSUME NEW w \in Workers, MarkOutboxDead(w) PROVE (AttemptLeft /\ AttemptBudget)'
      <3>1. cur[w] \in Jobs /\ cur[w] \in batch[w]
        BY <1>1, <2>13 DEF MarkOutboxDead, AttemptInv, LeaseInv, SafeInv, CurHeld, TypeOK
      <3>2. CASE MarkRow(w, cur[w], "dead", 1)
        BY <1>1, <2>13, <3>1, <3>2, RowCounted DEF MarkOutboxDead, history
      <3>3. CASE MarkNotFound(w, cur[w])
        BY <1>1, <2>13, <3>3 DEF MarkOutboxDead, MarkNotFound, history, AttemptInv, AttemptLeft, AttemptBudget
      <3> QED
        BY <2>13, <3>2, <3>3 DEF MarkOutboxDead, Mark
    <2>14. ASSUME NEW w \in Workers, MarkOutboxRetry(w) PROVE (AttemptLeft /\ AttemptBudget)'
      <3>1. cur[w] \in Jobs /\ cur[w] \in batch[w]
        BY <1>1, <2>14 DEF MarkOutboxRetry, AttemptInv, LeaseInv, SafeInv, CurHeld, TypeOK
      <3>2. CASE MarkRow(w, cur[w], "pending", 1)
        BY <1>1, <2>14, <3>1, <3>2, RowCounted DEF MarkOutboxRetry, history, AttemptsAfter
      <3>3. CASE MarkNotFound(w, cur[w])
        BY <1>1, <2>14, <3>3 DEF MarkOutboxRetry, MarkNotFound, history, AttemptInv, AttemptLeft, AttemptBudget
      <3> QED
        BY <2>14, <3>2, <3>3 DEF MarkOutboxRetry, Mark
    <2>15. ASSUME NEW w \in Workers, MarkOutboxPendingApproval(w) PROVE (AttemptLeft /\ AttemptBudget)'
      <3>1. cur[w] \in Jobs /\ cur[w] \in batch[w]
        BY <1>1, <2>15 DEF MarkOutboxPendingApproval, AttemptInv, LeaseInv, SafeInv, CurHeld, TypeOK
      <3>2. CASE MarkRow(w, cur[w], "pending_approval", 0)
        BY <1>1, <2>15, <3>1, <3>2, RowCounted DEF MarkOutboxPendingApproval, history
      <3>3. CASE MarkNotFound(w, cur[w])
        BY <1>1, <2>15, <3>3 DEF MarkOutboxPendingApproval, MarkNotFound, history, AttemptInv, AttemptLeft, AttemptBudget
      <3> QED
        BY <2>15, <3>2, <3>3 DEF MarkOutboxPendingApproval, Mark
    <2>16. ASSUME NEW w \in Workers, AbortPass(w) PROVE (AttemptLeft /\ AttemptBudget)'
      <3>1. attempts' = attempts /\ status' = status /\ requeues' = requeues
        BY <2>16 DEF AbortPass, rowVars, history
      <3> QED
        BY <1>1, <3>1 DEF AttemptInv, AttemptLeft, AttemptBudget
    <2>17. ASSUME NEW r \in Reviews, NEW d \in {"approved", "denied"}, ResolveReview(r, d) PROVE (AttemptLeft /\ AttemptBudget)'
      <3>1. attempts' = attempts /\ status' = status /\ requeues' = requeues
        BY <2>17 DEF ResolveReview, rowVars, history
      <3> QED
        BY <1>1, <3>1 DEF AttemptInv, AttemptLeft, AttemptBudget
    <2>18. ASSUME NEW r \in Reviews, UpdateLinkedOutbox(r) PROVE (AttemptLeft /\ AttemptBudget)'
      <3>1. attempts' = attempts /\ requeues' = requeues
        BY <2>18 DEF UpdateLinkedOutbox, history
      <3>2. \A k \in Jobs : status'[k] \in {"none", "pending", "sending", "pending_approval"} =>
                             status[k] \in {"none", "pending", "sending", "pending_approval"}
        BY SMTT(30), <1>1, <2>18 DEF UpdateLinkedOutbox,  AttemptInv, LeaseInv, SafeInv, TypeOK
      <3> QED
        BY <1>1, <3>1, <3>2 DEF AttemptInv, AttemptLeft, AttemptBudget
    <2>19. ASSUME NEW r \in Reviews, ResolverDies(r) PROVE (AttemptLeft /\ AttemptBudget)'
      <3>1. attempts' = attempts /\ status' = status /\ requeues' = requeues
        BY <2>19 DEF ResolverDies, rowVars, history
      <3> QED
        BY <1>1, <3>1 DEF AttemptInv, AttemptLeft, AttemptBudget
    <2>20. CASE Tick
      <3>1. attempts' = attempts /\ status' = status /\ requeues' = requeues
        BY <2>20 DEF Tick, rowVars, history
      <3> QED
        BY <1>1, <3>1 DEF AttemptInv, AttemptLeft, AttemptBudget
    <2> QED
      BY <1>2, <2>1, <2>2, <2>3, <2>4, <2>5, <2>6, <2>7, <2>8, <2>9, <2>10, <2>11, <2>12, <2>13, <2>14, <2>15, <2>16, <2>17, <2>18, <2>19, <2>20 DEF Next, DispatchOnce
<1>3. CASE UNCHANGED vars
  BY <1>1, <1>3 DEF AttemptInv, AttemptLeft, AttemptBudget, rowVars, reviewVars, workerVars, history, vars
<1> QED
  BY <1>1, <1>2, <1>3

(* If a batch fits in the lock timeout, attempt_count exceeds max_attempts  *)
(* by at most one per requeue (MarkOutboxRetry, MarkOutboxDead).            *)
THEOREM AttemptsBounded == ASSUME BatchFits PROVE Spec => []AttemptBudget
<1>1. Init => AttemptInv
  BY SMTT(30), InitLease, ConstantsAssumption DEF Init, AttemptInv, SeenExact, AttemptLeft, AttemptBudget
<1>2. AttemptInv /\ [Next]_vars => AttemptInv'
  BY LeaseStep, SafeStep, SeenStep, CountStep DEF AttemptInv, LeaseInv
<1>3. AttemptInv => AttemptBudget
  BY DEF AttemptInv
<1> QED
  BY <1>1, <1>2, <1>3, PTL DEF Spec

=============================================================================
