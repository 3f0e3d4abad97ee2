------------------------- MODULE OrchestratorProofs -------------------------
(***************************************************************************)
(* The safety of the agent VMs' life cycle, for any number of users,        *)
(* machines, requests and faults.  The types and the reconciler's own loop  *)
(* come first; what each job knows of the machine it works on (Placed)      *)
(* carries the rest.                                                        *)
(***************************************************************************)
EXTENDS Orchestrator, FiniteSetTheorems, TLAPS

(* Most steps are for Zenon; those that need the SMT solver say so. *)
USE ZenonT(30)

(* The reconciler only starts VMs, for nobody, and only while some are      *)
(* missing.                                                                 *)
PoolBusy ==
    /\ pc[Pool] \in {"idle", "cid", "start", "create", "undo"}
    /\ pc[Pool] # "idle" => todo > 0
    /\ who[Pool] = Nobody

Typed == TypeOK /\ PoolBusy

(* The jobs and their kinds.                                                *)
LEMMA JobsFact ==
    /\ Pool \in Jobs
    /\ Requests \subseteq Jobs
    /\ Machines \subseteq Jobs
    /\ Provisions \subseteq Requests
    /\ Pool \notin Requests
    /\ Pool \notin Machines
    /\ Requests \cap Machines = {}
  BY ConstantsAssumption DEF Jobs, Requests

(* What the end of a job does to its own variables. *)
LEMMA EndTyped ==
    ASSUME Typed, NEW j \in Jobs, NEW r \in {"ok", "error"}, End(j, r), pc[j] # "idle"
    PROVE  /\ pc' \in [Jobs -> Labels]
           /\ pc'[Pool] \in {"idle", "cid", "start", "create", "undo"}
           /\ result' \in [Requests -> {"none", "ok", "error"}]
           /\ todo' \in Nat
           /\ pc'[Pool] # "idle" => todo' > 0
  BY SMTT(30), JobsFact DEF Typed, TypeOK, PoolBusy, End, Goto, Labels

(* Goto keeps the program counters typed.                                   *)
LEMMA GotoTyped ==
    ASSUME Typed, NEW j \in Jobs, NEW l \in Labels, Goto(j, l)
    PROVE  /\ pc' \in [Jobs -> Labels]
           /\ j # Pool => pc'[Pool] = pc[Pool]
           /\ j = Pool => pc'[Pool] = l
  BY JobsFact DEF Typed, TypeOK, Goto

(* UpdateStatus keeps the statuses typed.                                   *)
LEMMA StatusTyped ==
    ASSUME Typed, NEW i, NEW s \in Statuses, UpdateStatus(i, s)
    PROVE  status' \in [Machines -> Statuses]
  BY DEF Typed, TypeOK, UpdateStatus

(* The provisioning steps keep the types. *)
LEMMA ProvisionTyped ==
    ASSUME Typed, NEW j \in Jobs, ProvisionStep(j)
    PROVE  Typed'
  <1> USE JobsFact
  <1>1. CASE Lookup(j)
    <2>1. j # Pool
      BY <1>1 DEF Lookup, Typed, PoolBusy
    <2>2. inst' \in [Jobs -> Machines \cup {None}]
      BY SMTT(30), <1>1 DEF Lookup, Typed, TypeOK
    <2>3. /\ pc' \in [Jobs -> Labels] /\ result' \in [Requests -> {"none", "ok", "error"}]
          /\ todo' \in Nat
          /\ pc'[Pool] # "idle" => todo' > 0
          /\ pc'[Pool] \in {"idle", "cid", "start", "create", "undo"}
      BY <1>1, <2>1, EndTyped, GotoTyped DEF Lookup, Typed, TypeOK, PoolBusy, Labels
    <2>4. QED
      BY <1>1, <2>2, <2>3 DEF Lookup, Typed, TypeOK, PoolBusy, rowVars
  <1>2. CASE ClaimWarm(j)
    <2>1. j # Pool
      BY <1>2 DEF ClaimWarm, Typed, PoolBusy
    <2>2. pc' \in [Jobs -> Labels] /\ pc'[Pool] = pc[Pool]
      BY <1>2, <2>1, GotoTyped DEF ClaimWarm, Labels
    <2>3. /\ status' \in [Machines -> Statuses]
          /\ owner' \in [Machines -> Users \cup {Nobody}]
          /\ inst' \in [Jobs -> Machines \cup {None}]
          /\ faults' \in Nat
      BY SMTT(30), <1>2 DEF ClaimWarm, Typed, TypeOK, Statuses, Active, Fault
    <2>4. QED
      BY <1>2, <2>2, <2>3 DEF ClaimWarm, Typed, TypeOK, PoolBusy
  <1>3. CASE SetRunning(j)
    <2>1. status' \in [Machines -> Statuses]
      BY <1>3, StatusTyped DEF SetRunning, Typed, TypeOK, Statuses, Active
    <2>2. QED
      BY <1>3, <2>1, EndTyped DEF SetRunning, Typed, TypeOK, PoolBusy
  <1>4. CASE NextVsockCID(j)
    <2>1. num' \in [Jobs -> Nat]
      BY SMTT(30), <1>4 DEF NextVsockCID, Typed, TypeOK, Rows
    <2>2. QED
      BY <1>4, <2>1, GotoTyped DEF NextVsockCID, Typed, TypeOK, PoolBusy, Labels, rowVars
  <1>5. CASE Start(j)
    <2>1. /\ vm' \in [Machines -> {"none", "up", "sick", "gone"}]
          /\ cid' \in [Machines -> Nat]
          /\ inst' \in [Jobs -> Machines \cup {None}]
          /\ faults' \in Nat
      BY SMTT(30), <1>5 DEF Start, Typed, TypeOK, Fault
    <2>2. /\ pc' \in [Jobs -> Labels] /\ result' \in [Requests -> {"none", "ok", "error"}]
          /\ todo' \in Nat
          /\ pc'[Pool] # "idle" => todo' > 0
          /\ pc'[Pool] \in {"idle", "cid", "start", "create", "undo"}
      BY <1>5, EndTyped, GotoTyped DEF Start, Typed, TypeOK, PoolBusy, Labels
    <2>3. QED
      BY <1>5, <2>1, <2>2 DEF Start, Typed, TypeOK, PoolBusy
  <1>6. CASE Create(j)
    <2>1. /\ status' \in [Machines -> Statuses]
          /\ owner' \in [Machines -> Users \cup {Nobody}]
          /\ faults' \in Nat
      BY SMTT(30), <1>6 DEF Create, Typed, TypeOK, Statuses, Active, Fault
    <2>2. /\ pc' \in [Jobs -> Labels] /\ result' \in [Requests -> {"none", "ok", "error"}]
          /\ todo' \in Nat
          /\ pc'[Pool] # "idle" => todo' > 0
          /\ pc'[Pool] \in {"idle", "cid", "start", "create", "undo"}
      BY <1>6, EndTyped, GotoTyped DEF Create, Typed, TypeOK, PoolBusy, Labels
    <2>3. QED
      BY <1>6, <2>1, <2>2 DEF Create, Typed, TypeOK, PoolBusy
  <1>7. CASE Undo(j)
    <2>1. vm' \in [Machines -> {"none", "up", "sick", "gone"}]
      BY <1>7 DEF Undo, Typed, TypeOK
    <2>2. QED
      BY <1>7, <2>1, EndTyped DEF Undo, Typed, TypeOK, PoolBusy, rowVars
  <1>8. QED
    BY <1>1, <1>2, <1>3, <1>4, <1>5, <1>6, <1>7 DEF ProvisionStep

(* The steps of a destroy, shared with the health check, keep the types. *)
LEMMA DestroyTyped ==
    ASSUME Typed, NEW j \in Jobs, DestroyStep(j) \/ Fail(j)
    PROVE  Typed'
  <1> USE JobsFact
  <1>1. CASE SetDestroying(j)
    <2>1. j # Pool
      BY <1>1 DEF SetDestroying, Typed, PoolBusy
    <2>2. status' \in [Machines -> Statuses]
      BY <1>1, StatusTyped DEF SetDestroying, Typed, TypeOK, Statuses, Active
    <2>3. /\ pc' \in [Jobs -> Labels] /\ result' \in [Requests -> {"none", "ok", "error"}]
          /\ todo' \in Nat
          /\ pc'[Pool] # "idle" => todo' > 0
          /\ pc'[Pool] \in {"idle", "cid", "start", "create", "undo"}
      BY <1>1, <2>1, EndTyped, GotoTyped DEF SetDestroying, Typed, TypeOK, PoolBusy, Labels
    <2>4. QED
      BY <1>1, <2>2, <2>3 DEF SetDestroying, Typed, TypeOK, PoolBusy
  <1>2. CASE Stop(j)
    <2>1. j # Pool
      BY <1>2 DEF Stop, Typed, PoolBusy
    <2>2. vm' \in [Machines -> {"none", "up", "sick", "gone"}] /\ faults' \in Nat
      BY SMTT(30), <1>2 DEF Stop, Typed, TypeOK, Fault
    <2>3. pc' \in [Jobs -> Labels] /\ pc'[Pool] = pc[Pool]
      BY <1>2, <2>1, GotoTyped DEF Stop, Labels
    <2>4. QED
      BY <1>2, <2>2, <2>3 DEF Stop, Typed, TypeOK, PoolBusy, rowVars
  <1>3. CASE SetDestroyed(j)
    <2>1. j # Pool
      BY <1>3 DEF SetDestroyed, Typed, PoolBusy
    <2>2. status' \in [Machines -> Statuses]
      BY <1>3, StatusTyped DEF SetDestroyed, Statuses
    <2>3. /\ pc' \in [Jobs -> Labels] /\ result' \in [Requests -> {"none", "ok", "error"}]
          /\ todo' \in Nat
          /\ pc'[Pool] # "idle" => todo' > 0
          /\ pc'[Pool] \in {"idle", "cid", "start", "create", "undo"}
      BY <1>3, <2>1, EndTyped, GotoTyped DEF SetDestroyed, Typed, TypeOK, PoolBusy, Labels
    <2>4. QED
      BY <1>3, <2>2, <2>3 DEF SetDestroyed, Typed, TypeOK, PoolBusy
  <1>4. CASE Fail(j)
    BY SMTT(30), <1>4, EndTyped DEF Fail, Fault, Typed, TypeOK, PoolBusy, rowVars
  <1>5. QED
    BY <1>1, <1>2, <1>3, <1>4 DEF DestroyStep

Warm == {i \in Machines : status[i] = "warm"}

(* The warm VMs can be counted.                                             *)
LEMMA WarmFinite == IsFiniteSet(Warm) /\ Cardinality(Warm) \in Nat
  BY ConstantsAssumption, FS_Subset, FS_CardinalityType DEF Warm

(* The requests, the loops and the environment keep the types. *)
LEMMA LoopsTyped ==
    ASSUME Typed,
           \/ \E j \in Requests : Request(j) \/ Destroy(j)
           \/ \E i \in Machines : CheckStep(i) \/ Sicken(i) \/ Recover(i)
           \/ ReconcileOnce \/ HealthCheckOnce \/ Restart
    PROVE  Typed'
  <1> USE JobsFact
  <1>1. ASSUME NEW j \in Requests, Request(j)
        PROVE  Typed'
    <2>1. who' \in [Jobs -> Users \cup {Nobody}] /\ who'[Pool] = who[Pool]
      BY SMTT(30), <1>1 DEF Request, Typed, TypeOK
    <2>2. QED
      BY <1>1, <2>1, GotoTyped DEF Request, Typed, TypeOK, PoolBusy, Labels, rowVars
  <1>2. ASSUME NEW j \in Requests, Destroy(j)
        PROVE  Typed'
    <2>1. inst' \in [Jobs -> Machines \cup {None}]
      BY SMTT(30), <1>2 DEF Destroy, Typed, TypeOK, Rows
    <2>2. QED
      BY <1>2, <2>1, GotoTyped DEF Destroy, Typed, TypeOK, PoolBusy, Labels, rowVars
  <1>3. ASSUME NEW i \in Machines, CheckStep(i)
        PROVE  Typed'
    <2>1. pc' \in [Jobs -> Labels] /\ pc'[Pool] = pc[Pool]
      BY <1>3, GotoTyped
      DEF CheckStep, IsHealthy, RecordHealthCheck, Reread, MarkUnhealthy, Labels
    <2>2. status' \in [Machines -> Statuses] /\ fails' \in [Machines -> Nat]
      BY SMTT(30), <1>3, StatusTyped
      DEF CheckStep, IsHealthy, RecordHealthCheck, Reread, MarkUnhealthy, Typed, TypeOK,
          Statuses, Active, rowVars
    <2>3. who' \in [Jobs -> Users \cup {Nobody}] /\ who'[Pool] = who[Pool]
      BY <1>3
      DEF CheckStep, IsHealthy, RecordHealthCheck, Reread, MarkUnhealthy, Typed, TypeOK
    <2>4. UNCHANGED <<owner, cid, vm, inst, num, result, todo, faults, sick>>
      BY <1>3 DEF CheckStep, IsHealthy, RecordHealthCheck, Reread, MarkUnhealthy, rowVars
    <2>5. QED
      BY <2>1, <2>2, <2>3, <2>4 DEF Typed, TypeOK, PoolBusy
  <1>4. ASSUME NEW i \in Machines, Sicken(i) \/ Recover(i)
        PROVE  Typed'
    <2>1. vm' \in [Machines -> {"none", "up", "sick", "gone"}] /\ sick' \in Nat
      BY SMTT(30), <1>4 DEF Sicken, Recover, Typed, TypeOK
    <2>2. UNCHANGED <<rowVars, jobVars, faults>>
      BY <1>4 DEF Sicken, Recover
    <2>3. QED
      BY <2>1, <2>2 DEF Typed, TypeOK, PoolBusy, rowVars, jobVars
  <1>5. CASE ReconcileOnce
    <2>1. todo' \in Nat /\ todo' > 0
      BY SMTT(30), <1>5, WarmFinite, ConstantsAssumption DEF ReconcileOnce, Warm
    <2>2. QED
      BY <1>5, <2>1, GotoTyped DEF ReconcileOnce, Typed, TypeOK, PoolBusy, Labels, rowVars
  <1>6. CASE HealthCheckOnce
    <2>1. \A i \in Machines : Listed[i] \in Labels /\ owner[i] \in Users \cup {Nobody}
      BY DEF Listed, Labels, Typed, TypeOK
    <2>2. /\ pc' \in [Jobs -> Labels] /\ pc'[Pool] = pc[Pool]
          /\ who' \in [Jobs -> Users \cup {Nobody}] /\ who'[Pool] = who[Pool]
      BY <1>6, <2>1 DEF HealthCheckOnce, Typed, TypeOK
    <2>3. QED
      BY <1>6, <2>2 DEF HealthCheckOnce, Typed, TypeOK, PoolBusy, rowVars
  <1>7. CASE Restart
    <2>1. pc' \in [Jobs -> Labels] /\ pc'[Pool] = "idle"
      BY <1>7 DEF Restart, Labels
    <2>2. result' \in [Requests -> {"none", "ok", "error"}] /\ faults' \in Nat /\ todo' \in Nat
      BY SMTT(30), <1>7 DEF Restart, Fault, Typed, TypeOK
    <2>3. QED
      BY <1>7, <2>1, <2>2 DEF Restart, Typed, TypeOK, PoolBusy, rowVars
  <1>8. QED
    BY <1>1, <1>2, <1>3, <1>4, <1>5, <1>6, <1>7

(* The types of all variables hold, and the reconciler keeps to its loop.   *)
THEOREM TypesHold == Spec => []Typed
  <1>1. Init => Typed
    BY SMTT(30), JobsFact DEF Init, Typed, TypeOK, PoolBusy, Statuses, Labels
  <1>2. Typed /\ [Next]_vars => Typed'
    <2> SUFFICES ASSUME Typed, [Next]_vars PROVE Typed'
      OBVIOUS
    <2>1. CASE Next
      BY <2>1, ProvisionTyped, DestroyTyped, LoopsTyped DEF Next
    <2>2. CASE UNCHANGED vars
      BY <2>2 DEF vars, rowVars, jobVars, Typed, TypeOK, PoolBusy
    <2>3. QED  BY <2>1, <2>2
  <1>3. QED  BY <1>1, <1>2, PTL DEF Spec

(* Every row, VM and job keeps to its type (TypeOK).                        *)
THEOREM TypeCorrect == Spec => []TypeOK
  <1>1. Typed => TypeOK
    BY DEF Typed
  <1>2. QED  BY <1>1, TypesHold, PTL
-----------------------------------------------------------------------------
(* One agent per user: rows change one at a time, and never past the index. *)

(* What a step does to the row of a machine: nothing, an UPDATE of the      *)
(* status, or a write that the partial unique index let through.            *)
LEMMA RowStep ==
    ASSUME Next
    PROVE  \/ UNCHANGED <<status, owner>>
           \/ \E i, s : UpdateStatus(i, s) /\ UNCHANGED owner
           \/ \E i, s, u :
                 /\ ~ Clash(i, u)
                 /\ status' = [status EXCEPT ![i] = s]
                 /\ owner' = [owner EXCEPT ![i] = u]
  <1> DEFINE Goal ==
           \/ UNCHANGED <<status, owner>>
           \/ \E i, s : UpdateStatus(i, s) /\ UNCHANGED owner
           \/ \E i, s, u :
                 /\ ~ Clash(i, u)
                 /\ status' = [status EXCEPT ![i] = s]
                 /\ owner' = [owner EXCEPT ![i] = u]
  <1>1. ASSUME NEW j \in Jobs, ProvisionStep(j) PROVE Goal
    <2>1. CASE ClaimWarm(j)
      <3>1. CASE UNCHANGED <<status, owner>>
        BY <3>1
      <3>2. ASSUME NEW i \in Machines,
                   ~ Clash(i, who[j]),
                   status' = [status EXCEPT ![i] = "provisioning"],
                   owner' = [owner EXCEPT ![i] = who[j]]
            PROVE  Goal
        BY <3>2
      <3>3. QED
        BY <2>1, <3>1, <3>2 DEF ClaimWarm
    <2>2. CASE Create(j)
      BY <2>2 DEF Create, CreateRefused
    <2>3. CASE SetRunning(j)
      BY <2>3 DEF SetRunning
    <2>4. CASE Lookup(j) \/ NextVsockCID(j) \/ Start(j) \/ Undo(j)
      BY <2>4 DEF Lookup, NextVsockCID, Start, Undo, rowVars
    <2>5. QED  BY <1>1, <2>1, <2>2, <2>3, <2>4 DEF ProvisionStep
  <1>2. ASSUME NEW j \in Jobs, DestroyStep(j) \/ Fail(j) PROVE Goal
    BY <1>2 DEF DestroyStep, Fail, SetDestroying, Stop, SetDestroyed, rowVars
  <1>3. ASSUME NEW i \in Machines, CheckStep(i) PROVE Goal
    BY <1>3 DEF CheckStep, IsHealthy, RecordHealthCheck, Reread, MarkUnhealthy, rowVars
  <1>4. CASE \/ \E j \in Requests : Request(j) \/ Destroy(j)
             \/ \E i \in Machines : Sicken(i) \/ Recover(i)
             \/ ReconcileOnce \/ HealthCheckOnce \/ Restart
    BY <1>4 DEF Request, Destroy, Sicken, Recover, ReconcileOnce, HealthCheckOnce, Restart, rowVars
  <1>5. QED  BY <1>1, <1>2, <1>3, <1>4 DEF Next

(* No step gives a user a second agent.                                     *)
LEMMA IndexKept ==
    ASSUME TypeOK, OneAgentPerUser, [Next]_vars
    PROVE  OneAgentPerUser'
  <1>1. CASE UNCHANGED <<status, owner>>
    BY <1>1 DEF OneAgentPerUser
  <1>2. ASSUME NEW i, NEW s, UpdateStatus(i, s), UNCHANGED owner
        PROVE  OneAgentPerUser'
    BY <1>2 DEF OneAgentPerUser, UpdateStatus, Clash, TypeOK
  <1>3. ASSUME NEW i, NEW s, NEW u,
               ~ Clash(i, u),
               status' = [status EXCEPT ![i] = s],
               owner' = [owner EXCEPT ![i] = u]
        PROVE  OneAgentPerUser'
    BY <1>3 DEF OneAgentPerUser, Clash, TypeOK
  <1>4. CASE Next
    BY <1>4, <1>1, <1>2, <1>3, RowStep
  <1>5. CASE UNCHANGED vars
    BY <1>5, <1>1 DEF vars, rowVars
  <1>6. QED  BY <1>4, <1>5

(* A user never has two agents, however provisioning requests, health       *)
(* checks, destroys, failures and restarts overlap (OneAgentPerUser).       *)
THEOREM OneAgent == Spec => []OneAgentPerUser
  <1>1. Init => OneAgentPerUser
    BY SMTT(30) DEF Init, OneAgentPerUser
  <1>2. QED  BY <1>1, IndexKept, TypeCorrect, PTL DEF Spec
-----------------------------------------------------------------------------
(* What a job knows of the machine it works on. *)

Creating == {"create", "undo"}
Checking == {"probe", "healthy", "unhealthy", "reread", "mark"}

(* A row is saved after its VM was started, and has no owner before.        *)
RowsStarted ==
    \A i \in Machines :
        /\ vm[i] = "none" => status[i] = "none"
        /\ status[i] = "none" => owner[i] = Nobody

(* The VM that a job has started has no row yet and is that job's alone.    *)
CreatesAlone ==
    /\ \A j \in Jobs : pc[j] \in Creating =>
          /\ inst[j] \in Machines
          /\ status[inst[j]] = "none"
          /\ vm[inst[j]] # "none"
    /\ \A j, k \in Jobs : j # k /\ pc[j] \in Creating /\ pc[k] \in Creating => inst[j] # inst[k]

(* Whoever changes the status of a machine has seen its row.                *)
WorksOnRow ==
    \A j \in Jobs :
        /\ pc[j] = "running" => inst[j] \in Rows
        /\ pc[j] = "destroying" => inst[j] \in Rows /\ j \notin Machines
        /\ pc[j] \in {"stop", "destroyed"} => Target(j) \in Rows
        /\ j \in Machines /\ pc[j] \in Checking => j \in Rows

Placed == RowsStarted /\ CreatesAlone /\ WorksOnRow

(* A step that moves one job, starts no VM and saves no new row keeps       *)
(* Placed if the job's new label asks nothing of its machine.               *)
LEMMA QuietPlaced ==
    ASSUME Typed, Placed, Typed',
           NEW j \in Jobs,
           \A k \in Jobs \ {j} : pc'[k] = pc[k] /\ inst'[k] = inst[k],
           pc'[j] \notin Creating,
           pc'[j] = "running" => inst'[j] \in Rows,
           pc'[j] = "destroying" => inst'[j] \in Rows /\ j \notin Machines,
           pc'[j] \in {"stop", "destroyed"} => Target(j)' \in Rows,
           j \in Machines /\ pc'[j] \in Checking => j \in Rows,
           \A i \in Machines :
              /\ status'[i] = "none" <=> status[i] = "none"
              /\ vm'[i] = "none" => status[i] = "none"
              /\ vm[i] # "none" => vm'[i] # "none"
              /\ status[i] = "none" => owner'[i] = owner[i]
    PROVE  Placed'
  <1>1. RowsStarted'
    BY DEF Placed, RowsStarted
  <1>2. CreatesAlone'
    BY SMTT(30) DEF Placed, CreatesAlone
  <1>3. Rows' = Rows
    BY DEF Rows
  <1>4. \A k \in Jobs \ {j} : Target(k)' = Target(k)
    BY DEF Target
  <1>5. WorksOnRow'
    BY <1>3, <1>4 DEF Placed, WorksOnRow
  <1>6. QED  BY <1>1, <1>2, <1>5 DEF Placed

(* Goto moves one job.                                                      *)
LEMMA GotoEffect ==
    ASSUME Typed, NEW j \in Jobs, NEW l, Goto(j, l)
    PROVE  /\ \A k \in Jobs \ {j} : pc'[k] = pc[k]
           /\ pc'[j] = l
  BY DEF Goto, Typed, TypeOK

(* End moves one job, to where jobs end.                                    *)
LEMMA EndEffect ==
    ASSUME Typed, NEW j \in Jobs, NEW r, End(j, r)
    PROVE  /\ \A k \in Jobs \ {j} : pc'[k] = pc[k]
           /\ pc'[j] \in {"done", "cid", "idle"}
  BY DEF End, Goto, Typed, TypeOK

(* The provisioning steps keep Placed.                                      *)
LEMMA ProvisionPlaced ==
    ASSUME Typed, Placed, Typed', NEW j \in Jobs, ProvisionStep(j)
    PROVE  Placed'
  <1> USE JobsFact
  <1>1. CASE Lookup(j)
    <2>1. pc'[j] \in {"done", "cid", "idle", "claim"} /\ \A k \in Jobs \ {j} : pc'[k] = pc[k]
      BY <1>1, GotoEffect, EndEffect DEF Lookup
    <2>2. UNCHANGED <<rowVars, vm>> /\ \A k \in Jobs \ {j} : inst'[k] = inst[k]
      BY <1>1 DEF Lookup, Typed, TypeOK
    <2>3. QED
      BY <2>1, <2>2, QuietPlaced DEF rowVars, Creating, Checking, Placed, RowsStarted
  <1>2. CASE ClaimWarm(j)
    <2>1. CASE UNCHANGED <<status, owner, inst>> /\ Goto(j, "cid")
      <3>1. pc'[j] = "cid" /\ \A k \in Jobs \ {j} : pc'[k] = pc[k]
        BY <2>1, GotoEffect
      <3>2. UNCHANGED vm
        BY <1>2 DEF ClaimWarm
      <3>3. QED
        BY <2>1, <3>1, <3>2, QuietPlaced DEF Creating, Checking, Placed, RowsStarted
    <2>2. ASSUME NEW i \in Machines, status[i] = "warm",
                 status' = [status EXCEPT ![i] = "provisioning"],
                 owner' = [owner EXCEPT ![i] = who[j]],
                 inst' = [inst EXCEPT ![j] = i],
                 Goto(j, "running")
          PROVE  Placed'
      <3>1. pc'[j] = "running" /\ \A k \in Jobs \ {j} : pc'[k] = pc[k]
        BY <2>2, GotoEffect
      <3>2. inst'[j] \in Rows /\ \A k \in Jobs \ {j} : inst'[k] = inst[k]
        BY SMTT(30), <2>2 DEF Rows, Typed, TypeOK
      <3>3. UNCHANGED vm
        BY <1>2 DEF ClaimWarm
      <3>4. \A k \in Machines :
               /\ status'[k] = "none" <=> status[k] = "none"
               /\ status[k] = "none" => owner'[k] = owner[k]
        BY <2>2 DEF Typed, TypeOK
      <3>5. QED
        BY <3>1, <3>2, <3>3, <3>4, QuietPlaced DEF Creating, Checking, Placed, RowsStarted
    <2>3. QED  BY <1>2, <2>1, <2>2 DEF ClaimWarm
  <1>3. CASE SetRunning(j)
    <2>1. pc'[j] \in {"done", "cid", "idle"} /\ \A k \in Jobs \ {j} : pc'[k] = pc[k]
      BY <1>3, EndEffect DEF SetRunning
    <2>2. \A i \in Machines : status'[i] = "none" <=> status[i] = "none"
      BY SMTT(30), <1>3 DEF SetRunning, UpdateStatus, Placed, WorksOnRow, Rows, Typed, TypeOK
    <2>3. QED
      BY <1>3, <2>1, <2>2, QuietPlaced DEF SetRunning, Creating, Checking, Placed, RowsStarted
  <1>4. CASE NextVsockCID(j)
    <2>1. pc'[j] = "start" /\ \A k \in Jobs \ {j} : pc'[k] = pc[k]
      BY <1>4, GotoEffect DEF NextVsockCID
    <2>2. QED
      BY <1>4, <2>1, QuietPlaced
      DEF NextVsockCID, rowVars, Creating, Checking, Placed, RowsStarted
  <1>5. CASE Start(j)
    <2>1. CASE End(j, "error") /\ UNCHANGED <<vm, inst>>
      <3>1. pc'[j] \in {"done", "cid", "idle"} /\ \A k \in Jobs \ {j} : pc'[k] = pc[k]
        BY <2>1, EndEffect
      <3>2. UNCHANGED <<status, owner>>
        BY <1>5 DEF Start
      <3>3. QED
        BY <2>1, <3>1, <3>2, QuietPlaced DEF Creating, Checking, Placed, RowsStarted
    <2>2. ASSUME NEW i \in Machines, vm[i] = "none",
                 vm' = [vm EXCEPT ![i] = "up"],
                 inst' = [inst EXCEPT ![j] = i],
                 Goto(j, "create")
          PROVE  Placed'
      <3>1. pc'[j] = "create" /\ \A k \in Jobs \ {j} : pc'[k] = pc[k]
        BY <2>2, GotoEffect
      <3>2. inst'[j] = i /\ \A k \in Jobs \ {j} : inst'[k] = inst[k]
        BY SMTT(30), <2>2 DEF Typed, TypeOK
      <3>3. UNCHANGED <<status, owner>>
        BY <1>5 DEF Start
      <3>4. RowsStarted'
        BY <2>2, <3>3 DEF Placed, RowsStarted, Typed, TypeOK
      <3>5. CreatesAlone'
        BY SMTT(30), <2>2, <3>1, <3>2, <3>3 DEF Placed, RowsStarted, CreatesAlone, Creating, Typed, TypeOK
      <3>6. WorksOnRow'
        BY <3>1, <3>2, <3>3 DEF Placed, WorksOnRow, Target, Rows, Checking
      <3>7. QED  BY <3>4, <3>5, <3>6 DEF Placed
    <2>3. QED  BY <1>5, <2>1, <2>2 DEF Start
  <1>6. CASE Create(j)
    <2> inst[j] \in Machines /\ status[inst[j]] = "none" /\ vm[inst[j]] # "none"
      BY <1>6 DEF Create, Placed, CreatesAlone, Creating
    <2>1. CASE UNCHANGED <<status, owner>> /\ Goto(j, "undo")
      <3>1. pc'[j] = "undo" /\ \A k \in Jobs \ {j} : pc'[k] = pc[k]
        BY <2>1, GotoEffect
      <3>2. UNCHANGED <<vm, inst>>
        BY <1>6 DEF Create
      <3>3. CreatesAlone'
        BY SMTT(30), <1>6, <2>1, <3>1, <3>2 DEF Create, Placed, CreatesAlone, Creating
      <3>4. RowsStarted' /\ WorksOnRow'
        BY SMTT(30), <2>1, <3>1, <3>2 DEF Placed, RowsStarted, WorksOnRow, Target, Rows, Checking
      <3>5. QED  BY <3>3, <3>4 DEF Placed
    <2>2. ASSUME NEW s \in {"warm", "running"},
                 status' = [status EXCEPT ![inst[j]] = s],
                 owner' = [owner EXCEPT ![inst[j]] = who[j]],
                 End(j, "ok")
          PROVE  Placed'
      <3>1. pc'[j] \in {"done", "cid", "idle"} /\ \A k \in Jobs \ {j} : pc'[k] = pc[k]
        BY <2>2, EndEffect
      <3>2. UNCHANGED <<vm, inst>>
        BY <1>6 DEF Create
      <3>3. RowsStarted'
        BY <2>2, <3>2 DEF Placed, RowsStarted, Typed, TypeOK
      <3>8. \A k \in Jobs : pc'[k] \in Creating => k # j /\ pc[k] \in Creating
        BY <3>1 DEF Creating
      <3>9. \A k \in Jobs \ {j} : pc[k] \in Creating => inst[k] # inst[j]
        BY <1>6 DEF Create, Placed, CreatesAlone, Creating
      <3>4. CreatesAlone'
        BY <2>2, <3>8, <3>9, <3>2 DEF Placed, CreatesAlone, Typed, TypeOK
      <3>5. Rows \subseteq Rows'
        BY <2>2 DEF Rows, Typed, TypeOK
      <3>6. WorksOnRow'
        BY <3>1, <3>2, <3>5 DEF Placed, WorksOnRow, Target, Checking
      <3>7. QED  BY <3>3, <3>4, <3>6 DEF Placed
    <2>3. QED  BY <1>6, <2>1, <2>2 DEF Create
  <1>7. CASE Undo(j)
    <2>1. pc'[j] \in {"done", "cid", "idle"} /\ \A k \in Jobs \ {j} : pc'[k] = pc[k]
      BY <1>7, EndEffect DEF Undo
    <2>2. \A i \in Machines : vm[i] # "none" => vm'[i] # "none"
      BY <1>7 DEF Undo, Typed, TypeOK
    <2>3. \A i \in Machines : vm'[i] = "none" => vm[i] = "none"
      BY <1>7 DEF Undo, Typed, TypeOK
    <2>4. QED
      BY <1>7, <2>1, <2>2, <2>3, QuietPlaced
      DEF Undo, rowVars, Creating, Checking, Placed, RowsStarted
  <1>8. QED
    BY <1>1, <1>2, <1>3, <1>4, <1>5, <1>6, <1>7 DEF ProvisionStep

(* The destroying steps keep Placed.                                        *)
LEMMA DestroyPlaced ==
    ASSUME Typed, Placed, Typed', NEW j \in Jobs, DestroyStep(j) \/ Fail(j)
    PROVE  Placed'
  <1> USE JobsFact
  <1>1. CASE SetDestroying(j)
    <2>1. pc'[j] \in {"done", "cid", "idle", "stop"} /\ \A k \in Jobs \ {j} : pc'[k] = pc[k]
      BY <1>1, GotoEffect, EndEffect DEF SetDestroying
    <2>2. inst[j] \in Rows /\ j \notin Machines /\ UNCHANGED <<inst, vm, owner>>
      BY <1>1 DEF SetDestroying, Placed, WorksOnRow
    <2>3. \A i \in Machines : status'[i] = "none" <=> status[i] = "none"
      BY <1>1, <2>2 DEF SetDestroying, UpdateStatus, Rows, Typed, TypeOK
    <2>4. Target(j)' \in Rows
      BY <2>2 DEF Target
    <2>5. QED
      BY <2>1, <2>2, <2>3, <2>4, QuietPlaced DEF Creating, Checking, Placed, RowsStarted
  <1>2. CASE Stop(j)
    <2>1. pc'[j] = "destroyed" /\ \A k \in Jobs \ {j} : pc'[k] = pc[k]
      BY <1>2, GotoEffect DEF Stop
    <2>2. Target(j) \in Rows /\ UNCHANGED <<inst, status, owner>> /\ Target(j)' = Target(j)
      BY <1>2 DEF Stop, Placed, WorksOnRow, rowVars, Target
    <2>3. \A i \in Machines : /\ vm[i] # "none" => vm'[i] # "none"
                              /\ vm'[i] = "none" => vm[i] = "none"
      BY <1>2 DEF Stop, Typed, TypeOK
    <2>4. QED
      BY <2>1, <2>2, <2>3, QuietPlaced DEF Creating, Checking, Placed, RowsStarted
  <1>3. CASE SetDestroyed(j)
    <2>1. /\ pc'[j] \in {"done", "cid", "idle", "lookup"}
          /\ \A k \in Jobs \ {j} : pc'[k] = pc[k]
      BY <1>3, GotoEffect, EndEffect DEF SetDestroyed
    <2>2. Target(j) \in Rows /\ UNCHANGED <<inst, vm, owner>>
      BY <1>3 DEF SetDestroyed, Placed, WorksOnRow
    <2>3. \A i \in Machines : status'[i] = "none" <=> status[i] = "none"
      BY <1>3, <2>2 DEF SetDestroyed, UpdateStatus, Rows, Typed, TypeOK
    <2>4. QED
      BY <2>1, <2>2, <2>3, QuietPlaced DEF Creating, Checking, Placed, RowsStarted
  <1>4. CASE Fail(j)
    <2>1. pc'[j] \in {"done", "cid", "idle"} /\ \A k \in Jobs \ {j} : pc'[k] = pc[k]
      BY <1>4, EndEffect DEF Fail
    <2>2. QED
      BY <1>4, <2>1, QuietPlaced DEF Fail, rowVars, Creating, Checking, Placed, RowsStarted
  <1>5. QED  BY <1>1, <1>2, <1>3, <1>4 DEF DestroyStep

(* Requests, loops and environment keep Placed.                             *)
LEMMA LoopsPlaced ==
    ASSUME Typed, Placed, Typed',
           \/ \E j \in Requests : Request(j) \/ Destroy(j)
           \/ \E i \in Machines : CheckStep(i) \/ Sicken(i) \/ Recover(i)
           \/ ReconcileOnce \/ HealthCheckOnce \/ Restart
    PROVE  Placed'
  <1> USE JobsFact
  <1>1. ASSUME NEW j \in Requests, Request(j)
        PROVE  Placed'
    <2>1. pc'[j] = "lookup" /\ \A k \in Jobs \ {j} : pc'[k] = pc[k]
      BY <1>1, GotoEffect DEF Request
    <2>2. QED
      BY <1>1, <2>1, QuietPlaced DEF Request, rowVars, Creating, Checking, Placed, RowsStarted
  <1>2. ASSUME NEW j \in Requests, Destroy(j)
        PROVE  Placed'
    <2>1. pc'[j] = "destroying" /\ \A k \in Jobs \ {j} : pc'[k] = pc[k]
      BY <1>2, GotoEffect DEF Destroy
    <2>2. inst'[j] \in Rows /\ \A k \in Jobs \ {j} : inst'[k] = inst[k]
      BY <1>2 DEF Destroy, Typed, TypeOK
    <2>3. QED
      BY <1>2, <2>1, <2>2, QuietPlaced
      DEF Destroy, rowVars, Creating, Checking, Placed, RowsStarted
  <1>3. ASSUME NEW i \in Machines, CheckStep(i)
        PROVE  Placed'
    <2>1. /\ pc[i] \in Checking
          /\ pc'[i] \in Checking \cup {"idle", "stop"}
          /\ \A k \in Jobs \ {i} : pc'[k] = pc[k]
      BY <1>3, GotoEffect
      DEF CheckStep, IsHealthy, RecordHealthCheck, Reread, MarkUnhealthy, Checking
    <2>2. i \in Rows /\ Target(i)' = i
      BY <2>1 DEF Placed, WorksOnRow, Target
    <2>3. UNCHANGED <<inst, vm, owner>>
      BY <1>3 DEF CheckStep, IsHealthy, RecordHealthCheck, Reread, MarkUnhealthy, rowVars
    <2>4. \A k \in Machines : status'[k] = "none" <=> status[k] = "none"
      BY <1>3, <2>2
      DEF CheckStep, IsHealthy, RecordHealthCheck, Reread, MarkUnhealthy, UpdateStatus,
          Rows, rowVars, Typed, TypeOK
    <2>5. QED
      BY <2>1, <2>2, <2>3, <2>4, QuietPlaced DEF Creating, Checking, Placed, RowsStarted
  <1>4. ASSUME NEW i \in Machines, Sicken(i) \/ Recover(i)
        PROVE  Placed'
    <2>1. \A k \in Machines : /\ vm[k] # "none" => vm'[k] # "none"
                              /\ vm'[k] = "none" => vm[k] = "none"
      BY <1>4 DEF Sicken, Recover, Typed, TypeOK
    <2>2. UNCHANGED <<status, owner, pc, inst>>
      BY <1>4 DEF Sicken, Recover, rowVars, jobVars
    <2>3. QED
      BY <2>1, <2>2 DEF Placed, RowsStarted, CreatesAlone, WorksOnRow, Target, Rows
  <1>5. CASE ReconcileOnce
    <2>1. pc'[Pool] = "cid" /\ \A k \in Jobs \ {Pool} : pc'[k] = pc[k]
      BY <1>5, GotoEffect DEF ReconcileOnce
    <2>2. QED
      BY <1>5, <2>1, QuietPlaced
      DEF ReconcileOnce, rowVars, Creating, Checking, Placed, RowsStarted
  <1>6. CASE HealthCheckOnce
    <2>1. UNCHANGED <<status, owner, vm, inst>>
      BY <1>6 DEF HealthCheckOnce, rowVars
    <2>2. \A k \in Jobs \ Machines : pc'[k] = pc[k]
      BY <1>6 DEF HealthCheckOnce
    <2>3. \A i \in Machines : /\ pc'[i] \in {"probe", "stop", "idle"}
                              /\ pc'[i] # "idle" => i \in Rows
      BY <1>6 DEF HealthCheckOnce, Listed, Rows
    <2>4. CreatesAlone'
      BY <2>1, <2>2, <2>3 DEF Placed, CreatesAlone, Creating
    <2>5. WorksOnRow'
      BY SMTT(30), <2>1, <2>2, <2>3 DEF Placed, WorksOnRow, Target, Rows, Checking
    <2>6. QED
      BY <2>1, <2>4, <2>5 DEF Placed, RowsStarted
  <1>7. CASE Restart
    <2>1. \A k \in Jobs : pc'[k] \in {"idle", "done"}
      BY <1>7 DEF Restart
    <2>2. QED
      BY <1>7, <2>1
      DEF Restart, Placed, RowsStarted, CreatesAlone, WorksOnRow, Creating, Checking, rowVars
  <1>8. QED
    BY <1>1, <1>2, <1>3, <1>4, <1>5, <1>6, <1>7

(* Rows come after their VMs, and every job works on a machine it has seen. *)
THEOREM JobsPlaced == Spec => []Placed
  <1>1. Init => Placed
    BY SMTT(30) DEF Init, Placed, RowsStarted, CreatesAlone, WorksOnRow, Creating, Checking
  <1>2. Placed /\ Typed /\ Typed' /\ [Next]_vars => Placed'
    <2> SUFFICES ASSUME Placed, Typed, Typed', [Next]_vars PROVE Placed'
      OBVIOUS
    <2>1. CASE Next
      BY <2>1, ProvisionPlaced, DestroyPlaced, LoopsPlaced DEF Next
    <2>2. CASE UNCHANGED vars
      BY <2>2
      DEF vars, rowVars, jobVars, Placed, RowsStarted, CreatesAlone, WorksOnRow, Target, Rows
    <2>3. QED  BY <2>1, <2>2
  <1>3. QED  BY <1>1, <1>2, TypesHold, PTL DEF Spec
-----------------------------------------------------------------------------
(* An agent is never handed to a second user: a warm machine is claimed     *)
(* while it has no owner, and a new row is saved once (OwnerKept).          *)
THEOREM OwnersKept == Spec => OwnerKept
  <1> DEFINE Kept == \A i \in Machines : owner[i] # Nobody => owner'[i] = owner[i]
  <1>1. Typed /\ Placed /\ [Next]_vars => Kept
    <2> SUFFICES ASSUME Typed, Placed, [Next]_vars PROVE Kept
      OBVIOUS
    <2>1. CASE UNCHANGED owner
      BY <2>1
    <2>2. ASSUME NEW j \in Jobs, ClaimWarm(j) PROVE Kept
      <3>1. ASSUME NEW i \in Machines, owner[i] = Nobody, owner' = [owner EXCEPT ![i] = who[j]]
            PROVE  Kept
        BY <3>1 DEF Typed, TypeOK
      <3>2. QED  BY <2>1, <2>2, <3>1 DEF ClaimWarm
    <2>3. ASSUME NEW j \in Jobs, Create(j) PROVE Kept
      <3>1. owner[inst[j]] = Nobody
        BY <2>3 DEF Create, Placed, CreatesAlone, RowsStarted, Creating
      <3>2. QED  BY <2>3, <3>1 DEF Create, Typed, TypeOK
    <2>4. \/ UNCHANGED owner
          \/ \E j \in Jobs : ClaimWarm(j) \/ Create(j)
      BY DEF Next, ProvisionStep, DestroyStep, CheckStep, Lookup, SetRunning, NextVsockCID, Start,
             Undo, SetDestroying, Stop, SetDestroyed, Fail, Request, Destroy, IsHealthy,
             RecordHealthCheck, Reread, MarkUnhealthy, Sicken, Recover, ReconcileOnce,
             HealthCheckOnce, Restart, vars, rowVars
    <2>5. QED  BY <2>1, <2>2, <2>3, <2>4
  <1>2. QED  BY <1>1, TypesHold, JobsPlaced, PTL DEF Spec, OwnerKept
-----------------------------------------------------------------------------
(* No VM is lost: a row becomes destroyed only after its VM is gone. *)

Runs(i) == vm[i] \in {"up", "sick"}

Unsaved(i) == \E j \in Jobs : inst[j] = i /\ pc[j] \in {"create", "undo"}

StoppedFirst ==
    faults = 0 => \A j \in Jobs : pc[j] = "destroyed" => vm[Target(j)] = "gone"

Watched == NoVMLeak /\ StoppedFirst

(* The same for a step of a job that has no unsaved VM. *)
LEMMA QuietWatched ==
    ASSUME Watched, Placed, NEW j \in Jobs,
           \A k \in Jobs \ {j} : pc'[k] = pc[k] /\ inst'[k] = inst[k],
           pc[j] \notin Creating,
           pc'[j] = "destroyed" /\ faults' = 0 => vm'[Target(j)'] = "gone",
           faults' = 0 => faults = 0,
           \A i \in Machines :
              /\ Runs(i)' => Runs(i)
              /\ vm[i] = "gone" => vm'[i] = "gone"
              /\ faults' = 0 /\ status'[i] \in {"none", "destroyed"} /\ Runs(i)'
                     => status[i] \in {"none", "destroyed"}
    PROVE  Watched'
  <1>1. ASSUME faults' = 0, NEW i \in Machines, Runs(i)', status'[i] \in {"none", "destroyed"}
        PROVE  Unsaved(i)'
    <2>1. Unsaved(i)
      BY <1>1 DEF Watched, NoVMLeak, Unsaved, Runs
    <2>2. PICK k \in Jobs : inst[k] = i /\ pc[k] \in {"create", "undo"}
      BY <2>1 DEF Unsaved
    <2>3. k # j
      BY <2>2 DEF Creating
    <2>4. QED  BY <2>2, <2>3 DEF Unsaved
  <1>2. NoVMLeak'
    BY <1>1 DEF NoVMLeak, Unsaved, Runs
  <1>3. \A k \in Jobs \ {j} : Target(k)' = Target(k)
    BY DEF Target
  <1>4. StoppedFirst'
    BY SMTT(30), <1>3 DEF Watched, StoppedFirst, Placed, WorksOnRow, Rows
  <1>5. QED  BY <1>2, <1>4 DEF Watched

(* The provisioning steps keep Watched.                                     *)
LEMMA ProvisionWatched ==
    ASSUME Typed, Placed, Watched, NEW j \in Jobs, ProvisionStep(j)
    PROVE  Watched'
  <1> USE JobsFact
  <1>1. CASE Lookup(j)
    <2>1. pc'[j] # "destroyed" /\ \A k \in Jobs \ {j} : pc'[k] = pc[k] /\ inst'[k] = inst[k]
      BY SMTT(30), <1>1, GotoEffect, EndEffect DEF Lookup, Typed, TypeOK
    <2>2. QED
      BY <1>1, <2>1, QuietWatched DEF Lookup, Creating, Runs, rowVars
  <1>2. CASE ClaimWarm(j)
    <2>1. pc'[j] # "destroyed" /\ \A k \in Jobs \ {j} : pc'[k] = pc[k]
      BY SMTT(30), <1>2, GotoEffect DEF ClaimWarm
    <2>2. \A k \in Jobs \ {j} : inst'[k] = inst[k]
      BY <1>2 DEF ClaimWarm, Typed, TypeOK
    <2>3. \A i \in Machines : status'[i] \in {"none", "destroyed"} => status'[i] = status[i]
      BY <1>2 DEF ClaimWarm, Typed, TypeOK
    <2>4. pc[j] \notin Creating /\ UNCHANGED vm /\ (faults' = 0 => faults = 0)
      BY SMTT(30), <1>2 DEF ClaimWarm, Creating, Fault, Typed, TypeOK
    <2>5. QED
      BY <2>1, <2>2, <2>3, <2>4, QuietWatched DEF Runs
  <1>3. CASE SetRunning(j)
    <2>1. pc'[j] # "destroyed" /\ \A k \in Jobs \ {j} : pc'[k] = pc[k]
      BY <1>3, EndEffect DEF SetRunning
    <2>2. \A i \in Machines : status'[i] \in {"none", "destroyed"} => status'[i] = status[i]
      BY <1>3 DEF SetRunning, UpdateStatus, Typed, TypeOK
    <2>3. QED
      BY <1>3, <2>1, <2>2, QuietWatched DEF SetRunning, Creating, Runs
  <1>4. CASE NextVsockCID(j)
    <2>1. pc'[j] # "destroyed" /\ \A k \in Jobs \ {j} : pc'[k] = pc[k]
      BY SMTT(30), <1>4, GotoEffect DEF NextVsockCID
    <2>2. QED
      BY <1>4, <2>1, QuietWatched DEF NextVsockCID, Creating, Runs, rowVars
  <1>5. CASE Start(j)
    <2>1. CASE End(j, "error") /\ UNCHANGED <<vm, inst>>
      <3>1. pc'[j] # "destroyed" /\ \A k \in Jobs \ {j} : pc'[k] = pc[k]
        BY <2>1, EndEffect
      <3>2. UNCHANGED status /\ pc[j] \notin Creating /\ (faults' = 0 => faults = 0)
        BY SMTT(30), <1>5 DEF Start, Creating, Fault, Typed, TypeOK
      <3>3. QED
        BY <2>1, <3>1, <3>2, QuietWatched DEF Runs
    <2>2. ASSUME NEW i \in Machines, vm[i] = "none",
                 vm' = [vm EXCEPT ![i] = "up"],
                 inst' = [inst EXCEPT ![j] = i],
                 Goto(j, "create"), UNCHANGED faults
          PROVE  Watched'
      <3>1. pc'[j] = "create" /\ \A k \in Jobs \ {j} : pc'[k] = pc[k]
        BY <2>2, GotoEffect
      <3>2. inst'[j] = i /\ \A k \in Jobs \ {j} : inst'[k] = inst[k]
        BY <2>2 DEF Typed, TypeOK
      <3>3. pc[j] = "start" /\ UNCHANGED status
        BY <1>5 DEF Start
      <3>4. NoVMLeak'
        <4>1. SUFFICES ASSUME faults = 0, NEW k \in Machines, Runs(k)',
                              status[k] \in {"none", "destroyed"}
                       PROVE  Unsaved(k)'
          BY <2>2, <3>3 DEF NoVMLeak, Runs, Unsaved
        <4>2. CASE k = i
          BY <3>1, <3>2, <4>2 DEF Unsaved
        <4>3. CASE k # i
          <5>1. Unsaved(k)
            BY <2>2, <4>1, <4>3 DEF Watched, NoVMLeak, Runs, Unsaved, Typed, TypeOK
          <5>2. QED  BY <3>1, <3>2, <3>3, <5>1 DEF Unsaved
        <4>4. QED  BY <4>2, <4>3
      <3>5. StoppedFirst'
        BY SMTT(30), <2>2, <3>1, <3>2
        DEF Watched, StoppedFirst, Target, Placed, WorksOnRow, Rows, Typed, TypeOK
      <3>6. QED  BY <3>4, <3>5 DEF Watched
    <2>3. QED  BY <1>5, <2>1, <2>2 DEF Start
  <1>6. CASE Create(j)
    <2> inst[j] \in Machines
      BY <1>6 DEF Create, Placed, CreatesAlone, Creating
    <2>1. /\ pc'[j] \in {"done", "cid", "idle", "undo"}
          /\ \A k \in Jobs \ {j} : pc'[k] = pc[k]
      BY <1>6, EndEffect, GotoEffect DEF Create
    <2>2. UNCHANGED <<vm, inst>> /\ (faults' = 0 => faults = 0)
      BY SMTT(30), <1>6 DEF Create, Fault, Typed, TypeOK
    <2>3. /\ \A i \in Machines \ {inst[j]} : status'[i] = status[i]
          /\ pc'[j] # "undo" => status'[inst[j]] \in {"warm", "running"}
          /\ pc'[j] = "undo" => status' = status
      BY SMTT(30), <1>6, EndEffect, GotoEffect DEF Create, Typed, TypeOK
    <2>4. NoVMLeak'
      <3>1. SUFFICES ASSUME faults = 0, NEW k \in Machines, Runs(k),
                            status'[k] \in {"none", "destroyed"}
                     PROVE  Unsaved(k)'
        BY <2>2 DEF NoVMLeak, Runs, Unsaved
      <3>2. Unsaved(k)
        BY <2>3, <3>1 DEF Watched, NoVMLeak, Runs, Unsaved, Typed, TypeOK
      <3>3. QED  BY <2>1, <2>2, <2>3, <3>1, <3>2 DEF Unsaved
    <2>5. StoppedFirst'
      BY <2>1, <2>2 DEF Watched, StoppedFirst, Target
    <2>6. QED  BY <2>4, <2>5 DEF Watched
  <1>7. CASE Undo(j)
    <2>1. pc'[j] # "destroyed" /\ \A k \in Jobs \ {j} : pc'[k] = pc[k]
      BY <1>7, EndEffect DEF Undo
    <2>2. UNCHANGED <<status, inst, faults>> /\ vm' = [vm EXCEPT ![inst[j]] = "gone"]
      BY <1>7 DEF Undo, rowVars
    <2>3. NoVMLeak'
      <3>1. SUFFICES ASSUME faults = 0, NEW k \in Machines, Runs(k)',
                            status[k] \in {"none", "destroyed"}
                     PROVE  Unsaved(k)'
        BY <2>2 DEF NoVMLeak, Runs, Unsaved
      <3>2. k # inst[j] /\ Runs(k)
        BY <2>2, <3>1 DEF Runs, Typed, TypeOK
      <3>3. Unsaved(k)
        BY <3>1, <3>2 DEF Watched, NoVMLeak, Runs, Unsaved
      <3>4. QED  BY <2>1, <2>2, <3>2, <3>3 DEF Unsaved
    <2>4. StoppedFirst'
      BY SMTT(30), <2>1, <2>2 DEF Watched, StoppedFirst, Target, Placed, WorksOnRow, Rows, Typed, TypeOK
    <2>5. QED  BY <2>3, <2>4 DEF Watched
  <1>8. QED
    BY <1>1, <1>2, <1>3, <1>4, <1>5, <1>6, <1>7 DEF ProvisionStep

(* The destroying steps keep Watched.                                       *)
LEMMA DestroyWatched ==
    ASSUME Typed, Placed, Watched, NEW j \in Jobs, DestroyStep(j) \/ Fail(j)
    PROVE  Watched'
  <1> USE JobsFact
  <1>1. CASE SetDestroying(j)
    <2>1. pc'[j] # "destroyed" /\ \A k \in Jobs \ {j} : pc'[k] = pc[k]
      BY SMTT(30), <1>1, GotoEffect, EndEffect DEF SetDestroying
    <2>2. \A i \in Machines : status'[i] \in {"none", "destroyed"} => status'[i] = status[i]
      BY <1>1 DEF SetDestroying, UpdateStatus, Typed, TypeOK
    <2>3. QED
      BY <1>1, <2>1, <2>2, QuietWatched DEF SetDestroying, Creating, Runs
  <1>2. CASE Stop(j)
    <2>1. \A k \in Jobs \ {j} : pc'[k] = pc[k]
      BY <1>2, GotoEffect DEF Stop
    <2>2. Target(j) \in Machines /\ UNCHANGED <<inst, status>> /\ Target(j)' = Target(j)
      BY <1>2 DEF Stop, Placed, WorksOnRow, Rows, rowVars, Target
    <2>3. faults' = 0 => faults = 0 /\ vm'[Target(j)] = "gone"
      BY SMTT(30), <1>2, <2>2 DEF Stop, Fault, Typed, TypeOK
    <2>4. \A i \in Machines : /\ Runs(i)' => Runs(i)
                              /\ vm[i] = "gone" => vm'[i] = "gone"
      BY <1>2 DEF Stop, Runs, Typed, TypeOK
    <2>5. QED
      BY <1>2, <2>1, <2>2, <2>3, <2>4, QuietWatched DEF Stop, Creating
  <1>3. CASE SetDestroyed(j)
    <2>1. pc'[j] # "destroyed" /\ \A k \in Jobs \ {j} : pc'[k] = pc[k]
      BY SMTT(30), <1>3, GotoEffect, EndEffect DEF SetDestroyed
    <2>2. Target(j) \in Machines /\ UNCHANGED <<inst, vm, faults>> /\ pc[j] \notin Creating
      BY <1>3 DEF SetDestroyed, Placed, WorksOnRow, Rows, Creating
    <2>3. \A i \in Machines \ {Target(j)} : status'[i] = status[i]
      BY <1>3 DEF SetDestroyed, UpdateStatus, Typed, TypeOK
    <2>4. faults = 0 => ~ Runs(Target(j))
      BY <1>3 DEF SetDestroyed, Watched, StoppedFirst, Runs
    <2>5. \A i \in Machines : Runs(i)' <=> Runs(i)
      BY <2>2 DEF Runs
    <2>6. QED
      BY <2>1, <2>2, <2>3, <2>4, <2>5, QuietWatched
  <1>4. CASE Fail(j)
    <2>1. faults' # 0 /\ faults' \in Nat
      BY SMTT(30), <1>4 DEF Fail, Fault, Typed, TypeOK
    <2>2. QED
      BY <2>1 DEF Watched, NoVMLeak, StoppedFirst
  <1>5. QED  BY <1>1, <1>2, <1>3, <1>4 DEF DestroyStep

(* Requests, loops and environment keep Watched.                            *)
LEMMA LoopsWatched ==
    ASSUME Typed, Placed, Watched,
           \/ \E j \in Requests : Request(j) \/ Destroy(j)
           \/ \E i \in Machines : CheckStep(i) \/ Sicken(i) \/ Recover(i)
           \/ ReconcileOnce \/ HealthCheckOnce \/ Restart
    PROVE  Watched'
  <1> USE JobsFact
  <1>1. ASSUME NEW j \in Requests, Request(j) \/ Destroy(j)
        PROVE  Watched'
    <2>1. /\ pc'[j] # "destroyed"
          /\ \A k \in Jobs \ {j} : pc'[k] = pc[k] /\ inst'[k] = inst[k]
      BY SMTT(30), <1>1, GotoEffect DEF Request, Destroy, Typed, TypeOK
    <2>2. UNCHANGED <<status, vm, faults>> /\ pc[j] \notin Creating
      BY <1>1 DEF Request, Destroy, rowVars, Creating
    <2>3. QED
      BY <2>1, <2>2, QuietWatched DEF Runs
  <1>2. ASSUME NEW i \in Machines, CheckStep(i)
        PROVE  Watched'
    <2>1. /\ pc[i] \notin Creating /\ pc'[i] # "destroyed"
          /\ \A k \in Jobs \ {i} : pc'[k] = pc[k]
      BY SMTT(30), <1>2, GotoEffect
      DEF CheckStep, IsHealthy, RecordHealthCheck, Reread, MarkUnhealthy, Creating
    <2>2. UNCHANGED <<inst, vm, faults>>
      BY <1>2 DEF CheckStep, IsHealthy, RecordHealthCheck, Reread, MarkUnhealthy
    <2>3. \A k \in Machines : status'[k] \in {"none", "destroyed"} => status'[k] = status[k]
      BY <1>2
      DEF CheckStep, IsHealthy, RecordHealthCheck, Reread, MarkUnhealthy, UpdateStatus,
          rowVars, Typed, TypeOK
    <2>4. QED
      BY <2>1, <2>2, <2>3, QuietWatched DEF Runs
  <1>3. ASSUME NEW i \in Machines, Sicken(i) \/ Recover(i)
        PROVE  Watched'
    <2>1. \A k \in Machines : /\ Runs(k)' <=> Runs(k)
                              /\ vm[k] = "gone" => vm'[k] = "gone"
      BY <1>3 DEF Sicken, Recover, Runs, Typed, TypeOK
    <2>2. UNCHANGED <<status, pc, inst, faults>>
      BY <1>3 DEF Sicken, Recover, rowVars, jobVars
    <2>3. NoVMLeak'
      BY <2>1, <2>2 DEF Watched, NoVMLeak, Runs
    <2>4. StoppedFirst'
      BY <2>1, <2>2 DEF Watched, StoppedFirst, Placed, WorksOnRow, Rows, Target
    <2>5. QED  BY <2>3, <2>4 DEF Watched
  <1>4. CASE ReconcileOnce
    <2>1. pc'[Pool] # "destroyed" /\ \A k \in Jobs \ {Pool} : pc'[k] = pc[k]
      BY SMTT(30), <1>4, GotoEffect DEF ReconcileOnce
    <2>2. QED
      BY <1>4, <2>1, QuietWatched DEF ReconcileOnce, rowVars, Creating, Runs
  <1>5. CASE HealthCheckOnce
    <2>1. UNCHANGED <<status, vm, inst, faults>>
      BY <1>5 DEF HealthCheckOnce, rowVars
    <2>2. /\ \A k \in Jobs : pc[k] \in Creating => pc'[k] = pc[k]
          /\ \A k \in Jobs : pc'[k] = "destroyed" => pc[k] = "destroyed"
      BY <1>5 DEF HealthCheckOnce, Listed, Creating
    <2>3. NoVMLeak'
      BY SMTT(30), <2>1, <2>2 DEF Watched, NoVMLeak, Creating
    <2>4. StoppedFirst'
      BY <2>1, <2>2 DEF Watched, StoppedFirst, Target
    <2>5. QED  BY <2>3, <2>4 DEF Watched
  <1>6. CASE Restart
    <2>1. faults' # 0 /\ faults' \in Nat
      BY SMTT(30), <1>6 DEF Restart, Fault, Typed, TypeOK
    <2>2. QED
      BY <2>1 DEF Watched, NoVMLeak, StoppedFirst
  <1>7. QED
    BY <1>1, <1>2, <1>3, <1>4, <1>5, <1>6

(* As long as no statement or driver call fails and the control plane is    *)
(* not restarted, no VM runs that the table does not know (NoVMLeak).       *)
THEOREM NoVMLost == Spec => []NoVMLeak
  <1>1. Init => Watched
    BY DEF Init, Watched, NoVMLeak, StoppedFirst
  <1>2. Watched /\ Typed /\ Placed /\ [Next]_vars => Watched'
    <2> SUFFICES ASSUME Watched, Typed, Placed, [Next]_vars PROVE Watched'
      OBVIOUS
    <2>1. CASE Next
      BY <2>1, ProvisionWatched, DestroyWatched, LoopsWatched DEF Next
    <2>2. CASE UNCHANGED vars
      BY <2>2 DEF vars, rowVars, jobVars, Watched, NoVMLeak, StoppedFirst, Target
    <2>3. QED  BY <2>1, <2>2
  <1>3. Watched => NoVMLeak
    BY DEF Watched
  <1>4. QED  BY <1>1, <1>2, <1>3, TypesHold, JobsPlaced, PTL DEF Spec
-----------------------------------------------------------------------------
(* The warm pool: what is warm and what the reconciler still owes never     *)
(* exceed the size.                                                         *)

Owed == IF pc[Pool] = "idle" THEN 0 ELSE todo

PoolInv == Cardinality(Warm) + Owed <= WarmPoolSize

(* What the reconciler owes is a number.                                    *)
LEMMA OwedNat == ASSUME Typed PROVE Owed \in Nat
  BY DEF Owed, Typed, TypeOK

(* The end of a job: the reconciler owes one less.                          *)
LEMMA EndOwed ==
    ASSUME Typed, NEW j \in Jobs, NEW r, End(j, r), pc[j] # "idle"
    PROVE  /\ j = Pool => Owed' = Owed - 1
           /\ j # Pool => Owed' = Owed
  BY SMTT(30), JobsFact DEF End, Goto, Owed, Typed, TypeOK, PoolBusy

(* A job that goes on leaves what is owed as it is.                         *)
LEMMA GotoOwed ==
    ASSUME Typed, NEW j \in Jobs, NEW l, Goto(j, l), UNCHANGED todo,
           j # Pool \/ (pc[Pool] # "idle" /\ l # "idle")
    PROVE  Owed' = Owed
  BY JobsFact DEF Goto, Owed, Typed, TypeOK

(* A pool that does not grow, owed no more, stays in its bound.             *)
LEMMA PoolShrinks ==
    ASSUME Typed, Typed', PoolInv, Warm' \subseteq Warm, Owed' <= Owed
    PROVE  PoolInv'
  <1>1. Cardinality(Warm') <= Cardinality(Warm) /\ Cardinality(Warm') \in Nat
    <2>1. \A S, T : IsFiniteSet(S) /\ T \subseteq S
              => Cardinality(T) <= Cardinality(S) /\ Cardinality(T) \in Nat
      BY FS_Subset, FS_CardinalityType
    <2>2. QED  BY <2>1, WarmFinite
  <1>2. Owed \in Nat /\ Owed' \in Nat
    BY DEF Owed, Typed, TypeOK
  <1>3. QED
    BY SMTT(30), <1>1, <1>2, WarmFinite, ConstantsAssumption DEF PoolInv

(* Every step keeps the bound of the warm pool.                             *)
LEMMA PoolStep ==
    ASSUME Typed, Typed', Placed, PoolInv, Next
    PROVE  PoolInv'
  <1> USE JobsFact
  <1>0. Owed \in Nat /\ Owed' \in Nat
    BY DEF Owed, Typed, TypeOK
  <1>1. ASSUME NEW j \in Jobs, Create(j)
        PROVE  PoolInv'
    <2>1. CASE j = Pool /\ End(j, "ok") /\ status' = [status EXCEPT ![inst[j]] = "warm"]
      <3>1. inst[j] \in Machines /\ status[inst[j]] = "none" /\ pc[j] # "idle"
        BY <1>1 DEF Create, Placed, CreatesAlone, Creating
      <3>2. Warm' = Warm \cup {inst[j]} /\ inst[j] \notin Warm
        BY SMTT(30), <2>1, <3>1 DEF Warm, Typed, TypeOK
      <3>3. Cardinality(Warm') = Cardinality(Warm) + 1
        BY <3>2, WarmFinite, FS_AddElement
      <3>4. Owed' = Owed - 1
        BY <2>1, <3>1, EndOwed
      <3>5. QED
        BY SMTT(30), <1>0, <3>3, <3>4, WarmFinite, ConstantsAssumption DEF PoolInv
    <2>2. CASE j # Pool /\ End(j, "ok") /\ status' = [status EXCEPT ![inst[j]] = "running"]
      <3>1. Warm' \subseteq Warm
        BY <2>2 DEF Warm, Typed, TypeOK
      <3>2. Owed' = Owed
        BY <1>1, <2>2, EndOwed DEF Create
      <3>3. QED  BY SMTT(30), <1>0, <3>1, <3>2, PoolShrinks
    <2>3. CASE Goto(j, "undo") /\ UNCHANGED <<status, todo>>
      <3>1. Owed' = Owed
        BY <1>1, <2>3, GotoOwed DEF Create
      <3>2. QED  BY SMTT(30), <1>0, <2>3, <3>1, PoolShrinks DEF Warm
    <2>4. QED  BY <1>1, <2>1, <2>2, <2>3 DEF Create
  <1>2. CASE ReconcileOnce
    <2>1. pc'[Pool] = "cid" /\ todo' = WarmPoolSize - Cardinality(Warm) /\ Warm' = Warm
      BY <1>2, GotoEffect DEF ReconcileOnce, Warm, rowVars
    <2>2. Owed' = WarmPoolSize - Cardinality(Warm)
      BY <2>1 DEF Owed
    <2>3. QED
      BY SMTT(30), <2>1, <2>2, WarmFinite, ConstantsAssumption DEF PoolInv
  <1>3. ASSUME NEW j \in Jobs,
               \/ Lookup(j) \/ ClaimWarm(j) \/ SetRunning(j) \/ NextVsockCID(j) \/ Start(j)
               \/ Undo(j) \/ DestroyStep(j) \/ Fail(j)
        PROVE  PoolInv'
    <2>1. Warm' \subseteq Warm
      <3>1. CASE UNCHANGED status
        BY <3>1 DEF Warm
      <3>2. ASSUME NEW i, NEW s \in Statuses \ {"warm"}, status' = [status EXCEPT ![i] = s]
            PROVE  Warm' \subseteq Warm
        BY <3>2 DEF Warm, Typed, TypeOK
      <3>3. CASE ClaimWarm(j)
        BY <3>1, <3>2, <3>3 DEF ClaimWarm, Statuses, Active
      <3>4. CASE SetRunning(j) \/ DestroyStep(j)
        BY <3>1, <3>2, <3>4
        DEF SetRunning, DestroyStep, SetDestroying, Stop, SetDestroyed, UpdateStatus,
            Statuses, Active, rowVars
      <3>5. CASE Lookup(j) \/ NextVsockCID(j) \/ Start(j) \/ Undo(j) \/ Fail(j)
        BY <3>1, <3>5 DEF Lookup, NextVsockCID, Start, Undo, Fail, rowVars
      <3>6. QED  BY <1>3, <3>3, <3>4, <3>5
    <2>2. pc[j] # "idle"
      BY <1>3
      DEF Lookup, ClaimWarm, SetRunning, NextVsockCID, Start, Undo, DestroyStep, Fail,
          SetDestroying, Stop, SetDestroyed
    <2>3. \/ \E r : End(j, r)
          \/ \E l : Goto(j, l) /\ l # "idle" /\ UNCHANGED todo
      BY <1>3
      DEF Lookup, ClaimWarm, SetRunning, NextVsockCID, Start, Undo, DestroyStep, Fail,
          SetDestroying, Stop, SetDestroyed
    <2>4. Owed' <= Owed
      BY SMTT(30), <1>0, <2>2, <2>3, EndOwed, GotoOwed
    <2>5. QED  BY <2>1, <2>4, PoolShrinks
  <1>4. CASE \/ \E j \in Requests : Request(j) \/ Destroy(j)
             \/ \E i \in Machines : CheckStep(i)
    <2>1. Warm' \subseteq Warm
      BY <1>4
      DEF Request, Destroy, CheckStep, IsHealthy, RecordHealthCheck, Reread, MarkUnhealthy,
          UpdateStatus, Warm, rowVars, Typed, TypeOK
    <2>2. \E j \in Jobs \ {Pool} : \E l : Goto(j, l) /\ UNCHANGED todo
      BY <1>4 DEF Request, Destroy, CheckStep, IsHealthy, RecordHealthCheck, Reread, MarkUnhealthy
    <2>3. Owed' = Owed
      BY <2>2, GotoOwed
    <2>4. QED  BY SMTT(30), <1>0, <2>1, <2>3, PoolShrinks
  <1>5. CASE \/ \E i \in Machines : Sicken(i) \/ Recover(i)
             \/ HealthCheckOnce \/ Restart
    <2>1. Warm' = Warm
      BY <1>5 DEF Sicken, Recover, HealthCheckOnce, Restart, Warm, rowVars
    <2>2. Owed' \in {0, Owed}
      BY <1>5 DEF Sicken, Recover, HealthCheckOnce, Restart, Owed, jobVars
    <2>3. QED  BY SMTT(30), <1>0, <2>1, <2>2, PoolShrinks
  <1>6. QED
    BY <1>1, <1>2, <1>3, <1>4, <1>5 DEF Next, ProvisionStep

(* The warm pool never holds more than WarmPoolSize machines: the           *)
(* reconciler is the only one to add to it, one at a time, and what it owes *)
(* it has counted (WarmPoolBounded).                                        *)
THEOREM PoolBounded == Spec => []WarmPoolBounded
  <1>1. Init => PoolInv
    <2> SUFFICES ASSUME Init PROVE PoolInv
      OBVIOUS
    <2>1. Warm = {} /\ Owed = 0
      BY JobsFact DEF Init, Warm, Owed
    <2>2. QED  BY SMTT(30), <2>1, FS_EmptySet, ConstantsAssumption DEF PoolInv
  <1>2. PoolInv /\ Typed /\ Typed' /\ Placed /\ [Next]_vars => PoolInv'
    <2> SUFFICES ASSUME PoolInv, Typed, Typed', Placed, [Next]_vars PROVE PoolInv'
      OBVIOUS
    <2>1. CASE UNCHANGED vars
      BY <2>1 DEF vars, rowVars, jobVars, PoolInv, Warm, Owed
    <2>2. QED  BY <2>1, PoolStep
  <1>3. PoolInv /\ Typed => WarmPoolBounded
    BY SMTT(30), OwedNat, WarmFinite, ConstantsAssumption DEF PoolInv, WarmPoolBounded, Warm
  <1>4. QED  BY <1>1, <1>2, <1>3, TypesHold, JobsPlaced, PTL DEF Spec
-----------------------------------------------------------------------------
(* Without destroy requests a row is changed only by the job that expects   *)
(* its status.                                                              *)

(* A claimed machine is provisioning and has one claimant; a machine that   *)
(* is checked is running, and one that is replaced unhealthy.               *)
Expected ==
    /\ \A j \in Jobs : pc[j] = "running" =>
          inst[j] \in Machines /\ status[inst[j]] = "provisioning"
    /\ \A j, k \in Jobs : j # k /\ pc[j] = "running" /\ pc[k] = "running" => inst[j] # inst[k]
    /\ \A i \in Machines : pc[i] \in Checking => status[i] = "running"
    /\ \A i \in Machines : pc[i] \in {"stop", "destroyed"} => status[i] = "unhealthy"
    /\ \A j \in Jobs : pc[j] # "destroying"
    /\ \A j \in Jobs \ Machines : pc[j] \notin {"stop", "destroyed"}

Forward == \A i \in Machines : Rank[status'[i]] >= Rank[status[i]]

(* A step that changes no status, where the job that moves goes to a label  *)
(* that expects none.                                                       *)
LEMMA QuietExpected ==
    ASSUME Typed, Expected, NEW j \in Jobs, UNCHANGED status,
           \A k \in Jobs \ {j} : pc'[k] = pc[k] /\ inst'[k] = inst[k],
           pc'[j] \notin Checking \cup {"running", "stop", "destroyed", "destroying"}
    PROVE  Expected' /\ Forward
  <1>1. Expected'
    BY SMTT(30), JobsFact DEF Expected, Checking
  <1>2. Forward
    BY SMTT(30) DEF Forward, Rank, Typed, TypeOK, Statuses, Active
  <1>3. QED  BY <1>1, <1>2

(* The order of the statuses, as far as it is used.                         *)
LEMMA RankFact ==
    /\ Rank["provisioning"] >= Rank["warm"]
    /\ Rank["running"] >= Rank["provisioning"]
    /\ \A s \in {"warm", "running"} : Rank[s] >= Rank["none"]
    /\ Rank["unhealthy"] >= Rank["running"]
    /\ Rank["destroyed"] >= Rank["unhealthy"]
    /\ \A s \in Statuses : Rank[s] \in Nat
    /\ {"none", "warm", "provisioning", "running", "unhealthy", "destroyed"} \subseteq Statuses
  BY SMTT(30) DEF Rank, Statuses, Active

(* One row moves from a status to a later one.                              *)
LEMMA MovesForward ==
    ASSUME Typed, NEW i \in Machines, NEW s \in Statuses, NEW old,
           status[i] = old, status' = [status EXCEPT ![i] = s], Rank[s] >= Rank[old]
    PROVE  Forward
  <1>1. \A k \in Machines \ {i} : status'[k] = status[k] /\ Rank[status[k]] \in Nat
    BY RankFact DEF Typed, TypeOK
  <1>2. status'[i] = s
    BY DEF Typed, TypeOK
  <1>3. QED
    BY SMTT(30), <1>1, <1>2 DEF Forward

(* The provisioning steps keep Expected and move no status back.            *)
LEMMA ProvisionExpected ==
    ASSUME Typed, Placed, Expected, NEW j \in Jobs, ProvisionStep(j)
    PROVE  Expected' /\ Forward
  <1> USE JobsFact
  <1>1. CASE Lookup(j) \/ NextVsockCID(j) \/ Start(j) \/ Undo(j)
    <2>1. UNCHANGED status
      BY <1>1 DEF Lookup, NextVsockCID, Start, Undo, rowVars
    <2>2. \A k \in Jobs \ {j} : inst'[k] = inst[k]
      BY <1>1 DEF Lookup, NextVsockCID, Start, Undo, Typed, TypeOK
    <2>3. /\ \A k \in Jobs \ {j} : pc'[k] = pc[k]
          /\ pc'[j] \in {"done", "cid", "idle", "claim", "start", "create"}
      BY <1>1, GotoEffect, EndEffect DEF Lookup, NextVsockCID, Start, Undo
    <2>4. QED  BY <2>1, <2>2, <2>3, QuietExpected DEF Checking
  <1>2. CASE ClaimWarm(j)
    <2>1. CASE UNCHANGED <<status, inst>> /\ Goto(j, "cid")
      BY SMTT(30), <2>1, GotoEffect, QuietExpected DEF Checking
    <2>2. ASSUME NEW i \in Machines, status[i] = "warm",
                 status' = [status EXCEPT ![i] = "provisioning"],
                 inst' = [inst EXCEPT ![j] = i],
                 Goto(j, "running")
          PROVE  Expected' /\ Forward
      <3>1. pc'[j] = "running" /\ \A k \in Jobs \ {j} : pc'[k] = pc[k]
        BY <2>2, GotoEffect
      <3>2. inst'[j] = i /\ \A k \in Jobs \ {j} : inst'[k] = inst[k]
        BY <2>2 DEF Typed, TypeOK
      <3>3. \A k \in Machines : status'[k] = IF k = i THEN "provisioning" ELSE status[k]
        BY <2>2 DEF Typed, TypeOK
      <3>4. Expected'
        BY SMTT(30), <2>2, <3>1, <3>2, <3>3 DEF Expected, Checking
      <3>5. Forward
        BY <2>2, RankFact, MovesForward
      <3>6. QED  BY <3>4, <3>5
    <2>3. QED  BY <1>2, <2>1, <2>2 DEF ClaimWarm
  <1>3. CASE SetRunning(j)
    <2>1. pc'[j] \in {"done", "cid", "idle"} /\ \A k \in Jobs \ {j} : pc'[k] = pc[k]
      BY <1>3, EndEffect DEF SetRunning
    <2>2. /\ pc[j] = "running" /\ UNCHANGED inst
          /\ inst[j] \in Machines /\ status[inst[j]] = "provisioning"
      BY <1>3 DEF SetRunning, Expected
    <2>3. CASE UNCHANGED status
      BY <2>1, <2>2, <2>3, QuietExpected DEF Checking
    <2>4. CASE status' = [status EXCEPT ![inst[j]] = "running"]
      <3>1. \A k \in Machines : status'[k] = IF k = inst[j] THEN "running" ELSE status[k]
        BY <2>4 DEF Typed, TypeOK
      <3>2. Expected'
        BY SMTT(30), <2>1, <2>2, <3>1 DEF Expected, Checking
      <3>3. Forward
        BY <2>2, <2>4, RankFact, MovesForward
      <3>4. QED  BY <3>2, <3>3
    <2>5. QED  BY <1>3, <2>3, <2>4 DEF SetRunning, UpdateStatus
  <1>4. CASE Create(j)
    <2>1. inst[j] \in Machines /\ status[inst[j]] = "none" /\ UNCHANGED inst
      BY <1>4 DEF Create, Placed, CreatesAlone, Creating
    <2>2. pc'[j] \in {"done", "cid", "idle", "undo"} /\ \A k \in Jobs \ {j} : pc'[k] = pc[k]
      BY <1>4, EndEffect, GotoEffect DEF Create
    <2>3. CASE UNCHANGED status
      BY <2>1, <2>2, <2>3, QuietExpected DEF Checking
    <2>4. ASSUME NEW s \in {"warm", "running"}, status' = [status EXCEPT ![inst[j]] = s]
          PROVE  Expected' /\ Forward
      <3>1. \A k \in Machines : status'[k] = IF k = inst[j] THEN s ELSE status[k]
        BY <2>4 DEF Typed, TypeOK
      <3>2. Expected'
        BY SMTT(30), <2>1, <2>2, <3>1 DEF Expected, Checking
      <3>3. Forward
        BY <2>1, <2>4, RankFact, MovesForward
      <3>4. QED  BY <3>2, <3>3
    <2>5. QED  BY <1>4, <2>3, <2>4 DEF Create
  <1>5. QED
    BY <1>1, <1>2, <1>3, <1>4 DEF ProvisionStep

(* Neither do the others, without destroys by request.                      *)
LEMMA LoopsExpected ==
    ASSUME Destroys = {}, Typed, Placed, Expected,
           \/ \E j \in Jobs : DestroyStep(j) \/ Fail(j)
           \/ \E j \in Requests : Request(j) \/ Destroy(j)
           \/ \E i \in Machines : CheckStep(i) \/ Sicken(i) \/ Recover(i)
           \/ ReconcileOnce \/ HealthCheckOnce \/ Restart
    PROVE  Expected' /\ Forward
  <1> USE JobsFact
  <1>1. ASSUME NEW j \in Jobs, DestroyStep(j)
        PROVE  Expected' /\ Forward
    <2>1. j \in Machines /\ status[j] = "unhealthy" /\ Target(j) = j /\ pc[j] \in {"stop", "destroyed"}
      BY <1>1 DEF DestroyStep, SetDestroying, Stop, SetDestroyed, Expected, Target
    <2>2. CASE Stop(j)
      <3>1. pc'[j] = "destroyed" /\ \A k \in Jobs \ {j} : pc'[k] = pc[k]
        BY <2>2, GotoEffect DEF Stop
      <3>2. UNCHANGED <<status, inst>>
        BY <2>2 DEF Stop, rowVars
      <3>3. Expected'
        BY SMTT(30), <2>1, <3>1, <3>2 DEF Expected, Checking
      <3>4. QED
        BY SMTT(30), <3>2, <3>3 DEF Forward, Rank, Typed, TypeOK, Statuses, Active
    <2>3. CASE SetDestroyed(j)
      <3>1. /\ pc'[j] \in {"done", "cid", "idle", "lookup"}
            /\ \A k \in Jobs \ {j} : pc'[k] = pc[k]
        BY <2>3, GotoEffect, EndEffect DEF SetDestroyed
      <3>2. status' = [status EXCEPT ![j] = "destroyed"] /\ UNCHANGED inst
        BY <2>1, <2>3 DEF SetDestroyed, UpdateStatus
      <3>3. \A k \in Machines : status'[k] = IF k = j THEN "destroyed" ELSE status[k]
        BY <3>2 DEF Typed, TypeOK
      <3>4. Expected'
        BY SMTT(30), <2>1, <3>1, <3>2, <3>3 DEF Expected, Checking
      <3>5. Forward
        BY <2>1, <3>2, RankFact, MovesForward
      <3>6. QED  BY <3>4, <3>5
    <2>4. QED  BY <1>1, <2>1, <2>2, <2>3 DEF DestroyStep, SetDestroying
  <1>2. ASSUME NEW j \in Jobs, Fail(j)
        PROVE  Expected' /\ Forward
    <2>1. pc'[j] \in {"done", "cid", "idle"} /\ \A k \in Jobs \ {j} : pc'[k] = pc[k]
      BY <1>2, EndEffect DEF Fail
    <2>2. QED  BY <1>2, <2>1, QuietExpected DEF Fail, rowVars, Checking
  <1>3. ASSUME NEW j \in Requests, Request(j) \/ Destroy(j)
        PROVE  Expected' /\ Forward
    <2>1. Request(j)
      BY <1>3 DEF Destroy
    <2>2. pc'[j] = "lookup" /\ \A k \in Jobs \ {j} : pc'[k] = pc[k]
      BY <2>1, GotoEffect DEF Request
    <2>3. QED  BY <2>1, <2>2, QuietExpected DEF Request, rowVars, Checking
  <1>4. ASSUME NEW i \in Machines, CheckStep(i)
        PROVE  Expected' /\ Forward
    <2>1. status[i] = "running" /\ UNCHANGED inst
      BY <1>4
      DEF CheckStep, IsHealthy, RecordHealthCheck, Reread, MarkUnhealthy, Checking, Expected
    <2>2. CASE IsHealthy(i) \/ RecordHealthCheck(i) \/ Reread(i)
      <3>1. pc'[i] \in Checking \cup {"idle"} /\ \A k \in Jobs \ {i} : pc'[k] = pc[k]
        BY <2>1, <2>2, GotoEffect DEF IsHealthy, RecordHealthCheck, Reread, Checking
      <3>2. UNCHANGED status
        BY <2>2 DEF IsHealthy, RecordHealthCheck, Reread, rowVars
      <3>3. Expected'
        BY SMTT(30), <2>1, <3>1, <3>2 DEF Expected, Checking
      <3>4. QED
        BY SMTT(30), <3>2, <3>3 DEF Forward, Rank, Typed, TypeOK, Statuses, Active
    <2>3. CASE MarkUnhealthy(i)
      <3>1. CASE Goto(i, "idle") /\ UNCHANGED status
        BY SMTT(30), <2>1, <3>1, GotoEffect, QuietExpected DEF Checking
      <3>2. CASE Goto(i, "stop") /\ status' = [status EXCEPT ![i] = "unhealthy"]
        <4>1. pc'[i] = "stop" /\ \A k \in Jobs \ {i} : pc'[k] = pc[k]
          BY <3>2, GotoEffect
        <4>2. \A k \in Machines : status'[k] = IF k = i THEN "unhealthy" ELSE status[k]
          BY <3>2 DEF Typed, TypeOK
        <4>3. Expected'
          BY SMTT(30), <2>1, <4>1, <4>2 DEF Expected, Checking
        <4>4. Forward
          BY <2>1, <3>2, RankFact, MovesForward
        <4>5. QED  BY <4>3, <4>4
      <3>3. QED  BY <2>3, <3>1, <3>2 DEF MarkUnhealthy, UpdateStatus
    <2>4. QED  BY <1>4, <2>2, <2>3 DEF CheckStep
  <1>5. CASE \/ \E i \in Machines : Sicken(i) \/ Recover(i)
             \/ ReconcileOnce \/ HealthCheckOnce \/ Restart
    <2>1. UNCHANGED <<status, inst>>
      BY <1>5 DEF Sicken, Recover, ReconcileOnce, HealthCheckOnce, Restart, rowVars, jobVars
    <2>2. Forward
      BY SMTT(30), <2>1 DEF Forward, Rank, Typed, TypeOK, Statuses, Active
    <2>3. CASE \E i \in Machines : Sicken(i) \/ Recover(i)
      <3>1. UNCHANGED pc
        BY <2>3 DEF Sicken, Recover, jobVars
      <3>2. QED  BY <2>1, <2>2, <3>1 DEF Expected
    <2>4. CASE ReconcileOnce
      <3>1. pc'[Pool] = "cid" /\ \A k \in Jobs \ {Pool} : pc'[k] = pc[k]
        BY <2>4, GotoEffect DEF ReconcileOnce
      <3>2. QED  BY <2>1, <3>1, QuietExpected DEF Checking
    <2>5. CASE HealthCheckOnce
      <3>1. \A i \in Machines : \/ pc'[i] = "idle"
                                \/ pc'[i] = "probe" /\ status[i] = "running"
                                \/ pc'[i] = "stop" /\ status[i] = "unhealthy"
        BY <2>5 DEF HealthCheckOnce, Listed
      <3>2. \A k \in Jobs \ Machines : pc'[k] = pc[k]
        BY <2>5 DEF HealthCheckOnce
      <3>3. Expected'
        BY SMTT(30), <2>1, <3>1, <3>2 DEF Expected, Checking
      <3>4. QED  BY <2>2, <3>3
    <2>6. CASE Restart
      <3>1. \A k \in Jobs : pc'[k] \in {"idle", "done"}
        BY <2>6 DEF Restart
      <3>2. QED  BY <2>2, <3>1 DEF Expected, Checking
    <2>7. QED  BY <1>5, <2>3, <2>4, <2>5, <2>6
  <1>6. QED  BY <1>1, <1>2, <1>3, <1>4, <1>5

(* When agents are not destroyed by request, every row follows the state    *)
(* machine, however provisioning, health checks, failures and restarts      *)
(* overlap (StatusForward).                                                 *)
THEOREM StatusesForward == ASSUME Destroys = {} PROVE Spec => StatusForward
  <1>1. Init => Expected
    BY JobsFact DEF Init, Expected, Checking
  <1>2. Expected /\ Typed /\ Placed /\ [Next]_vars => Expected' /\ Forward
    <2> SUFFICES ASSUME Expected, Typed, Placed, [Next]_vars PROVE Expected' /\ Forward
      OBVIOUS
    <2>1. CASE Next
      BY <2>1, ProvisionExpected, LoopsExpected DEF Next
    <2>2. CASE UNCHANGED vars
      <3>1. UNCHANGED <<status, pc, inst>>
        BY <2>2 DEF vars, rowVars, jobVars
      <3>2. QED
        BY SMTT(30), <3>1 DEF Expected, Forward, Rank, Typed, TypeOK, Statuses, Active
    <2>3. QED  BY <2>1, <2>2
  <1>3. QED  BY <1>1, <1>2, TypesHold, JobsPlaced, PTL DEF Spec, StatusForward, Forward
=============================================================================
