---------------------------- MODULE Orchestrator ----------------------------
(***************************************************************************)
(* The life of agent VMs: Manager.Provision with its warm pool and cold     *)
(* start, Destroy, the warm pool reconciler and the health check loop, all  *)
(* working on the agent_instances table and the VM driver at the same time. *)
(*                                                                          *)
(* A machine is a VM and the row that describes it; both get fresh IDs.  An *)
(* owner is a tenant and user.  Every statement on the table is a step, and *)
(* so is every call of the driver; Stop and Cleanup, which always come      *)
(* together, are one.  The config, tool list and department of a row are    *)
(* left out: no transition reads them.  Agents without a user, which only a *)
(* platform administrator can ask for, are left out as well.                *)
(***************************************************************************)
EXTENDS Naturals, FiniteSets

CONSTANTS
    Machines,
    Users,
    Nobody,         \* the owner of a warm machine
    None,           \* no machine
    Provisions,     \* POST /agents requests
    Destroys,       \* DELETE /agents/{id} requests
    Pool,           \* the warm pool reconciler
    WarmPoolSize,
    MaxFailures,    \* MaxConsecutiveFailures
    MaxFaults,      \* bound: failed statements and driver calls, restarts
    MaxSick         \* bound: VMs that stop working

(* Manager.HealthCheckOnce runs a goroutine for each machine: it goes by    *)
(* the machine's name.                                                      *)
Requests == Provisions \cup Destroys
Jobs == Requests \cup Machines \cup {Pool}

ASSUME ConstantsAssumption ==
    /\ IsFiniteSet(Machines)
    /\ Nobody \notin Users
    /\ None \notin Machines
    /\ Provisions \cap Destroys = {}
    /\ Requests \cap Machines = {}
    /\ Pool \notin Requests \cup Machines
    /\ WarmPoolSize \in Nat
    /\ MaxFailures \in Nat \ {0}
    /\ MaxFaults \in Nat
    /\ MaxSick \in Nat

VARIABLES
    status,   \* column status; "none" while there is no row
    owner,    \* columns tenant_id and user_id
    cid,      \* column vsock_cid, and the CID the VM was started with
    fails,    \* column consecutive_failures
    vm,       \* what the driver runs
    pc,
    who,      \* for whom a job provisions
    inst,     \* the machine a job works on
    num,      \* the CID a job has allocated
    result,
    todo,     \* warm VMs the reconciler has still to start
    faults, sick

rowVars == <<status, owner, cid, fails>>
jobVars == <<pc, who, inst, num, result, todo>>
vars == <<rowVars, vm, jobVars, faults, sick>>

Init ==
    /\ status = [i \in Machines |-> "none"]
    /\ owner = [i \in Machines |-> Nobody]
    /\ cid = [i \in Machines |-> 0]
    /\ fails = [i \in Machines |-> 0]
    /\ vm = [i \in Machines |-> "none"]
    /\ pc = [j \in Jobs |-> "idle"]
    /\ who = [j \in Jobs |-> Nobody]
    /\ inst = [j \in Jobs |-> None]
    /\ num = [j \in Jobs |-> 0]
    /\ result = [j \in Requests |-> "none"]
    /\ todo = 0
    /\ faults = 0
    /\ sick = 0
-----------------------------------------------------------------------------
(* The table *)

Active == {"provisioning", "running", "unhealthy", "destroying"}

(* Mutant: an unhealthy row does not count. *)
ClashHealthy(i, u) ==
    /\ u # Nobody
    /\ \E k \in Machines \ {i} : owner[k] = u /\ status[k] \in Active \ {"unhealthy"}

(* The unique index on the active rows of a user refuses row i. *)
Clash(i, u) ==
    /\ u # Nobody
    /\ \E k \in Machines \ {i} : owner[k] = u /\ status[k] \in Active

(* UpdateStatus: whatever the status was. *)
UpdateStatus(i, s) ==
    /\ s \in Active => ~ Clash(i, owner[i])
    /\ status' = [status EXCEPT ![i] = s]

Refused(i, s) == s \in Active /\ Clash(i, owner[i])

Rows == {i \in Machines : status[i] # "none"}

Goto(j, l) == pc' = [pc EXCEPT ![j] = l]

(* A job ends; the reconciler goes on with its next warm VM. *)
End(j, r) ==
    /\ Goto(j, IF j \in Requests THEN "done" ELSE IF j = Pool /\ todo > 1 THEN "cid" ELSE "idle")
    /\ result' = IF j \in Requests THEN [result EXCEPT ![j] = r] ELSE result
    /\ todo' = IF j = Pool THEN todo - 1 ELSE todo

Fault ==
    /\ faults < MaxFaults
    /\ faults' = faults + 1
-----------------------------------------------------------------------------
(* Provision, for a request or for the health check that replaces a VM *)

Request(j) ==
    /\ j \in Provisions
    /\ pc[j] = "idle"
    /\ \E u \in Users : who' = [who EXCEPT ![j] = u]
    /\ Goto(j, "lookup")
    /\ UNCHANGED <<rowVars, vm, inst, num, result, todo, faults, sick>>

(* GetRunningByTenantUser: the user's agent is used again. *)
Lookup(j) ==
    LET mine == {i \in Machines : owner[i] = who[j] /\ status[i] \in {"running", "provisioning"}} IN
    /\ pc[j] = "lookup"
    /\ \/ \E i \in mine : inst' = [inst EXCEPT ![j] = i] /\ End(j, "ok")
       \/ mine = {} /\ Goto(j, "claim") /\ UNCHANGED <<inst, result, todo>>
    /\ UNCHANGED <<rowVars, vm, who, num, faults, sick>>

(* ClaimWarm; on any error, cold start. *)
ClaimWarm(j) ==
    LET warm == {i \in Machines : status[i] = "warm" /\ owner[i] = Nobody} IN
    /\ pc[j] = "claim"
    /\ \/ /\ \E i \in warm :
                /\ ~ Clash(i, who[j])
                /\ status' = [status EXCEPT ![i] = "provisioning"]
                /\ owner' = [owner EXCEPT ![i] = who[j]]
                /\ inst' = [inst EXCEPT ![j] = i]
          /\ Goto(j, "running")
          /\ UNCHANGED faults
       \/ /\ ((\A i \in warm : Clash(i, who[j])) /\ UNCHANGED faults) \/ Fault
          /\ Goto(j, "cid")
          /\ UNCHANGED <<status, owner, inst>>
    /\ UNCHANGED <<cid, fails, vm, who, num, result, todo, sick>>

(* Provision: the claimed machine becomes running. *)
SetRunning(j) ==
    /\ pc[j] = "running"
    /\ \/ UpdateStatus(inst[j], "running") /\ End(j, "ok")
       \/ Refused(inst[j], "running") /\ End(j, "error") /\ UNCHANGED status
    /\ UNCHANGED <<owner, cid, fails, vm, who, inst, num, faults, sick>>

(* NextVsockCID: one more than the highest, or than 2; CIDs 0 to 2 are      *)
(* reserved.  The mutex is released before the CID is in the table. *)
NextVsockCID(j) ==
    /\ pc[j] = "cid"
    /\ \E m \in {2} \cup {cid[i] : i \in Rows} :
          /\ \A i \in Rows : cid[i] <= m
          /\ num' = [num EXCEPT ![j] = m + 1]
    /\ Goto(j, "start")
    /\ UNCHANGED <<rowVars, vm, who, inst, result, todo, faults, sick>>

(* driver.Start, which may refuse a CID that another VM uses. *)
Start(j) ==
    /\ pc[j] = "start"
    /\ \/ /\ \E i \in Machines :
                /\ vm[i] = "none"
                /\ vm' = [vm EXCEPT ![i] = "up"]
                /\ cid' = [cid EXCEPT ![i] = num[j]]
                /\ inst' = [inst EXCEPT ![j] = i]
          /\ Goto(j, "create")
          /\ UNCHANGED <<result, todo, faults>>
       \/ /\ \/ \E k \in Machines : vm[k] \in {"up", "sick"} /\ cid[k] = num[j] /\ UNCHANGED faults
             \/ Fault
          /\ End(j, "error")
          /\ UNCHANGED <<vm, cid, inst>>
    /\ UNCHANGED <<status, owner, fails, who, num, sick>>

(* The INSERT is refused: another row has the CID, or the user an agent. *)
CreateRefused(j) ==
    \/ \E k \in Rows : cid[k] = cid[inst[j]]
    \/ Clash(inst[j], who[j])

(* Mutant: the VM whose row could not be saved is forgotten. *)
CreateLeaking(j) ==
    /\ pc[j] = "create"
    /\ \/ /\ ~ CreateRefused(j)
          /\ status' = [status EXCEPT ![inst[j]] = IF j = Pool THEN "warm" ELSE "running"]
          /\ owner' = [owner EXCEPT ![inst[j]] = who[j]]
          /\ End(j, "ok")
       \/ /\ CreateRefused(j)
          /\ End(j, "error")
          /\ UNCHANGED <<status, owner>>
    /\ UNCHANGED <<cid, fails, vm, who, inst, num, faults, sick>>

(* store.Create, running for a user or warm for the pool. *)
Create(j) ==
    /\ pc[j] = "create"
    /\ \/ /\ ~ CreateRefused(j)
          /\ status' = [status EXCEPT ![inst[j]] = IF j = Pool THEN "warm" ELSE "running"]
          /\ owner' = [owner EXCEPT ![inst[j]] = who[j]]
          /\ End(j, "ok")
          /\ UNCHANGED faults
       \/ /\ (CreateRefused(j) /\ UNCHANGED faults) \/ Fault
          /\ Goto(j, "undo")
          /\ UNCHANGED <<status, owner, result, todo>>
    /\ UNCHANGED <<cid, fails, vm, who, inst, num, sick>>

(* The VM that has no row is stopped and cleaned up. *)
Undo(j) ==
    /\ pc[j] = "undo"
    /\ vm' = [vm EXCEPT ![inst[j]] = "gone"]
    /\ End(j, "error")
    /\ UNCHANGED <<rowVars, who, inst, num, faults, sick>>
-----------------------------------------------------------------------------
(* Destroy *)

(* The handler and Destroy read a row, in any status.  A platform           *)
(* administrator may destroy a warm machine too.                            *)
Destroy(j) ==
    /\ j \in Destroys
    /\ pc[j] = "idle"
    /\ \E i \in Rows : inst' = [inst EXCEPT ![j] = i]
    /\ Goto(j, "destroying")
    /\ UNCHANGED <<rowVars, vm, who, num, result, todo, faults, sick>>

SetDestroying(j) ==
    /\ pc[j] = "destroying"
    /\ \/ /\ UpdateStatus(inst[j], "destroying")
          /\ Goto(j, "stop")
          /\ UNCHANGED <<result, todo>>
       \/ /\ Refused(inst[j], "destroying")
          /\ End(j, "error")
          /\ UNCHANGED status
    /\ UNCHANGED <<owner, cid, fails, vm, who, inst, num, faults, sick>>

(* The machine job j stops: its own for a health check. *)
Target(j) == IF j \in Machines THEN j ELSE inst[j]

(* driver.Stop and Cleanup; failures are only logged. *)
Stop(j) ==
    /\ pc[j] = "stop"
    /\ \/ vm' = [vm EXCEPT ![Target(j)] = "gone"] /\ UNCHANGED faults
       \/ Fault /\ UNCHANGED vm
    /\ Goto(j, "destroyed")
    /\ UNCHANGED <<rowVars, who, inst, num, result, todo, sick>>

(* The row becomes destroyed; the health check then provisions again. *)
SetDestroyed(j) ==
    /\ pc[j] = "destroyed"
    /\ UpdateStatus(Target(j), "destroyed")
    /\ IF j \in Machines /\ who[j] # Nobody
       THEN Goto(j, "lookup") /\ UNCHANGED <<result, todo>>
       ELSE End(j, "ok")
    /\ UNCHANGED <<owner, cid, fails, vm, who, inst, num, faults, sick>>
-----------------------------------------------------------------------------
(* The background loops *)

(* Mutant: the reconciler does not count what is there. *)
ReconcileBlindly ==
    /\ pc[Pool] = "idle"
    /\ todo' = WarmPoolSize
    /\ todo' > 0
    /\ Goto(Pool, "cid")
    /\ UNCHANGED <<rowVars, vm, who, inst, num, result, faults, sick>>

ReconcileOnce ==
    LET count == Cardinality({i \in Machines : status[i] = "warm"}) IN
    /\ pc[Pool] = "idle"
    /\ count < WarmPoolSize
    /\ todo' = WarmPoolSize - count
    /\ Goto(Pool, "cid")
    /\ UNCHANGED <<rowVars, vm, who, inst, num, result, faults, sick>>

(* What HealthCheckOnce starts for a machine: a check, or the retry of a    *)
(* replacement.                                                             *)
Listed == [i \in Machines |->
    IF status[i] = "running" THEN "probe"
    ELSE IF status[i] = "unhealthy" THEN "stop" ELSE "idle"]

(* HealthCheckOnce, once the goroutines of the last round have ended.  Only  *)
(* those make a row unhealthy, so its two queries are one step.             *)
HealthCheckOnce ==
    /\ \A i \in Machines : pc[i] = "idle"
    /\ \E i \in Machines : Listed[i] # "idle"
    /\ pc' = [j \in Jobs |-> IF j \in Machines THEN Listed[j] ELSE pc[j]]
    /\ who' = [j \in Jobs |-> IF j \in Machines THEN owner[j] ELSE who[j]]
    /\ UNCHANGED <<rowVars, vm, inst, num, result, todo, faults, sick>>

(* driver.IsHealthy *)
IsHealthy(i) ==
    /\ pc[i] = "probe"
    /\ Goto(i, IF vm[i] = "up" THEN "healthy" ELSE "unhealthy")
    /\ UNCHANGED <<rowVars, vm, who, inst, num, result, todo, faults, sick>>

(* Mutant: a failed check resets the count too. *)
RecordReset(i) ==
    /\ pc[i] \in {"healthy", "unhealthy"}
    /\ fails' = [fails EXCEPT ![i] = 0]
    /\ Goto(i, IF pc[i] = "healthy" THEN "idle" ELSE "reread")
    /\ UNCHANGED <<status, owner, cid, vm, who, inst, num, result, todo, faults, sick>>

(* RecordHealthCheck; the count matters only up to MaxFailures. *)
RecordHealthCheck(i) ==
    /\ \/ pc[i] = "healthy" /\ fails' = [fails EXCEPT ![i] = 0] /\ Goto(i, "idle")
       \/ /\ pc[i] = "unhealthy"
          /\ fails' = [fails EXCEPT ![i] = IF @ < MaxFailures THEN @ + 1 ELSE @]
          /\ Goto(i, "reread")
    /\ UNCHANGED <<status, owner, cid, vm, who, inst, num, result, todo, faults, sick>>

(* The row is read again, whatever its status is by now. *)
Reread(i) ==
    /\ pc[i] = "reread"
    /\ Goto(i, IF fails[i] < MaxFailures THEN "idle"
               ELSE IF status[i] = "unhealthy" THEN "stop" ELSE "mark")
    /\ who' = [who EXCEPT ![i] = owner[i]]
    /\ UNCHANGED <<rowVars, vm, inst, num, result, todo, faults, sick>>

(* replaceUnhealthy *)
MarkUnhealthy(i) ==
    /\ pc[i] = "mark"
    /\ \/ UpdateStatus(i, "unhealthy") /\ Goto(i, "stop")
       \/ Refused(i, "unhealthy") /\ Goto(i, "idle") /\ UNCHANGED status
    /\ UNCHANGED <<owner, cid, fails, vm, who, inst, num, result, todo, faults, sick>>
-----------------------------------------------------------------------------
(* The environment *)

(* A VM stops answering, or answers again. *)
Sicken(i) ==
    /\ vm[i] = "up"
    /\ sick < MaxSick
    /\ sick' = sick + 1
    /\ vm' = [vm EXCEPT ![i] = "sick"]
    /\ UNCHANGED <<rowVars, jobVars, faults>>

Recover(i) ==
    /\ vm[i] = "sick"
    /\ vm' = [vm EXCEPT ![i] = "up"]
    /\ UNCHANGED <<rowVars, jobVars, faults, sick>>

(* A statement of the job fails; or the client of a request goes away and   *)
(* its context ends, which the driver's calls notice as well.               *)
Fail(j) ==
    /\ \/ pc[j] \in {"lookup", "running", "cid", "destroying", "destroyed",
                    "healthy", "unhealthy", "reread", "mark"}
       \/ j \in Requests /\ pc[j] \in {"claim", "start", "create", "undo", "stop"}
    /\ Fault
    /\ End(j, "error")
    /\ UNCHANGED <<rowVars, vm, who, inst, num, sick>>

(* The control plane restarts; VMs and rows stay. *)
Restart ==
    /\ Fault
    /\ pc' = [j \in Jobs |-> IF j \in Requests /\ pc[j] # "idle" THEN "done" ELSE "idle"]
    /\ result' = [j \in Requests |->
                    IF pc[j] \in {"idle", "done"} THEN result[j] ELSE "error"]
    /\ todo' = 0
    /\ UNCHANGED <<rowVars, vm, who, inst, num, sick>>
-----------------------------------------------------------------------------
ProvisionStep(j) ==
    \/ Lookup(j) \/ ClaimWarm(j) \/ SetRunning(j) \/ NextVsockCID(j) \/ Start(j)
    \/ Create(j) \/ Undo(j)

DestroyStep(j) == SetDestroying(j) \/ Stop(j) \/ SetDestroyed(j)

CheckStep(i) == IsHealthy(i) \/ RecordHealthCheck(i) \/ Reread(i) \/ MarkUnhealthy(i)

Next ==
    \/ \E j \in Jobs : ProvisionStep(j) \/ DestroyStep(j) \/ Fail(j)
    \/ \E j \in Requests : Request(j) \/ Destroy(j)
    \/ \E i \in Machines : CheckStep(i) \/ Sicken(i) \/ Recover(i)
    \/ ReconcileOnce \/ HealthCheckOnce \/ Restart

Spec == Init /\ [][Next]_vars

(* Handlers and goroutines run, and the tickers of the loops tick. *)
Fairness ==
    /\ \A j \in Jobs : WF_vars(ProvisionStep(j) \/ DestroyStep(j))
    /\ \A i \in Machines : WF_vars(CheckStep(i))
    /\ WF_vars(ReconcileOnce)
    /\ WF_vars(HealthCheckOnce)

FairSpec == Spec /\ Fairness
-----------------------------------------------------------------------------
(* Properties *)

Statuses == {"none", "warm"} \cup Active \cup {"destroyed"}

Labels == {"idle", "lookup", "claim", "running", "cid", "start", "create", "undo",
           "destroying", "stop", "destroyed", "probe", "healthy", "unhealthy",
           "reread", "mark", "done"}

(* Types of the table, the machines and the calls under way.                *)
TypeOK ==
    /\ status \in [Machines -> Statuses]
    /\ owner \in [Machines -> Users \cup {Nobody}]
    /\ cid \in [Machines -> Nat]
    /\ fails \in [Machines -> Nat]
    /\ vm \in [Machines -> {"none", "up", "sick", "gone"}]
    /\ pc \in [Jobs -> Labels]
    /\ who \in [Jobs -> Users \cup {Nobody}]
    /\ inst \in [Jobs -> Machines \cup {None}]
    /\ num \in [Jobs -> Nat]
    /\ result \in [Requests -> {"none", "ok", "error"}]
    /\ todo \in Nat
    /\ faults \in Nat
    /\ sick \in Nat

(* A user has one agent at a time, whatever requests, health checks and     *)
(* destroys overlap: no two rows of a user are provisioning, running,       *)
(* unhealthy or destroying (Provision, replaceUnhealthy, Destroy).          *)
OneAgentPerUser ==
    \A i, k \in Machines :
        i # k /\ owner[i] # Nobody /\ owner[i] = owner[k]
            => status[i] \notin Active \/ status[k] \notin Active

(* An agent is never handed to a second user: once a row has an owner it    *)
(* keeps it, so two Provision calls never claim the same warm VM.           *)
OwnerKept ==
    [][\A i \in Machines : owner[i] # Nobody => owner'[i] = owner[i]]_vars

(* The warm pool does not outgrow its size, although VMs are claimed and    *)
(* destroyed while the reconciler starts the ones it found missing.         *)
WarmPoolBounded == Cardinality({i \in Machines : status[i] = "warm"}) <= WarmPoolSize

(* No VM is left running unknown to the table: when nothing fails, a VM     *)
(* that runs has a row that is not destroyed, or the job that started it is *)
(* about to save or to stop it.                                             *)
NoVMLeak ==
    faults = 0 =>
        \A i \in Machines : vm[i] \in {"up", "sick"} =>
            \/ status[i] \notin {"none", "destroyed"}
            \/ \E j \in Jobs : inst[j] = i /\ pc[j] \in {"create", "undo"}

Rank == [s \in Statuses |->
    CASE s = "none" -> 0 [] s = "warm" -> 1 [] s = "provisioning" -> 2 [] s = "running" -> 3
      [] s = "unhealthy" -> 4 [] s = "destroying" -> 5 [] s = "destroyed" -> 6]

(* The state machine of orchestrator.go: a row moves from warm by           *)
(* provisioning, running, unhealthy and destroying to destroyed and never   *)
(* back.                                                                    *)
StatusForward ==
    [][\A i \in Machines : Rank[status'[i]] >= Rank[status[i]]]_vars

(* "Each VM gets a unique vsock CID." *)
UniqueCID ==
    \A i, k \in Machines :
        i # k /\ vm[i] \in {"up", "sick"} /\ vm[k] \in {"up", "sick"} => cid[i] # cid[k]

(* "UNIQUE constraint prevents races; collisions retry.": a provisioning    *)
(* request ends in an error only if something outside has failed.           *)
CollisionsRetry == faults = 0 => \A j \in Provisions : result[j] # "error"

(* A running agent whose VM has stopped working does not stay so: it works  *)
(* again, or the health check takes the row out of running.                 *)
SickNoticed == \A i \in Machines : []<>(status[i] # "running" \/ vm[i] = "up")

(* HealthCheckOnce "retries replacement for unhealthy records": a user      *)
(* whose agent was found unhealthy gets an agent again.                     *)
Replaced ==
    \A i \in Machines : \A u \in Users :
        status[i] = "unhealthy" /\ owner[i] = u
            ~> \E k \in Machines : owner[k] = u /\ status[k] = "running"

(* VMs that run when the control plane stops are "reconciled on next        *)
(* startup": no VM stays for ever behind a row that is missing or stuck in  *)
(* provisioning or destroying.                                              *)
Reconciled ==
    \A i \in Machines :
        []<>(vm[i] \in {"none", "gone"} \/ status[i] \notin {"none", "provisioning", "destroying"})
=============================================================================
