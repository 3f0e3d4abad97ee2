---------------------- MODULE FirecrackerDriverProofs ----------------------
(***************************************************************************)
(* Proofs about FirecrackerDriver, for any number of starts, removals,      *)
(* health checks and restarts of the control plane.                         *)
(*                                                                         *)
(* The argument: one Start has the VM ID at a time, and once the manager    *)
(* has its VM in the table, all that the files, the driver's memory and the *)
(* calls under way speak of is that VM (DriverInv).                         *)
(***************************************************************************)
EXTENDS FirecrackerDriver, TLAPS

(* Most steps are for Zenon; those that need the SMT solver say so. *)
USE ZenonT(30)
-----------------------------------------------------------------------------
(* Types *)

(* The entries of the driver's map: as Start writes them, and as they are   *)
(* read back from the files.                                                *)
Started(s) == [launch |-> s, how |-> "started"]
Loaded(s) == [launch |-> s, how |-> "loaded"]

(* The entries are VMs, and differ from each other and from none.           *)
LEMMA VMFacts ==
    /\ NoVM.how = "none"
    /\ \A s \in Starts : Started(s) \in VM /\ Loaded(s) \in VM
    /\ \A s \in Starts : Started(s) # NoVM /\ Loaded(s) # NoVM /\ Started(s) # Loaded(s)
    /\ [launch |-> NoStart, how |-> "inferred"] \in VM
  BY DEF VM, NoVM, Started, Loaded

(* A call that goes on to a place is there, and the others are where they   *)
(* were.                                                                    *)
LEMMA Moved ==
    ASSUME DriverTypeOK, NEW c \in Calls, NEW l \in Places, Move(c, l)
    PROVE  /\ step' \in [Calls -> Places]
           /\ step'[c] = l
           /\ \A d \in Calls : d # c => step'[d] = step[d]
  BY DEF DriverTypeOK, Move

(* A call that takes a VM in hand has it, and the others hold what they     *)
(* held.                                                                    *)
LEMMA Holds ==
    ASSUME DriverTypeOK, NEW c \in Calls, NEW v \in VM \cup {NoVM}, Hold(c, v)
    PROVE  /\ held' \in [Calls -> VM \cup {NoVM}]
           /\ held'[c] = v
           /\ \A d \in Calls : d # c => held'[d] = held[d]
  BY DEF DriverTypeOK, Hold

(* The steps of Start keep the types.                                       *)
LEMMA StartTyped ==
    ASSUME DriverTypeOK, NEW s \in Starts, StartStep(s)
    PROVE  DriverTypeOK'
<1>0. s \in Calls
  BY DEF Calls
<1>1. CASE Begin(s)
  <2>1. step' \in [Calls -> Places] /\ starting' \in BOOLEAN
    <3>1. "failed" \in Places /\ "mkdir" \in Places
      BY DEF Places, Starting, Ended
    <3>2. starting \in BOOLEAN
      BY DEF DriverTypeOK
    <3> QED
      BY <1>0, <1>1, <3>1, <3>2, Moved DEF Begin
  <2> QED
    BY <1>1, <2>1 DEF Begin, DriverTypeOK, disk, procs
<1>2. CASE MkDir(s)
  <2>1. step' \in [Calls -> Places] /\ starting' \in BOOLEAN /\ dir' \in BOOLEAN
    <3>1. \A l \in {"layout", "launch", "failed", "undolayout"} : l \in Places
      BY DEF Places, Starting, Ended
    <3>2. starting \in BOOLEAN /\ dir \in BOOLEAN
      BY DEF DriverTypeOK
    <3> QED
      BY <1>0, <1>2, <3>1, <3>2, Moved DEF MkDir, StartFails
  <2> QED
    BY <1>2, <2>1 DEF MkDir, DriverTypeOK, procs
<1>3. CASE PrepareJail(s)
  <2>1. step' \in [Calls -> Places] /\ starting' \in BOOLEAN /\ jail' \in BOOLEAN
    <3>1. \A l \in {"launch", "failed", "undolayout"} : l \in Places
      BY DEF Places, Starting, Ended
    <3>2. starting \in BOOLEAN /\ jail \in BOOLEAN
      BY DEF DriverTypeOK
    <3> QED
      BY <1>0, <1>3, <3>1, <3>2, Moved DEF PrepareJail, StartFails
  <2> QED
    BY <1>3, <2>1 DEF PrepareJail, DriverTypeOK, procs
<1>4. CASE Launch(s)
  BY SMTT(30), <1>0, <1>4, Moved DEF Launch, DriverTypeOK, disk, procs, Places, Starting, Ended
<1>5. CASE WaitForSocket(s)
  BY SMTT(30), <1>0, <1>5, Moved DEF WaitForSocket, DriverTypeOK, disk, procs, Places, Starting, Ended
<1>6. CASE WaitForPIDFile(s)
  BY SMTT(30), <1>0, <1>6, Moved DEF WaitForPIDFile, DriverTypeOK, disk, procs, Places, Starting, Ended
<1>7. CASE Configure(s)
  BY SMTT(30), <1>0, <1>7, Moved DEF Configure, DriverTypeOK, disk, procs, Places, Starting, Ended
<1>8. CASE Persist(s)
  BY <1>0, <1>8, Moved DEF Persist, DriverTypeOK, procs, Places, Starting, Ended
<1>9. CASE Register(s)
  BY <1>0, <1>9, Moved, VMFacts DEF Register, Started, DriverTypeOK, disk, procs, Places, Starting, Ended
<1>10. CASE StoreAgent(s)
  BY <1>0, <1>10, Moved DEF StoreAgent, DriverTypeOK, disk, procs, Places, Starting, Ended
<1>11. CASE UndoProcess(s)
  BY <1>0, <1>11, Moved DEF UndoProcess, DriverTypeOK, disk, Places, Starting, Ended
<1>12. CASE UndoDirs(s)
  BY <1>0, <1>12, Moved
  DEF UndoDirs, RemoveStateDir, RemoveJailDir, RemoveFails, StartFails, DriverTypeOK, disk, procs,
      Places, Starting, Ended
<1> QED
  BY <1>1, <1>2, <1>3, <1>4, <1>5, <1>6, <1>7, <1>8, <1>9, <1>10, <1>11, <1>12 DEF StartStep

(* So do those of Stop, Cleanup and IsHealthy.                              *)
LEMMA CallTyped ==
    ASSUME DriverTypeOK, NEW c \in Calls, CallStep(c)
    PROVE  DriverTypeOK'
<1>1. CASE GetVM(c)
  BY SMTT(30), <1>1, Moved, Holds DEF GetVM, Found, DriverTypeOK, disk, procs, Places, Starting, Ended
<1>2. CASE LoadPersisted(c)
  BY SMTT(30), <1>2, Moved, Holds, VMFacts
  DEF LoadPersisted, Loaded, NotFound, DriverTypeOK, disk, procs, Places, Starting, Ended
<1>3. CASE ProcessAlive(c)
  BY SMTT(30), <1>3, Moved DEF ProcessAlive, NotFound, DriverTypeOK, disk, procs, Places, Starting, Ended
<1>4. CASE Insert(c)
  BY <1>4, Moved, Holds DEF Insert, Found, DriverTypeOK, disk, procs, Places, Starting, Ended
<1>5. CASE Probe(c)
  BY SMTT(30), <1>5, Moved DEF Probe, DriverTypeOK, disk, procs, Places, Starting, Ended
<1>6. CASE StopVM(c)
  BY <1>6, Moved DEF StopVM, DriverTypeOK, disk, Places, Starting, Ended
<1>7. CASE TakeVM(c)
  BY SMTT(30), <1>7, Moved, Holds DEF TakeVM, DriverTypeOK, disk, procs, Places, Starting, Ended
<1>8. CASE LoadForCleanup(c)
  BY <1>8, Moved, Holds, VMFacts
  DEF LoadForCleanup, Loaded, Finish, DriverTypeOK, disk, procs, Places, Starting, Ended
<1>9. CASE Kill(c)
  BY <1>9, Moved DEF Kill, DriverTypeOK, disk, Places, Starting, Ended
<1>10. CASE CleanupDirs(c)
  BY <1>10, Moved
  DEF CleanupDirs, RemoveStateDir, RemoveJailDir, RemoveFails, Finish, DriverTypeOK, disk, procs,
      Places, Starting, Ended
<1> QED
  BY <1>1, <1>2, <1>3, <1>4, <1>5, <1>6, <1>7, <1>8, <1>9, <1>10 DEF CallStep

(* So do the processes, new calls and restarts.                             *)
LEMMA OtherTyped ==
    ASSUME DriverTypeOK
    PROVE  /\ \A s \in Starts : Daemonize(s) \/ Exit(s) => DriverTypeOK'
           /\ \A c \in Removes \cup Checks : Ask(c) => DriverTypeOK'
           /\ RestartControlPlane => DriverTypeOK'
           /\ UNCHANGED driverVars => DriverTypeOK'
<1>1. ASSUME NEW s \in Starts, Daemonize(s) \/ Exit(s) PROVE DriverTypeOK'
  BY <1>1 DEF Daemonize, Exit, DriverTypeOK, disk
<1>2. ASSUME NEW c \in Removes \cup Checks, Ask(c) PROVE DriverTypeOK'
  BY <1>2, Moved DEF Ask, Calls, DriverTypeOK, disk, procs, Places, Starting, Ended
<1>3. ASSUME RestartControlPlane PROVE DriverTypeOK'
  <2>1. step' \in [Calls -> Places]
    BY <1>3 DEF RestartControlPlane, DriverTypeOK, Places, Ended
  <2>2. restarts' \in 0 .. MaxRestarts
    BY SMTT(30), <1>3, DriverConstants DEF RestartControlPlane, DriverTypeOK
  <2> QED
    BY <1>3, <2>1, <2>2 DEF RestartControlPlane, DriverTypeOK, disk, procs
<1>4. ASSUME UNCHANGED driverVars PROVE DriverTypeOK'
  BY <1>4 DEF driverVars, DriverTypeOK, disk, procs
<1> QED
  BY <1>1, <1>2, <1>3, <1>4

(* So does every step.                                                      *)
LEMMA DriverTyped ==
    ASSUME DriverTypeOK, [DriverNext]_driverVars
    PROVE  DriverTypeOK'
  BY StartTyped, CallTyped, OtherTyped DEF DriverNext

(* The driver begins with an empty map and no files.                        *)
LEMMA DriverTypedInit == DriverInit => DriverTypeOK
<1> SUFFICES ASSUME DriverInit PROVE DriverTypeOK
  OBVIOUS
<1>1. step \in [Calls -> Places]
  BY DEF DriverInit, Places, Ended
<1>2. restarts \in 0 .. MaxRestarts
  BY SMTT(30), DriverConstants DEF DriverInit
<1> QED
  BY <1>1, <1>2 DEF DriverInit, DriverTypeOK

(* The driver's entry, the files, the processes and the calls keep their    *)
(* types: no lookup hands on a VM of no Start.                              *)
THEOREM DriverTypeCorrect == DriverSpec => []DriverTypeOK
<1>1. DriverTypeOK /\ [DriverNext]_driverVars => DriverTypeOK'
  BY DriverTyped
<1> QED
  BY <1>1, DriverTypedInit, PTL DEF DriverSpec

-----------------------------------------------------------------------------
(* The Firecracker driver: the inductive invariant *)

(* Where a Start, a removal and a check can be.                             *)
StartSteps ==
    Starting \cup {"idle", "failed", "lost", "create", "ok", "get", "stop", "take", "kill",
                   "rmdir", "rmjail"}
RemoveSteps ==
    {"idle", "get", "load", "alive", "insert", "stop", "take", "find", "kill", "rmdir",
     "rmjail", "done", "error", "lost"}
CheckSteps ==
    {"idle", "get", "load", "alive", "insert", "probe", "healthy", "sick", "missing", "lost"}

Asked == Removes \cup Checks

KeepSteps ==
    /\ \A s \in Starts : step[s] \in StartSteps
    /\ \A c \in Removes : step[c] \in RemoveSteps
    /\ \A c \in Checks : step[c] \in CheckSteps

UnderWay(s) == step[s] \notin {"idle", "failed", "lost"}

(* One Start of the ID is under way at a time, and once one has its VM in   *)
(* the table no other begins.                                               *)
Turns ==
    /\ \A s, t \in Starts : UnderWay(s) /\ UnderWay(t) => s = t
    /\ \A s \in Starts : step[s] \in Starting => starting
    /\ row # NoStart => step[row] = "ok"
    /\ \A c \in Asked : step[c] # "idle" => \E s \in Starts : step[s] = "ok"

(* A Start that has launched nothing has no process, and the jailer is gone *)
(* when the VM runs.                                                        *)
Forked(s) ==
    /\ s \in jailers =>
           /\ step[s] \in {"socket", "undo", "lost"}
           /\ s \notin pids /\ s \notin alive /\ mode = "daemonized"
    /\ step[s] \in {"idle", "mkdir", "layout", "launch"} => s \notin pids /\ s \notin alive

OnDisk(s) ==
    /\ step[s] \in {"layout", "launch", "socket", "pid", "configure", "persist", "register", "create"} =>
           dir
    /\ step[s] \in {"register", "create"} => file = s
    /\ step[s] \in {"launch", "socket", "pid", "configure", "persist", "register", "create"} =>
           (Jailed => jail)
    /\ step[s] = "layout" => Jailed

InMemory(s) ==
    /\ step[s] \in {"create", "get", "stop", "take"} => vms = Started(s)
    /\ step[s] \in {"stop", "kill"} => held[s] = Started(s)

(* Without a daemonizing jailer a process is that of a Start which still    *)
(* has to stop it, or whose VM is in use.                                   *)
MayRun(s) ==
    restarts = 0 /\ mode # "daemonized" /\ s \in alive =>
        step[s] \in {"socket", "configure", "persist", "register", "create", "undo", "get", "stop", "ok"}

Local(s) == Forked(s) /\ OnDisk(s) /\ InMemory(s) /\ MayRun(s)

(* Without a jailer somebody is going to remove the directory that is there.*)
Owned ==
    restarts = 0 /\ mode = "plain" /\ ~ stuck /\ dir =>
        \E s \in Starts : UnderWay(s) /\ step[s] \notin {"mkdir", "undojail", "rmjail"}

(* A firecrackerVM that stopProcess can end the process of s with.          *)
IsOf(v, s) == v = Started(s) \/ (v = Loaded(s) /\ mode = "daemonized")

(* All that the calls work on, when s has its VM in the table, is the VM    *)
(* of s.                                                                    *)
Known(s) ==
    /\ file \in {s, NoStart}
    /\ vms = NoVM \/ IsOf(vms, s)
    /\ \A c \in Asked :
           /\ step[c] \in {"alive", "insert"} => held[c] = Loaded(s) /\ mode = "daemonized"
           /\ step[c] \in {"stop", "probe"} => IsOf(held[c], s)

Reached == restarts = 0 \/ mode = "daemonized"

(* Whatever lets a removal pass the process by is a sign that it has ended. *)
Dead(s) ==
    /\ file = NoStart => s \notin alive
    /\ restarts = 0 /\ vms = NoVM => s \notin alive
    /\ \A c \in Asked :
           /\ restarts = 0 /\ step[c] = "load" => s \notin alive
           /\ step[c] \in {"take", "find", "kill", "rmdir", "rmjail", "done"} => s \notin alive
           /\ step[c] \in {"rmjail", "done"} => ~ dir

(* Before a removal the VM in the table has all it needs.                   *)
Kept ==
    row # NoStart /\ Untouched =>
        /\ dir /\ file = row /\ (Jailed => jail)
        /\ restarts = 0 =>
              /\ vms = Started(row)
              /\ \A c \in Checks : step[c] \notin {"load", "alive", "insert", "missing"}
        /\ Reached => \A c \in Checks : step[c] = "missing" => row \notin alive

DriverInv ==
    /\ DriverTypeOK
    /\ KeepSteps
    /\ Turns
    /\ \A s \in Starts : Local(s)
    /\ Owned
    /\ \A s \in Starts : step[s] = "ok" => Known(s) /\ (Reached => Dead(s))
    /\ Kept
-----------------------------------------------------------------------------
(* The Firecracker driver: what a step leaves alone *)

(* A Start, a removal and a check are three different things.               *)
LEMMA Kinds ==
    /\ Starts \subseteq Calls /\ Asked \subseteq Calls
    /\ Calls = Starts \cup Asked
    /\ Asked = Removes \cup Checks
    /\ \A s \in Starts : s \notin Asked /\ s \notin Removes /\ s \notin Checks
    /\ \A c \in Checks : c \notin Removes
  BY DriverConstants DEF Calls, Asked

(* Where a call goes, whatever the place.                                   *)
LEMMA MovedTo ==
    ASSUME DriverTypeOK, NEW c \in Calls, NEW l, Move(c, l)
    PROVE  step'[c] = l /\ \A d \in Calls : d # c => step'[d] = step[d]
  BY DEF DriverTypeOK, Move

(* What a call holds, whatever it is.                                       *)
LEMMA HeldNow ==
    ASSUME DriverTypeOK, NEW c \in Calls, NEW v, Hold(c, v)
    PROVE  held'[c] = v /\ \A d \in Calls : d # c => held'[d] = held[d]
  BY DEF DriverTypeOK, Hold

(* A step of Start moves no other call and begins no process of another     *)
(* Start.                                                                   *)
LEMMA StartFrame ==
    ASSUME DriverTypeOK, NEW s \in Starts, StartStep(s)
    PROVE  /\ step'[s] # "idle"
           /\ \A d \in Calls : d # s => step'[d] = step[d]
           /\ \A t \in Starts : t # s =>
                  /\ t \in jailers' => t \in jailers
                  /\ t \in pids' => t \in pids
                  /\ t \in alive' => t \in alive
           /\ UNCHANGED <<mode, held, restarts>>
<1>0. s \in Calls
  BY Kinds
<1>1. CASE Begin(s)
  BY SMTT(30), <1>0, <1>1, MovedTo DEF Begin, procs
<1>2. CASE MkDir(s)
  BY SMTT(30), <1>0, <1>2, MovedTo DEF MkDir, StartFails, procs
<1>3. CASE PrepareJail(s)
  <2>1. Move(s, "launch") \/ Move(s, "failed") \/ Move(s, "undolayout")
    BY <1>3 DEF PrepareJail, StartFails
  <2>2. UNCHANGED <<mode, held, restarts, jailers, pids, alive>>
    BY <1>3 DEF PrepareJail, procs
  <2> QED
    BY SMTT(30), <1>0, <2>1, <2>2, MovedTo
<1>4. CASE Launch(s)
  BY SMTT(30), <1>0, <1>4, MovedTo DEF Launch, procs
<1>5. CASE WaitForSocket(s)
  BY SMTT(30), <1>0, <1>5, MovedTo DEF WaitForSocket, procs
<1>6. CASE WaitForPIDFile(s)
  BY SMTT(30), <1>0, <1>6, MovedTo DEF WaitForPIDFile, procs
<1>7. CASE Configure(s)
  BY SMTT(30), <1>0, <1>7, MovedTo DEF Configure, procs
<1>8. CASE Persist(s)
  BY SMTT(30), <1>0, <1>8, MovedTo DEF Persist, procs
<1>9. CASE Register(s)
  BY SMTT(30), <1>0, <1>9, MovedTo DEF Register, procs
<1>10. CASE StoreAgent(s)
  BY SMTT(30), <1>0, <1>10, MovedTo DEF StoreAgent, procs
<1>11. CASE UndoProcess(s)
  BY SMTT(30), <1>0, <1>11, MovedTo DEF UndoProcess
<1>12. CASE UndoDirs(s)
  BY SMTT(30), <1>0, <1>12, MovedTo DEF UndoDirs, StartFails, procs
<1> QED
  BY <1>1, <1>2, <1>3, <1>4, <1>5, <1>6, <1>7, <1>8, <1>9, <1>10, <1>11, <1>12 DEF StartStep

(* A step of Stop, Cleanup or IsHealthy starts nothing and makes no         *)
(* directory.                                                               *)
LEMMA CallFrame ==
    ASSUME DriverTypeOK, NEW c \in Calls, CallStep(c)
    PROVE  /\ step'[c] \notin {"idle", "ok", "lost"}
           /\ \A d \in Calls : d # c => step'[d] = step[d] /\ held'[d] = held[d]
           /\ alive' \subseteq alive
           /\ dir' => dir
           /\ stuck => stuck'
           /\ UNCHANGED <<mode, starting, jailers, pids, restarts>>
<1>1. CASE GetVM(c)
  BY SMTT(30), <1>1, MovedTo, HeldNow DEF GetVM, Found, disk, procs
<1>2. CASE LoadPersisted(c)
  BY SMTT(30), <1>2, MovedTo, HeldNow DEF LoadPersisted, NotFound, disk, procs
<1>3. CASE ProcessAlive(c)
  BY SMTT(30), <1>3, MovedTo DEF ProcessAlive, NotFound, disk, procs
<1>4. CASE Insert(c)
  BY SMTT(30), <1>4, MovedTo, HeldNow DEF Insert, Found, disk, procs
<1>5. CASE Probe(c)
  BY SMTT(30), <1>5, MovedTo DEF Probe, disk, procs
<1>6. CASE StopVM(c)
  BY SMTT(30), <1>6, MovedTo DEF StopVM, disk
<1>7. CASE TakeVM(c)
  BY SMTT(30), <1>7, MovedTo, HeldNow DEF TakeVM, disk, procs
<1>8. CASE LoadForCleanup(c)
  BY SMTT(30), <1>8, MovedTo, HeldNow DEF LoadForCleanup, Finish, disk, procs
<1>9. CASE Kill(c)
  BY SMTT(30), <1>9, MovedTo DEF Kill, disk
<1>10. CASE CleanupDirs(c)
  BY SMTT(30), <1>10, MovedTo
  DEF CleanupDirs, RemoveStateDir, RemoveJailDir, RemoveFails, Finish, disk, procs
<1> QED
  BY <1>1, <1>2, <1>3, <1>4, <1>5, <1>6, <1>7, <1>8, <1>9, <1>10 DEF CallStep

-----------------------------------------------------------------------------
(* The Firecracker driver: Start *)

(* While a Start is under way and has not returned, it has the ID to itself.*)
LEMMA Alone ==
    ASSUME Turns, DriverTypeOK, NEW s \in Starts, UnderWay(s), step[s] # "ok"
    PROVE  /\ \A t \in Starts : t # s => ~ UnderWay(t)
           /\ row = NoStart
           /\ \A c \in Asked : step[c] = "idle"
<1>1. \A t \in Starts : UnderWay(t) => t = s
  BY DEF Turns
<1>2. \A t \in Starts : step[t] # "ok"
  BY <1>1 DEF UnderWay
<1>3. row = NoStart
  BY <1>2 DEF Turns, DriverTypeOK
<1>4. \A c \in Asked : step[c] = "idle"
  BY <1>2 DEF Turns
<1> QED
  BY <1>1, <1>3, <1>4

(* Where only s is under way, and it has not succeeded, there is nobody to  *)
(* clash with.                                                              *)
LEMMA AloneKeeps ==
    ASSUME NEW s \in Starts, \A t \in Starts : t # s => ~ UnderWay(t)',
           row' = NoStart, \A c \in Asked : step'[c] = "idle",
           step'[s] # "ok", step'[s] \in Starting => starting'
    PROVE  Turns' /\ Kept' /\ \A t \in Starts : step'[t] # "ok"
<1>1. \A t \in Starts : step'[t] # "ok"
  BY DEF UnderWay
<1>2. \A t \in Starts : step'[t] \in Starting => starting'
  BY DEF UnderWay, Starting
<1>3. \A t, u \in Starts : UnderWay(t)' /\ UnderWay(u)' => t = u
  OBVIOUS
<1> QED
  BY <1>1, <1>2, <1>3 DEF Turns, Kept

(* A Start that is not under way has nothing to keep but the absence of     *)
(* things.                                                                  *)
LEMMA OthersLocal ==
    ASSUME NEW t \in Starts, Local(t), ~ UnderWay(t), step'[t] = step[t],
           t \in jailers' => t \in jailers, t \in pids' => t \in pids, t \in alive' => t \in alive,
           UNCHANGED <<mode, restarts>>
    PROVE  Local(t)'
<1>1. Forked(t)'
  BY DEF Local, Forked
<1>2. OnDisk(t)' /\ InMemory(t)'
  BY DEF UnderWay, OnDisk, InMemory
<1>3. MayRun(t)'
  BY DEF Local, MayRun
<1> QED
  BY <1>1, <1>2, <1>3 DEF Local

(* What a step of Start has to show of its own state.                       *)
Ready(s) ==
    /\ step[s] \in StartSteps
    /\ step[s] \in Starting => starting
    /\ Local(s)
    /\ Owned

(* A step of Start that is ready keeps the invariant.                       *)
LEMMA ReadyKeeps ==
    ASSUME DriverInv, DriverTypeOK', NEW s \in Starts, UnderWay(s), step[s] # "ok",
           StartStep(s) \/ CallStep(s), Ready(s)', step'[s] # "ok", row' = NoStart
    PROVE  DriverInv'
<1>0. DriverTypeOK /\ KeepSteps /\ Turns /\ \A t \in Starts : Local(t)
  BY DEF DriverInv
<1>1. /\ \A t \in Starts : t # s => ~ UnderWay(t)
      /\ \A c \in Asked : step[c] = "idle"
  BY <1>0, Alone
<1>2. /\ \A d \in Calls : d # s => step'[d] = step[d]
      /\ \A t \in Starts : t # s =>
             (t \in jailers' => t \in jailers) /\ (t \in pids' => t \in pids) /\ (t \in alive' => t \in alive)
      /\ UNCHANGED <<mode, restarts>>
  <2>1. CASE StartStep(s)
    BY <1>0, <2>1, StartFrame
  <2>2. CASE CallStep(s)
    BY SMTT(30), <1>0, <2>2, CallFrame, Kinds
  <2> QED
    BY <2>1, <2>2
<1>3. /\ \A t \in Starts : t # s => step'[t] = step[t]
      /\ \A c \in Asked : step'[c] = step[c]
  BY <1>2, Kinds
<1>4. \A t \in Starts : t # s => ~ UnderWay(t)'
  BY <1>1, <1>3 DEF UnderWay
<1>5. Turns' /\ Kept' /\ \A t \in Starts : step'[t] # "ok"
  BY <1>1, <1>3, <1>4, AloneKeeps DEF Ready
<1>6. \A t \in Starts : Local(t)'
  BY <1>0, <1>1, <1>2, <1>3, OthersLocal DEF Ready
<1>7. KeepSteps'
  <2>1. \A t \in Starts : step'[t] \in StartSteps
    BY <1>0, <1>3 DEF KeepSteps, Ready
  <2>2. /\ \A c \in Removes : step'[c] \in RemoveSteps
        /\ \A c \in Checks : step'[c] \in CheckSteps
    BY <1>0, <1>3, Kinds DEF KeepSteps
  <2> QED
    BY <2>1, <2>2 DEF KeepSteps
<1> QED
  BY <1>5, <1>6, <1>7 DEF DriverInv, Ready

(* The directory has no owner before mkdir and after its removal.           *)
LEMMA Unowned ==
    ASSUME DriverInv, NEW s \in Starts, step[s] \in {"mkdir", "undojail", "rmjail"},
           restarts = 0, mode = "plain", ~ stuck
    PROVE  ~ dir
<1>1. UnderWay(s) /\ step[s] # "ok"
  BY DEF UnderWay
<1>2. \A t \in Starts : t # s => ~ UnderWay(t)
  BY <1>1, Alone DEF DriverInv
<1> QED
  BY <1>2 DEF DriverInv, Owned

(* A Start under way is going to remove its directory, or to hand it to the *)
(* agent.                                                                   *)
LEMMA Owner ==
    ASSUME NEW s \in Starts, UnderWay(s)', step'[s] \notin {"mkdir", "undojail", "rmjail"}
    PROVE  Owned'
  BY DEF Owned

(* MkdirAll of the state directory.                                         *)
LEMMA MkDirReady ==
    ASSUME DriverInv, NEW s \in Starts, MkDir(s)
    PROVE  Ready(s)' /\ step'[s] # "ok" /\ row' = row
<1>0. DriverTypeOK /\ Turns /\ Local(s) /\ Owned /\ s \in Calls
  BY Kinds DEF DriverInv
<1>1. step[s] = "mkdir" /\ UNCHANGED <<mode, restarts, row, held>>
  BY DEF MkDir
<1>2. step'[s] \in {"layout", "launch", "failed", "undolayout"}
  BY <1>0, MovedTo DEF MkDir, StartFails
<1>3. step'[s] \in StartSteps /\ (step'[s] \in Starting => starting')
  BY SMTT(30), <1>0, <1>1, <1>2, MovedTo DEF MkDir, StartFails, StartSteps, Starting, Turns
<1>4. Forked(s)'
  BY <1>0, <1>1, MovedTo DEF MkDir, StartFails, Local, Forked, procs
<1>5. OnDisk(s)'
  BY SMTT(30), <1>0, <1>1, MovedTo DEF MkDir, StartFails, Local, OnDisk, disk, Jailed
<1>6. InMemory(s)'
  BY <1>0, <1>1, <1>2, MovedTo DEF MkDir, InMemory, Started
<1>7. MayRun(s)'
  BY <1>0, <1>1, MovedTo DEF MkDir, StartFails, Local, Forked, MayRun, procs
<1>8. Owned'
  <2>1. CASE step'[s] = "failed"
    <3>1. dir' = dir /\ stuck' = stuck
      BY SMTT(30), <1>0, <2>1, MovedTo DEF MkDir
    <3> QED
      BY <1>1, <3>1, Unowned DEF Owned
  <2>2. CASE step'[s] # "failed"
    BY <1>2, <2>2, Owner DEF UnderWay
  <2> QED
    BY <2>1, <2>2
<1> QED
  BY <1>1, <1>2, <1>3, <1>4, <1>5, <1>6, <1>7, <1>8 DEF Ready, Local

(* prepareJailerLayout.                                                     *)
LEMMA PrepareJailReady ==
    ASSUME DriverInv, NEW s \in Starts, PrepareJail(s)
    PROVE  Ready(s)' /\ step'[s] # "ok" /\ row' = row
<1>0. DriverTypeOK /\ Turns /\ Local(s) /\ Owned /\ s \in Calls
  BY Kinds DEF DriverInv
<1>1. step[s] = "layout" /\ UNCHANGED <<mode, restarts, row, held, dir, file, stuck>>
  BY DEF PrepareJail
<1>2. \/ jail' = TRUE /\ Move(s, "launch") /\ UNCHANGED starting
      \/ Move(s, "failed") /\ starting' = FALSE
      \/ Move(s, "undolayout") /\ UNCHANGED starting
  BY DEF PrepareJail, StartFails
<1>3. step'[s] \in {"launch", "failed", "undolayout"}
  BY <1>0, <1>2, MovedTo
<1>4. step'[s] \in StartSteps /\ (step'[s] \in Starting => starting')
  BY SMTT(30), <1>0, <1>1, <1>2, MovedTo DEF StartSteps, Starting, Turns
<1>5. Forked(s)'
  BY <1>0, <1>1, MovedTo DEF PrepareJail, StartFails, Local, Forked, procs
<1>6. OnDisk(s)'
  BY SMTT(30), <1>0, <1>1, <1>2, MovedTo DEF Local, OnDisk, Jailed
<1>7. InMemory(s)'
  BY <1>0, <1>1, <1>3, MovedTo DEF PrepareJail, InMemory, Started
<1>8. MayRun(s)'
  BY <1>0, <1>1, MovedTo DEF PrepareJail, StartFails, Local, Forked, MayRun, procs
<1>9. Owned'
  <2>1. mode # "plain"
    BY <1>0, <1>1 DEF Local, OnDisk, Jailed
  <2> QED
    BY <1>1, <2>1 DEF Owned
<1> QED
  BY <1>1, <1>3, <1>4, <1>5, <1>6, <1>7, <1>8, <1>9 DEF Ready, Local

(* The launch of firecracker or its jailer.                                 *)
LEMMA LaunchReady ==
    ASSUME DriverInv, NEW s \in Starts, Launch(s)
    PROVE  Ready(s)' /\ step'[s] # "ok" /\ row' = row
<1>0. DriverTypeOK /\ Turns /\ Local(s) /\ Owned /\ s \in Calls
  BY Kinds DEF DriverInv
<1>1. step[s] = "launch" /\ UNCHANGED <<mode, restarts, row, held>>
  BY DEF Launch
<1>2. step'[s] \in {"socket", "undodir"}
  BY <1>0, MovedTo DEF Launch, StartFails
<1>3. step'[s] \in StartSteps /\ (step'[s] \in Starting => starting')
  BY <1>0, <1>1, <1>2, MovedTo DEF Launch, StartFails, StartSteps, Starting, Turns
<1>4. Forked(s)'
  BY SMTT(30), <1>0, <1>1, MovedTo DEF Launch, StartFails, Local, Forked, procs
<1>5. OnDisk(s)'
  BY SMTT(30), <1>0, <1>1, MovedTo DEF Launch, StartFails, Local, OnDisk, disk, Jailed
<1>6. InMemory(s)'
  BY <1>0, <1>1, <1>2, MovedTo DEF Launch, InMemory, Started
<1>7. MayRun(s)'
  BY <1>0, <1>1, MovedTo DEF Launch, StartFails, Local, Forked, MayRun, procs
<1>8. Owned'
  BY <1>0, <1>1, <1>2, MovedTo, Unowned, Owner DEF Launch, StartFails, UnderWay, Owned, disk
<1> QED
  BY <1>1, <1>2, <1>3, <1>4, <1>5, <1>6, <1>7, <1>8 DEF Ready, Local

(* waitForSocket.                                                           *)
LEMMA WaitForSocketReady ==
    ASSUME DriverInv, NEW s \in Starts, WaitForSocket(s)
    PROVE  Ready(s)' /\ step'[s] # "ok" /\ row' = row
<1>0. DriverTypeOK /\ Turns /\ Local(s) /\ Owned /\ s \in Calls
  BY Kinds DEF DriverInv
<1>1. step[s] = "socket" /\ UNCHANGED <<mode, restarts, row, held>>
  BY DEF WaitForSocket
<1>2. step'[s] \in {"pid", "configure", "undo"}
  BY <1>0, MovedTo DEF WaitForSocket, StartFails
<1>3. step'[s] \in StartSteps /\ (step'[s] \in Starting => starting')
  BY <1>0, <1>1, <1>2, MovedTo DEF WaitForSocket, StartFails, StartSteps, Starting, Turns
<1>4. Forked(s)'
  BY SMTT(30), <1>0, <1>1, MovedTo DEF WaitForSocket, StartFails, Local, Forked, procs
<1>5. OnDisk(s)'
  BY SMTT(30), <1>0, <1>1, MovedTo DEF WaitForSocket, StartFails, Local, OnDisk, disk, Jailed
<1>6. InMemory(s)'
  BY <1>0, <1>1, <1>2, MovedTo DEF WaitForSocket, InMemory, Started
<1>7. MayRun(s)'
  BY <1>0, <1>1, MovedTo DEF WaitForSocket, StartFails, Local, Forked, MayRun, procs
<1>8. Owned'
  BY <1>0, <1>1, <1>2, MovedTo, Unowned, Owner DEF WaitForSocket, StartFails, UnderWay, Owned, disk
<1> QED
  BY <1>1, <1>2, <1>3, <1>4, <1>5, <1>6, <1>7, <1>8 DEF Ready, Local

(* waitForPIDFile.                                                          *)
LEMMA WaitForPIDFileReady ==
    ASSUME DriverInv, NEW s \in Starts, WaitForPIDFile(s)
    PROVE  Ready(s)' /\ step'[s] # "ok" /\ row' = row
<1>0. DriverTypeOK /\ Turns /\ Local(s) /\ Owned /\ s \in Calls
  BY Kinds DEF DriverInv
<1>1. step[s] = "pid" /\ UNCHANGED <<mode, restarts, row, held>>
  BY DEF WaitForPIDFile
<1>2. step'[s] \in {"configure", "undo"}
  BY <1>0, MovedTo DEF WaitForPIDFile, StartFails
<1>3. step'[s] \in StartSteps /\ (step'[s] \in Starting => starting')
  BY <1>0, <1>1, <1>2, MovedTo DEF WaitForPIDFile, StartFails, StartSteps, Starting, Turns
<1>4. Forked(s)'
  BY SMTT(30), <1>0, <1>1, MovedTo DEF WaitForPIDFile, StartFails, Local, Forked, procs
<1>5. OnDisk(s)'
  BY SMTT(30), <1>0, <1>1, MovedTo DEF WaitForPIDFile, StartFails, Local, OnDisk, disk, Jailed
<1>6. InMemory(s)'
  BY <1>0, <1>1, <1>2, MovedTo DEF WaitForPIDFile, InMemory, Started
<1>7. MayRun(s)'
  BY <1>0, <1>1, MovedTo DEF WaitForPIDFile, StartFails, Local, Forked, MayRun, procs
<1>8. Owned'
  BY <1>0, <1>1, <1>2, MovedTo, Unowned, Owner DEF WaitForPIDFile, StartFails, UnderWay, Owned, disk
<1> QED
  BY <1>1, <1>2, <1>3, <1>4, <1>5, <1>6, <1>7, <1>8 DEF Ready, Local

(* The calls of the API socket.                                             *)
LEMMA ConfigureReady ==
    ASSUME DriverInv, NEW s \in Starts, Configure(s)
    PROVE  Ready(s)' /\ step'[s] # "ok" /\ row' = row
<1>0. DriverTypeOK /\ Turns /\ Local(s) /\ Owned /\ s \in Calls
  BY Kinds DEF DriverInv
<1>1. step[s] = "configure" /\ UNCHANGED <<mode, restarts, row, held>>
  BY DEF Configure
<1>2. step'[s] \in {"persist", "undo"}
  BY <1>0, MovedTo DEF Configure, StartFails
<1>3. step'[s] \in StartSteps /\ (step'[s] \in Starting => starting')
  BY <1>0, <1>1, <1>2, MovedTo DEF Configure, StartFails, StartSteps, Starting, Turns
<1>4. Forked(s)'
  BY SMTT(30), <1>0, <1>1, MovedTo DEF Configure, StartFails, Local, Forked, procs
<1>5. OnDisk(s)'
  BY SMTT(30), <1>0, <1>1, MovedTo DEF Configure, StartFails, Local, OnDisk, disk, Jailed
<1>6. InMemory(s)'
  BY <1>0, <1>1, <1>2, MovedTo DEF Configure, InMemory, Started
<1>7. MayRun(s)'
  BY <1>0, <1>1, MovedTo DEF Configure, StartFails, Local, Forked, MayRun, procs
<1>8. Owned'
  BY <1>0, <1>1, <1>2, MovedTo, Unowned, Owner DEF Configure, StartFails, UnderWay, Owned, disk
<1> QED
  BY <1>1, <1>2, <1>3, <1>4, <1>5, <1>6, <1>7, <1>8 DEF Ready, Local

(* persistVMState.                                                          *)
LEMMA PersistReady ==
    ASSUME DriverInv, NEW s \in Starts, Persist(s)
    PROVE  Ready(s)' /\ step'[s] # "ok" /\ row' = row
<1>0. DriverTypeOK /\ Turns /\ Local(s) /\ Owned /\ s \in Calls
  BY Kinds DEF DriverInv
<1>1. step[s] = "persist" /\ UNCHANGED <<mode, restarts, row, held>>
  BY DEF Persist
<1>2. step'[s] \in {"register", "undo"}
  BY <1>0, MovedTo DEF Persist, StartFails
<1>3. step'[s] \in StartSteps /\ (step'[s] \in Starting => starting')
  BY <1>0, <1>1, <1>2, MovedTo DEF Persist, StartFails, StartSteps, Starting, Turns
<1>4. Forked(s)'
  BY SMTT(30), <1>0, <1>1, MovedTo DEF Persist, StartFails, Local, Forked, procs
<1>5. OnDisk(s)'
  BY SMTT(30), <1>0, <1>1, MovedTo DEF Persist, StartFails, Local, OnDisk, disk, Jailed
<1>6. InMemory(s)'
  BY <1>0, <1>1, <1>2, MovedTo DEF Persist, InMemory, Started
<1>7. MayRun(s)'
  BY <1>0, <1>1, MovedTo DEF Persist, StartFails, Local, Forked, MayRun, procs
<1>8. Owned'
  BY <1>0, <1>1, <1>2, MovedTo, Unowned, Owner DEF Persist, StartFails, UnderWay, Owned, disk
<1> QED
  BY <1>1, <1>2, <1>3, <1>4, <1>5, <1>6, <1>7, <1>8 DEF Ready, Local

(* The entry of the map.                                                    *)
LEMMA RegisterReady ==
    ASSUME DriverInv, NEW s \in Starts, Register(s)
    PROVE  Ready(s)' /\ step'[s] # "ok" /\ row' = row
<1>0. DriverTypeOK /\ Turns /\ Local(s) /\ Owned /\ s \in Calls
  BY Kinds DEF DriverInv
<1>1. step[s] = "register" /\ UNCHANGED <<mode, restarts, row, held>>
  BY DEF Register
<1>2. step'[s] \in {"create"}
  BY <1>0, MovedTo DEF Register, StartFails
<1>3. step'[s] \in StartSteps /\ (step'[s] \in Starting => starting')
  BY <1>0, <1>1, <1>2, MovedTo DEF Register, StartFails, StartSteps, Starting, Turns
<1>4. Forked(s)'
  BY SMTT(30), <1>0, <1>1, MovedTo DEF Register, StartFails, Local, Forked, procs
<1>5. OnDisk(s)'
  BY SMTT(30), <1>0, <1>1, MovedTo DEF Register, StartFails, Local, OnDisk, disk, Jailed
<1>6. InMemory(s)'
  BY <1>0, <1>1, <1>2, MovedTo DEF Register, InMemory, Started
<1>7. MayRun(s)'
  BY <1>0, <1>1, MovedTo DEF Register, StartFails, Local, Forked, MayRun, procs
<1>8. Owned'
  BY <1>0, <1>1, <1>2, MovedTo, Unowned, Owner DEF Register, StartFails, UnderWay, Owned, disk
<1> QED
  BY <1>1, <1>2, <1>3, <1>4, <1>5, <1>6, <1>7, <1>8 DEF Ready, Local

(* The undoing of the process.                                              *)
LEMMA UndoProcessReady ==
    ASSUME DriverInv, NEW s \in Starts, UndoProcess(s)
    PROVE  Ready(s)' /\ step'[s] # "ok" /\ row' = row
<1>0. DriverTypeOK /\ Turns /\ Local(s) /\ Owned /\ s \in Calls
  BY Kinds DEF DriverInv
<1>1. step[s] = "undo" /\ UNCHANGED <<mode, restarts, row, held>>
  BY DEF UndoProcess
<1>2. step'[s] \in {"undodir"}
  BY <1>0, MovedTo DEF UndoProcess, StartFails
<1>3. step'[s] \in StartSteps /\ (step'[s] \in Starting => starting')
  BY <1>0, <1>1, <1>2, MovedTo DEF UndoProcess, StartFails, StartSteps, Starting, Turns
<1>4. Forked(s)'
  BY SMTT(30), <1>0, <1>1, MovedTo DEF UndoProcess, StartFails, Local, Forked, procs
<1>5. OnDisk(s)'
  BY SMTT(30), <1>0, <1>1, MovedTo DEF UndoProcess, StartFails, Local, OnDisk, disk, Jailed
<1>6. InMemory(s)'
  BY <1>0, <1>1, <1>2, MovedTo DEF UndoProcess, InMemory, Started
<1>7. MayRun(s)'
  BY <1>0, <1>1, MovedTo DEF UndoProcess, StartFails, Local, Forked, MayRun, procs
<1>8. Owned'
  BY <1>0, <1>1, <1>2, MovedTo, Unowned, Owner DEF UndoProcess, StartFails, UnderWay, Owned, disk
<1> QED
  BY <1>1, <1>2, <1>3, <1>4, <1>5, <1>6, <1>7, <1>8 DEF Ready, Local


(* The undoing of the directories.                                          *)
LEMMA UndoDirsReady ==
    ASSUME DriverInv, NEW s \in Starts, UndoDirs(s)
    PROVE  Ready(s)' /\ step'[s] # "ok" /\ row' = row
<1>0. DriverTypeOK /\ Turns /\ Local(s) /\ Owned /\ s \in Calls
  BY Kinds DEF DriverInv
<1>1. UNCHANGED <<mode, restarts, row, held, vms, jailers, alive, pids>>
  BY DEF UndoDirs, procs
<1>2. step[s] \in {"undolayout", "undodir", "undojail"} /\ step'[s] \in {"undojail", "failed"}
  BY <1>0, MovedTo DEF UndoDirs, StartFails
<1>3. step'[s] \in StartSteps /\ (step'[s] \in Starting => starting')
  BY SMTT(30), <1>0, <1>2, MovedTo DEF UndoDirs, StartFails, StartSteps, Starting, Turns
<1>4. Forked(s)' /\ OnDisk(s)' /\ InMemory(s)' /\ MayRun(s)'
  BY <1>0, <1>1, <1>2 DEF Local, Forked, OnDisk, InMemory, MayRun
<1>5. Owned'
  <2>1. step[s] = "undojail" \/ dir' = FALSE \/ stuck' = TRUE
    BY DEF UndoDirs, RemoveStateDir, RemoveFails
  <2>2. ASSUME step[s] = "undojail", restarts = 0, mode = "plain", ~ stuck' PROVE ~ dir'
    BY SMTT(30), <2>2, <1>0, Unowned DEF UndoDirs, RemoveJailDir, RemoveFails, Jailed, disk
  <2> QED
    BY <1>1, <2>1, <2>2 DEF Owned
<1> QED
  BY <1>1, <1>2, <1>3, <1>4, <1>5 DEF Ready, Local

(* When the manager cannot store the agent, it removes the VM: getVM finds  *)
(* what Start registered, so that Stop ends its process.                    *)
LEMMA TakeBackReady ==
    ASSUME DriverInv, NEW s \in Starts, CallStep(s)
    PROVE  Ready(s)' /\ step'[s] # "ok" /\ row' = row /\ UnderWay(s)
<1>0. DriverTypeOK /\ Turns /\ Local(s) /\ Owned /\ s \in Calls /\ s \notin Checks /\ s \notin Removes
      /\ step[s] \in StartSteps
  BY Kinds DEF DriverInv, KeepSteps
<1>1. UNCHANGED <<mode, restarts, jailers, pids>> /\ alive' \subseteq alive
  BY <1>0, CallFrame
<1>2. CASE GetVM(s)
  <2>1. step[s] = "get" /\ vms = Started(s) /\ vms # NoVM
    BY <1>0, <1>2, VMFacts DEF GetVM, Local, InMemory
  <2>2. step'[s] = "stop" /\ held'[s] = vms /\ vms' = vms /\ row' = row
    BY <1>0, <1>2, <2>1, MovedTo, HeldNow DEF GetVM, Found
  <2>3. Local(s)'
    BY <1>0, <1>1, <2>1, <2>2 DEF Local, Forked, OnDisk, InMemory, MayRun, Started
  <2> QED
    BY <2>1, <2>2, <2>3, Owner DEF Ready, UnderWay, StartSteps, Starting
<1>3. CASE StopVM(s)
  <2>1. step[s] = "stop" /\ vms = Started(s) /\ held[s] = Started(s)
    BY <1>0, <1>3 DEF StopVM, Local, InMemory
  <2>2. step'[s] = "take" /\ vms' = vms /\ row' = row /\ alive' = alive \ {s}
    BY SMTT(30), <1>0, <1>3, <2>1, MovedTo DEF StopVM, Stopped, Started
  <2>3. Local(s)'
    BY <1>0, <1>1, <2>1, <2>2 DEF Local, Forked, OnDisk, InMemory, MayRun, Started
  <2> QED
    BY <2>1, <2>2, <2>3, Owner DEF Ready, UnderWay, StartSteps, Starting
<1>4. CASE TakeVM(s)
  <2>1. step[s] = "take" /\ vms = Started(s) /\ vms # NoVM
    BY <1>0, <1>4, VMFacts DEF TakeVM, Local, InMemory
  <2>2. step'[s] = "kill" /\ held'[s] = vms /\ row' = row /\ alive' = alive
    BY <1>0, <1>4, <2>1, MovedTo, HeldNow DEF TakeVM, procs
  <2>3. Local(s)'
    BY <1>0, <1>1, <2>1, <2>2 DEF Local, Forked, OnDisk, InMemory, MayRun, Started
  <2> QED
    BY <2>1, <2>2, <2>3, Owner DEF Ready, UnderWay, StartSteps, Starting
<1>5. CASE Kill(s)
  <2>1. step[s] = "kill" /\ step'[s] = "rmdir" /\ row' = row
    BY <1>0, <1>5, MovedTo DEF Kill
  <2>2. Local(s)'
    BY <1>0, <1>1, <2>1 DEF Local, Forked, OnDisk, InMemory, MayRun
  <2> QED
    BY <2>1, <2>2, Owner DEF Ready, UnderWay, StartSteps, Starting
<1>6. CASE CleanupDirs(s)
  <2>1. step[s] \in {"rmdir", "rmjail"} /\ step'[s] \in {"rmjail", "failed"} /\ row' = row
    BY <1>0, <1>6, MovedTo DEF CleanupDirs, Finish
  <2>2. Local(s)'
    BY <1>0, <1>1, <2>1 DEF Local, Forked, OnDisk, InMemory, MayRun
  <2>3. Owned'
    <3>1. step[s] = "rmjail" \/ dir' = FALSE \/ stuck' = TRUE
      BY <1>6 DEF CleanupDirs, RemoveStateDir, RemoveFails
    <3>2. ASSUME step[s] = "rmjail", restarts = 0, mode = "plain", ~ stuck' PROVE ~ dir'
      BY SMTT(30), <1>0, <1>6, <3>2, Unowned DEF CleanupDirs, RemoveJailDir, RemoveFails, Jailed, disk
    <3> QED
      BY <1>1, <3>1, <3>2 DEF Owned
  <2> QED
    BY <2>1, <2>2, <2>3 DEF Ready, UnderWay, StartSteps, Starting
<1>7. CASE LoadPersisted(s) \/ ProcessAlive(s) \/ Insert(s) \/ Probe(s) \/ LoadForCleanup(s)
  <2>1. step[s] \in {"load", "alive", "insert", "probe", "find"}
    BY <1>7 DEF LoadPersisted, ProcessAlive, Insert, Probe, LoadForCleanup
  <2> QED
    BY <1>0, <2>1 DEF StartSteps, Starting
<1> QED
  BY <1>2, <1>3, <1>4, <1>5, <1>6, <1>7 DEF CallStep

(* A Start that begins is alone.                                            *)
LEMMA BeginKeeps ==
    ASSUME DriverInv, DriverTypeOK', NEW s \in Starts, Begin(s)
    PROVE  DriverInv'
<1>0. DriverTypeOK /\ KeepSteps /\ Turns /\ Owned /\ (\A t \in Starts : Local(t)) /\ s \in Calls
  BY Kinds DEF DriverInv
<1>1. /\ step[s] = "idle"
      /\ \A t \in Starts : step[t] \in Starting \cup {"idle", "failed"}
      /\ UNCHANGED <<mode, vms, dir, file, jail, stuck, jailers, alive, pids, held, row, restarts>>
  BY DEF Begin, disk, procs
<1>2. \A t \in Starts : step[t] # "ok"
  BY <1>1 DEF Starting
<1>3. row = NoStart /\ \A c \in Asked : step[c] = "idle"
  BY <1>0, <1>2 DEF Turns, DriverTypeOK
<1>4. \/ step'[s] = "failed" /\ starting' = starting
      \/ step'[s] = "mkdir" /\ starting' = TRUE /\ ~ starting
  BY <1>0, MovedTo DEF Begin, Taken
<1>5. /\ \A t \in Starts : t # s => step'[t] = step[t]
      /\ \A c \in Asked : step'[c] = step[c]
  BY SMTT(30), <1>0, Kinds, MovedTo DEF Begin
<1>6. \A t \in Starts : Local(t)'
  <2>1. Local(s)'
    BY <1>0, <1>1, <1>4 DEF Local, Forked, OnDisk, InMemory, MayRun
  <2>2. ASSUME NEW t \in Starts, t # s PROVE Local(t)'
    <3>1. Local(t) /\ step'[t] = step[t]
      BY <1>0, <1>5, <2>2
    <3> QED
      BY <1>1, <3>1 DEF Local, Forked, OnDisk, InMemory, MayRun, Jailed
  <2> QED
    BY <2>1, <2>2
<1>7. KeepSteps'
  <2>1. \A t \in Starts : step'[t] \in StartSteps
    BY <1>0, <1>4, <1>5 DEF KeepSteps, StartSteps, Starting
  <2> QED
    BY <1>0, <1>5, <2>1, Kinds DEF KeepSteps
<1>8. Turns' /\ Owned'
  <2>1. CASE step'[s] = "failed" /\ starting' = starting
    <3>1. \A t \in Starts : UnderWay(t)' => t # s /\ UnderWay(t) /\ step'[t] = step[t]
      BY <1>5, <2>1 DEF UnderWay
    <3>2. Turns'
      <4>1. \A t \in Starts : step'[t] \in Starting => starting'
        BY <1>0, <1>5, <2>1 DEF Turns, Starting
      <4>2. \A t, u \in Starts : UnderWay(t)' /\ UnderWay(u)' => t = u
        BY <1>0, <3>1 DEF Turns
      <4> QED
        BY <1>1, <1>3, <1>5, <4>1, <4>2 DEF Turns
    <3>3. \A t \in Starts : UnderWay(t) => UnderWay(t)' /\ step'[t] = step[t]
      BY <1>1, <1>5 DEF UnderWay
    <3> QED
      BY <1>0, <1>1, <3>2, <3>3 DEF Owned
  <2>2. CASE step'[s] = "mkdir" /\ starting' = TRUE /\ ~ starting
    <3>1. \A t \in Starts : ~ UnderWay(t)
      BY <1>0, <1>1, <2>2 DEF Turns, UnderWay
    <3>2. \A t \in Starts : t # s => ~ UnderWay(t)'
      BY <1>5, <3>1 DEF UnderWay
    <3>3. Turns'
      BY <1>1, <1>3, <1>5, <2>2, <3>2, AloneKeeps
    <3> QED
      BY <1>0, <1>1, <3>1, <3>3 DEF Owned
  <2> QED
    BY <1>4, <2>1, <2>2
<1>9. \A t \in Starts : step'[t] # "ok"
  BY <1>2, <1>4, <1>5
<1>10. Kept'
  BY <1>1, <1>3 DEF Kept
<1> QED
  BY <1>6, <1>7, <1>8, <1>9, <1>10 DEF DriverInv

(* The row of the agent: from here on the VM of s is the one of its ID.     *)
LEMMA StoreAgentKeeps ==
    ASSUME DriverInv, DriverTypeOK', NEW s \in Starts, StoreAgent(s)
    PROVE  DriverInv'
<1>0. DriverTypeOK /\ KeepSteps /\ Turns /\ (\A t \in Starts : Local(t)) /\ s \in Calls /\ s # NoStart
  BY Kinds, DriverConstants DEF DriverInv
<1>1. /\ step[s] = "create"
      /\ UNCHANGED <<mode, vms, dir, file, jail, stuck, jailers, alive, pids, held, restarts, starting>>
  BY DEF StoreAgent, disk, procs
<1>2. UnderWay(s) /\ step[s] # "ok"
  BY <1>1 DEF UnderWay
<1>3. row = NoStart /\ (\A t \in Starts : t # s => ~ UnderWay(t)) /\ \A c \in Asked : step[c] = "idle"
  BY <1>0, <1>2, Alone
<1>4. \/ step'[s] = "ok" /\ row' = s
      \/ step'[s] = "get" /\ row' = row
  BY <1>0, MovedTo DEF StoreAgent
<1>5. /\ \A t \in Starts : t # s => step'[t] = step[t]
      /\ \A c \in Asked : step'[c] = step[c]
  BY SMTT(30), <1>0, Kinds, MovedTo DEF StoreAgent
<1>6. dir /\ file = s /\ (Jailed => jail) /\ vms = Started(s)
  BY <1>0, <1>1 DEF Local, OnDisk, InMemory
<1>7. Local(s)'
  BY <1>0, <1>1, <1>4 DEF Local, Forked, OnDisk, InMemory, MayRun, Started
<1>8. CASE step'[s] = "get" /\ row' = row
  <2>1. Ready(s)'
    BY <1>7, <1>8, Owner DEF Ready, StartSteps, Starting, UnderWay
  <2> QED
    BY <1>2, <1>3, <1>8, <2>1, ReadyKeeps DEF StartStep
<1>9. CASE step'[s] = "ok" /\ row' = s
  <2>1. \A t \in Starts : t # s => ~ UnderWay(t)'
    BY <1>3, <1>5 DEF UnderWay
  <2>2. Turns'
    <3>1. \A t, u \in Starts : UnderWay(t)' /\ UnderWay(u)' => t = u
      BY <2>1
    <3>2. \A t \in Starts : step'[t] \notin Starting
      BY <1>9, <2>1 DEF UnderWay, Starting
    <3> QED
      BY <1>3, <1>5, <1>9, <3>1, <3>2 DEF Turns
  <2>3. KeepSteps'
    <3>1. \A t \in Starts : step'[t] \in StartSteps
      BY <1>0, <1>5, <1>9 DEF KeepSteps, StartSteps
    <3> QED
      BY <1>0, <1>5, <3>1, Kinds DEF KeepSteps
  <2>4. \A t \in Starts : Local(t)'
    BY <1>0, <1>1, <1>3, <1>5, <1>7, OthersLocal
  <2>5. Owned'
    BY <1>9, Owner DEF UnderWay
  <2>6. Known(s)' /\ Dead(s)'
    <3>1. vms # NoVM
      BY <1>6, VMFacts
    <3> QED
      BY <1>0, <1>1, <1>3, <1>5, <1>6, <3>1 DEF Known, Dead, IsOf, Started
  <2>7. \A t \in Starts : step'[t] = "ok" => t = s
    BY <2>1 DEF UnderWay
  <2>8. Kept'
    BY <1>1, <1>3, <1>5, <1>6, <1>9, Kinds DEF Kept, Started, Jailed
  <2> QED
    BY <2>2, <2>3, <2>4, <2>5, <2>6, <2>7, <2>8 DEF DriverInv
<1> QED
  BY <1>4, <1>8, <1>9

(* Every step of Start, and of the Stop and Cleanup of a Start whose agent  *)
(* could not be stored, keeps the invariant.                                *)
LEMMA StartKeeps ==
    ASSUME DriverInv, DriverTypeOK', NEW s \in Starts, StartStep(s) \/ CallStep(s)
    PROVE  DriverInv'
<1>1. CASE Begin(s)
  BY <1>1, BeginKeeps
<1>2. CASE StoreAgent(s)
  BY <1>2, StoreAgentKeeps
<1>3. CASE CallStep(s)
  <2>1. Ready(s)' /\ step'[s] # "ok" /\ row' = row /\ UnderWay(s)
    BY <1>3, TakeBackReady
  <2>2. step[s] # "ok"
    BY <1>3
    DEF CallStep, GetVM, LoadPersisted, ProcessAlive, Insert, Probe, StopVM, TakeVM, LoadForCleanup,
        Kill, CleanupDirs
  <2>3. row = NoStart
    BY <2>1, <2>2, Alone DEF DriverInv
  <2> QED
    BY <1>3, <2>1, <2>2, <2>3, ReadyKeeps
<1>4. CASE \/ MkDir(s) \/ PrepareJail(s) \/ Launch(s) \/ WaitForSocket(s) \/ WaitForPIDFile(s)
           \/ Configure(s) \/ Persist(s) \/ Register(s) \/ UndoProcess(s) \/ UndoDirs(s)
  <2>1. Ready(s)' /\ step'[s] # "ok" /\ row' = row
    BY <1>4, MkDirReady, PrepareJailReady, LaunchReady, WaitForSocketReady, WaitForPIDFileReady,
       ConfigureReady, PersistReady, RegisterReady, UndoProcessReady, UndoDirsReady
  <2>2. UnderWay(s) /\ step[s] # "ok"
    BY <1>4
    DEF UnderWay, MkDir, PrepareJail, Launch, WaitForSocket, WaitForPIDFile, Configure, Persist,
        Register, UndoProcess, UndoDirs
  <2>3. row = NoStart
    BY <2>2, Alone DEF DriverInv
  <2> QED
    BY <1>4, <2>1, <2>2, <2>3, ReadyKeeps DEF StartStep
<1> QED
  BY <1>1, <1>2, <1>3, <1>4 DEF StartStep

-----------------------------------------------------------------------------
(* The Firecracker driver: Stop, IsHealthy and Cleanup *)

(* What a step of a call on the VM of s has to show.                        *)
Serves(c, s) ==
    /\ (c \in Removes => step[c] \in RemoveSteps) /\ (c \in Checks => step[c] \in CheckSteps)
    /\ Known(s)
    /\ Reached => Dead(s)

(* A call that was asked for works on the VM of one Start, which succeeded. *)
LEMMA TheOne ==
    ASSUME DriverInv, NEW c \in Asked, step[c] # "idle"
    PROVE  \E s \in Starts :
               /\ step[s] = "ok" /\ Known(s) /\ (Reached => Dead(s))
               /\ \A t \in Starts : t # s => ~ UnderWay(t)
               /\ row \in {s, NoStart}
<1>1. PICK s \in Starts : step[s] = "ok"
  BY DEF DriverInv, Turns
<1>2. \A t \in Starts : UnderWay(t) => t = s
  BY <1>1 DEF DriverInv, Turns, UnderWay
<1>3. row \in {s, NoStart}
  BY <1>2 DEF DriverInv, DriverTypeOK, Turns, UnderWay
<1> QED
  BY <1>1, <1>2, <1>3 DEF DriverInv

(* The lookup in the map.                                                   *)
LEMMA GetVMServes ==
    ASSUME DriverInv, NEW c \in Asked, GetVM(c), NEW s \in Starts, Known(s), Reached => Dead(s)
    PROVE  Serves(c, s)'
<1>0. DriverTypeOK /\ KeepSteps /\ c \in Calls /\ c \notin Starts /\ Asked \subseteq Calls
      /\ (c \in Checks => c \notin Removes)
  BY Kinds DEF DriverInv
<1>1. /\ \A e \in Asked : e # c => step'[e] = step[e] /\ held'[e] = held[e]
      /\ alive' \subseteq alive /\ (dir' => dir) /\ UNCHANGED <<mode, restarts>>
  BY <1>0, CallFrame DEF CallStep
<1>2. step[c] = "get" /\ step'[c] \in {"stop", "probe", "load"}
  BY <1>0, MovedTo DEF GetVM, Found
<1>3. (c \in Removes => step'[c] \in RemoveSteps) /\ (c \in Checks => step'[c] \in CheckSteps)
  BY <1>0, MovedTo DEF GetVM, Found, KeepSteps, RemoveSteps, CheckSteps
<1>4. Known(s)'
  BY SMTT(30), <1>0, <1>1, MovedTo, HeldNow
  DEF GetVM, Found, Known, IsOf, Loaded, disk
<1>5. Reached => Dead(s)'
  BY SMTT(30), <1>0, <1>1, MovedTo
  DEF GetVM, Found, Known, Dead, Reached, disk, procs
<1> QED
  BY <1>1, <1>3, <1>4, <1>5 DEF Serves, Reached

(* The lookup in the files.                                                 *)
LEMMA LoadPersistedServes ==
    ASSUME DriverInv, NEW c \in Asked, LoadPersisted(c), NEW s \in Starts, Known(s), Reached => Dead(s)
    PROVE  Serves(c, s)'
<1>0. DriverTypeOK /\ KeepSteps /\ c \in Calls /\ c \notin Starts /\ Asked \subseteq Calls
      /\ (c \in Checks => c \notin Removes)
  BY Kinds DEF DriverInv
<1>1. /\ \A e \in Asked : e # c => step'[e] = step[e] /\ held'[e] = held[e]
      /\ alive' \subseteq alive /\ (dir' => dir) /\ UNCHANGED <<mode, restarts>>
  BY <1>0, CallFrame DEF CallStep
<1>2. step[c] = "load" /\ step'[c] \in {"alive", "missing", "take"}
  BY <1>0, MovedTo DEF LoadPersisted, NotFound
<1>3. (c \in Removes => step'[c] \in RemoveSteps) /\ (c \in Checks => step'[c] \in CheckSteps)
  BY <1>0, MovedTo DEF LoadPersisted, NotFound, KeepSteps, RemoveSteps, CheckSteps
<1>4. Known(s)'
  BY SMTT(30), <1>0, <1>1, MovedTo, HeldNow
  DEF LoadPersisted, NotFound, Known, IsOf, Loaded, disk
<1>5. Reached => Dead(s)'
  BY <1>0, <1>1, MovedTo
  DEF LoadPersisted, NotFound, Known, Dead, Reached, disk, procs
<1> QED
  BY <1>1, <1>3, <1>4, <1>5 DEF Serves, Reached

(* The signal 0 to the process of the PID file.                             *)
LEMMA ProcessAliveServes ==
    ASSUME DriverInv, NEW c \in Asked, ProcessAlive(c), NEW s \in Starts, Known(s), Reached => Dead(s)
    PROVE  Serves(c, s)'
<1>0. DriverTypeOK /\ KeepSteps /\ c \in Calls /\ c \notin Starts /\ Asked \subseteq Calls
      /\ (c \in Checks => c \notin Removes)
  BY Kinds DEF DriverInv
<1>1. /\ \A e \in Asked : e # c => step'[e] = step[e] /\ held'[e] = held[e]
      /\ alive' \subseteq alive /\ (dir' => dir) /\ UNCHANGED <<mode, restarts>>
  BY <1>0, CallFrame DEF CallStep
<1>2. step[c] = "alive" /\ step'[c] \in {"insert", "missing", "take"}
  BY <1>0, MovedTo DEF ProcessAlive, NotFound
<1>3. (c \in Removes => step'[c] \in RemoveSteps) /\ (c \in Checks => step'[c] \in CheckSteps)
  BY <1>0, MovedTo DEF ProcessAlive, NotFound, KeepSteps, RemoveSteps, CheckSteps
<1>4. Known(s)'
  BY <1>0, <1>1, MovedTo, HeldNow
  DEF ProcessAlive, NotFound, Known, IsOf, Loaded, disk
<1>5. Reached => Dead(s)'
  BY SMTT(30), <1>0, <1>1, MovedTo
  DEF ProcessAlive, NotFound, Known, Dead, Reached, Loaded, disk, procs
<1> QED
  BY <1>1, <1>3, <1>4, <1>5 DEF Serves, Reached

(* A loaded VM goes back into the map.                                      *)
LEMMA InsertServes ==
    ASSUME DriverInv, NEW c \in Asked, Insert(c), NEW s \in Starts, Known(s), Reached => Dead(s)
    PROVE  Serves(c, s)'
<1>0. DriverTypeOK /\ KeepSteps /\ c \in Calls /\ c \notin Starts /\ Asked \subseteq Calls
      /\ (c \in Checks => c \notin Removes)
  BY Kinds DEF DriverInv
<1>1. /\ \A e \in Asked : e # c => step'[e] = step[e] /\ held'[e] = held[e]
      /\ alive' \subseteq alive /\ (dir' => dir) /\ UNCHANGED <<mode, restarts>>
  BY <1>0, CallFrame DEF CallStep
<1>2. step[c] = "insert" /\ step'[c] \in {"stop", "probe"}
  BY <1>0, MovedTo DEF Insert, Found
<1>3. (c \in Removes => step'[c] \in RemoveSteps) /\ (c \in Checks => step'[c] \in CheckSteps)
  BY <1>0, MovedTo DEF Insert, Found, KeepSteps, RemoveSteps, CheckSteps
<1>4. Known(s)'
  BY SMTT(30), <1>0, <1>1, MovedTo, HeldNow
  DEF Insert, Found, Known, IsOf, Loaded, disk
<1>5. Reached => Dead(s)'
  BY <1>0, <1>1, MovedTo
  DEF Insert, Found, Known, Dead, Reached, disk, procs
<1> QED
  BY <1>1, <1>3, <1>4, <1>5 DEF Serves, Reached

(* The probe of the health check.                                           *)
LEMMA ProbeServes ==
    ASSUME DriverInv, NEW c \in Asked, Probe(c), NEW s \in Starts, Known(s), Reached => Dead(s)
    PROVE  Serves(c, s)'
<1>0. DriverTypeOK /\ KeepSteps /\ c \in Calls /\ c \notin Starts /\ Asked \subseteq Calls
      /\ (c \in Checks => c \notin Removes)
  BY Kinds DEF DriverInv
<1>1. /\ \A e \in Asked : e # c => step'[e] = step[e] /\ held'[e] = held[e]
      /\ alive' \subseteq alive /\ (dir' => dir) /\ UNCHANGED <<mode, restarts>>
  BY <1>0, CallFrame DEF CallStep
<1>2. step[c] = "probe" /\ step'[c] \in {"healthy", "sick"}
  BY <1>0, MovedTo DEF Probe
<1>3. (c \in Removes => step'[c] \in RemoveSteps) /\ (c \in Checks => step'[c] \in CheckSteps)
  BY <1>0, MovedTo DEF Probe, KeepSteps, RemoveSteps, CheckSteps
<1>4. Known(s)'
  BY SMTT(30), <1>0, <1>1, MovedTo, HeldNow
  DEF Probe, Known, IsOf, Loaded, disk
<1>5. Reached => Dead(s)'
  BY SMTT(30), <1>0, <1>1, MovedTo
  DEF Probe, Known, Dead, Reached, disk, procs
<1> QED
  BY <1>1, <1>3, <1>4, <1>5 DEF Serves, Reached

(* stopProcess.                                                             *)
LEMMA StopVMServes ==
    ASSUME DriverInv, NEW c \in Asked, StopVM(c), NEW s \in Starts, Known(s), Reached => Dead(s)
    PROVE  Serves(c, s)'
<1>0. DriverTypeOK /\ KeepSteps /\ c \in Calls /\ c \notin Starts /\ Asked \subseteq Calls
      /\ (c \in Checks => c \notin Removes)
  BY Kinds DEF DriverInv
<1>1. /\ \A e \in Asked : e # c => step'[e] = step[e] /\ held'[e] = held[e]
      /\ alive' \subseteq alive /\ (dir' => dir) /\ UNCHANGED <<mode, restarts>>
  BY <1>0, CallFrame DEF CallStep
<1>2. step[c] = "stop" /\ step'[c] \in {"take"}
  BY <1>0, MovedTo DEF StopVM
<1>3. (c \in Removes => step'[c] \in RemoveSteps) /\ (c \in Checks => step'[c] \in CheckSteps)
  BY <1>0, MovedTo DEF StopVM, KeepSteps, RemoveSteps, CheckSteps
<1>4. Known(s)'
  BY SMTT(30), <1>0, <1>1, MovedTo, HeldNow
  DEF StopVM, Known, IsOf, Loaded, disk
<1>5. Reached => Dead(s)'
  BY SMTT(30), <1>0, <1>1, MovedTo
  DEF StopVM, Stopped, IsOf, Started, Loaded, Known, Dead, Reached, disk, procs
<1> QED
  BY <1>1, <1>3, <1>4, <1>5 DEF Serves, Reached

(* Cleanup takes the entry out of the map.                                  *)
LEMMA TakeVMServes ==
    ASSUME DriverInv, NEW c \in Asked, TakeVM(c), NEW s \in Starts, Known(s), Reached => Dead(s)
    PROVE  Serves(c, s)'
<1>0. DriverTypeOK /\ KeepSteps /\ c \in Calls /\ c \notin Starts /\ Asked \subseteq Calls
      /\ (c \in Checks => c \notin Removes)
  BY Kinds DEF DriverInv
<1>1. /\ \A e \in Asked : e # c => step'[e] = step[e] /\ held'[e] = held[e]
      /\ alive' \subseteq alive /\ (dir' => dir) /\ UNCHANGED <<mode, restarts>>
  BY <1>0, CallFrame DEF CallStep
<1>2. step[c] = "take" /\ step'[c] \in {"kill", "find"}
  BY <1>0, MovedTo DEF TakeVM
<1>3. (c \in Removes => step'[c] \in RemoveSteps) /\ (c \in Checks => step'[c] \in CheckSteps)
  BY <1>0, MovedTo DEF TakeVM, KeepSteps, RemoveSteps, CheckSteps
<1>4. Known(s)'
  BY SMTT(30), <1>0, <1>1, MovedTo, HeldNow
  DEF TakeVM, Known, IsOf, Loaded, disk
<1>5. Reached => Dead(s)'
  BY <1>0, <1>1, MovedTo
  DEF TakeVM, Known, Dead, Reached, disk, procs
<1> QED
  BY <1>1, <1>3, <1>4, <1>5 DEF Serves, Reached

(* The lookup of Cleanup in the files.                                      *)
LEMMA LoadForCleanupServes ==
    ASSUME DriverInv, NEW c \in Asked, LoadForCleanup(c), NEW s \in Starts, Known(s), Reached => Dead(s)
    PROVE  Serves(c, s)'
<1>0. DriverTypeOK /\ KeepSteps /\ c \in Calls /\ c \notin Starts /\ Asked \subseteq Calls
      /\ (c \in Checks => c \notin Removes)
  BY Kinds DEF DriverInv
<1>1. /\ \A e \in Asked : e # c => step'[e] = step[e] /\ held'[e] = held[e]
      /\ alive' \subseteq alive /\ (dir' => dir) /\ UNCHANGED <<mode, restarts>>
  BY <1>0, CallFrame DEF CallStep
<1>2. step[c] = "find" /\ step'[c] \in {"kill", "done"}
  BY <1>0, MovedTo DEF LoadForCleanup, Finish
<1>3. (c \in Removes => step'[c] \in RemoveSteps) /\ (c \in Checks => step'[c] \in CheckSteps)
  BY <1>0, MovedTo DEF LoadForCleanup, Finish, KeepSteps, RemoveSteps, CheckSteps
<1>4. Known(s)'
  BY SMTT(30), <1>0, <1>1, MovedTo, HeldNow
  DEF LoadForCleanup, Finish, Known, IsOf, Loaded, disk
<1>5. Reached => Dead(s)'
  BY <1>0, <1>1, MovedTo
  DEF LoadForCleanup, Finish, Known, Dead, Reached, disk, procs
<1> QED
  BY <1>1, <1>3, <1>4, <1>5 DEF Serves, Reached

(* Cleanup ends what Stop left.                                             *)
LEMMA KillServes ==
    ASSUME DriverInv, NEW c \in Asked, Kill(c), NEW s \in Starts, Known(s), Reached => Dead(s)
    PROVE  Serves(c, s)'
<1>0. DriverTypeOK /\ KeepSteps /\ c \in Calls /\ c \notin Starts /\ Asked \subseteq Calls
      /\ (c \in Checks => c \notin Removes)
  BY Kinds DEF DriverInv
<1>1. /\ \A e \in Asked : e # c => step'[e] = step[e] /\ held'[e] = held[e]
      /\ alive' \subseteq alive /\ (dir' => dir) /\ UNCHANGED <<mode, restarts>>
  BY <1>0, CallFrame DEF CallStep
<1>2. step[c] = "kill" /\ step'[c] \in {"rmdir"}
  BY <1>0, MovedTo DEF Kill
<1>3. (c \in Removes => step'[c] \in RemoveSteps) /\ (c \in Checks => step'[c] \in CheckSteps)
  BY <1>0, MovedTo DEF Kill, KeepSteps, RemoveSteps, CheckSteps
<1>4. Known(s)'
  BY SMTT(30), <1>0, <1>1, MovedTo, HeldNow
  DEF Kill, Known, IsOf, Loaded, disk
<1>5. Reached => Dead(s)'
  BY <1>0, <1>1, MovedTo
  DEF Kill, Known, Dead, Reached, disk, procs
<1> QED
  BY <1>1, <1>3, <1>4, <1>5 DEF Serves, Reached

(* Cleanup removes the directories.                                         *)
LEMMA CleanupDirsServes ==
    ASSUME DriverInv, NEW c \in Asked, CleanupDirs(c), NEW s \in Starts, Known(s), Reached => Dead(s)
    PROVE  Serves(c, s)'
<1>0. DriverTypeOK /\ KeepSteps /\ c \in Calls /\ c \notin Starts /\ Asked \subseteq Calls
      /\ (c \in Checks => c \notin Removes)
  BY Kinds DEF DriverInv
<1>1. /\ \A e \in Asked : e # c => step'[e] = step[e] /\ held'[e] = held[e]
      /\ alive' \subseteq alive /\ (dir' => dir) /\ UNCHANGED <<mode, restarts>>
  BY <1>0, CallFrame DEF CallStep
<1>2. step[c] \in {"rmdir", "rmjail"} /\ step'[c] \in {"rmjail", "done", "error"}
  BY <1>0, MovedTo DEF CleanupDirs, Finish
<1>3. (c \in Removes => step'[c] \in RemoveSteps) /\ (c \in Checks => step'[c] \in CheckSteps)
  BY <1>0, MovedTo DEF CleanupDirs, Finish, KeepSteps, RemoveSteps, CheckSteps
<1>4. Known(s)'
  BY SMTT(30), <1>0, <1>1, MovedTo, HeldNow
  DEF CleanupDirs, Finish, RemoveStateDir, RemoveJailDir, RemoveFails, Known, IsOf, Loaded, disk
<1>5. Reached => Dead(s)'
  BY <1>0, <1>1, MovedTo
  DEF CleanupDirs, Finish, RemoveStateDir, RemoveJailDir, RemoveFails, Known, Dead, Reached, disk, procs
<1> QED
  BY <1>1, <1>3, <1>4, <1>5 DEF Serves, Reached

(* A check changes neither the table nor the files.                         *)
LEMMA CheckKept ==
    ASSUME DriverInv, NEW c \in Checks, CallStep(c), NEW s \in Starts, step[s] = "ok", Known(s),
           row \in {s, NoStart}
    PROVE  Kept' /\ row' = row
<1>0. DriverTypeOK /\ KeepSteps /\ Kept /\ c \in Calls /\ Checks \subseteq Calls /\ Removes \subseteq Calls
      /\ c \in Asked /\ c \notin Removes /\ step[c] \in CheckSteps /\ s # NoStart
  BY Kinds, DriverConstants DEF DriverInv, KeepSteps
<1>1. /\ \A d \in Calls : d # c => step'[d] = step[d]
      /\ UNCHANGED <<mode, restarts>>
  BY <1>0, CallFrame
<1>2. Untouched' => Untouched
  BY <1>0, <1>1 DEF Untouched
<1>3. UNCHANGED <<row, dir, file, jail, alive>>
  BY <1>0
  DEF CallStep, GetVM, LoadPersisted, ProcessAlive, Insert, Probe, StopVM, TakeVM, LoadForCleanup, Kill,
      CleanupDirs, CheckSteps, disk, procs
<1>4. SUFFICES ASSUME row # NoStart, Untouched PROVE Kept'
  BY <1>2, <1>3 DEF Kept
<1>5. /\ row = s /\ dir /\ file = row /\ (Jailed => jail)
      /\ restarts = 0 =>
            vms = Started(row) /\ \A e \in Checks : step[e] \notin {"load", "alive", "insert", "missing"}
      /\ Reached => \A e \in Checks : step[e] = "missing" => row \notin alive
  BY <1>0, <1>4 DEF Kept
<1>6. SUFFICES /\ restarts = 0 => vms' = vms /\ step'[c] \notin {"load", "alive", "insert", "missing"}
               /\ Reached /\ step'[c] = "missing" => row \notin alive
  BY <1>0, <1>1, <1>3, <1>5 DEF Kept, Reached, Jailed, Started
<1>7. CASE GetVM(c)
  BY SMTT(30), <1>0, <1>5, <1>7, MovedTo, VMFacts DEF GetVM, Found
<1>8. CASE LoadPersisted(c)
  BY SMTT(30), <1>0, <1>5, <1>8, MovedTo DEF LoadPersisted, NotFound, Reached
<1>9. CASE ProcessAlive(c)
  <2>1. step[c] = "alive" /\ restarts # 0 /\ held[c] = Loaded(s)
    BY <1>0, <1>5, <1>9 DEF ProcessAlive, Known
  <2> QED
    BY SMTT(30), <1>0, <1>5, <1>9, <2>1, MovedTo DEF ProcessAlive, NotFound, Loaded
<1>10. CASE Insert(c)
  BY SMTT(30), <1>0, <1>5, <1>10, MovedTo DEF Insert, Found
<1>11. CASE Probe(c)
  BY SMTT(30), <1>0, <1>5, <1>11, MovedTo DEF Probe
<1>12. CASE StopVM(c) \/ TakeVM(c) \/ LoadForCleanup(c) \/ Kill(c) \/ CleanupDirs(c)
  BY <1>0, <1>12 DEF StopVM, TakeVM, LoadForCleanup, Kill, CleanupDirs, CheckSteps
<1> QED
  BY <1>7, <1>8, <1>9, <1>10, <1>11, <1>12 DEF CallStep

(* A removal gives the row up, or leaves it.                                *)
LEMMA RemovalRow ==
    ASSUME DriverTypeOK, NEW c \in Removes, CallStep(c)
    PROVE  row' \in {row, NoStart}
  BY DEF CallStep, GetVM, LoadPersisted, ProcessAlive, Insert, Probe, StopVM, TakeVM, LoadForCleanup,
         Kill,
         CleanupDirs, Finish

(* Neither does any call touch the state of a Start.                        *)
LEMMA CallKeeps ==
    ASSUME DriverInv, DriverTypeOK', NEW c \in Asked, CallStep(c)
    PROVE  DriverInv'
<1>0. DriverTypeOK /\ KeepSteps /\ Turns /\ Owned /\ Kept /\ (\A t \in Starts : Local(t)) /\ c \in Calls
      /\ (c \in Checks => c \notin Removes)
  BY Kinds DEF DriverInv
<1>1. /\ step'[c] # "idle"
      /\ \A d \in Calls : d # c => step'[d] = step[d] /\ held'[d] = held[d]
      /\ alive' \subseteq alive /\ (dir' => dir) /\ (stuck => stuck')
      /\ UNCHANGED <<mode, starting, jailers, pids, restarts>>
  BY <1>0, CallFrame
<1>2. step[c] # "idle"
  BY DEF CallStep, GetVM, LoadPersisted, ProcessAlive, Insert, Probe, StopVM, TakeVM, LoadForCleanup,
         Kill, CleanupDirs
<1>3. PICK s \in Starts :
          /\ step[s] = "ok" /\ Known(s) /\ (Reached => Dead(s))
          /\ \A t \in Starts : t # s => ~ UnderWay(t)
          /\ row \in {s, NoStart}
  BY <1>2, TheOne
<1>4. Serves(c, s)'
  BY <1>3, GetVMServes, LoadPersistedServes, ProcessAliveServes, InsertServes, ProbeServes, StopVMServes,
     TakeVMServes, LoadForCleanupServes, KillServes, CleanupDirsServes DEF CallStep
<1>5. \A t \in Starts : step'[t] = step[t] /\ held'[t] = held[t]
  BY <1>1, Kinds
<1>6. Kept' /\ row' \in {row, NoStart}
  <2>1. CASE c \in Checks
    BY <1>3, <2>1, CheckKept
  <2>2. CASE c \in Removes
    BY <1>0, <1>1, <2>2, RemovalRow DEF Kept, Untouched
  <2> QED
    BY <2>1, <2>2, Kinds
<1>7. KeepSteps'
  <2>1. \A t \in Starts : step'[t] \in StartSteps
    BY <1>0, <1>5 DEF KeepSteps
  <2>2. \A e \in Asked : e # c => step'[e] = step[e]
    BY <1>1, Kinds
  <2>3. (c \in Removes => step'[c] \in RemoveSteps) /\ (c \in Checks => step'[c] \in CheckSteps)
    BY <1>4 DEF Serves
  <2> QED
    BY <1>0, <2>1, <2>2, <2>3, Kinds DEF KeepSteps
<1>8. Turns'
  BY <1>0, <1>1, <1>3, <1>5, <1>6 DEF Turns, UnderWay
<1>9. \A t \in Starts : Local(t)'
  <2>1. Local(s)'
    <3>1. step'[s] = "ok"
      BY <1>3, <1>5
    <3> QED
      BY <1>0, <1>1, <1>3, <3>1 DEF Local, Forked, OnDisk, InMemory, MayRun
  <2>2. ASSUME NEW t \in Starts, t # s PROVE Local(t)'
    BY <1>0, <1>1, <1>3, <1>5, <2>2, OthersLocal
  <2> QED
    BY <2>1, <2>2
<1>10. Owned'
  BY <1>3, <1>5, Owner DEF UnderWay
<1>11. \A t \in Starts : step'[t] = "ok" => Known(t)' /\ (Reached' => Dead(t)')
  <2>1. \A t \in Starts : step'[t] = "ok" => t = s
    BY <1>3, <1>5 DEF UnderWay
  <2> QED
    BY <1>4, <2>1 DEF Serves
<1> QED
  BY <1>6, <1>7, <1>8, <1>9, <1>10, <1>11 DEF DriverInv

(* A call begins only on a VM that is in the table.                         *)
LEMMA AskKeeps ==
    ASSUME DriverInv, DriverTypeOK', NEW c \in Asked, Ask(c)
    PROVE  DriverInv'
<1>0. DriverTypeOK /\ KeepSteps /\ Turns /\ Owned /\ Kept /\ (\A t \in Starts : Local(t)) /\ c \in Calls
      /\ (c \in Checks => c \notin Removes)
  BY Kinds DEF DriverInv
<1>1. /\ row # NoStart /\ step[c] = "idle"
      /\ UNCHANGED <<mode, vms, starting, dir, file, jail, stuck, jailers, alive, pids, held, row, restarts>>
  BY DEF Ask, disk, procs
<1>2. step'[c] = "get" /\ \A d \in Calls : d # c => step'[d] = step[d]
  BY <1>0, MovedTo DEF Ask
<1>3. /\ \A t \in Starts : step'[t] = step[t]
      /\ \A e \in Asked : e # c => step'[e] = step[e]
  BY <1>2, Kinds
<1>4. KeepSteps'
  BY <1>0, <1>2, <1>3, Kinds DEF KeepSteps, RemoveSteps, CheckSteps
<1>5. Turns'
  <2>1. row \in Starts /\ step'[row] = "ok"
    BY <1>0, <1>1, <1>3 DEF Turns, DriverTypeOK
  <2> QED
    BY <1>0, <1>1, <1>3, <2>1 DEF Turns, UnderWay
<1>6. \A t \in Starts : Local(t)'
  BY <1>0, <1>1, <1>3 DEF Local, Forked, OnDisk, InMemory, MayRun, Jailed
<1>7. Owned'
  BY <1>0, <1>1, <1>3 DEF Owned, UnderWay
<1>8. ASSUME NEW t \in Starts, step'[t] = "ok" PROVE Known(t)' /\ (Reached' => Dead(t)')
  <2>1. Known(t) /\ (Reached => Dead(t))
    BY <1>3, <1>8 DEF DriverInv
  <2>2. Known(t)'
    BY <1>1, <1>2, <1>3, <2>1 DEF Known, IsOf
  <2>3. Reached' => Dead(t)'
    BY <1>1, <1>2, <1>3, <2>1 DEF Dead, Reached
  <2> QED
    BY <2>2, <2>3
<1>9. Kept'
  <2>1. CASE c \in Removes
    BY <1>2, <2>1 DEF Kept, Untouched
  <2>2. CASE c \in Checks
    <3>1. Untouched' => Untouched
      BY <1>0, <1>3, <2>2, Kinds DEF Untouched
    <3> QED
      BY <1>0, <1>1, <1>2, <1>3, <3>1, Kinds DEF Kept, Reached, Jailed
  <2> QED
    BY <2>1, <2>2, Kinds
<1> QED
  BY <1>4, <1>5, <1>6, <1>7, <1>8, <1>9 DEF DriverInv
-----------------------------------------------------------------------------
(* The Firecracker driver: the processes and restarts *)

(* Processes come and go under no Start that has its VM in the table, but   *)
(* for its end.                                                             *)
LEMMA ProcessKeeps ==
    ASSUME DriverInv, DriverTypeOK', NEW s \in Starts, Daemonize(s) \/ Exit(s)
    PROVE  DriverInv'
<1>0. DriverTypeOK /\ KeepSteps /\ Turns /\ Owned /\ Kept /\ (\A t \in Starts : Local(t))
  BY DEF DriverInv
<1>1. /\ UNCHANGED <<mode, vms, starting, dir, file, jail, stuck, pids, step, held, row, restarts>>
      /\ jailers' \subseteq jailers
  BY DEF Daemonize, Exit, disk
<1>2. \A t \in Starts : t \in alive' => t \in alive \/ (t \in jailers /\ t \notin jailers')
  BY DEF Daemonize, Exit
<1>3. \A t \in Starts : t \in jailers => step[t] \in {"socket", "undo", "lost"} /\ mode = "daemonized"
  BY <1>0 DEF Local, Forked
<1>4. \A t \in Starts : Local(t)'
  <2> SUFFICES ASSUME NEW t \in Starts PROVE Local(t)'
    OBVIOUS
  <2>1. Local(t)
    BY <1>0
  <2>2. Forked(t)'
    BY <1>1, <1>2, <1>3, <2>1 DEF Local, Forked
  <2>3. OnDisk(t)' /\ InMemory(t)'
    BY <1>1, <2>1 DEF Local, OnDisk, InMemory, Jailed
  <2>4. MayRun(t)'
    BY <1>1, <1>2, <1>3, <2>1 DEF Local, MayRun
  <2> QED
    BY <2>2, <2>3, <2>4 DEF Local
<1>5. KeepSteps' /\ Turns' /\ Owned'
  BY <1>0, <1>1 DEF KeepSteps, Turns, UnderWay, Owned
<1>6. \A t \in Starts : step[t] = "ok" => (t \in alive' => t \in alive)
  BY <1>2, <1>3
<1>7. ASSUME NEW t \in Starts, step'[t] = "ok" PROVE Known(t)' /\ (Reached' => Dead(t)')
  <2>1. Known(t) /\ (Reached => Dead(t)) /\ step[t] = "ok"
    BY <1>1, <1>7 DEF DriverInv
  <2>2. Known(t)'
    BY <1>1, <2>1 DEF Known, IsOf
  <2>3. Reached' => Dead(t)'
    BY <1>1, <1>6, <2>1 DEF Dead, Reached
  <2> QED
    BY <2>2, <2>3
<1>8. Kept'
  <2>1. row # NoStart => (row \in alive' => row \in alive)
    BY <1>0, <1>6 DEF Turns, DriverTypeOK
  <2> QED
    BY <1>0, <1>1, <2>1 DEF Kept, Untouched, Reached, Jailed
<1> QED
  BY <1>4, <1>5, <1>7, <1>8 DEF DriverInv

(* A restart loses the calls and the map, and the processes that are its    *)
(* children; all that is left is what the files say.                        *)
LEMMA RestartKeeps ==
    ASSUME DriverInv, DriverTypeOK', RestartControlPlane
    PROVE  DriverInv'
<1>0. DriverTypeOK /\ KeepSteps /\ Turns /\ Kept /\ (\A t \in Starts : Local(t))
  BY DEF DriverInv
<1>1. /\ UNCHANGED <<mode, dir, file, jail, stuck, jailers, alive, pids, held, row>>
      /\ vms' = NoVM /\ starting' = FALSE
  BY DEF RestartControlPlane, disk, procs
<1>2. restarts' # 0
  <2>1. restarts \in Nat
    BY SMTT(30), <1>0, DriverConstants DEF DriverTypeOK
  <2> QED
    BY SMTT(30), <2>1 DEF RestartControlPlane
<1>3. \A d \in Calls : \/ step'[d] = step[d] /\ step[d] \in Ended
                       \/ step'[d] = "lost" /\ step[d] \notin Ended
  BY DEF RestartControlPlane
<1>4. /\ \A t \in Starts : \/ step'[t] = step[t] /\ step[t] \in Ended
                           \/ step'[t] = "lost" /\ step[t] \notin Ended
      /\ \A c \in Asked : \/ step'[c] = step[c] /\ step[c] \in Ended
                          \/ step'[c] = "lost" /\ step[c] \notin Ended
  BY <1>3, Kinds
<1>5. KeepSteps'
  BY <1>0, <1>4, Kinds DEF KeepSteps, StartSteps, RemoveSteps, CheckSteps
<1>6. \A t \in Starts : (UnderWay(t)' => UnderWay(t)) /\ (step[t] = "ok" <=> step'[t] = "ok")
  BY <1>4 DEF UnderWay, Ended
<1>7. Turns'
  <2>1. \A t \in Starts : step'[t] \notin Starting
    BY <1>4 DEF Ended, Starting
  <2>2. row' # NoStart => step'[row'] = "ok"
    BY <1>0, <1>1, <1>6 DEF Turns, DriverTypeOK
  <2>3. \A c \in Asked : step'[c] # "idle" => step[c] # "idle"
    BY <1>4 DEF Ended
  <2> QED
    BY <1>0, <1>6, <2>1, <2>2, <2>3 DEF Turns
<1>8. \A t \in Starts : Local(t)'
  <2> SUFFICES ASSUME NEW t \in Starts PROVE Local(t)'
    OBVIOUS
  <2>1. Local(t)
    BY <1>0
  <2>2. Forked(t)'
    BY <1>1, <1>4, <2>1 DEF Local, Forked, Ended
  <2>3. OnDisk(t)' /\ InMemory(t)'
    BY <1>4 DEF OnDisk, InMemory, Ended
  <2>4. MayRun(t)'
    BY <1>2 DEF MayRun
  <2> QED
    BY <2>2, <2>3, <2>4 DEF Local
<1>9. Owned'
  BY <1>2 DEF Owned
<1>10. Reached' => Reached
  BY <1>1, <1>2 DEF Reached
<1>11. ASSUME NEW t \in Starts, step'[t] = "ok" PROVE Known(t)' /\ (Reached' => Dead(t)')
  <2>1. Known(t) /\ (Reached => Dead(t))
    BY <1>6, <1>11 DEF DriverInv
  <2>2. Known(t)'
    BY <1>1, <1>4, <2>1 DEF Known, Ended
  <2>3. Reached' => Dead(t)'
    BY <1>1, <1>2, <1>4, <1>10, <2>1 DEF Dead, Ended
  <2> QED
    BY <2>2, <2>3
<1>12. Kept'
  <2>1. Untouched' => Untouched
    BY <1>4, Kinds DEF Untouched, Ended
  <2>2. \A c \in Checks : step'[c] = "missing" => step[c] = "missing"
    BY <1>4, Kinds
  <2> QED
    BY <1>0, <1>1, <1>2, <1>10, <2>1, <2>2 DEF Kept, Jailed
<1> QED
  BY <1>5, <1>7, <1>8, <1>9, <1>11, <1>12 DEF DriverInv

(* A step that changes nothing keeps the invariant.                         *)
LEMMA StutterKeeps ==
    ASSUME DriverInv, UNCHANGED driverVars
    PROVE  DriverInv'
  BY SMTT(30) DEF DriverInv, driverVars, disk, procs, DriverTypeOK, KeepSteps, Turns, UnderWay, Local,
                  Forked, OnDisk,
         InMemory, MayRun, Owned, Known, IsOf, Reached, Dead, Kept, Untouched, Jailed

(* The invariant holds at first.                                            *)
LEMMA DriverInvInit == DriverInit => DriverInv
<1> SUFFICES ASSUME DriverInit PROVE DriverInv
  OBVIOUS
<1>1. \A d \in Calls : step[d] = "idle"
  BY DEF DriverInit
<1>2. (\A t \in Starts : step[t] = "idle") /\ \A c \in Asked : step[c] = "idle"
  BY <1>1, Kinds
<1>3. DriverTypeOK
  BY DriverTypedInit
<1>4. KeepSteps
  BY <1>2, Kinds DEF KeepSteps, StartSteps, RemoveSteps, CheckSteps
<1>5. Turns
  BY <1>2 DEF DriverInit, Turns, UnderWay, Starting
<1>6. \A t \in Starts : Local(t)
  BY <1>2 DEF DriverInit, Local, Forked, OnDisk, InMemory, MayRun
<1>7. Owned /\ Kept
  BY DEF DriverInit, Owned, Kept
<1> QED
  BY <1>2, <1>3, <1>4, <1>5, <1>6, <1>7 DEF DriverInv

(* Every step keeps it.                                                     *)
LEMMA DriverInvStep == DriverInv /\ [DriverNext]_driverVars => DriverInv'
<1> SUFFICES ASSUME DriverInv, [DriverNext]_driverVars PROVE DriverInv'
  OBVIOUS
<1>1. DriverTypeOK'
  BY DriverTyped DEF DriverInv
<1>2. ASSUME NEW s \in Starts, StartStep(s) \/ Daemonize(s) \/ Exit(s) PROVE DriverInv'
  BY <1>1, <1>2, StartKeeps, ProcessKeeps
<1>3. ASSUME NEW c \in Removes \cup Checks, Ask(c) PROVE DriverInv'
  BY <1>1, <1>3, AskKeeps DEF Asked
<1>4. ASSUME NEW c \in Calls, CallStep(c) PROVE DriverInv'
  BY <1>1, <1>4, StartKeeps, CallKeeps, Kinds
<1>5. CASE RestartControlPlane
  BY <1>1, <1>5, RestartKeeps
<1>6. CASE UNCHANGED driverVars
  BY <1>6, StutterKeeps
<1> QED
  BY <1>2, <1>3, <1>4, <1>5, <1>6 DEF DriverNext

(* The inductive invariant of the driver: one Start has the ID at a time,   *)
(* and files, memory and calls speak of its VM only.                        *)
THEOREM DriverInvariant == DriverSpec => []DriverInv
  BY DriverInvInit, DriverInvStep, PTL DEF DriverSpec

(* Whatever other Starts with the ID, checks and any number of restarts do, *)
(* an agent in the table whose removal nobody asked for has its state       *)
(* directory, its state file and its jail.                                  *)
THEOREM AgentKeepsItsVM == DriverSpec => []AgentHasItsVM
<1>1. DriverInv => AgentHasItsVM
  BY DEF DriverInv, Kept, AgentHasItsVM
<1> QED
  BY <1>1, DriverInvariant, PTL

(* IsHealthy never says of a running VM that it is not there, in the        *)
(* process that started it and, for a daemonized VM, after any number of    *)
(* restarts.                                                                *)
THEOREM RunningVMIsFound == DriverSpec => []LiveVMIsFound
<1>1. DriverInv => LiveVMIsFound
  <2> SUFFICES ASSUME DriverInv, NEW c \in Checks, step[c] = "missing", Untouched, Reached
               PROVE  row \notin alive
    BY DEF LiveVMIsFound, Reached
  <2>1. CASE row = NoStart
    BY <2>1, DriverConstants DEF DriverInv, DriverTypeOK
  <2>2. CASE row # NoStart
    BY <2>2 DEF DriverInv, Kept
  <2> QED
    BY <2>1, <2>2
<1> QED
  BY <1>1, DriverInvariant, PTL

(* A removal that returned without an error leaves neither the process nor  *)
(* its directory, however many removals and checks work on the VM at once.  *)
THEOREM RemovedVMIsGone == DriverSpec => []RemovedIsGone
<1>1. DriverInv => RemovedIsGone
  <2> SUFFICES ASSUME DriverInv, NEW c \in Removes, step[c] = "done", Reached
               PROVE  ~ dir /\ \A s \in Starts : step[s] = "ok" => s \notin alive
    BY DEF RemovedIsGone, Reached
  <2>1. c \in Asked
    BY Kinds
  <2>2. \A s \in Starts : step[s] = "ok" => Dead(s)
    BY DEF DriverInv
  <2>3. PICK s \in Starts : step[s] = "ok"
    BY <2>1 DEF DriverInv, Turns
  <2> QED
    BY <2>1, <2>2, <2>3 DEF Dead
<1> QED
  BY <1>1, DriverInvariant, PTL

(* Starts that failed, at whichever step, leave no process, and without a   *)
(* jailer no directory.                                                     *)
THEOREM FailedStartCleansUp == DriverSpec => []FailedStartLeavesNothing
<1>1. DriverInv => FailedStartLeavesNothing
  <2> SUFFICES ASSUME DriverInv, restarts = 0, mode # "daemonized",
                      \A s \in Starts : step[s] \in {"idle", "failed"}
               PROVE  alive = {} /\ (mode = "plain" /\ ~ stuck => ~ dir)
    BY DEF FailedStartLeavesNothing
  <2>1. alive = {}
    BY DEF DriverInv, Local, MayRun, DriverTypeOK
  <2>2. mode = "plain" /\ ~ stuck => ~ dir
    BY DEF DriverInv, Owned, UnderWay
  <2> QED
    BY <2>1, <2>2
<1> QED
  BY <1>1, DriverInvariant, PTL
=============================================================================
