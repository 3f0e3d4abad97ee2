-------------------------- MODULE FirecrackerDriver --------------------------
(***************************************************************************)
(* The Firecracker driver on one host, for one VM ID: the calls of the      *)
(* manager that start, check and remove the VM, what they leave on disk and *)
(* in memory, and the process itself, across restarts of the control plane. *)
(* VMs with other IDs share nothing with this one but a short lock.         *)
(*                                                                          *)
(* Start runs through its steps and undoes them when one fails.  Stop and   *)
(* IsHealthy look the VM up with getVM, which falls back to the file that   *)
(* Start left; Cleanup does so with loadVMForCleanup.  The manager removes  *)
(* a VM with Stop and then Cleanup, whatever Stop says.                     *)
(***************************************************************************)
EXTENDS Naturals

CONSTANTS
    Starts,       \* calls of Start: the ID holds a millisecond, so two can have one ID
    Removes,      \* removals: Destroy and replaceUnhealthy
    Checks,       \* calls of IsHealthy
    NoStart,      \* in place of a Start
    Modes,        \* how the driver is deployed: some of "plain", "jailed", "daemonized"
    MaxRestarts   \* bound: restarts of the control plane

ASSUME DriverConstants ==
    /\ NoStart \notin Starts
    /\ Starts \cap Removes = {}
    /\ Starts \cap Checks = {}
    /\ Removes \cap Checks = {}
    /\ Modes \subseteq {"plain", "jailed", "daemonized"}
    /\ MaxRestarts \in Nat

Calls == Starts \cup Removes \cup Checks

(* A firecrackerVM: the Start that launched it, and where it comes from.    *)
(* Only a started one has the exec.Cmd of the process; one read from the    *)
(* file has its PID if it was daemonized, one made up from the directory    *)
(* has neither.                                                             *)
VM == [launch : Starts, how : {"started", "loaded"}] \cup [launch : {NoStart}, how : {"inferred"}]

NoVM == [launch |-> NoStart, how |-> "none"]

VARIABLES
    mode,      \* jailer.Enabled and jailer.Daemonize
    vms,       \* the driver's entry for the ID
    starting,  \* the ID is in d.starting
    dir,       \* the state directory is there
    file,      \* the Start whose state file is in it
    jail,      \* the jail directory is there
    pidFile,   \* the Start whose PID file is in it
    jailers,   \* Starts whose jailer has not forked yet (daemonized)
    alive,     \* Starts whose Firecracker process runs
    pids,      \* Starts that read the PID file
    drive,     \* Starts that attached a data drive
    step,        \* where a call is
    held,      \* the firecrackerVM it works on
    row,       \* the Start whose VM the manager has in its table
    stuck,     \* a directory could not be removed
    restarts

disk == <<dir, file, jail, pidFile, stuck>>
procs == <<jailers, alive>>
driverVars == <<mode, vms, starting, disk, procs, pids, drive, step, held, row, restarts>>

DriverInit ==
    /\ mode \in Modes
    /\ vms = NoVM
    /\ starting = FALSE
    /\ dir = FALSE
    /\ file = NoStart
    /\ jail = FALSE
    /\ pidFile = NoStart
    /\ jailers = {}
    /\ alive = {}
    /\ pids = {}
    /\ drive = {}
    /\ step = [c \in Calls |-> "idle"]
    /\ held = [c \in Calls |-> NoVM]
    /\ row = NoStart
    /\ stuck = FALSE
    /\ restarts = 0

Move(c, l) == step' = [step EXCEPT ![c] = l]

Hold(c, vm) == held' = [held EXCEPT ![c] = vm]

Jailed == mode # "plain"

(* os.RemoveAll of the two directories, or of neither.                      *)
RemoveStateDir == dir' = FALSE /\ file' = NoStart /\ UNCHANGED <<jail, pidFile, stuck>>

RemoveJailDir ==
    IF Jailed THEN jail' = FALSE /\ pidFile' = NoStart /\ UNCHANGED <<dir, file, stuck>>
              ELSE UNCHANGED disk

RemoveFails == stuck' = TRUE /\ UNCHANGED <<dir, file, jail, pidFile>>
-----------------------------------------------------------------------------
(* Start *)

(* Mutant: a Start that is under way does not count. *)
TakenUnlessStarting == vms # NoVM

Taken == vms # NoVM \/ starting

(* The steps of Start, and those that undo one.                             *)
Starting ==
    {"mkdir", "layout", "launch", "socket", "pid", "configure", "persist", "register",
     "undo", "undolayout", "undodir", "undojail"}

(* The spec is checked and the ID reserved under the lock.  Calls with one  *)
(* ID are made within a millisecond: none comes when another has returned   *)
(* a VM.                                                                    *)
Begin(s) ==
    /\ step[s] = "idle"
    /\ restarts = 0
    /\ \A t \in Starts : step[t] \in Starting \cup {"idle", "failed"}
    /\ \/ Move(s, "failed") /\ UNCHANGED starting
       \/ ~ Taken /\ Move(s, "mkdir") /\ starting' = TRUE
    /\ UNCHANGED <<mode, vms, disk, procs, pids, drive, held, row, restarts>>

(* Start returns an error: the deferred delete from d.starting.             *)
StartFails(s) ==
    /\ Move(s, "failed")
    /\ starting' = FALSE

(* The state directory, and the sparse data drive in it.                    *)
MkDir(s) ==
    /\ step[s] = "mkdir"
    /\ \/ dir' = TRUE /\ Move(s, IF Jailed THEN "layout" ELSE "launch") /\ UNCHANGED starting
       \/ StartFails(s) /\ UNCHANGED dir
       \/ dir' = TRUE /\ Move(s, "undolayout") /\ UNCHANGED starting
    /\ UNCHANGED <<mode, vms, file, jail, pidFile, stuck, procs, pids, drive, held, row, restarts>>

(* Without a jailer binary Start just returns.  When prepareJailerLayout    *)
(* fails it has made the jail directory or not, and does not say which.     *)
PrepareJail(s) ==
    /\ step[s] = "layout"
    /\ \/ jail' = TRUE /\ Move(s, "launch") /\ UNCHANGED starting
       \/ StartFails(s) /\ UNCHANGED jail
       \/ jail' \in {jail, TRUE} /\ Move(s, "undolayout") /\ UNCHANGED starting
    /\ UNCHANGED <<mode, vms, dir, file, pidFile, stuck, procs, pids, drive, held, row, restarts>>

(* The log file and the process; a daemonizing jailer is not yet the VM.    *)
Launch(s) ==
    /\ step[s] = "launch"
    /\ \/ /\ dir
          /\ Move(s, "socket")
          /\ IF mode = "daemonized" THEN jailers' = jailers \cup {s} /\ UNCHANGED alive
                                    ELSE alive' = alive \cup {s} /\ UNCHANGED jailers
       \/ Move(s, "undodir") /\ UNCHANGED procs
    /\ UNCHANGED <<mode, vms, starting, disk, pids, drive, held, row, restarts>>

(* The jailer forks the VM, writes its PID file and exits.                  *)
Daemonize(s) ==
    /\ s \in jailers
    /\ jailers' = jailers \ {s}
    /\ alive' = alive \cup {s}
    /\ pidFile' = IF jail THEN s ELSE pidFile
    /\ UNCHANGED <<mode, vms, starting, dir, file, jail, stuck, pids, drive, step, held, row, restarts>>

(* waitForSocket: the process answers, or the time is over.                 *)
WaitForSocket(s) ==
    /\ step[s] = "socket"
    /\ \/ s \in alive /\ Move(s, IF mode = "daemonized" THEN "pid" ELSE "configure")
       \/ Move(s, "undo")
    /\ UNCHANGED <<mode, vms, starting, disk, procs, pids, drive, held, row, restarts>>

WaitForPIDFile(s) ==
    /\ step[s] = "pid"
    /\ \/ pidFile = s /\ pids' = pids \cup {s} /\ Move(s, "configure")
       \/ Move(s, "undo") /\ UNCHANGED pids
    /\ UNCHANGED <<mode, vms, starting, disk, procs, drive, held, row, restarts>>

(* The PUTs to the API socket, up to InstanceStart.  The path of the data   *)
(* drive made in MkDir reaches them only through prepareJailerLayout.       *)
Configure(s) ==
    /\ step[s] = "configure"
    /\ \/ /\ s \in alive
          /\ Move(s, "persist")
          /\ drive' = IF Jailed THEN drive \cup {s} ELSE drive
       \/ Move(s, "undo") /\ UNCHANGED drive
    /\ UNCHANGED <<mode, vms, starting, disk, procs, pids, held, row, restarts>>

(* persistVMState, by rename.                                               *)
Persist(s) ==
    /\ step[s] = "persist"
    /\ \/ dir /\ file' = s /\ Move(s, "register")
       \/ Move(s, "undo") /\ UNCHANGED file
    /\ UNCHANGED <<mode, vms, starting, dir, jail, pidFile, stuck, procs, pids, drive, held, row, restarts>>

Register(s) ==
    /\ step[s] = "register"
    /\ vms' = [launch |-> s, how |-> "started"]
    /\ starting' = FALSE
    /\ Move(s, "create")
    /\ UNCHANGED <<mode, disk, procs, pids, drive, held, row, restarts>>

(* The manager stores the agent, or else removes the VM again.              *)
StoreAgent(s) ==
    /\ step[s] = "create"
    /\ \/ row' = s /\ Move(s, "ok")
       \/ Move(s, "get") /\ UNCHANGED row
    /\ UNCHANGED <<mode, vms, starting, disk, procs, pids, drive, held, restarts>>

(* Mutant: the process is left to itself. *)
UndoNothing(s) ==
    /\ step[s] = "undo"
    /\ Move(s, "undodir")
    /\ UNCHANGED <<mode, vms, starting, disk, procs, pids, drive, held, row, restarts>>

(* A step failed: stopProcess, which before the PID file is read has only   *)
(* the PID of the jailer, and then both directories.                        *)
UndoProcess(s) ==
    /\ step[s] = "undo"
    /\ IF mode = "daemonized" /\ s \notin pids
       THEN jailers' = jailers \ {s} /\ UNCHANGED alive
       ELSE alive' = alive \ {s} /\ UNCHANGED jailers
    /\ Move(s, "undodir")
    /\ UNCHANGED <<mode, vms, starting, disk, pids, drive, held, row, restarts>>

UndoDirs(s) ==
    /\ \/ step[s] = "undolayout" /\ (RemoveStateDir \/ RemoveFails) /\ StartFails(s)
       \/ step[s] = "undodir" /\ (RemoveStateDir \/ RemoveFails) /\ Move(s, "undojail") /\ UNCHANGED starting
       \/ step[s] = "undojail" /\ (RemoveJailDir \/ RemoveFails) /\ StartFails(s)
    /\ UNCHANGED <<mode, vms, procs, pids, drive, held, row, restarts>>

StartStep(s) ==
    \/ Begin(s) \/ MkDir(s) \/ PrepareJail(s) \/ Launch(s) \/ WaitForSocket(s) \/ WaitForPIDFile(s)
    \/ Configure(s) \/ Persist(s) \/ Register(s) \/ StoreAgent(s) \/ UndoProcess(s) \/ UndoDirs(s)
-----------------------------------------------------------------------------
(* Stop, IsHealthy and Cleanup *)

(* A removal or a check of the VM that the manager has.                     *)
Ask(c) ==
    /\ c \in Removes \cup Checks
    /\ step[c] = "idle"
    /\ row # NoStart
    /\ Move(c, "get")
    /\ UNCHANGED <<mode, vms, starting, disk, procs, pids, drive, held, row, restarts>>

(* Where a call goes on once getVM found the VM, or did not.                *)
Found(c) == IF c \in Checks THEN "probe" ELSE "stop"
NotFound(c) == IF c \in Checks THEN "missing" ELSE "take"

GetVM(c) ==
    /\ step[c] = "get"
    /\ \/ vms # NoVM /\ Hold(c, vms) /\ Move(c, Found(c))
       \/ vms = NoVM /\ UNCHANGED held /\ Move(c, "load")
    /\ UNCHANGED <<mode, vms, starting, disk, procs, pids, drive, row, restarts>>

(* loadPersistedVM; only a daemonized VM is of use.                         *)
LoadPersisted(c) ==
    /\ step[c] = "load"
    /\ \/ /\ file # NoStart
          /\ mode = "daemonized"
          /\ Hold(c, [launch |-> file, how |-> "loaded"])
          /\ Move(c, "alive")
       \/ /\ file = NoStart \/ mode # "daemonized"
          /\ Move(c, NotFound(c))
          /\ UNCHANGED held
    /\ UNCHANGED <<mode, vms, starting, disk, procs, pids, drive, row, restarts>>

(* Mutant: a process of another user passes for a dead one. *)
ProcessNotOurs(c) ==
    /\ step[c] = "alive"
    /\ Move(c, NotFound(c))
    /\ UNCHANGED <<mode, vms, starting, disk, procs, pids, drive, held, row, restarts>>

ProcessAlive(c) ==
    /\ step[c] = "alive"
    /\ Move(c, IF held[c].launch \in alive THEN "insert" ELSE NotFound(c))
    /\ UNCHANGED <<mode, vms, starting, disk, procs, pids, drive, held, row, restarts>>

Insert(c) ==
    /\ step[c] = "insert"
    /\ vms' = IF vms = NoVM THEN held[c] ELSE vms
    /\ Hold(c, vms')
    /\ Move(c, Found(c))
    /\ UNCHANGED <<mode, starting, disk, procs, pids, drive, row, restarts>>

(* IsHealthy: a dead process is never healthy, a running one may not answer.*)
Probe(c) ==
    /\ step[c] = "probe"
    /\ \/ held[c].launch \in alive /\ (held[c].how = "started" \/ mode = "daemonized") /\ Move(c, "healthy")
       \/ Move(c, "sick")
    /\ UNCHANGED <<mode, vms, starting, disk, procs, pids, drive, held, row, restarts>>

(* Mutant: only a VM that this process started is stopped. *)
StoppedIfStarted(vm) == IF vm.how = "started" THEN {vm.launch} ELSE {}

(* The process stopProcess ends: by the exec.Cmd or by the PID, with        *)
(* SIGKILL if SIGTERM has no effect in time.  Of a VM read from the file    *)
(* waitCh is closed, and one made up has none.                              *)
Stopped(vm) ==
    IF vm.how = "started" \/ (vm.how = "loaded" /\ mode = "daemonized") THEN {vm.launch} ELSE {}

StopVM(c) ==
    /\ step[c] = "stop"
    /\ alive' = alive \ Stopped(held[c])
    /\ Move(c, "take")
    /\ UNCHANGED <<mode, vms, starting, disk, jailers, pids, drive, held, row, restarts>>

(* Cleanup takes the entry out of the map under the lock.                   *)
TakeVM(c) ==
    /\ step[c] = "take"
    /\ \/ vms # NoVM /\ Hold(c, vms) /\ vms' = NoVM /\ Move(c, "kill")
       \/ vms = NoVM /\ Move(c, "find") /\ UNCHANGED <<vms, held>>
    /\ UNCHANGED <<mode, starting, disk, procs, pids, drive, row, restarts>>

(* The manager marks the agent destroyed, also when Cleanup failed.         *)
Finish(c, l) ==
    /\ Move(c, IF c \in Starts THEN "failed" ELSE l)
    /\ row' = IF c \in Removes THEN NoStart ELSE row

(* loadVMForCleanup: from the file, from the directory, or nothing to do.   *)
LoadForCleanup(c) ==
    /\ step[c] = "find"
    /\ \/ /\ file # NoStart
          /\ Hold(c, [launch |-> file, how |-> "loaded"])
          /\ Move(c, "kill")
          /\ UNCHANGED row
       \/ /\ file = NoStart /\ dir
          /\ Hold(c, [launch |-> NoStart, how |-> "inferred"])
          /\ Move(c, "kill")
          /\ UNCHANGED row
       \/ file = NoStart /\ ~ dir /\ UNCHANGED held /\ Finish(c, "done")
    /\ UNCHANGED <<mode, vms, starting, disk, procs, pids, drive, restarts>>

Kill(c) ==
    /\ step[c] = "kill"
    /\ alive' = alive \ Stopped(held[c])
    /\ Move(c, "rmdir")
    /\ UNCHANGED <<mode, vms, starting, disk, jailers, pids, drive, held, row, restarts>>

CleanupDirs(c) ==
    /\ \/ step[c] = "rmdir" /\ RemoveStateDir /\ Move(c, "rmjail") /\ UNCHANGED row
       \/ step[c] = "rmjail" /\ RemoveJailDir /\ Finish(c, "done")
       \/ step[c] \in {"rmdir", "rmjail"} /\ RemoveFails /\ Finish(c, "error")
    /\ UNCHANGED <<mode, vms, starting, procs, pids, drive, held, restarts>>

CallStep(c) ==
    \/ GetVM(c) \/ LoadPersisted(c) \/ ProcessAlive(c) \/ Insert(c) \/ Probe(c) \/ StopVM(c)
    \/ TakeVM(c) \/ LoadForCleanup(c) \/ Kill(c) \/ CleanupDirs(c)
-----------------------------------------------------------------------------
(* The VM shuts down or crashes.                                            *)
Exit(s) ==
    /\ s \in alive
    /\ alive' = alive \ {s}
    /\ UNCHANGED <<mode, vms, starting, disk, jailers, pids, drive, step, held, row, restarts>>

Ended == {"idle", "ok", "failed", "done", "error", "healthy", "sick", "missing", "lost"}

(* The control plane restarts: its memory and the calls under way are gone, *)
(* the VMs are in process groups of their own and run on.                   *)
RestartControlPlane ==
    /\ restarts < MaxRestarts
    /\ restarts' = restarts + 1
    /\ vms' = NoVM
    /\ starting' = FALSE
    /\ step' = [c \in Calls |-> IF step[c] \in Ended THEN step[c] ELSE "lost"]
    /\ UNCHANGED <<mode, disk, procs, pids, drive, held, row>>

DriverNext ==
    \/ \E s \in Starts : StartStep(s) \/ Daemonize(s) \/ Exit(s)
    \/ \E c \in Removes \cup Checks : Ask(c)
    \/ \E c \in Calls : CallStep(c)
    \/ RestartControlPlane

DriverSpec == DriverInit /\ [][DriverNext]_driverVars

-----------------------------------------------------------------------------
(* The points a call can be at.                                             *)
Places ==
    Ended \cup Starting \cup
    {"create", "get", "load", "alive", "insert", "probe", "stop", "take", "find", "kill", "rmdir",
     "rmjail"}

(* Types; getVM and loadVMForCleanup never hand on a VM of no Start.        *)
DriverTypeOK ==
    /\ mode \in Modes
    /\ vms \in VM \cup {NoVM}
    /\ starting \in BOOLEAN
    /\ dir \in BOOLEAN
    /\ file \in Starts \cup {NoStart}
    /\ jail \in BOOLEAN
    /\ pidFile \in Starts \cup {NoStart}
    /\ jailers \subseteq Starts
    /\ alive \subseteq Starts
    /\ pids \subseteq Starts
    /\ drive \subseteq Starts
    /\ step \in [Calls -> Places]
    /\ held \in [Calls -> VM \cup {NoVM}]
    /\ row \in Starts \cup {NoStart}
    /\ stuck \in BOOLEAN
    /\ restarts \in 0 .. MaxRestarts

Untouched == \A c \in Removes : step[c] = "idle"

(* As long as no removal was asked for, the VM of an agent in the table has *)
(* its directories and its state file, whatever another Start with its ID,  *)
(* a check or a restart does.                                               *)
AgentHasItsVM ==
    row # NoStart /\ Untouched => dir /\ file = row /\ (Jailed => jail)

(* A VM that runs is found: IsHealthy says that there is no such VM only if *)
(* it has ended or is being removed.  After a restart that is kept for a    *)
(* daemonized VM.                                                           *)
LiveVMIsFound ==
    \A c \in Checks :
        step[c] = "missing" /\ Untouched /\ (restarts = 0 \/ mode = "daemonized") => row \notin alive

(* When Stop and Cleanup have returned without an error, the process is     *)
(* gone and so is its directory, also if a second removal worked on it or   *)
(* a check loaded it again.  After a restart that is kept for a daemonized  *)
(* VM.                                                                      *)
RemovedIsGone ==
    \A c \in Removes :
        step[c] = "done" /\ (restarts = 0 \/ mode = "daemonized") =>
            ~ dir /\ \A s \in Starts : step[s] = "ok" => s \notin alive

(* Starts that failed leave no process, and without a jailer no directory,  *)
(* behind: the manager does not clean up after them.                        *)
FailedStartLeavesNothing ==
    restarts = 0 /\ mode # "daemonized" /\ (\A s \in Starts : step[s] \in {"idle", "failed"}) =>
        alive = {} /\ (mode = "plain" /\ ~ stuck => ~ dir)

-----------------------------------------------------------------------------
(* What the code does not keep *)

(* docs/plans/2026-02-21-phase4-vm-orchestrator-design.md:69: "`Cleanup`:   *)
(* kills process, removes jailer chroot directory".  After a restart it     *)
(* does not kill a VM that is not daemonized.                               *)
CleanupKillsProcess ==
    \A c \in Removes : step[c] = "done" => \A s \in Starts : step[s] = "ok" => s \notin alive

(* The same line, of the directory.  A removal that could not remove it     *)
(* leaves no trace of it, and the next one returns without an error.        *)
CleanupRemovesJail ==
    \A c \in Removes : step[c] = "done" => ~ jail

(* A failed Start with a jailer leaves nothing either.  It may leave the    *)
(* jail that prepareJailerLayout began, the state directory when the jailer *)
(* is not found, and a VM that daemonized before its PID file was read.     *)
FailedStartLeavesNoJail ==
    restarts = 0 /\ ~ stuck /\ (\A s \in Starts : step[s] \in {"idle", "failed"}) =>
        alive = {} /\ ~ dir /\ ~ jail

(* The entry of a removed VM is gone.  After a restart, a check that found  *)
(* the VM alive just before its removal puts the entry back.                *)
NoEntryLeft ==
    (\A c \in Calls : step[c] \in Ended) /\ (\E c \in Removes : step[c] = "done") => vms = NoVM

(* docs/runbooks/openclaw-security-hardening-checklist.md:19: "Implemented  *)
(* (Firecracker): per-VM quota data drives".  Without a jailer the drive is *)
(* made and not attached.                                                   *)
QuotaDriveAttached ==
    row # NoStart => row \in drive
=============================================================================
