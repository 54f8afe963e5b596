----------------------------- MODULE AgentUpdate ----------------------------
(***************************************************************************)
(* The agent updates itself (internal/agent/updater.go updateAgent): the   *)
(* old process downloads a candidate, writes the guard file, switches the  *)
(* link of the executable and exits.  Before every start the service       *)
(* manager runs the guard (update_guard.go RunAgentGuard), which counts    *)
(* starts and rolls the link and the service files back; a candidate whose *)
(* heartbeat arrives confirms the update (ConfirmAgentUpdateGuard), which  *)
(* migrates the service files (service_files.go).                          *)
(*                                                                         *)
(* Every file is replaced atomically and a crash may come between any two  *)
(* of these writes.  Reports to the server and the lease are the business  *)
(* of OperationProtocol: here an operation ends when its terminal event is *)
(* acknowledged, and a lost lease or a cancellation is a change of the     *)
(* operation's context that may come at any moment.                        *)
(***************************************************************************)
EXTENDS Naturals

CONSTANTS
    Versions,    \* released agent versions
    Installed,   \* the version installed at first
    Broken,      \* versions that exit before their first heartbeat
    LegacyGuard, \* a guard binary that restores no service files
    None,
    MaxOps,      \* bound: update operations created
    MaxFaults    \* bound: crashes and failures of a write or a reload

Ops == 1..MaxOps

ASSUME VersionsAssumption == Installed \in Versions \ Broken /\ Broken \subseteq Versions
ASSUME LegacyAssumption == LegacyGuard \notin Versions
ASSUME UpdateBounds == MaxOps \in Nat /\ MaxFaults \in Nat

VARIABLES
    (* files *)
    link,       \* the version AgentPath points to
    guardBin,   \* the version AgentGuardPath is a copy of
    guard,      \* agent-update-guard.json
    units,      \* units[f]: the version whose template service file f is
    backup,     \* service-files-backup.json
    checkpoint, \* operation-state.json with its update checkpoint
    (* the service manager and the server *)
    loaded,     \* the service files as of the last daemon-reload
    target,     \* target[o]: the version operation o installs
    outcome,    \* outcome[o]
    (* processes *)
    proc,       \* version of the running agent
    main,       \* guard, start-up and poll cycle: program counter, snapshot
    ops,        \* operations goroutine: program counter, result
    ctx,        \* the context of the operation
    faults,
    (* history *)
    origin,     \* the service files when the guard file was last written
    leftover,   \* a guard was written beside the backup of an older update
    strayed     \* an operation ended while another version than the running
                \* one was linked

files == <<link, guardBin, guard, units, backup, checkpoint>>
outside == <<loaded, target, outcome>>
history == <<origin, leftover, strayed>>
updateVars == <<files, outside, proc, main, ops, ctx, faults, history>>

-----------------------------------------------------------------------------
ServiceFiles == {"sing_box", "agent"}

(* The templates of version v (external: they are embedded in the binary). *)
Rendered(v) == [f \in ServiceFiles |-> v]

Guards == [op : Ops, expected : Versions, previous : Versions,
           status : {"pending", "confirmed", "rolled_back"},
           attempts : 0..3, late : BOOLEAN]

Checkpoints == [op : Ops, candidate : BOOLEAN, switched : BOOLEAN]

ASSUME NoneAssumption == None \notin Versions \cup Guards \cup Checkpoints \cup [ServiceFiles -> Versions]

maxAgentGuardStarts == 3

Pending == guard # None /\ guard.status = "pending"

(* The running process is the candidate of the guard.                      *)
Expected == guard # None /\ guard.expected = proc

Latest(o) == \A p \in Ops : p > o => outcome[p] = "none"

Down == [pc |-> "down", prev |-> None]
At(pc) == [pc |-> pc, prev |-> None]

OpsOff == [pc |-> "off", result |-> None]

-----------------------------------------------------------------------------
(* Files are replaced one at a time *)

writeAgentUpdateGuard(g) == guard' = g /\ UNCHANGED <<link, guardBin, units, backup, checkpoint>>
switchBinary(v) == link' = v /\ UNCHANGED <<guardBin, guard, units, backup, checkpoint>>
writeBackup(b) == backup' = b /\ UNCHANGED <<link, guardBin, guard, units, checkpoint>>
saveCheckpoint(c) == checkpoint' = c /\ UNCHANGED <<link, guardBin, guard, units, backup>>

(* writeServiceFiles(desired): the files in order.                         *)
writeServiceFile(f, desired) ==
    /\ units[f] # desired[f]
    /\ f = "agent" => units["sing_box"] = desired["sing_box"]
    /\ units' = [units EXCEPT ![f] = desired[f]]
    /\ UNCHANGED <<link, guardBin, guard, backup, checkpoint>>

-----------------------------------------------------------------------------
(* Processes *)

(* The process ends; the service manager starts the service again.         *)
Exit == main' = Down /\ proc' = None /\ ops' = OpsOff /\ ctx' = "ok"

Fault == faults < MaxFaults /\ faults' = faults + 1

Crash ==
    /\ main.pc # "down"
    /\ Fault /\ Exit
    /\ UNCHANGED <<files, outside, history>>

(* The guard or the main goroutine goes on at pc; the operations goroutine *)
(* and the server are not involved.                                        *)
Apart == UNCHANGED <<proc, ops, ctx, faults, target, outcome, history>>
Step(pc) == main' = At(pc) /\ Apart

-----------------------------------------------------------------------------
(* The guard, run by the service manager before the agent *)

ServiceStarts == main.pc = "down" /\ Step("guard") /\ UNCHANGED <<files, loaded>>

(* A legacy guard moves the link only.                                     *)
Restore == Step(IF guardBin = LegacyGuard THEN "rolledBack" ELSE "restore")

GuardPasses ==
    /\ main.pc = "guard"
    /\ guard # None => guard.status = "confirmed"
    /\ Step("boot")
    /\ UNCHANGED <<files, loaded>>

(* Rolled back already, or the link was never switched.                    *)
GuardRestores ==
    /\ main.pc = "guard"
    /\ guard # None
    /\ guard.status # "confirmed"
    /\ guard.status = "pending" => link = guard.previous
    /\ Restore
    /\ UNCHANGED <<files, loaded>>

(* Mutants: starts are not counted, and they are counted without end.      *)
GuardCountsNothing ==
    /\ main.pc = "guard"
    /\ Pending /\ link # guard.previous
    /\ Step("boot")
    /\ UNCHANGED <<files, loaded>>

GuardCountsOn ==
    /\ main.pc = "guard"
    /\ Pending /\ link # guard.previous
    /\ writeAgentUpdateGuard([guard EXCEPT !.attempts = guard.attempts + 1])
    /\ Step("boot")
    /\ UNCHANGED loaded

GuardCounts ==
    /\ main.pc = "guard"
    /\ Pending /\ link # guard.previous
    /\ IF guard.attempts + 1 < maxAgentGuardStarts /\ ~guard.late
       THEN /\ writeAgentUpdateGuard([guard EXCEPT !.attempts = guard.attempts + 1])
            /\ Step("boot")
       ELSE switchBinary(guard.previous) /\ Restore
    /\ UNCHANGED loaded

(* restoreServiceBackup: nothing to do; or the files, the reload (a        *)
(* failure of which is a failed start) and the removal of the snapshot.    *)
RestoreNothing ==
    /\ main.pc = "restore" /\ backup = None
    /\ Step("rolledBack")
    /\ UNCHANGED <<files, loaded>>

RestoreFile(f) ==
    /\ main.pc = "restore" /\ backup # None
    /\ writeServiceFile(f, backup)
    /\ Apart /\ UNCHANGED <<main, loaded>>

RestoreReloads ==
    /\ main.pc = "restore" /\ units = backup
    /\ loaded' = units
    /\ Step("restored")
    /\ UNCHANGED files

RestoreFails ==
    /\ main.pc = "restore" /\ units = backup
    /\ Fault /\ Exit
    /\ UNCHANGED <<files, outside, history>>

RestoreClears ==
    /\ main.pc = "restored"
    /\ writeBackup(None)
    /\ Step("rolledBack")
    /\ UNCHANGED loaded

GuardRollsBack ==
    /\ main.pc = "rolledBack"
    /\ writeAgentUpdateGuard([guard EXCEPT !.status = "rolled_back"])
    /\ Step("boot")
    /\ UNCHANGED loaded

-----------------------------------------------------------------------------
(* Run: service files are synchronised at once unless an update is pending *)

Boot ==
    /\ main.pc = "boot"
    /\ link \notin Broken
    /\ proc' = link
    /\ main' = At(IF Pending THEN "poll" ELSE "sync")
    /\ UNCHANGED <<ops, ctx, faults, files, outside, history>>

(* A broken executable exits (external).                                   *)
BootFails ==
    /\ main.pc = "boot"
    /\ link \in Broken
    /\ Exit
    /\ UNCHANGED <<faults, files, outside, history>>

(* The end of a poll cycle; the first one lets the operations loop start.  *)
EndCycle ==
    /\ main' = At("poll")
    /\ ops' = IF ops.pc = "off" THEN [pc |-> "idle", result |-> None] ELSE ops
    /\ UNCHANGED <<proc, ctx>>

(* syncServiceUnits returns, to Run or to the confirmation.                *)
SyncReturns == Step(IF Pending THEN "confirm" ELSE "poll")
SyncFails == IF Pending THEN EndCycle ELSE Exit

(* Nothing to write: a reload is repeated if a snapshot shows that an      *)
(* earlier process may have died before it.                                *)
SyncUnchanged ==
    /\ main.pc = "sync" /\ units = Rendered(proc)
    /\ SyncReturns
    /\ loaded' = IF backup = None THEN loaded ELSE units
    /\ UNCHANGED files

ReloadFails ==
    /\ main.pc = "sync" /\ units = Rendered(proc) /\ backup # None
    /\ Fault /\ SyncFails
    /\ UNCHANGED <<files, outside, history>>

SyncBegins ==
    /\ main.pc = "sync" /\ units # Rendered(proc)
    /\ main' = [pc |-> "write", prev |-> units]
    /\ writeBackup(IF Pending /\ Expected /\ backup = None THEN units ELSE backup)
    /\ Apart /\ UNCHANGED loaded

SyncWrites(f) ==
    /\ main.pc = "write"
    /\ writeServiceFile(f, Rendered(proc))
    /\ Apart /\ UNCHANGED <<main, loaded>>

SyncReloads ==
    /\ main.pc = "write"
    /\ units = Rendered(proc)
    /\ loaded' = units
    /\ SyncReturns
    /\ UNCHANGED files

(* A write or the reload fails: undoServiceWrite, which reloads also when  *)
(* it could not write a file back.                                         *)
SyncGivesUp ==
    /\ main.pc = "write"
    /\ Fault
    /\ main' = [main EXCEPT !.pc = "undo"]
    /\ UNCHANGED <<proc, ops, ctx, files, outside, history>>

UndoWrites(f) ==
    /\ main.pc = "undo"
    /\ writeServiceFile(f, main.prev)
    /\ Apart /\ UNCHANGED <<main, loaded>>

UndoReloads ==
    /\ main.pc = "undo"
    /\ loaded' \in {units, loaded}
    /\ SyncFails
    /\ UNCHANGED <<faults, files, target, outcome, history>>

-----------------------------------------------------------------------------
(* The poll cycle, under maintenanceMu *)

Installing == ops.pc \in {"guard", "switch", "mark", "restart"}

HeartbeatFails ==
    /\ main.pc = "poll" /\ ~Installing
    /\ EndCycle
    /\ UNCHANGED <<faults, files, outside, history>>

(* The heartbeat arrives.  The candidate of a pending guard goes on at pc; *)
(* a confirmed guard is only cleaned up.                                   *)
HeartbeatThen(pc) ==
    /\ main.pc = "poll" /\ ~Installing
    /\ IF Expected /\ guard.status # "rolled_back"
       THEN /\ main' = At(IF guard.status = "pending" THEN pc ELSE "clear")
            /\ UNCHANGED <<proc, ops, ctx>>
       ELSE EndCycle
    /\ UNCHANGED <<faults, files, outside, history>>

(* Mutants: the candidate does not become the guard before it migrates the *)
(* service files, and it does not migrate them.                            *)
HeartbeatWithoutRefresh == HeartbeatThen("sync")
HeartbeatWithoutMigration == HeartbeatThen("confirm")

(* confirmHeartbeat: the candidate first becomes the guard of the starts   *)
(* to come, then migrates the service files.                               *)
Heartbeat == HeartbeatThen("refresh")

RefreshGuard ==
    /\ main.pc = "refresh"
    /\ guardBin' = link
    /\ Step("sync")
    /\ UNCHANGED <<link, guard, units, backup, checkpoint, loaded>>

Confirm ==
    /\ main.pc = "confirm"
    /\ writeAgentUpdateGuard([guard EXCEPT !.status = "confirmed"])
    /\ Step("clear")
    /\ UNCHANGED loaded

ConfirmClears ==
    /\ main.pc = "clear"
    /\ writeBackup(None)
    /\ Step("remove")
    /\ UNCHANGED loaded

ConfirmRemoves ==
    /\ main.pc = "remove"
    /\ writeAgentUpdateGuard(None)
    /\ EndCycle
    /\ UNCHANGED <<faults, outside, history>>

-----------------------------------------------------------------------------
(* The operation, in the operations goroutine *)

Aside == UNCHANGED <<proc, main, ctx, faults, outside, history>>
Goto(pc) == ops' = [pc |-> pc, result |-> None] /\ Aside
Finish(result) == ops' = [pc |-> "report", result |-> result] /\ Aside

Create(o, v) ==
    /\ outcome[o] = "none"
    /\ \A p \in Ops : p < o => outcome[p] \in {"succeeded", "failed"}
    /\ outcome' = [outcome EXCEPT ![o] = "running"]
    /\ target' = [target EXCEPT ![o] = v]
    /\ UNCHANGED <<files, loaded, proc, main, ops, ctx, faults, history>>

Adopted(o) ==
    IF checkpoint # None /\ checkpoint.op = o THEN checkpoint
    ELSE [op |-> o, candidate |-> FALSE, switched |-> FALSE]

(* Mutant: any pending guard makes the operations loop wait.               *)
ClaimUnlessPending(o) ==
    /\ ops.pc = "idle" /\ ~Pending
    /\ outcome[o] = "running"
    /\ saveCheckpoint(Adopted(o))
    /\ Goto("begin")

(* RunOperations: a pending candidate waits for its confirmation.          *)
Claim(o) ==
    /\ ops.pc = "idle" /\ ~(Pending /\ Expected)
    /\ outcome[o] = "running"
    /\ saveCheckpoint(Adopted(o))
    /\ Goto("begin")

(* A claim is refused with 409 and the agent deletes its local state.      *)
ForgetOperation ==
    /\ ops.pc = "idle" /\ ~(Pending /\ Expected)
    /\ checkpoint # None
    /\ saveCheckpoint(None)
    /\ Aside /\ UNCHANGED ops

(* The lease monitor cancels the context of the operation.                 *)
Interrupt(cause) ==
    /\ ops.pc \notin {"off", "idle"}
    /\ ctx = "ok"
    /\ ctx' = cause
    /\ UNCHANGED <<files, outside, proc, main, ops, faults, history>>

Switched == checkpoint.switched \/ (checkpoint.candidate /\ proc = target[checkpoint.op])

Reverted == guard # None /\ guard.op = checkpoint.op /\ guard.status = "rolled_back"

(* updateAgent up to the download.                                         *)
FindRolledBack ==
    /\ ops.pc = "begin" /\ ctx = "ok" /\ Reverted
    /\ writeAgentUpdateGuard(None)
    /\ Finish("failed")

FindSwitched ==
    /\ ops.pc = "begin" /\ ctx = "ok" /\ ~Reverted /\ Switched
    /\ IF proc # target[checkpoint.op] \/ Pending
       THEN Finish("failed") /\ UNCHANGED files
       ELSE saveCheckpoint([checkpoint EXCEPT !.switched = TRUE]) /\ Goto("confirmed")

FindInstalled ==
    /\ ops.pc = "begin" /\ ctx = "ok" /\ ~Reverted /\ ~Switched
    /\ IF proc = target[checkpoint.op] THEN Finish("succeeded") ELSE Goto("download")
    /\ UNCHANGED files

(* The event agent_confirmed, sent under the operation's context.          *)
ReportConfirmed ==
    /\ ops.pc = "confirmed"
    /\ Finish(IF ctx = "ok" THEN "succeeded" ELSE "failed")
    /\ UNCHANGED files

(* The context is looked at before updateAgent, and through the download   *)
(* and validation of the candidate, which may also fail by themselves.     *)
StopEarly ==
    /\ ops.pc \in {"begin", "download", "verify"}
    /\ ops.pc = "begin" => ctx # "ok"
    /\ Finish("failed")
    /\ UNCHANGED files

Download ==
    /\ ops.pc = "download" /\ ctx = "ok"
    /\ saveCheckpoint([checkpoint EXCEPT !.candidate = TRUE])
    /\ Goto("verify")

(* The last look at the context; then maintenanceMu is awaited.            *)
Verify == ops.pc = "verify" /\ ctx = "ok" /\ Goto("lock") /\ UNCHANGED files

Lock == ops.pc = "lock" /\ main.pc = "poll" /\ Goto("guard") /\ UNCHANGED files

(* preserveCurrentBinary and writeAgentUpdateGuard.                        *)
WriteGuard ==
    /\ ops.pc = "guard"
    /\ writeAgentUpdateGuard(
           [op |-> checkpoint.op, expected |-> target[checkpoint.op], previous |-> link,
            status |-> "pending", attempts |-> 0, late |-> FALSE])
    /\ origin' = units
    /\ leftover' = (leftover \/ backup # None)
    /\ ops' = [pc |-> "switch", result |-> None]
    /\ UNCHANGED <<proc, main, ctx, faults, outside, strayed>>

(* Mutant: the candidate becomes the guard at once.                        *)
SwitchAndPromote ==
    /\ ops.pc = "switch"
    /\ link' = target[checkpoint.op] /\ guardBin' = link'
    /\ Goto("mark")
    /\ UNCHANGED <<guard, units, backup, checkpoint>>

SwitchLink ==
    /\ ops.pc = "switch"
    /\ switchBinary(target[checkpoint.op])
    /\ Goto("mark")

(* A step of the installation fails.  (An agent that cannot save its       *)
(* operation state cannot report either and exits, as in Crash.)           *)
InstallFails ==
    /\ ops.pc \in {"guard", "switch"}
    /\ Finish("failed")
    /\ UNCHANGED files

MarkSwitched ==
    /\ ops.pc = "mark"
    /\ saveCheckpoint([checkpoint EXCEPT !.switched = TRUE])
    /\ Goto("restart")

(* ErrAgentRestartRequired ends the process, unless the cause of a         *)
(* cancelled context takes its place (operationExecutionError).            *)
Restart ==
    /\ ops.pc = "restart"
    /\ IF ctx = "ok" THEN Exit /\ UNCHANGED <<faults, outside, history>>
                     ELSE Finish("failed")
    /\ UNCHANGED files

(* The terminal event is acknowledged and the local state removed.  A      *)
(* lease lost before the monitor stopped makes a success a failure.        *)
Report ==
    /\ ops.pc = "report"
    /\ outcome' = [outcome EXCEPT ![checkpoint.op] =
                      IF ctx = "lost" THEN "failed" ELSE ops.result]
    /\ saveCheckpoint(None)
    /\ strayed' = (strayed \/ link # proc)
    /\ ops' = [pc |-> "idle", result |-> None] /\ ctx' = "ok"
    /\ UNCHANGED <<loaded, target, proc, main, faults, origin, leftover>>

(* The guard's deadline passes.                                            *)
DeadlinePasses ==
    /\ Pending /\ ~guard.late
    /\ writeAgentUpdateGuard([guard EXCEPT !.late = TRUE])
    /\ Aside /\ UNCHANGED ops

-----------------------------------------------------------------------------
UpdateInit ==
    /\ link = Installed
    /\ guardBin \in {Installed, LegacyGuard}
    /\ guard = None
    /\ units = Rendered(Installed)
    /\ backup = None
    /\ checkpoint = None
    /\ loaded = units
    /\ target = [o \in Ops |-> Installed]
    /\ outcome = [o \in Ops |-> "none"]
    /\ proc = Installed
    /\ main = At("poll")
    /\ ops = [pc |-> "idle", result |-> None]
    /\ ctx = "ok"
    /\ faults = 0
    /\ origin = units
    /\ leftover = FALSE /\ strayed = FALSE

(* The guard, then the main goroutine of the agent.                        *)
ServiceStep ==
    \/ ServiceStarts
    \/ GuardPasses
    \/ GuardRestores
    \/ GuardCounts
    \/ RestoreNothing
    \/ \E f \in ServiceFiles : RestoreFile(f)
    \/ RestoreReloads
    \/ RestoreClears
    \/ GuardRollsBack
    \/ Boot
    \/ BootFails
    \/ SyncUnchanged
    \/ SyncBegins
    \/ \E f \in ServiceFiles : SyncWrites(f)
    \/ SyncReloads
    \/ \E f \in ServiceFiles : UndoWrites(f)
    \/ UndoReloads
    \/ RefreshGuard
    \/ Confirm
    \/ ConfirmClears
    \/ ConfirmRemoves

OperationStep ==
    \/ \E o \in Ops : Claim(o)
    \/ FindRolledBack
    \/ FindSwitched
    \/ ReportConfirmed
    \/ FindInstalled
    \/ StopEarly
    \/ Download
    \/ Verify
    \/ WriteGuard
    \/ SwitchLink
    \/ MarkSwitched
    \/ Restart
    \/ Report

UpdateNext ==
    \/ ServiceStep
    \/ RestoreFails
    \/ ReloadFails
    \/ SyncGivesUp
    \/ Heartbeat
    \/ HeartbeatFails
    \/ OperationStep
    \/ Lock
    \/ InstallFails
    \/ ForgetOperation
    \/ \E cause \in {"cancelled", "lost"} : Interrupt(cause)
    \/ DeadlinePasses
    \/ Crash
    \/ \E o \in Ops, v \in Versions : Create(o, v)

UpdateSpec == UpdateInit /\ [][UpdateNext]_updateVars

(* The service manager restarts the service (Restart=always, no start      *)
(* limit) and programs run on; a heartbeat that is sent for ever arrives   *)
(* in the end, and a waiting operation gets the mutex between two cycles.  *)
(* Faults, interruptions and the deadline are not fair.                    *)
UpdateFairness ==
    /\ WF_updateVars(ServiceStep)
    /\ WF_updateVars(OperationStep)
    /\ SF_updateVars(Heartbeat)
    /\ SF_updateVars(Lock)

FairUpdateSpec == UpdateSpec /\ UpdateFairness

-----------------------------------------------------------------------------
(* Properties *)

UpdateTypeOK ==
    /\ link \in Versions
    /\ guardBin \in Versions \cup {LegacyGuard}
    /\ guard \in Guards \cup {None}
    /\ units \in [ServiceFiles -> Versions]
    /\ backup \in [ServiceFiles -> Versions] \cup {None}
    /\ checkpoint \in Checkpoints \cup {None}
    /\ loaded \in [ServiceFiles -> Versions]
    /\ target \in [Ops -> Versions]
    /\ outcome \in [Ops -> {"none", "running", "succeeded", "failed"}]
    /\ proc \in Versions \cup {None}
    /\ main \in [pc : {"down", "guard", "restore", "restored", "rolledBack", "boot",
                       "sync", "write", "undo", "poll", "refresh", "confirm",
                       "clear", "remove"},
                 prev : [ServiceFiles -> Versions] \cup {None}]
    /\ ops \in [pc : {"off", "idle", "begin", "confirmed", "download", "verify", "lock",
                      "guard", "switch", "mark", "restart", "report"},
                result : {"succeeded", "failed", None}]
    /\ ctx \in {"ok", "cancelled", "lost"}
    /\ faults \in 0..MaxFaults
    /\ origin \in [ServiceFiles -> Versions]
    /\ leftover \in BOOLEAN /\ strayed \in BOOLEAN

(* The guard is a version that has sent a heartbeat: an executable that    *)
(* cannot start never becomes the program that has to roll it back.        *)
GuardIsHealthy == guardBin \notin Broken

(* No update began beside the snapshot of an older one, and none ended     *)
(* with a link that the running process does not come from.                *)
Regular == ~leftover /\ ~strayed

(* What a rollback must have put back when it is recorded: the previous    *)
(* link, and the service files, on disk and in the service manager, as     *)
(* they were when the update began.                                        *)
Restored ==
    /\ link' = guard.previous
    /\ backup' = None
    /\ units' = origin
    /\ loaded' = units'

RolledBack == guard' # None /\ guard'.status = "rolled_back"

(* A rollback is complete when it is recorded, whatever crashed in the     *)
(* middle of the update, of the migration of the service files or of the   *)
(* rollback itself, and also if the guard is a legacy one.                 *)
RollbackRestores == [][Pending /\ RolledBack /\ Regular => Restored]_updateVars

(* The same when a snapshot was left behind by an older update: it is kept *)
(* until that update is confirmed (docs/deployment.md on service           *)
(* migration), and is not what a later rollback restores.                  *)
RollbackAlwaysRestores == [][Pending /\ RolledBack /\ ~strayed => Restored]_updateVars

(* A success that was reported is not undone by any later crash, start or  *)
(* deadline: until the next update the new version is linked, and its      *)
(* service files are in place and loaded.                                  *)
SucceededStays ==
    \A o \in Ops :
        outcome[o] = "succeeded" /\ Latest(o) /\ Regular =>
            /\ link = target[o]
            /\ Pending => guard.previous = link
            /\ units = Rendered(target[o])
            /\ loaded = units

Starting == main.pc = "boot" /\ link \in Broken

(* A broken executable that the service manager starts is replaced by a    *)
(* version that runs: the guard restores the previous link after the       *)
(* failed starts (docs/node-operations.md, Rollback).                      *)
BrokenIsReplaced == Starting ~> link \notin Broken

(* The same as long as no operation ended with a link that the running     *)
(* process does not come from.                                             *)
BrokenIsReplacedUnlessStrayed == Starting ~> (link \notin Broken \/ strayed)

(* Every update ends, through restarts, rollbacks and faults.             *)
UpdateEnds ==
    \A o \in Ops : (outcome[o] = "running") ~> (outcome[o] # "running" \/ strayed)
=============================================================================
