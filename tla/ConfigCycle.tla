------------------------------ MODULE ConfigCycle ------------------------------
(***************************************************************************)
(* How a node gets its sing-box configuration and its sing-box binary: the *)
(* server renders, publishes and hands out a configuration                 *)
(* (server/api/admin.go, server/api/router.go, server/db/config_versions   *)
(* .go), the agent's poll installs it and reports (agent/agent.go), and an *)
(* update operation replaces the binary (agent/updater.go).                *)
(*                                                                         *)
(* The poll and the update exclude each other with maintenanceMu; the      *)
(* server's handlers, a crash of the agent and the service manager act     *)
(* between any two of their steps.  A configuration is its content: its    *)
(* hash and its version identify it, so versions, the target, the file on  *)
(* disk and AppliedConfigHash all hold contents.                           *)
(***************************************************************************)
EXTENDS Naturals, FiniteSets

CONSTANTS Configs,     \* contents the renderer may produce
          Rejected,    \* ... those `sing-box check` refuses
          Fatal,       \* ... those that pass the check and do not run
          Broken,      \* binaries, of {"old", "new"}, that pass every check and do not run
          Publishers,  \* publish requests in flight
          MaxChanges,  \* bound: edits, publish requests, pauses and resumptions
          MaxFaults,   \* bound: crashes, failed or uncertain commands, unreadable probes, lost reports
          None

ASSUME ConfigAssumptions ==
  /\ Rejected \subseteq Configs /\ Fatal \subseteq Configs \ Rejected
  /\ Broken \subseteq {"new"}
  /\ MaxChanges \in Nat /\ MaxFaults \in Nat
  /\ None \notin Configs /\ None \notin {"published", "superseded"}

VARIABLES want,       \* what the renderer makes of the database
          versions,   \* content |-> status of its row in config_versions, or None
          status,     \* node_config_status: [target, current, apply]
          disabled,   \* the node is paused
          drafts,     \* publisher |-> the content it rendered, or None
          disk, lastGood, applied,   \* sing-box.json, its .last-good, AppliedConfigHash
          service,    \* [up, config]: what the service manager runs
          job,        \* a restart the manager was asked for is still pending
          link,       \* the binary the stable path points at
          cycle,      \* the poll: [pc, response]
          update,     \* the operation: [st, pc, previous, confirmed, disabled]
          served,     \* sing-box has come up since it was last stopped on purpose
          changes, faults

server == <<want, versions, status, disabled, drafts>>
node == <<disk, lastGood, applied, service, job, link, served>>
vars == <<server, node, cycle, update, changes, faults>>

Idle == [pc |-> "idle", response |-> None]
Change == changes < MaxChanges /\ changes' = changes + 1
Fault == faults < MaxFaults /\ faults' = faults + 1

----------------------------------------------------------------------------
(* Server *)

(* Statements: on the versions vs of a node and on its status row.         *)
GetConfigVersionByHash(c) == versions[c] # None
CreateConfigVersion(vs, c) == [vs EXCEPT ![c] = "published"]
MarkConfigVersionPublished(vs, c) == [vs EXCEPT ![c] = "published"]
SupersedePublishedConfigVersions(vs, keep) ==
  [d \in Configs |-> IF d # keep /\ vs[d] = "published" THEN "superseded" ELSE vs[d]]
UpsertNodeConfigTarget(c) == [status EXCEPT !.target = c, !.apply = "pending"]
GetTargetConfigByNodeName == status.target
UpdateNodeConfigApplyStatus(c, result) ==
  [status EXCEPT !.apply = result, !.current = IF result = "applied" THEN c ELSE @]

publishConfigVersion(vs, c) ==
  /\ versions' = SupersedePublishedConfigVersions(MarkConfigVersionPublished(vs, c), c)
  /\ status' = UpsertNodeConfigTarget(c)
\* A version is found by its hash or created; either way it is published.
PublishConfig(c) ==
  IF GetConfigVersionByHash(c) THEN publishConfigVersion(versions, c)
  ELSE publishConfigVersion(CreateConfigVersion(versions, c), c)

EditConfiguration(c) ==
  /\ Change /\ c # want /\ want' = c
  /\ UNCHANGED <<versions, status, disabled, drafts, node, cycle, update, faults>>
SetDisabled ==
  /\ Change /\ disabled' = ~disabled
  /\ UNCHANGED <<want, versions, status, drafts, node, cycle, update, faults>>

\* A publish handler renders, and publishes what it rendered in a later
\* transaction: the database may have changed in between.
RenderNodeConfig(p) ==
  /\ Change /\ drafts[p] = None /\ drafts' = [drafts EXCEPT ![p] = want]
  /\ UNCHANGED <<want, versions, status, disabled, node, cycle, update, faults>>
\* The handler that publishes what changed skips a paused node and one whose
\* target is what it rendered.
configChanges(p) ==
  /\ drafts[p] # None /\ (disabled \/ status.target = drafts[p])
  /\ drafts' = [drafts EXCEPT ![p] = None]
  /\ UNCHANGED <<want, versions, status, disabled, node, cycle, update, changes, faults>>
Publish(p) ==
  /\ drafts[p] # None
  /\ PublishConfig(drafts[p])
  /\ drafts' = [drafts EXCEPT ![p] = None]
  /\ UNCHANGED <<want, disabled, node, cycle, update, changes, faults>>

\* Mutant: a published target is served to a paused node.
nodeConfigTargetFirst ==
  [disabled |-> disabled /\ status.target = None,
   config |-> IF status.target # None THEN status.target ELSE want, published |-> status.target # None]

\* What GET /api/node/config answers.
nodeConfig ==
  LET target == GetTargetConfigByNodeName
  IN  [disabled |-> disabled, config |-> IF target # None THEN target ELSE want, published |-> target # None]

\* A result is accepted for a version that exists.
GetConfigVersionByID(c) == versions[c] # None
RecordApplyResult(c, result) ==
  IF GetConfigVersionByID(c) THEN status' = UpdateNodeConfigApplyStatus(c, result) ELSE UNCHANGED status

----------------------------------------------------------------------------
(* The service manager *)

Runs(config, binary) == config # None /\ config \notin Fatal /\ binary \notin Broken
Restarted == service' = [up |-> Runs(disk, link), config |-> disk] /\ job' = FALSE
Failing == service' = [up |-> FALSE, config |-> disk] /\ job' = FALSE
Stopped == service' = [service EXCEPT !.up = FALSE] /\ job' = FALSE

\* A restart that was reported as uncertain takes place after all.
PendingJobRuns ==
  /\ job /\ Restarted /\ served' = (served \/ service'.up)
  /\ UNCHANGED <<server, disk, lastGood, applied, link, cycle, update, changes, faults>>

\* Outcomes of a restart: it comes up, or does not (its own fault or not).
RestartUp == Restarted /\ service'.up /\ served' = TRUE /\ UNCHANGED faults
RestartDown ==
  /\ UNCHANGED served
  /\ \/ Restarted /\ ~service'.up /\ UNCHANGED faults
     \/ Failing /\ Fault
\* The command timed out: the old service, none, or a pending job.
RestartUncertain == Fault /\ service' \in {service, [service EXCEPT !.up = FALSE]} /\ job' = TRUE /\ UNCHANGED served
\* Outcomes of a stop: it takes place, or the command or the probe after it
\* fails, whether it took place or not.
StopDone == Stopped /\ served' = FALSE /\ UNCHANGED faults
StopFails == Fault /\ (UNCHANGED <<service, job, served>> \/ (Stopped /\ served' = FALSE))

----------------------------------------------------------------------------
(* The poll: Agent.once *)

LockFree == cycle = Idle /\ update.pc = "begin"
At(pc) == cycle.pc = pc
Goto(pc) == cycle' = [cycle EXCEPT !.pc = pc]
Response == cycle.response
EndCycle == cycle' = Idle

FetchConfigVersioned ==
  /\ LockFree
  /\ cycle' = [pc |-> "fetched", response |-> nodeConfig]
  /\ UNCHANGED <<server, node, update, changes, faults>>

\* The probe of a service that is down; with a job pending it may also show a
\* state in between, which confirms nothing.
singBoxConfirmedDown == ~service.up
\* A paused node: stop sing-box unless it is confirmed down; the stop may fail.
applyDisabled ==
  /\ At("fetched") /\ Response.disabled
  /\ EndCycle
  /\ \/ (service.up \/ job) /\ StopDone
     \/ singBoxConfirmedDown /\ served' = FALSE /\ UNCHANGED <<service, job, faults>>
     \/ StopFails
  /\ UNCHANGED <<server, disk, lastGood, applied, link, update, changes>>

Enabled == At("fetched") /\ ~Response.disabled
\* Mutant: an unchanged file is enough.
UpToDateUnprobed == disk = Response.config /\ applied = Response.config

\* Nothing to do: the file is the wanted one, it was applied, and sing-box is
\* confirmed to run.
UpToDate == disk = Response.config /\ applied = Response.config /\ service.up

CycleUnchanged ==
  /\ Enabled /\ UpToDate
  /\ Goto("report")
  /\ UNCHANGED <<server, node, update, changes, faults>>
\* The wanted bytes on disk, but sing-box not known to run them (or an
\* unreadable probe): restart.
CycleSameBytes ==
  /\ Enabled /\ disk = Response.config
  /\ \/ ~UpToDate /\ UNCHANGED faults
     \/ UpToDate /\ Fault
  /\ Goto("restart same")
  /\ UNCHANGED <<server, node, update, changes>>

\* The report of a version reaches the server or is lost.
ReportApplyResult(result) ==
  \/ /\ Response.published /\ RecordApplyResult(Response.config, result) /\ UNCHANGED faults
  \/ /\ ~Response.published /\ UNCHANGED <<status, faults>>
  \/ /\ Response.published /\ Fault /\ UNCHANGED status
ServerButStatus == <<want, versions, disabled, drafts>>

CycleRejected ==
  /\ Enabled /\ disk # Response.config /\ Response.config \in Rejected
  /\ ReportApplyResult("failed")
  /\ EndCycle
  /\ UNCHANGED <<ServerButStatus, node, update, changes>>
\* The file on disk becomes the last-good one, whatever sing-box runs ...
CycleKeepLastGood ==
  /\ Enabled /\ disk # Response.config /\ Response.config \notin Rejected
  /\ lastGood' = IF disk # None THEN disk ELSE lastGood
  /\ Goto(IF disk # None THEN "install" ELSE "install first")
  /\ UNCHANGED <<server, disk, applied, service, job, link, served, update, changes, faults>>
\* ... and the candidate is installed.
CycleInstall ==
  /\ cycle.pc \in {"install", "install first"}
  /\ disk' = Response.config
  /\ Goto(IF At("install") THEN "restart" ELSE "restart first")
  /\ UNCHANGED <<server, lastGood, applied, service, job, link, served, update, changes, faults>>

Restarting == cycle.pc \in {"restart", "restart first", "restart same"}
CycleUp ==
  /\ Restarting
  /\ RestartUp
  /\ Goto("report")
  /\ UNCHANGED <<server, disk, lastGood, applied, link, update, changes>>
\* A probe that cannot be read proves nothing: the cycle goes on.
CycleUnknown ==
  /\ Restarting
  /\ Fault /\ service' = [up |-> Runs(disk, link), config |-> disk] /\ job' = FALSE /\ ~service'.up /\ UNCHANGED served
  /\ Goto("report")
  /\ UNCHANGED <<server, disk, lastGood, applied, link, update, changes>>
\* The same bytes: nothing to roll back to.
CycleSameDown ==
  /\ At("restart same")
  /\ RestartDown \/ RestartUncertain
  /\ Goto("failed")
  /\ UNCHANGED <<server, disk, lastGood, applied, link, update, changes>>
CycleDown ==
  /\ cycle.pc \in {"restart", "restart first"}
  /\ RestartDown
  /\ Goto(IF At("restart") THEN "rollback" ELSE "failed")
  /\ UNCHANGED <<server, disk, lastGood, applied, link, update, changes>>
CycleUncertain ==
  /\ cycle.pc \in {"restart", "restart first"}
  /\ RestartUncertain
  /\ EndCycle
  /\ UNCHANGED <<server, disk, lastGood, applied, link, update, changes>>

rollbackToLastGoodConfig ==
  /\ At("rollback")
  /\ disk' = lastGood
  /\ Goto("restart last good")
  /\ UNCHANGED <<server, lastGood, applied, service, job, link, served, update, changes, faults>>
\* Mutant: the last-good file is restored and sing-box is not restarted.
RestartLastGoodNot ==
  /\ At("restart last good")
  /\ Goto("failed")
  /\ UNCHANGED <<server, node, update, changes, faults>>

RestartLastGood ==
  /\ At("restart last good")
  /\ RestartUp \/ RestartDown \/ RestartUncertain
  /\ Goto("failed")
  /\ UNCHANGED <<server, disk, lastGood, applied, link, update, changes>>
ReportFailed ==
  /\ At("failed")
  /\ ReportApplyResult("failed")
  /\ EndCycle
  /\ UNCHANGED <<ServerButStatus, node, update, changes>>

\* Mutant: the report names the target of now.
ReportAppliedTarget ==
  /\ At("report")
  /\ IF Response.published THEN RecordApplyResult(status.target, "applied") ELSE UNCHANGED status
  /\ Goto("save")
  /\ UNCHANGED <<ServerButStatus, node, update, changes, faults>>

\* reportRuntimeState: the result, and AppliedConfigHash last.
ReportApplied ==
  /\ At("report")
  /\ ReportApplyResult("applied")
  /\ Goto("save")
  /\ UNCHANGED <<ServerButStatus, node, update, changes>>
SaveApplied ==
  /\ At("save")
  /\ applied' = Response.config
  /\ EndCycle
  /\ UNCHANGED <<server, disk, lastGood, service, job, link, served, update, changes, faults>>

CycleStep ==
  \/ applyDisabled \/ CycleUnchanged \/ CycleSameBytes \/ CycleRejected \/ CycleKeepLastGood \/ CycleInstall
  \/ CycleUp \/ CycleUnknown \/ CycleSameDown \/ CycleDown \/ CycleUncertain
  \/ rollbackToLastGoodConfig \/ RestartLastGood \/ ReportFailed \/ ReportApplied \/ SaveApplied

----------------------------------------------------------------------------
(* The update: Agent.updateSingBox *)

Updating(pc) == update.pc = pc
Continue(pc) == update' = [update EXCEPT !.pc = pc]
EndUpdate(st) == update' = [update EXCEPT !.st = st, !.pc = "begin"]

RequestUpdate ==
  /\ update.st = "none"
  /\ update' = [update EXCEPT !.st = "active"]
  /\ UNCHANGED <<server, node, cycle, changes, faults>>

\* The download is over: take the lock, check the candidate against the file
\* on disk and read the wanted state of the node.
UpdateBegin ==
  /\ LockFree /\ update.st = "active" /\ ~update.confirmed
  /\ IF disk = None THEN EndUpdate("failed")
     ELSE update' = [update EXCEPT !.pc = "preserve", !.disabled = nodeConfig.disabled]
  /\ UNCHANGED <<server, node, cycle, changes, faults>>
UpdateResumed ==
  /\ LockFree /\ update.st = "active" /\ update.confirmed
  /\ EndUpdate("succeeded")
  /\ UNCHANGED <<server, node, cycle, changes, faults>>
\* The binary to go back to is the one linked now.
preserveCurrentBinary ==
  /\ Updating("preserve")
  /\ update' = [update EXCEPT !.pc = "switch", !.previous = link]
  /\ UNCHANGED <<server, node, cycle, changes, faults>>
switchVersionedBinary ==
  /\ Updating("switch")
  /\ link' = "new"
  /\ Continue("activate")
  /\ UNCHANGED <<server, disk, lastGood, applied, service, job, served, cycle, changes, faults>>

UpdateUp ==
  /\ Updating("activate")
  /\ \/ ~update.disabled /\ RestartUp
     \/ update.disabled /\ StopDone
  /\ Continue("confirm")
  /\ UNCHANGED <<server, disk, lastGood, applied, link, cycle, changes>>
UpdateDown ==
  /\ Updating("activate")
  /\ \/ ~update.disabled /\ RestartDown
     \/ update.disabled /\ StopFails
  /\ Continue("rollback")
  /\ UNCHANGED <<server, disk, lastGood, applied, link, cycle, changes>>
\* An uncertain restart ends the operation with the candidate linked; a stop
\* is never reported as uncertain.
UpdateUncertain ==
  /\ Updating("activate") /\ ~update.disabled
  /\ RestartUncertain
  /\ EndUpdate("failed")
  /\ UNCHANGED <<server, disk, lastGood, applied, link, cycle, changes>>
UpdateRollback ==
  /\ Updating("rollback")
  /\ link' = update.previous
  /\ Continue("reactivate")
  /\ UNCHANGED <<server, disk, lastGood, applied, service, job, served, cycle, changes, faults>>
UpdateReactivate ==
  /\ Updating("reactivate")
  /\ \/ ~update.disabled /\ (RestartUp \/ RestartDown \/ RestartUncertain)
     \/ update.disabled /\ (StopDone \/ StopFails)
  /\ EndUpdate("failed")
  /\ UNCHANGED <<server, disk, lastGood, applied, link, cycle, changes>>
UpdateConfirm ==
  /\ Updating("confirm")
  /\ update' = [update EXCEPT !.pc = "begin", !.confirmed = TRUE]
  /\ UNCHANGED <<server, node, cycle, changes, faults>>

UpdateStep ==
  \/ UpdateBegin \/ UpdateResumed \/ preserveCurrentBinary \/ switchVersionedBinary \/ UpdateUp \/ UpdateDown
  \/ UpdateUncertain \/ UpdateRollback \/ UpdateReactivate \/ UpdateConfirm

\* The agent stops anywhere and starts again; the operation is resumed from
\* its checkpoint.
Crash ==
  /\ Fault /\ ~LockFree
  /\ cycle' = Idle /\ update' = [update EXCEPT !.pc = "begin"]
  /\ UNCHANGED <<server, node, changes>>

----------------------------------------------------------------------------
\* A node that was just installed, or one that serves.
Init ==
  /\ want \in Configs \ (Rejected \cup Fatal)
  /\ \/ /\ disk = None /\ applied = None /\ service = [up |-> FALSE, config |-> None]
        /\ served = FALSE
        /\ versions = [c \in Configs |-> None]
        /\ status = [target |-> None, current |-> None, apply |-> "pending"]
     \/ /\ disk = want /\ applied = want /\ service = [up |-> TRUE, config |-> want]
        /\ served = TRUE
        /\ versions = [c \in Configs |-> IF c = want THEN "published" ELSE None]
        /\ status = [target |-> want, current |-> want, apply |-> "applied"]
  /\ lastGood = None /\ job = FALSE /\ link = "old" /\ disabled = FALSE
  /\ drafts = [p \in Publishers |-> None]
  /\ cycle = Idle
  /\ update = [st |-> "none", pc |-> "begin", previous |-> None, confirmed |-> FALSE, disabled |-> FALSE]
  /\ changes = 0 /\ faults = 0

Next ==
  \/ \E c \in Configs : EditConfiguration(c)
  \/ SetDisabled
  \/ \E p \in Publishers : RenderNodeConfig(p) \/ configChanges(p) \/ Publish(p)
  \/ FetchConfigVersioned \/ CycleStep
  \/ RequestUpdate \/ UpdateStep
  \/ PendingJobRuns \/ Crash

\* The poll runs every interval and an operation is carried on, each getting
\* the lock in turn; the manager ends the jobs it was given; nothing obliges
\* anyone to publish, to pause or to ask for an update.
Fairness ==
  /\ SF_vars(FetchConfigVersioned) /\ WF_vars(CycleStep)
  /\ SF_vars(UpdateStep)
  /\ WF_vars(PendingJobRuns)

Spec == Init /\ [][Next]_vars /\ Fairness

----------------------------------------------------------------------------
(* Properties *)

Contents == Configs \cup {None}

\* The rows and files hold contents, exactly the target is published, and a
\* node that has a current version was told it by a version that exists.
ConfigTypeOK ==
  /\ want \in Configs /\ disabled \in BOOLEAN /\ job \in BOOLEAN /\ link \in {"old", "new"}
  /\ {disk, lastGood, applied, service.config} \subseteq Contents
  /\ \A c \in Configs : versions[c] = "published" <=> status.target = c
  /\ status.current # None => versions[status.current] # None

\* Without a fault, a poll or an update that ends leaves sing-box running,
\* whatever configurations and binary it was given, once it has been up.
OutageNeedsFault == LockFree /\ faults = 0 /\ served => service.up

\* What two crashes can leave behind when a target is published again: the
\* file was installed without a restart, an earlier poll had applied the same
\* content, and sing-box runs something else.
StaleBelief == disk = applied /\ service.up /\ service.config # disk

\* The server takes a version for the current one of a node only while that
\* content is the file on disk and sing-box was started with it, but for
\* StaleBelief: a version published between the fetch and the report, or a
\* restart cut short, is never taken for applied.
AppliedWasInstalled ==
  [][status'.apply = "applied" /\ (status.apply # "applied" \/ status'.current # status.current) =>
       disk = status'.current /\ (service.config = disk \/ StaleBelief)]_vars

\* If the node stays enabled with a target that runs and a binary that runs,
\* sing-box ends up running it and the server knows, but for StaleBelief.
Converged ==
  /\ service = [up |-> TRUE, config |-> status.target]
  /\ disk = status.target /\ status.current = status.target /\ status.apply = "applied"
Servable == ~disabled /\ status.target \in Configs \ (Rejected \cup Fatal) /\ link \notin Broken
ConfigConverges == <>[]Servable => <>[](Converged \/ StaleBelief)

\* A node that stays paused ends up stopped.
PauseTakesEffect == <>[]disabled => <>[](~service.up)

\* "The agent pulls that target, ... restarts sing-box, and reports the
\* result": when it has reported a version as applied, sing-box was started
\* with it.
AppliedIsRunning == At("save") => service.config = Response.config

\* "sing-box rollback ... restores the previous link ... when candidate
\* validation, restart, or health checks fail."
FailedUpdateRestores == update.st = "failed" => link = "old"

\* "The agent keeps the configuration sing-box was last observed running."
LastGoodKept == service.up => service.config \in {disk, lastGood}
================================================================================
