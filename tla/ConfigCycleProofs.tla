--------------------------- MODULE ConfigCycleProofs ---------------------------
(***************************************************************************)
(* Proofs about ConfigCycle for every set of configurations, whichever of  *)
(* them the check refuses or do not run, a new binary that runs or not,    *)
(* and any number of publishers, changes and faults.                       *)
(***************************************************************************)
EXTENDS ConfigCycle, TLAPS

----------------------------------------------------------------------------
(* Types *)

ConfigStatuses == [target : Contents, current : Contents, apply : {"pending", "applied", "failed"}]
Responses == [disabled : BOOLEAN, config : Configs, published : BOOLEAN]
CycleStages ==
  {"fetched", "report", "save", "install", "install first", "restart", "restart first", "restart same",
   "rollback", "restart last good", "failed"}
Updates ==
  [st : {"none", "active", "succeeded", "failed"},
   pc : {"begin", "preserve", "switch", "activate", "confirm", "rollback", "reactivate"},
   previous : {"old", "new", None}, confirmed : BOOLEAN, disabled : BOOLEAN]

ServerOK ==
  /\ want \in Configs /\ disabled \in BOOLEAN
  /\ versions \in [Configs -> {"published", "superseded", None}]
  /\ status \in ConfigStatuses
  /\ drafts \in [Publishers -> Contents]
NodeOK ==
  /\ disk \in Contents /\ lastGood \in Contents /\ applied \in Contents
  /\ service \in [up : BOOLEAN, config : Contents] /\ job \in BOOLEAN /\ served \in BOOLEAN
  /\ link \in {"old", "new"}
CycleOK == cycle = Idle \/ cycle \in [pc : CycleStages, response : Responses]
BoundsOK == changes \in Nat /\ faults \in Nat

(* The target is published and nothing else is; a current version exists.  *)
VersionsOK ==
  /\ \A c \in Configs : versions[c] = "published" <=> status.target = c
  /\ status.current # None => versions[status.current] # None

(* The poll and the update exclude each other.                             *)
LockOK == cycle = Idle \/ update.pc = "begin"

(* An update that goes back has a binary to go back to.                    *)
PreviousOK == update.pc \in {"switch", "activate", "rollback"} => update.previous \in {"old", "new"}

ConfigOK ==
  ServerOK /\ NodeOK /\ CycleOK /\ update \in Updates /\ BoundsOK /\ VersionsOK /\ LockOK /\ PreviousOK

----------------------------------------------------------------------------
(* What the poll knows: from the installation on, the file is the one that *)
(* was fetched, and when it reports sing-box was started with it.          *)
InstalledOK ==
  /\ cycle.pc \in {"restart", "restart first", "restart same", "report", "save"} => disk = Response.config
  /\ cycle.pc = "report" => service.config = disk \/ StaleBelief

----------------------------------------------------------------------------
(* As long as nothing fails, there is a file and a binary to go back to    *)
(* that sing-box runs, and it is down only on the way back to them.        *)
GoodDisk == IF cycle.pc \in {"restart", "rollback"} THEN lastGood ELSE disk
GoodLink == IF update.pc \in {"activate", "rollback"} THEN update.previous ELSE link
WayBack == cycle.pc \in {"rollback", "restart last good"} \/ update.pc \in {"rollback", "reactivate"}
CalmOK ==
  /\ ~job
  /\ served => Runs(GoodDisk, GoodLink) /\ (service.up \/ WayBack)
  /\ cycle.pc = "install" => lastGood = disk
  /\ cycle.pc \in {"install first", "restart first"} => ~served
  /\ update.pc = "switch" => update.previous = link

ConfigInv == ConfigOK /\ InstalledOK /\ (faults = 0 => CalmOK)

----------------------------------------------------------------------------
(* Moving on *)

(* A poll that goes on keeps its response.                                 *)
LEMMA GotoShape ==
  ASSUME CycleOK, cycle.pc # "idle", NEW pc \in CycleStages, Goto(pc)
  PROVE  CycleOK' /\ cycle'.pc = pc /\ cycle'.response = cycle.response
<1>1. cycle # Idle
  BY DEF Idle
<1>2. cycle \in [pc : CycleStages, response : Responses]
  BY <1>1 DEF CycleOK
<1>3. cycle' \in [pc : CycleStages, response : Responses] /\ cycle'.pc = pc /\ cycle'.response = cycle.response
  BY <1>2 DEF Goto
<1> QED
  BY <1>3 DEF CycleOK

(* An update that goes on, or ends.                                        *)
LEMMA ContinueShape ==
  ASSUME update \in Updates,
         NEW pc \in {"begin", "preserve", "switch", "activate", "confirm", "rollback", "reactivate"},
         NEW st \in {"none", "active", "succeeded", "failed"},
         Continue(pc) \/ (EndUpdate(st) /\ pc = "begin")
  PROVE  /\ update' \in Updates /\ update'.pc = pc
         /\ update'.previous = update.previous /\ update'.disabled = update.disabled
BY DEF Updates, Continue, EndUpdate

(* The outcomes of a restart, by what they leave.                          *)
LEMMA RestartShape ==
  ASSUME NodeOK, BoundsOK, RestartUp \/ RestartDown \/ RestartUncertain
  PROVE  /\ service' \in [up : BOOLEAN, config : Contents] /\ job' \in BOOLEAN /\ served' \in BOOLEAN
         /\ faults' \in Nat /\ faults' >= faults
         /\ RestartUp => service'.up /\ served' /\ ~job' /\ service'.config = disk /\ Runs(disk, link)
         /\ faults' = 0 => /\ faults = 0 /\ ~job'
                           /\ RestartDown => ~Runs(disk, link) /\ served' = served
                           /\ ~RestartUncertain
<1>0. Runs(disk, link) \in BOOLEAN
  BY DEF Runs
<1>1. CASE RestartUp
  <2>1. service' = [up |-> Runs(disk, link), config |-> disk] /\ service'.up /\ job' = FALSE /\ served' = TRUE /\ faults' = faults
    BY <1>1 DEF RestartUp, Restarted
  <2>2. Runs(disk, link) /\ service'.config = disk
    BY <2>1
  <2>3. service' \in [up : BOOLEAN, config : Contents]
    BY <2>1, <1>0 DEF NodeOK
  <2>4. ~RestartUncertain
    BY <2>1 DEF RestartUncertain
  <2>5. ~RestartDown
    <3>1. SUFFICES ASSUME Failing PROVE FALSE
      BY <2>1 DEF RestartDown
    <3>2. service'.up = FALSE
      BY <3>1 DEF Failing
    <3> QED
      BY <2>1, <3>2
  <2>6. faults' \in Nat /\ faults' >= faults
    BY <2>1 DEF BoundsOK
  <2> QED
    BY <2>1, <2>2, <2>3, <2>4, <2>5, <2>6
<1>2. CASE RestartDown
  <2>2. job' = FALSE /\ served' = served
    BY <1>2 DEF RestartDown, Restarted, Failing
  <2>3. ~RestartUncertain
    BY <2>2 DEF RestartUncertain
  <2>4. CASE Restarted /\ ~service'.up /\ UNCHANGED faults
    <3>1. service' = [up |-> Runs(disk, link), config |-> disk] /\ ~service'.up /\ faults' = faults
      BY <2>4 DEF Restarted
    <3>2. service' \in [up : BOOLEAN, config : Contents]
      BY <3>1, <1>0 DEF NodeOK
    <3>3. ~Runs(disk, link)
      BY <3>1
    <3>4. ~RestartUp
      BY <3>1 DEF RestartUp
    <3>5. faults' \in Nat /\ faults' >= faults
      BY <3>1 DEF BoundsOK
    <3> QED
      BY <2>2, <2>3, <3>1, <3>2, <3>3, <3>4, <3>5 DEF NodeOK
  <2>5. CASE Failing /\ Fault
    <3>1. service' \in [up : BOOLEAN, config : Contents] /\ service'.up = FALSE
      BY <2>5 DEF Failing, NodeOK
    <3>2. faults' \in Nat /\ faults' # 0 /\ faults' >= faults
      BY <2>5 DEF Fault, BoundsOK
    <3>3. ~RestartUp
      BY <3>1 DEF RestartUp
    <3> QED
      BY <2>2, <2>3, <3>1, <3>2, <3>3 DEF NodeOK
  <2> QED
    BY <1>2, <2>4, <2>5 DEF RestartDown
<1>3. CASE RestartUncertain
  <2>1. service' \in [up : BOOLEAN, config : Contents]
    BY <1>3 DEF RestartUncertain, NodeOK
  <2>2. faults' \in Nat /\ faults' # 0 /\ faults' >= faults
    BY <1>3 DEF RestartUncertain, Fault, BoundsOK
  <2>3. ~RestartUp
    BY <1>3 DEF RestartUncertain, RestartUp, Restarted
  <2> QED
    BY <1>3, <2>1, <2>2, <2>3 DEF RestartUncertain, NodeOK
<1> QED
  BY <1>1, <1>2, <1>3

(* The outcomes of a stop, by what they leave.                             *)
LEMMA StopShape ==
  ASSUME NodeOK, BoundsOK, StopDone \/ StopFails
  PROVE  /\ service' \in [up : BOOLEAN, config : Contents] /\ job' \in BOOLEAN /\ served' \in BOOLEAN
         /\ faults' \in Nat /\ faults' >= faults
         /\ faults' = 0 => ~job' /\ served' = FALSE
<1>1. faults' = faults \/ (faults' = faults + 1)
  BY DEF StopDone, StopFails, Fault
<1>2. faults' = 0 => StopDone
  BY DEF StopFails, Fault, BoundsOK
<1>3. service' = [service EXCEPT !.up = FALSE] \/ service' = service
  BY DEF StopDone, StopFails, Stopped
<1>4. service' \in [up : BOOLEAN, config : Contents]
  BY <1>3 DEF NodeOK
<1>5. job' \in BOOLEAN /\ served' \in BOOLEAN
  BY DEF StopDone, StopFails, Stopped, NodeOK
<1>6. StopDone => job' = FALSE /\ served' = FALSE
  BY DEF StopDone, Stopped
<1>7. faults' \in Nat /\ faults' >= faults
  BY <1>1 DEF BoundsOK
<1> QED
  BY <1>2, <1>4, <1>5, <1>6, <1>7

----------------------------------------------------------------------------
(* Types, the published version and the lock *)

(* A publication leaves the target published and nothing else.             *)
LEMMA PublishShape ==
  ASSUME ConfigOK, NEW c \in Configs, PublishConfig(c)
  PROVE  /\ versions' \in [Configs -> {"published", "superseded", None}]
         /\ status' \in ConfigStatuses /\ status'.apply = "pending"
         /\ VersionsOK'
<1>1. \E vs \in [Configs -> {"published", "superseded", None}] :
         /\ publishConfigVersion(vs, c)
         /\ \A d \in Configs : d # c => vs[d] = versions[d]
  <2>1. CASE GetConfigVersionByHash(c)
    BY <2>1 DEF PublishConfig, ConfigOK, ServerOK
  <2>2. CASE ~GetConfigVersionByHash(c)
    <3>1. /\ CreateConfigVersion(versions, c) \in [Configs -> {"published", "superseded", None}]
          /\ \A d \in Configs : d # c => CreateConfigVersion(versions, c)[d] = versions[d]
      BY DEF ConfigOK, ServerOK, CreateConfigVersion
    <3>2. publishConfigVersion(CreateConfigVersion(versions, c), c)
      BY <2>2 DEF PublishConfig
    <3> QED
      BY <3>1, <3>2
  <2> QED
    BY <2>1, <2>2
<1>2. PICK vs \in [Configs -> {"published", "superseded", None}] :
         /\ publishConfigVersion(vs, c)
         /\ \A d \in Configs : d # c => vs[d] = versions[d]
  BY <1>1
<1> DEFINE marked == MarkConfigVersionPublished(vs, c)
<1>3. /\ marked \in [Configs -> {"published", "superseded", None}] /\ marked[c] = "published"
      /\ \A d \in Configs : d # c => marked[d] = versions[d]
  BY <1>2 DEF MarkConfigVersionPublished
<1> HIDE DEF marked
<1>4. /\ versions' = [d \in Configs |-> IF d # c /\ marked[d] = "published" THEN "superseded" ELSE marked[d]]
      /\ status' = [status EXCEPT !.target = c, !.apply = "pending"]
  BY <1>2 DEF publishConfigVersion, SupersedePublishedConfigVersions, UpsertNodeConfigTarget, marked
<1>5. /\ status \in ConfigStatuses /\ versions \in [Configs -> {"published", "superseded", None}]
      /\ status.current # None => versions[status.current] # None
  BY DEF ConfigOK, ServerOK, VersionsOK
<1>6. /\ status' \in ConfigStatuses /\ status'.target = c /\ status'.current = status.current
      /\ status'.apply = "pending"
  BY <1>4, <1>5 DEF ConfigStatuses, Contents
<1>7. /\ versions' \in [Configs -> {"published", "superseded", None}]
      /\ versions'[c] = "published"
      /\ \A d \in Configs : d # c => versions'[d] # "published"
      /\ \A d \in Configs : d # c /\ versions[d] # None => versions'[d] # None
  BY <1>3, <1>4, ConfigAssumptions
<1>8. \A d \in Configs : versions'[d] = "published" <=> status'.target = d
  BY <1>6, <1>7
<1>9. status'.current # None => versions'[status'.current] # None
  BY <1>5, <1>6, <1>7, ConfigAssumptions DEF ConfigStatuses, Contents
<1> QED
  BY <1>6, <1>7, <1>8, <1>9 DEF VersionsOK

(* What the server may do to its own rows.                                 *)
LEMMA ReportShape ==
  ASSUME ConfigOK, NEW result \in {"applied", "failed"}, ReportApplyResult(result), UNCHANGED versions,
         cycle.pc # "idle"
  PROVE  /\ status' \in ConfigStatuses /\ VersionsOK'
         /\ faults' \in Nat /\ faults' >= faults
         /\ status' # status => /\ status'.apply = result
                                /\ result = "applied" => status'.current = Response.config
<1>1. /\ status \in ConfigStatuses /\ versions \in [Configs -> {"published", "superseded", None}]
      /\ VersionsOK /\ Response.config \in Configs
  <2>1. cycle # Idle
    BY DEF Idle
  <2> QED
    BY <2>1 DEF ConfigOK, ServerOK, CycleOK, Response, Responses
<1>2. CASE status' = UpdateNodeConfigApplyStatus(Response.config, result) /\ versions[Response.config] # None /\ UNCHANGED faults
  <2>1. /\ status' \in ConfigStatuses /\ status'.target = status.target /\ status'.apply = result
        /\ status'.current = IF result = "applied" THEN Response.config ELSE status.current
    BY <1>1, <1>2 DEF UpdateNodeConfigApplyStatus, ConfigStatuses, Contents
  <2>2. VersionsOK'
    BY <1>1, <1>2, <2>1 DEF VersionsOK
  <2> QED
    BY <1>2, <2>1, <2>2 DEF ConfigOK, BoundsOK
<1>3. CASE UNCHANGED <<status, faults>>
  BY <1>1, <1>3 DEF VersionsOK, ConfigOK, BoundsOK
<1>4. CASE Fault /\ UNCHANGED status
  BY <1>1, <1>4 DEF VersionsOK, ConfigOK, BoundsOK, Fault
<1> QED
  BY <1>2, <1>3, <1>4 DEF ReportApplyResult, RecordApplyResult, GetConfigVersionByID

(* A step of the server alone.                                             *)
LEMMA ServerTypes ==
  ASSUME ConfigOK, UNCHANGED <<node, cycle, update, faults>>,
         \/ \E c \in Configs : EditConfiguration(c)
         \/ SetDisabled
         \/ \E p \in Publishers : RenderNodeConfig(p) \/ configChanges(p) \/ Publish(p)
  PROVE  ConfigOK'
<1> USE DEF ConfigOK
<1>0. NodeOK' /\ CycleOK' /\ update' \in Updates /\ LockOK' /\ PreviousOK'
  BY DEF NodeOK, node, CycleOK, LockOK, Idle, PreviousOK
<1>1. CASE \E c \in Configs : EditConfiguration(c)
  BY <1>0, <1>1 DEF EditConfiguration, ServerOK, BoundsOK, VersionsOK, Change
<1>2. CASE SetDisabled
  BY <1>0, <1>2 DEF SetDisabled, ServerOK, BoundsOK, VersionsOK, Change
<1>3. ASSUME NEW p \in Publishers, RenderNodeConfig(p) PROVE ConfigOK'
  BY <1>0, <1>3 DEF RenderNodeConfig, ServerOK, BoundsOK, VersionsOK, Change, Contents
<1>4. ASSUME NEW p \in Publishers, configChanges(p) PROVE ConfigOK'
  BY <1>0, <1>4 DEF configChanges, ServerOK, BoundsOK, VersionsOK, Contents
<1>5. ASSUME NEW p \in Publishers, Publish(p) PROVE ConfigOK'
  <2>1. drafts[p] \in Configs /\ PublishConfig(drafts[p])
    BY <1>5 DEF Publish, ServerOK, Contents
  <2>2. /\ versions' \in [Configs -> {"published", "superseded", None}]
        /\ status' \in ConfigStatuses /\ VersionsOK'
    BY <2>1, PublishShape
  <2>3. drafts' \in [Publishers -> Contents] /\ UNCHANGED <<want, disabled, changes, faults>>
    BY <1>5 DEF Publish, ServerOK, Contents
  <2> QED
    BY <1>0, <2>2, <2>3 DEF ServerOK, BoundsOK
<1> QED
  BY <1>1, <1>2, <1>3, <1>4, <1>5

(* A step of the poll, and of its first request.                           *)
LEMMA CycleTypes ==
  ASSUME ConfigOK, FetchConfigVersioned \/ CycleStep
  PROVE  ConfigOK'
<1> USE DEF ConfigOK
<1>1. CASE FetchConfigVersioned
  <2>1. nodeConfig \in Responses
    BY DEF nodeConfig, Responses, ServerOK, ConfigStatuses, Contents, GetTargetConfigByNodeName
  <2>2. CycleOK' /\ LockOK'
    BY <1>1, <2>1 DEF FetchConfigVersioned, CycleOK, CycleStages, LockOK, LockFree
  <2> QED
    BY <1>1, <2>2 DEF FetchConfigVersioned, ServerOK, server, NodeOK, node, VersionsOK, BoundsOK, PreviousOK
<1>2. CASE CycleStep
  <2>1. cycle.pc # "idle"
    BY <1>2 DEF CycleStep, applyDisabled, CycleUnchanged, CycleSameBytes, CycleRejected, CycleKeepLastGood,
                CycleInstall, CycleUp, CycleUnknown, CycleSameDown, CycleDown, CycleUncertain,
                rollbackToLastGoodConfig, RestartLastGood, ReportFailed, ReportApplied, SaveApplied,
                Enabled, At, Restarting
  <2>2. update.pc = "begin" /\ cycle \in [pc : CycleStages, response : Responses]
    BY <2>1 DEF LockOK, CycleOK, Idle
  <2>3. LockOK' /\ PreviousOK' /\ update' \in Updates /\ UNCHANGED <<want, versions, disabled, drafts, changes>>
    BY <1>2, <2>2 DEF CycleStep, applyDisabled, CycleUnchanged, CycleSameBytes, CycleRejected, CycleKeepLastGood,
                CycleInstall, CycleUp, CycleUnknown, CycleSameDown, CycleDown, CycleUncertain,
                rollbackToLastGoodConfig, RestartLastGood, ReportFailed, ReportApplied, SaveApplied, LockOK,
                PreviousOK, server, ServerButStatus
  <2>4. CycleOK'
    <3>1. CASE EndCycle
      BY <3>1 DEF EndCycle, CycleOK, Idle
    <3>2. CASE \E pc \in CycleStages : Goto(pc)
      BY <2>1, <3>2, GotoShape
    <3> QED
      BY <1>2, <3>1, <3>2
      DEF CycleStep, applyDisabled, CycleUnchanged, CycleSameBytes, CycleRejected, CycleKeepLastGood,
          CycleInstall, CycleUp, CycleUnknown, CycleSameDown, CycleDown, CycleUncertain,
          rollbackToLastGoodConfig, RestartLastGood, ReportFailed, ReportApplied, SaveApplied, CycleStages
  <2>5. status' \in ConfigStatuses /\ VersionsOK'
    <3>1. CASE CycleRejected \/ ReportFailed \/ ReportApplied
      BY <2>1, <2>3, <3>1, ReportShape DEF CycleRejected, ReportFailed, ReportApplied
    <3>2. CASE ~(CycleRejected \/ ReportFailed \/ ReportApplied)
      <4>1. UNCHANGED status
        BY <1>2, <3>2
        DEF CycleStep, applyDisabled, CycleUnchanged, CycleSameBytes, CycleKeepLastGood,
            CycleInstall, CycleUp, CycleUnknown, CycleSameDown, CycleDown, CycleUncertain,
            rollbackToLastGoodConfig, RestartLastGood, SaveApplied, server
      <4> QED
        BY <2>3, <4>1 DEF VersionsOK, ServerOK
    <3> QED
      BY <3>1, <3>2
  <2>6. NodeOK' /\ faults' \in Nat
    <3>1. CASE CycleRejected \/ ReportFailed \/ ReportApplied
      <4>1. faults' \in Nat
        BY <2>1, <2>3, <3>1, ReportShape DEF CycleRejected, ReportFailed, ReportApplied
      <4> QED
        BY <3>1, <4>1 DEF CycleRejected, ReportFailed, ReportApplied, NodeOK, node
    <3>2. CASE CycleUp \/ CycleSameDown \/ CycleDown \/ CycleUncertain \/ RestartLastGood
      <4>1. /\ RestartUp \/ RestartDown \/ RestartUncertain
            /\ UNCHANGED <<disk, lastGood, applied, link>>
        BY <3>2 DEF CycleUp, CycleSameDown, CycleDown, CycleUncertain, RestartLastGood
      <4> QED
        BY <4>1, RestartShape DEF NodeOK
    <3>3. CASE CycleUnknown
      <4>1. Runs(disk, link) \in BOOLEAN
        BY DEF Runs
      <4>2. service' \in [up : BOOLEAN, config : Contents]
        BY <3>3, <4>1 DEF CycleUnknown, NodeOK
      <4> QED
        <5>1. faults' \in Nat
          BY <3>3 DEF CycleUnknown, Fault, BoundsOK
        <5>2. job' \in BOOLEAN /\ UNCHANGED <<disk, lastGood, applied, link, served>>
          BY <3>3 DEF CycleUnknown
        <5> QED
          BY <4>2, <5>1, <5>2 DEF NodeOK
    <3>4. CASE applyDisabled
      <4>1. service' \in [up : BOOLEAN, config : Contents] /\ job' \in BOOLEAN /\ served' \in BOOLEAN
        BY <3>4, StopShape DEF applyDisabled, NodeOK
      <4>2. faults' \in Nat
        BY <3>4, StopShape DEF applyDisabled, BoundsOK
      <4> QED
        BY <3>4, <4>1, <4>2 DEF applyDisabled, NodeOK
    <3>5. CASE CycleUnchanged \/ CycleSameBytes
      <4>1. NodeOK'
        BY <3>5 DEF CycleUnchanged, CycleSameBytes, NodeOK, node
      <4>2. faults' = faults \/ Fault
        BY <3>5 DEF CycleUnchanged, CycleSameBytes
      <4> QED
        BY <4>1, <4>2 DEF BoundsOK, Fault
    <3>6. CASE CycleKeepLastGood \/ CycleInstall \/ rollbackToLastGoodConfig \/ SaveApplied
      BY <2>2, <3>6
      DEF CycleKeepLastGood, CycleInstall, rollbackToLastGoodConfig, SaveApplied, NodeOK, BoundsOK, Response,
          Responses, Contents
    <3> QED
      BY <1>2, <3>1, <3>2, <3>3, <3>4, <3>5, <3>6 DEF CycleStep
  <2> QED
    BY <2>3, <2>4, <2>5, <2>6 DEF ServerOK, BoundsOK
<1> QED
  BY <1>1, <1>2

(* A step of the update, of the service manager, or a crash.               *)
LEMMA UpdateTypes ==
  ASSUME ConfigOK, RequestUpdate \/ UpdateStep \/ PendingJobRuns \/ Crash
  PROVE  ConfigOK'
<1> USE DEF ConfigOK
<1>1. ServerOK' /\ VersionsOK' /\ changes' \in Nat
  BY DEF RequestUpdate, UpdateStep, UpdateBegin, UpdateResumed, preserveCurrentBinary, switchVersionedBinary,
         UpdateUp, UpdateDown, UpdateUncertain, UpdateRollback, UpdateReactivate, UpdateConfirm, PendingJobRuns,
         Crash, server, ServerOK, VersionsOK, BoundsOK
<1>2. CASE RequestUpdate \/ UpdateStep
  <2>1. cycle = Idle \/ update.pc = "begin"
    BY DEF LockOK
  <2>2. UNCHANGED cycle
    BY <1>2 DEF RequestUpdate, UpdateStep, UpdateBegin, UpdateResumed, preserveCurrentBinary, switchVersionedBinary,
         UpdateUp, UpdateDown, UpdateUncertain, UpdateRollback, UpdateReactivate, UpdateConfirm
  <2>3. CycleOK'
    BY <2>2 DEF CycleOK, Idle
  <2>4. update' \in Updates
    BY <1>2, ZenonT(60) DEF RequestUpdate, UpdateStep, UpdateBegin, UpdateResumed, preserveCurrentBinary, switchVersionedBinary,
         UpdateUp, UpdateDown, UpdateUncertain, UpdateRollback, UpdateReactivate, UpdateConfirm, Continue, EndUpdate,
         Updates, nodeConfig, ServerOK, NodeOK
  <2>5. LockOK'
    <3>1. CASE RequestUpdate
      BY <2>1, <2>2, <3>1 DEF RequestUpdate, LockOK, Updates, Idle
    <3>2. CASE UpdateBegin \/ UpdateResumed
      BY <2>2, <3>2 DEF UpdateBegin, UpdateResumed, LockFree, LockOK, Idle
    <3>3. CASE ~(RequestUpdate \/ UpdateBegin \/ UpdateResumed)
      BY <1>2, <2>1, <2>2, <3>3
      DEF UpdateStep, preserveCurrentBinary, switchVersionedBinary,
         UpdateUp, UpdateDown, UpdateUncertain, UpdateRollback, UpdateReactivate, UpdateConfirm, Updating, LockOK,
         Idle
    <3> QED
      BY <3>1, <3>2, <3>3
  <2>6. NodeOK' /\ faults' \in Nat
    <3>1. CASE RequestUpdate \/ UpdateBegin \/ UpdateResumed \/ preserveCurrentBinary \/ UpdateConfirm
      BY <3>1 DEF RequestUpdate, UpdateBegin, UpdateResumed, preserveCurrentBinary, UpdateConfirm, NodeOK, node,
         BoundsOK
    <3>2. CASE switchVersionedBinary
      BY <3>2 DEF switchVersionedBinary, NodeOK, BoundsOK
    <3>3. CASE UpdateRollback
      BY <3>3 DEF UpdateRollback, NodeOK, BoundsOK, PreviousOK, Updating
    <3>4. CASE UpdateUp \/ UpdateDown \/ UpdateUncertain \/ UpdateReactivate
      <4>1. /\ RestartUp \/ RestartDown \/ RestartUncertain \/ StopDone \/ StopFails
            /\ UNCHANGED <<disk, lastGood, applied, link>>
        BY <3>4 DEF UpdateDown, UpdateUncertain, UpdateReactivate, UpdateUp
      <4> QED
        BY <4>1, RestartShape, StopShape DEF NodeOK
    <3> QED
      BY <1>2, <3>1, <3>2, <3>3, <3>4 DEF UpdateStep
  <2>7. PreviousOK'
    <3>1. CASE preserveCurrentBinary
      BY <3>1 DEF preserveCurrentBinary, PreviousOK, NodeOK, Updates
    <3>2. CASE ~preserveCurrentBinary
      BY <1>2, <3>2
      DEF RequestUpdate, UpdateStep, UpdateBegin, UpdateResumed, switchVersionedBinary,
         UpdateUp, UpdateDown, UpdateUncertain, UpdateRollback, UpdateReactivate, UpdateConfirm, Updating, PreviousOK,
         Continue, EndUpdate, Updates
    <3> QED
      BY <3>1, <3>2
  <2> QED
    BY <1>1, <2>3, <2>4, <2>5, <2>6, <2>7 DEF BoundsOK
<1>3. CASE PendingJobRuns
  <2>1. Runs(disk, link) \in BOOLEAN
    BY DEF Runs
  <2>2. service' \in [up : BOOLEAN, config : Contents] /\ job' \in BOOLEAN /\ served' \in BOOLEAN
    BY <1>3, <2>1 DEF PendingJobRuns, Restarted, NodeOK
  <2> QED
    BY <1>1, <1>3, <2>2 DEF PendingJobRuns, NodeOK, CycleOK, Idle, LockOK, BoundsOK, PreviousOK
<1>4. CASE Crash
  <2>1. update' \in Updates /\ cycle' = Idle /\ update'.pc = "begin"
    BY <1>4 DEF Crash, Updates
  <2> QED
    BY <1>1, <1>4, <2>1 DEF Crash, NodeOK, node, CycleOK, Idle, LockOK, BoundsOK, Fault, PreviousOK
<1> QED
  BY <1>2, <1>3, <1>4

(* A new node and one that serves.                                         *)
LEMMA InitTypes ==
  ASSUME Init
  PROVE  ConfigOK
<1>0. CycleOK /\ update \in Updates /\ BoundsOK /\ LockOK /\ PreviousOK
  BY DEF Init, CycleOK, Updates, BoundsOK, LockOK, PreviousOK
<1>1. NodeOK
  <2>1. want \in Contents /\ None \in Contents
    BY DEF Init, Contents
  <2>2. disk \in Contents /\ applied \in Contents /\ lastGood \in Contents /\ served \in BOOLEAN
    BY <2>1 DEF Init
  <2>3. service = [up |-> FALSE, config |-> None] \/ service = [up |-> TRUE, config |-> want]
    BY DEF Init
  <2>4. service \in [up : BOOLEAN, config : Contents]
    <3>1. CASE service = [up |-> FALSE, config |-> None]
      BY <2>1, <3>1
    <3>2. CASE service = [up |-> TRUE, config |-> want]
      BY <2>1, <3>2
    <3> QED
      BY <2>3, <3>1, <3>2
  <2> QED
    BY <2>2, <2>4 DEF Init, NodeOK
<1>2. want \in Configs /\ disabled \in BOOLEAN /\ drafts \in [Publishers -> Contents]
  BY DEF Init, Contents
<1>3. /\ versions \in [Configs -> {"published", "superseded", None}]
      /\ status \in ConfigStatuses
  BY <1>2 DEF Init, ConfigStatuses, Contents
<1>4. VersionsOK
  BY <1>2, ConfigAssumptions DEF Init, VersionsOK
<1> QED
  BY <1>0, <1>1, <1>2, <1>3, <1>4 DEF ConfigOK, ServerOK

LEMMA StepTypes ==
  ASSUME ConfigOK, [Next]_vars
  PROVE  ConfigOK'
<1>1. CASE \E c \in Configs : EditConfiguration(c)
  BY <1>1, ServerTypes DEF EditConfiguration
<1>2. CASE SetDisabled
  BY <1>2, ServerTypes DEF SetDisabled
<1>3. ASSUME NEW p \in Publishers, RenderNodeConfig(p) \/ configChanges(p) \/ Publish(p) PROVE ConfigOK'
  BY <1>3, ServerTypes DEF RenderNodeConfig, configChanges, Publish
<1>4. CASE UNCHANGED vars
  BY <1>4 DEF vars, server, node, ConfigOK, ServerOK, NodeOK, CycleOK, BoundsOK, VersionsOK, LockOK, PreviousOK, Idle
<1> QED
  BY <1>1, <1>2, <1>3, <1>4, CycleTypes, UpdateTypes DEF Next

----------------------------------------------------------------------------
(* What the poll installed *)

LEMMA StepInstalled ==
  ASSUME ConfigOK, InstalledOK, [Next]_vars
  PROVE  InstalledOK'
<1> USE DEF InstalledOK
<1>1. CASE UNCHANGED <<node, cycle>>
  BY <1>1 DEF node, Response, StaleBelief
<1>2. CASE cycle'.pc \notin {"restart", "restart first", "restart same", "report", "save"}
  BY <1>2
<1>3. CASE FetchConfigVersioned \/ Crash
  <2>1. cycle'.pc \in {"fetched", "idle"}
    <3>1. CASE FetchConfigVersioned
      BY <3>1 DEF FetchConfigVersioned
    <3>2. CASE Crash
      BY <3>2 DEF Crash, Idle
    <3> QED
      BY <1>3, <3>1, <3>2
  <2> QED
    BY <1>2, <2>1
<1>4. CASE PendingJobRuns
  BY <1>4 DEF PendingJobRuns, Restarted, Response
<1>5. CASE RequestUpdate \/ UpdateBegin \/ UpdateResumed \/ preserveCurrentBinary \/ UpdateConfirm
  BY <1>1, <1>5 DEF RequestUpdate, UpdateBegin, UpdateResumed, preserveCurrentBinary, UpdateConfirm
<1>6. CASE switchVersionedBinary \/ UpdateUp \/ UpdateDown \/ UpdateUncertain \/ UpdateRollback \/ UpdateReactivate
  <2>1. cycle' = Idle
    BY <1>6
    DEF switchVersionedBinary, UpdateUp, UpdateDown, UpdateUncertain, UpdateRollback, UpdateReactivate, Updating,
        ConfigOK, LockOK
  <2> QED
    BY <1>2, <2>1 DEF Idle
<1>7. CASE CycleStep
  <2>1. cycle.pc # "idle"
    BY <1>7 DEF CycleStep, applyDisabled, CycleUnchanged, CycleSameBytes, CycleRejected, CycleKeepLastGood,
                CycleInstall, CycleUp, CycleUnknown, CycleSameDown, CycleDown, CycleUncertain,
                rollbackToLastGoodConfig, RestartLastGood, ReportFailed, ReportApplied, SaveApplied,
                Enabled, At, Restarting
  <2>2. \A pc \in CycleStages : Goto(pc) => cycle'.pc = pc /\ cycle'.response = cycle.response
    BY <2>1, GotoShape DEF ConfigOK
  <2>3. CASE EndCycle
    BY <1>2, <2>3 DEF EndCycle, Idle
  <2>4. CASE CycleUnchanged
    <3>1. cycle'.pc = "report" /\ cycle'.response = cycle.response
      BY <2>2, <2>4 DEF CycleUnchanged, CycleStages
    <3> QED
      BY <2>4, <3>1 DEF CycleUnchanged, UpToDate, StaleBelief, Response, node
  <2>5. CASE CycleSameBytes
    <3>1. cycle'.pc = "restart same" /\ cycle'.response = cycle.response
      BY <2>2, <2>5 DEF CycleSameBytes, CycleStages
    <3> QED
      BY <2>5, <3>1 DEF CycleSameBytes, Response, node
  <2>6. CASE CycleKeepLastGood
    <3>1. cycle'.pc \in {"install", "install first"}
      BY <2>2, <2>6 DEF CycleKeepLastGood, CycleStages
    <3> QED
      BY <1>2, <3>1
  <2>7. CASE CycleInstall
    <3>1. cycle'.pc \in {"restart", "restart first"} /\ cycle'.response = cycle.response
      BY <2>2, <2>7 DEF CycleInstall, CycleStages
    <3> QED
      BY <2>7, <3>1 DEF CycleInstall, Response
  <2>8. CASE CycleUp \/ CycleUnknown
    <3>1. cycle'.pc = "report" /\ cycle'.response = cycle.response
      BY <2>2, <2>8 DEF CycleUp, CycleUnknown, CycleStages
    <3>2. service'.config = disk' /\ disk' = disk /\ disk = Response.config
      <4>1. service' = [up |-> Runs(disk, link), config |-> disk] /\ disk' = disk /\ Restarting
        BY <2>8 DEF CycleUp, CycleUnknown, RestartUp, Restarted
      <4> QED
        BY <4>1 DEF Restarting
    <3> QED
      BY <3>1, <3>2 DEF Response
  <2>9. CASE CycleSameDown \/ CycleDown \/ rollbackToLastGoodConfig \/ RestartLastGood
    <3>1. cycle'.pc \in {"failed", "rollback", "restart last good"}
      BY <2>2, <2>9 DEF CycleSameDown, CycleDown, rollbackToLastGoodConfig, RestartLastGood, CycleStages
    <3> QED
      BY <1>2, <3>1
  <2>10. CASE ReportApplied
    <3>1. cycle'.pc = "save" /\ cycle'.response = cycle.response
      BY <2>2, <2>10 DEF ReportApplied, CycleStages
    <3> QED
      BY <2>10, <3>1 DEF ReportApplied, At, Response, node
  <2> QED
    BY <1>7, <2>3, <2>4, <2>5, <2>6, <2>7, <2>8, <2>9, <2>10
    DEF CycleStep, applyDisabled, CycleRejected, CycleUncertain, ReportFailed, SaveApplied
<1>8. CASE UNCHANGED vars
  BY <1>1, <1>8 DEF vars
<1> QED
  BY <1>1, <1>3, <1>4, <1>5, <1>6, <1>7, <1>8
  DEF Next, UpdateStep, EditConfiguration, SetDisabled, RenderNodeConfig, configChanges, Publish

----------------------------------------------------------------------------
(* As long as nothing fails *)

(* Faults are only counted up.                                             *)
LEMMA FaultsGrow ==
  ASSUME ConfigOK, [Next]_vars, faults' = 0
  PROVE  faults = 0 /\ ~Fault /\ ~Crash
<1>1. faults \in Nat
  BY DEF ConfigOK, BoundsOK
<1>2. ~Fault
  BY <1>1 DEF Fault
<1>3. CASE UNCHANGED faults
  BY <1>1, <1>2, <1>3 DEF Crash
<1>4. ASSUME NEW result \in {"applied", "failed"}, ReportApplyResult(result) PROVE UNCHANGED faults
  BY <1>2, <1>4 DEF ReportApplyResult
<1>5. ASSUME RestartUp \/ RestartDown \/ RestartUncertain \/ StopDone \/ StopFails PROVE UNCHANGED faults
  BY <1>2, <1>5 DEF RestartUp, RestartDown, RestartUncertain, StopDone, StopFails
<1>6. CASE CycleStep
  BY <1>2, <1>3, <1>4, <1>5, <1>6
  DEF CycleStep, applyDisabled, CycleUnchanged, CycleSameBytes, CycleRejected, CycleKeepLastGood,
      CycleInstall, CycleUp, CycleUnknown, CycleSameDown, CycleDown, CycleUncertain,
      rollbackToLastGoodConfig, RestartLastGood, ReportFailed, ReportApplied, SaveApplied
<1>7. CASE UpdateStep
  BY <1>3, <1>5, <1>7
  DEF UpdateStep, UpdateBegin, UpdateResumed, preserveCurrentBinary, switchVersionedBinary,
      UpdateUp, UpdateDown, UpdateUncertain, UpdateRollback, UpdateReactivate, UpdateConfirm
<1> QED
  BY <1>2, <1>3, <1>6, <1>7
  DEF Next, EditConfiguration, SetDisabled, RenderNodeConfig, configChanges, Publish, FetchConfigVersioned,
      RequestUpdate, PendingJobRuns, Crash, vars

(* The poll: what it installs it can take back.                            *)
LEMMA CycleCalm ==
  ASSUME ConfigOK, ConfigOK', CalmOK, CycleStep, faults' = 0, faults = 0, ~Fault
  PROVE  CalmOK'
<1>1. cycle.pc # "idle"
  BY DEF CycleStep, applyDisabled, CycleUnchanged, CycleSameBytes, CycleRejected, CycleKeepLastGood,
         CycleInstall, CycleUp, CycleUnknown, CycleSameDown, CycleDown, CycleUncertain,
         rollbackToLastGoodConfig, RestartLastGood, ReportFailed, ReportApplied, SaveApplied,
         Enabled, At, Restarting
<1>2. update.pc = "begin" /\ UNCHANGED update
  <2>1. update.pc = "begin"
    BY <1>1 DEF ConfigOK, LockOK, Idle
  <2> QED
    BY <2>1 DEF CycleStep, applyDisabled, CycleUnchanged, CycleSameBytes, CycleRejected,
         CycleKeepLastGood, CycleInstall, CycleUp, CycleUnknown, CycleSameDown, CycleDown, CycleUncertain,
         rollbackToLastGoodConfig, RestartLastGood, ReportFailed, ReportApplied, SaveApplied
<1>3. \A pc \in CycleStages : Goto(pc) => cycle'.pc = pc
  BY <1>1, GotoShape DEF ConfigOK
<1>4. /\ ~job
      /\ served => Runs(GoodDisk, link)
      /\ served => service.up \/ cycle.pc \in {"rollback", "restart last good"}
      /\ cycle.pc = "install" => lastGood = disk
      /\ cycle.pc \in {"install first", "restart first"} => ~served
  BY <1>2 DEF CalmOK, GoodLink, WayBack
<1>5. CalmOK' = /\ ~job'
                /\ served' => Runs(GoodDisk', link')
                /\ served' => service'.up \/ cycle'.pc \in {"rollback", "restart last good"}
                /\ cycle'.pc = "install" => lastGood' = disk'
                /\ cycle'.pc \in {"install first", "restart first"} => ~served'
  BY <1>2 DEF CalmOK, GoodLink, WayBack, Runs
<1>6. ASSUME RestartUp \/ RestartDown \/ RestartUncertain
      PROVE  /\ ~RestartUncertain /\ ~job'
             /\ RestartUp => service'.up /\ Runs(disk, link)
             /\ RestartDown => ~Runs(disk, link) /\ served' = served
  BY <1>6, RestartShape DEF ConfigOK
<1>7. CASE applyDisabled
  <2>1. served' = FALSE /\ ~job' /\ cycle'.pc = "idle"
    <3>1. cycle'.pc = "idle"
      BY <1>7 DEF applyDisabled, EndCycle, Idle
    <3>2. \/ Stopped /\ served' = FALSE
          \/ served' = FALSE /\ UNCHANGED job
      BY <1>7 DEF applyDisabled, StopDone, StopFails
    <3> QED
      <4>1. ~job'
        BY <1>4, <3>2 DEF Stopped
      <4>2. served' = FALSE
        BY <3>2
      <4> QED
        BY <3>1, <4>1, <4>2
  <2> QED
    BY <1>5, <2>1
<1>8. CASE CycleUnchanged \/ CycleSameBytes \/ CycleRejected \/ ReportFailed \/ ReportApplied
  <2>1. cycle.pc \in {"fetched", "report", "failed"} /\ UNCHANGED node
    BY <1>8 DEF CycleUnchanged, CycleSameBytes, CycleRejected, ReportFailed, ReportApplied, Enabled, At
  <2>2. cycle'.pc \in {"idle", "report", "restart same", "save"}
    <3>1. EndCycle \/ Goto("report") \/ Goto("restart same") \/ Goto("save")
      BY <1>8 DEF CycleUnchanged, CycleSameBytes, CycleRejected, ReportFailed, ReportApplied
    <3>2. EndCycle => cycle'.pc = "idle"
      BY DEF EndCycle, Idle
    <3> QED
      BY <1>3, <3>1, <3>2 DEF CycleStages
  <2> QED
    BY <1>4, <1>5, <2>1, <2>2 DEF GoodDisk, node
<1>9. CASE SaveApplied
  <2>1. cycle'.pc = "idle" /\ cycle.pc = "save" /\ UNCHANGED <<disk, service, job, link, served>>
    BY <1>9 DEF SaveApplied, EndCycle, Idle, At
  <2> QED
    BY <1>4, <1>5, <2>1 DEF GoodDisk
<1>10. CASE CycleKeepLastGood
  <2>1. /\ cycle.pc = "fetched" /\ UNCHANGED <<disk, service, job, link, served>>
        /\ lastGood' = IF disk # None THEN disk ELSE lastGood
        /\ cycle'.pc = IF disk # None THEN "install" ELSE "install first"
    BY <1>3, <1>10 DEF CycleKeepLastGood, Enabled, At, CycleStages
  <2>2. served => disk # None
    BY <1>4, <2>1 DEF GoodDisk, Runs
  <2> QED
    BY <1>4, <1>5, <2>1, <2>2 DEF GoodDisk
<1>11. CASE CycleInstall
  <2>1. /\ cycle.pc \in {"install", "install first"} /\ UNCHANGED <<lastGood, service, job, link, served>>
        /\ cycle'.pc = IF cycle.pc = "install" THEN "restart" ELSE "restart first"
    BY <1>3, <1>11 DEF CycleInstall, At, CycleStages
  <2>2. cycle.pc = "install" => GoodDisk = lastGood /\ GoodDisk' = lastGood
    BY <1>4, <2>1 DEF GoodDisk
  <2> QED
    BY <1>4, <1>5, <2>1, <2>2
<1>12. CASE CycleUp
  <2>1. cycle'.pc = "report" /\ UNCHANGED <<disk, link>> /\ RestartUp
    BY <1>3, <1>12 DEF CycleUp, CycleStages
  <2> QED
    BY <1>5, <1>6, <2>1 DEF GoodDisk
<1>13. CASE CycleUnknown
  BY <1>13 DEF CycleUnknown
<1>14. CASE CycleSameDown
  <2>1. /\ cycle.pc = "restart same" /\ cycle'.pc = "failed"
        /\ RestartDown \/ RestartUncertain
    BY <1>3, <1>14 DEF CycleSameDown, At, CycleStages
  <2>2. ~served' /\ ~job'
    <3>1. GoodDisk = disk /\ RestartDown /\ ~job'
      BY <1>6, <2>1 DEF GoodDisk
    <3>2. ~Runs(disk, link) /\ served' = served
      BY <1>6, <3>1
    <3> QED
      BY <1>4, <3>1, <3>2
  <2> QED
    BY <1>5, <2>1, <2>2
<1>15. CASE CycleDown
  <2>1. /\ cycle.pc \in {"restart", "restart first"} /\ UNCHANGED <<disk, lastGood, link>> /\ RestartDown
        /\ cycle'.pc = IF cycle.pc = "restart" THEN "rollback" ELSE "failed"
    BY <1>3, <1>15 DEF CycleDown, At, CycleStages
  <2>2. served' = served /\ ~job'
    BY <1>6, <2>1
  <2>3. cycle.pc = "restart" => GoodDisk' = GoodDisk
    BY <2>1 DEF GoodDisk
  <2> QED
    BY <1>4, <1>5, <2>1, <2>2, <2>3
<1>16. CASE CycleUncertain
  BY <1>6, <1>16 DEF CycleUncertain
<1>17. CASE rollbackToLastGoodConfig
  <2>1. /\ cycle.pc = "rollback" /\ cycle'.pc = "restart last good" /\ disk' = lastGood
        /\ UNCHANGED <<job, link, served>>
    BY <1>3, <1>17 DEF rollbackToLastGoodConfig, At, CycleStages
  <2> QED
    BY <1>4, <1>5, <2>1 DEF GoodDisk
<1>18. CASE RestartLastGood
  <2>1. /\ cycle.pc = "restart last good" /\ cycle'.pc = "failed" /\ UNCHANGED <<disk, link>>
        /\ RestartUp \/ RestartDown \/ RestartUncertain
    BY <1>3, <1>18 DEF RestartLastGood, At, CycleStages
  <2>2. CASE RestartUp
    BY <1>5, <1>6, <2>1, <2>2 DEF GoodDisk
  <2>3. CASE RestartDown
    <3>1. ~served' /\ ~job'
      <4>1. GoodDisk = disk
        BY <2>1 DEF GoodDisk
      <4>2. ~Runs(disk, link) /\ served' = served /\ ~job'
        BY <1>6, <2>3
      <4> QED
        BY <1>4, <4>1, <4>2
    <3> QED
      BY <1>5, <2>1, <3>1
  <2> QED
    BY <1>6, <2>1, <2>2, <2>3
<1> QED
  BY <1>7, <1>8, <1>9, <1>10, <1>11, <1>12, <1>13, <1>14, <1>15, <1>16, <1>17, <1>18 DEF CycleStep

(* The update: it links the candidate only with a binary that ran to go    *)
(* back to, and restarts after every way back.                             *)
LEMMA UpdateCalm ==
  ASSUME ConfigOK, ConfigOK', CalmOK, RequestUpdate \/ UpdateStep, faults' = 0, faults = 0, ~Fault
  PROVE  CalmOK'
<1>1. CASE RequestUpdate
  <2>1. update'.pc = update.pc /\ update'.previous = update.previous /\ UNCHANGED <<node, cycle>>
    BY <1>1 DEF RequestUpdate, ConfigOK, Updates
  <2> QED
    BY <2>1 DEF CalmOK, GoodDisk, GoodLink, WayBack, Runs, node
<1>2. CASE UpdateStep
  <2>1. cycle = Idle /\ cycle' = Idle /\ cycle.pc = "idle" /\ cycle'.pc = "idle"
    <3>1. cycle = Idle
      BY <1>2 DEF UpdateStep, UpdateBegin, UpdateResumed, preserveCurrentBinary, switchVersionedBinary,
         UpdateUp, UpdateDown, UpdateUncertain, UpdateRollback, UpdateReactivate, UpdateConfirm, Updating, LockFree,
         ConfigOK, LockOK
    <3>2. UNCHANGED cycle
      BY <1>2 DEF UpdateStep, UpdateBegin, UpdateResumed, preserveCurrentBinary, switchVersionedBinary,
         UpdateUp, UpdateDown, UpdateUncertain, UpdateRollback, UpdateReactivate, UpdateConfirm
    <3> QED
      BY <3>1, <3>2 DEF Idle
  <2>2. /\ ~job
        /\ served => Runs(disk, GoodLink)
        /\ served => service.up \/ update.pc \in {"rollback", "reactivate"}
        /\ update.pc = "switch" => update.previous = link
    BY <2>1 DEF CalmOK, GoodDisk, WayBack
  <2>3. CalmOK' = /\ ~job'
                  /\ served' => Runs(disk', GoodLink')
                  /\ served' => service'.up \/ update'.pc \in {"rollback", "reactivate"}
                  /\ update'.pc = "switch" => update'.previous = link'
    BY <2>1 DEF CalmOK, GoodDisk, WayBack, Runs
  <2>4. ASSUME RestartUp \/ RestartDown \/ RestartUncertain
        PROVE  /\ ~RestartUncertain /\ ~job'
               /\ RestartUp => service'.up /\ Runs(disk, link)
               /\ RestartDown => ~Runs(disk, link) /\ served' = served
    BY <2>4, RestartShape DEF ConfigOK
  <2>5. /\ \A pc \in {"begin", "preserve", "switch", "activate", "confirm", "rollback", "reactivate"} :
             Continue(pc) => update'.pc = pc /\ update'.previous = update.previous
        /\ \A st \in {"none", "active", "succeeded", "failed"} : EndUpdate(st) => update'.pc = "begin"
    BY DEF Continue, EndUpdate, ConfigOK, Updates
  <2>6. CASE UpdateBegin \/ UpdateResumed \/ UpdateConfirm
    <3>1. update.pc \in {"begin", "confirm"} /\ UNCHANGED node
      BY <2>6 DEF UpdateBegin, UpdateResumed, UpdateConfirm, LockFree, Updating
    <3>2. update'.pc \in {"begin", "preserve"}
      BY <2>5, <2>6 DEF UpdateBegin, UpdateResumed, UpdateConfirm, ConfigOK, Updates
    <3> QED
      BY <2>2, <2>3, <3>1, <3>2 DEF node, GoodLink
  <2>7. CASE preserveCurrentBinary
    <3>1. update.pc = "preserve" /\ update'.pc = "switch" /\ update'.previous = link /\ UNCHANGED node
      BY <2>7 DEF preserveCurrentBinary, Updating, ConfigOK, Updates
    <3> QED
      BY <2>2, <2>3, <3>1 DEF node, GoodLink
  <2>8. CASE switchVersionedBinary
    <3>1. /\ update.pc = "switch" /\ update'.pc = "activate" /\ update'.previous = update.previous
          /\ UNCHANGED <<disk, service, job, served>>
      BY <2>5, <2>8 DEF switchVersionedBinary, Updating
    <3>2. GoodLink' = GoodLink
      BY <2>2, <3>1 DEF GoodLink
    <3> QED
      BY <2>2, <2>3, <3>1, <3>2
  <2>9. CASE UpdateUp /\ RestartUp
    <3>1. update'.pc = "confirm" /\ UNCHANGED <<disk, link>>
      BY <2>5, <2>9 DEF UpdateUp
    <3> QED
      BY <2>3, <2>4, <2>9, <3>1 DEF GoodLink
  <2>10. CASE UpdateUp /\ ~RestartUp
    <3>1. update'.pc = "confirm" /\ served' = FALSE /\ ~job'
      BY <2>5, <2>10 DEF UpdateUp, StopDone, Stopped
    <3> QED
      BY <2>3, <3>1
  <2>11. CASE UpdateDown
    <3>1. /\ update.pc = "activate" /\ update'.pc = "rollback" /\ update'.previous = update.previous
          /\ UNCHANGED disk /\ RestartDown
      BY <2>5, <2>11 DEF UpdateDown, StopFails, Updating
    <3>2. GoodLink' = GoodLink /\ ~job' /\ served' = served
      BY <2>4, <3>1 DEF GoodLink
    <3> QED
      BY <2>2, <2>3, <3>1, <3>2
  <2>12. CASE UpdateUncertain
    BY <2>4, <2>12 DEF UpdateUncertain
  <2>13. CASE UpdateRollback
    <3>1. /\ update.pc = "rollback" /\ update'.pc = "reactivate" /\ link' = update.previous
          /\ UNCHANGED <<disk, job, served>>
      BY <2>5, <2>13 DEF UpdateRollback, Updating
    <3> QED
      BY <2>2, <2>3, <3>1 DEF GoodLink
  <2>14. CASE UpdateReactivate
    <3>1. /\ update.pc = "reactivate" /\ update'.pc = "begin" /\ UNCHANGED <<disk, link>>
          /\ RestartUp \/ RestartDown \/ RestartUncertain \/ StopDone
      BY <2>5, <2>14 DEF UpdateReactivate, StopFails, Updating
    <3>2. CASE RestartUp
      BY <2>3, <2>4, <3>1, <3>2 DEF GoodLink
    <3>3. CASE RestartDown
      <4>1. ~Runs(disk, link) /\ served' = served /\ ~job' /\ GoodLink = link
        BY <2>4, <3>1, <3>3 DEF GoodLink
      <4> QED
        BY <2>2, <2>3, <3>1, <4>1
    <3>4. CASE StopDone
      <4>1. ~job' /\ served' = FALSE
        BY <3>4 DEF StopDone, Stopped
      <4> QED
        BY <2>3, <3>1, <4>1
    <3> QED
      BY <2>4, <3>1, <3>2, <3>3, <3>4
  <2> QED
    BY <1>2, <2>6, <2>7, <2>8, <2>9, <2>10, <2>11, <2>12, <2>13, <2>14 DEF UpdateStep
<1> QED
  BY <1>1, <1>2

LEMMA StepCalm ==
  ASSUME ConfigOK, ConfigOK', faults = 0 => CalmOK, [Next]_vars, faults' = 0
  PROVE  CalmOK'
<1>1. faults = 0 /\ ~Fault /\ ~Crash /\ CalmOK
  BY FaultsGrow
<1>2. CASE UNCHANGED <<node, cycle, update>>
  BY <1>1, <1>2 DEF CalmOK, GoodDisk, GoodLink, WayBack, Runs, node
<1>3. CASE FetchConfigVersioned
  <2>1. cycle.pc = "idle" /\ cycle'.pc = "fetched" /\ UNCHANGED <<node, update>>
    BY <1>3 DEF FetchConfigVersioned, LockFree, Idle
  <2> QED
    BY <1>1, <2>1 DEF CalmOK, GoodDisk, GoodLink, WayBack, Runs, node
<1>4. ~PendingJobRuns
  BY <1>1 DEF PendingJobRuns, CalmOK
<1> QED
  BY <1>1, <1>2, <1>3, <1>4, CycleCalm, UpdateCalm
  DEF Next, EditConfiguration, SetDisabled, RenderNodeConfig, configChanges, Publish, vars

----------------------------------------------------------------------------
(* The theorems *)

LEMMA ConfigInit ==
  ASSUME Init
  PROVE  ConfigInv
<1>1. ConfigOK
  BY InitTypes
<1>2. cycle.pc = "idle" /\ update.pc = "begin" /\ link = "old" /\ ~job
  BY DEF Init, Idle
<1>3. served => disk = want /\ service.up /\ Runs(want, link)
  <2>1. served => disk = want /\ service.up
    BY DEF Init
  <2>2. want \in Configs \ Fatal /\ link \notin Broken
    BY ConfigAssumptions DEF Init
  <2> QED
    BY <2>1, <2>2, ConfigAssumptions DEF Runs
<1>4. CalmOK
  BY <1>2, <1>3 DEF CalmOK, GoodDisk, GoodLink, WayBack
<1> QED
  BY <1>1, <1>2, <1>4 DEF ConfigInv, InstalledOK

LEMMA ConfigStep ==
  ASSUME ConfigInv, [Next]_vars
  PROVE  ConfigInv'
BY StepTypes, StepInstalled, StepCalm DEF ConfigInv

LEMMA ConfigAlways == Spec => []ConfigInv
BY ConfigInit, ConfigStep, PTL DEF Spec

(* The rows and files always hold contents; whatever is published meanwhile, *)
(* exactly one version, the target, is published, and the current version of *)
(* the node exists.                                                        *)
THEOREM ConfigTypeCorrect == Spec => []ConfigTypeOK
<1>1. ConfigInv => ConfigTypeOK
  BY DEF ConfigInv, ConfigOK, ConfigTypeOK, ServerOK, NodeOK, VersionsOK
<1> QED
  BY <1>1, ConfigAlways, PTL

(* Without a fault no configuration and no binary, whatever it is, takes   *)
(* sing-box down: a poll or an update that ends leaves it running.         *)
THEOREM NoOutageWithoutFault == Spec => []OutageNeedsFault
<1>1. ConfigInv => OutageNeedsFault
  <2> SUFFICES ASSUME ConfigInv, LockFree, faults = 0, served PROVE service.up
    BY DEF OutageNeedsFault
  <2> QED
    BY DEF ConfigInv, CalmOK, WayBack, LockFree, Idle
<1> QED
  BY <1>1, ConfigAlways, PTL

(* The server takes a version for the current one only while it is the     *)
(* file on disk and sing-box was started with it, but for StaleBelief.     *)
THEOREM AppliedIsInstalled == Spec => AppliedWasInstalled
<1>1. ASSUME ConfigInv, [Next]_vars, status'.apply = "applied",
             status.apply # "applied" \/ status'.current # status.current
      PROVE  disk = status'.current /\ (service.config = disk \/ StaleBelief)
  <2>1. status' # status
    BY <1>1
  <2>2. ASSUME NEW p \in Publishers, Publish(p) PROVE FALSE
    <3>1. drafts[p] \in Configs /\ PublishConfig(drafts[p])
      BY <1>1, <2>2 DEF Publish, ConfigInv, ConfigOK, ServerOK, Contents
    <3>2. status'.apply = "pending"
      BY <1>1, <3>1, PublishShape DEF ConfigInv
    <3> QED
      BY <1>1, <3>2
  <2>3. ASSUME CycleRejected \/ ReportFailed PROVE FALSE
    <3>1. ReportApplyResult("failed") /\ UNCHANGED versions /\ cycle.pc # "idle"
      BY <2>3 DEF CycleRejected, ReportFailed, Enabled, At, ServerButStatus
    <3>2. status'.apply = "failed"
      BY <1>1, <2>1, <3>1, ReportShape DEF ConfigInv
    <3> QED
      BY <1>1, <3>2
  <2>4. CASE ReportApplied
    <3>1. ReportApplyResult("applied") /\ UNCHANGED versions /\ cycle.pc = "report"
      BY <2>4 DEF ReportApplied, At, ServerButStatus
    <3>2. status'.current = Response.config
      BY <1>1, <2>1, <3>1, ReportShape DEF ConfigInv
    <3> QED
      BY <1>1, <3>1, <3>2 DEF ConfigInv, InstalledOK
  <2> QED
    BY <1>1, <2>1, <2>2, <2>3, <2>4
    DEF Next, vars, EditConfiguration, SetDisabled, RenderNodeConfig, configChanges, FetchConfigVersioned,
        RequestUpdate, PendingJobRuns, Crash, server,
        CycleStep, applyDisabled, CycleUnchanged, CycleSameBytes, CycleKeepLastGood,
        CycleInstall, CycleUp, CycleUnknown, CycleSameDown, CycleDown, CycleUncertain,
        rollbackToLastGoodConfig, RestartLastGood, SaveApplied,
        UpdateStep, UpdateBegin, UpdateResumed, preserveCurrentBinary, switchVersionedBinary,
        UpdateUp, UpdateDown, UpdateUncertain, UpdateRollback, UpdateReactivate, UpdateConfirm
<1>2. ConfigInv /\ [Next]_vars =>
        [status'.apply = "applied" /\ (status.apply # "applied" \/ status'.current # status.current) =>
           disk = status'.current /\ (service.config = disk \/ StaleBelief)]_vars
  BY <1>1
<1> QED
  BY <1>2, ConfigAlways, PTL DEF Spec, AppliedWasInstalled
================================================================================
