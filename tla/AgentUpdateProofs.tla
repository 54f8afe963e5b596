--------------------------- MODULE AgentUpdateProofs --------------------------
(***************************************************************************)
(* Proofs about AgentUpdate for every set of versions, whichever of them   *)
(* do not start, a legacy guard or not, and any number of operations and   *)
(* faults.                                                                 *)
(***************************************************************************)
EXTENDS AgentUpdate, TLAPS

----------------------------------------------------------------------------
(* Processes: the operations goroutine lives in the process, and installs  *)
(* between two cycles of the poll.                                         *)
Stopped == main.pc \in {"down", "guard", "restore", "restored", "rolledBack", "boot"}
Working == ops.pc \notin {"off", "idle"}
ProcOK ==
    /\ Stopped <=> proc = None
    /\ proc # None => proc \notin Broken
    /\ Stopped => ops.pc = "off"
    /\ Installing => main.pc = "poll"

(* Operations run one at a time, in order.                                 *)
SequenceOK ==
    /\ \A o \in Ops : outcome[o] # "none" => \A p \in Ops : p < o => outcome[p] \in {"succeeded", "failed"}
    /\ checkpoint # None => outcome[checkpoint.op] = "running"
    /\ Working => checkpoint # None

(* What the operation found out stays true while it works: the candidate   *)
(* is another version than the running one, a success is about the running *)
(* one, and no guard waits for the running process.                        *)
Updates == {"download", "verify", "lock", "guard", "switch", "mark", "restart"}
OperationOK ==
    /\ ops.pc \in Updates => proc # target[checkpoint.op]
    /\ ops.pc = "confirmed" \/ (ops.pc = "report" /\ ops.result = "succeeded") => proc = target[checkpoint.op]
    /\ ops.pc = "report" => ops.result \in {"succeeded", "failed"}
    /\ Working => ~(Pending /\ Expected)
    /\ ops.pc \in {"switch", "mark", "restart"} => Pending /\ guard.expected = target[checkpoint.op]

(* What the main goroutine knows of the guard file.                        *)
MainOK ==
    /\ Pending /\ Expected => link = proc
    /\ main.pc \in {"refresh", "confirm"} => Pending /\ Expected
    /\ main.pc \in {"sync", "write", "undo"} /\ Pending => Expected
    /\ main.pc \in {"clear", "remove"} => guard # None /\ guard.status = "confirmed"
    /\ main.pc \in {"restore", "restored", "rolledBack"} =>
         guard # None /\ guard.status # "confirmed" /\ (Pending => link = guard.previous)
    /\ main.pc \in {"write", "undo"} => main.prev \in [ServiceFiles -> Versions]

----------------------------------------------------------------------------
(* Regular updates: what is on disk between the moment the guard file is   *)
(* written and the moment the update is confirmed or rolled back, and what *)
(* is there otherwise.                                                     *)
SettledFiles ==
    /\ units = Rendered(link) /\ loaded = units
    /\ backup = None \/ (guard # None /\ guard.status = "confirmed")
PendingFiles ==
    /\ origin = Rendered(guard.previous) /\ guard.expected # guard.previous
    /\ link \in {guard.previous, guard.expected}
    /\ IF backup = None THEN units = origin /\ loaded = origin ELSE backup = origin
    /\ guardBin = LegacyGuard => backup = None
    /\ link = guard.previous /\ proc # None => backup = None

FilesOK == IF Pending THEN PendingFiles ELSE SettledFiles
LinkOK ==
    proc # None /\ link # proc =>
      Pending /\ ops.pc \in {"mark", "restart", "report"} /\ (ops.pc = "report" => ops.result = "failed")
StageOK ==
    /\ main.pc = "restored" => Pending /\ backup # None /\ units = backup /\ loaded = units
    /\ main.pc \in {"rolledBack", "remove"} => backup = None
    /\ main.pc = "boot" /\ Pending => link # guard.previous
    /\ main.pc \in {"sync", "write", "undo"} /\ Pending => guardBin # LegacyGuard
    /\ main.pc \in {"write", "undo"} => Pending /\ backup # None
    /\ main.pc = "confirm" => units = Rendered(proc) /\ loaded = units
SuccessOK ==
    \A o \in Ops : outcome[o] = "succeeded" /\ Latest(o) =>
      link = target[o] /\ (Pending => link = guard.previous /\ backup = None)
RegularOK == FilesOK /\ LinkOK /\ StageOK /\ SuccessOK

UpdateInv ==
    /\ UpdateTypeOK /\ ProcOK /\ SequenceOK /\ OperationOK /\ MainOK
    /\ GuardIsHealthy
    /\ Regular => RegularOK

----------------------------------------------------------------------------
(* Types *)

LEMMA ServiceTypes ==
    ASSUME UpdateInv,
           ServiceStep \/ RestoreFails \/ ReloadFails \/ SyncGivesUp \/ Heartbeat \/ HeartbeatFails \/ Crash
    PROVE  UpdateTypeOK'
<1> USE NoneAssumption DEF UpdateInv, UpdateTypeOK
<1>1. CASE ServiceStarts \/ GuardPasses \/ GuardRestores \/ RestoreNothing
  BY <1>1 DEF ServiceStarts, GuardPasses, GuardRestores, RestoreNothing, Restore, Step, Apart, At, files, outside, history
<1>2. CASE GuardCounts
  <2>1. guard \in Guards /\ guard.previous \in Versions /\ guard.attempts \in 0..3
    BY <1>2 DEF GuardCounts, Pending, Guards
  <2>2. CASE guard.attempts + 1 < maxAgentGuardStarts /\ ~guard.late
    <3>1. guard' \in Guards
      BY <1>2, <2>1, <2>2 DEF GuardCounts, writeAgentUpdateGuard, Guards, maxAgentGuardStarts
    <3> QED
      BY <1>2, <2>2, <3>1 DEF GuardCounts, writeAgentUpdateGuard, Step, Apart, At, history
  <2>3. CASE ~(guard.attempts + 1 < maxAgentGuardStarts /\ ~guard.late)
    BY <1>2, <2>1, <2>3 DEF GuardCounts, switchBinary, Restore, Step, Apart, At, history
  <2> QED
    BY <2>2, <2>3
<1>3. ASSUME NEW f \in ServiceFiles, RestoreFile(f) PROVE UpdateTypeOK'
  BY <1>3 DEF RestoreFile, writeServiceFile, Apart, history
<1>4. CASE RestoreReloads \/ RestoreClears
  BY <1>4 DEF RestoreReloads, RestoreClears, writeBackup, Step, Apart, At, files, history
<1>5. CASE GuardRollsBack
  <2>1. guard \in Guards
    BY <1>5 DEF GuardRollsBack, MainOK
  <2>2. guard' \in Guards
    BY <1>5, <2>1 DEF GuardRollsBack, writeAgentUpdateGuard, Guards
  <2> QED
    BY <1>5, <2>2 DEF GuardRollsBack, writeAgentUpdateGuard, Step, Apart, At, history
<1>6. CASE Boot
  BY <1>6 DEF Boot, At, files, outside, history
<1>7. CASE BootFails \/ RestoreFails \/ Crash
  BY <1>7, UpdateBounds
  DEF BootFails, RestoreFails, Crash, Exit, Down, OpsOff, Fault, files, outside, history
<1>8. CASE SyncUnchanged \/ SyncReloads
  BY <1>8 DEF SyncUnchanged, SyncReloads, SyncReturns, Step, Apart, At, files, history
<1>9. CASE SyncBegins
  BY <1>9 DEF SyncBegins, writeBackup, Apart, history
<1>10. ASSUME NEW f \in ServiceFiles, SyncWrites(f) PROVE UpdateTypeOK'
  <2>1. proc \in Versions
    BY <1>10 DEF SyncWrites, ProcOK, Stopped
  <2>2. units' \in [ServiceFiles -> Versions]
    BY <1>10, <2>1 DEF SyncWrites, writeServiceFile, Rendered
  <2> QED
    BY <1>10, <2>2 DEF SyncWrites, writeServiceFile, Apart, history
<1>11. ASSUME NEW f \in ServiceFiles, UndoWrites(f) PROVE UpdateTypeOK'
  <2>1. units' \in [ServiceFiles -> Versions]
    BY <1>11 DEF UndoWrites, writeServiceFile, MainOK
  <2> QED
    BY <1>11, <2>1 DEF UndoWrites, writeServiceFile, Apart, history
<1>12. CASE UndoReloads
  BY <1>12 DEF UndoReloads, SyncFails, EndCycle, Exit, Down, OpsOff, At, files, history
<1>13. CASE RefreshGuard
  BY <1>13 DEF RefreshGuard, Step, Apart, At, history
<1>14. CASE Confirm
  <2>1. guard \in Guards
    BY <1>14 DEF Confirm, MainOK, Pending
  <2>2. guard' \in Guards
    BY <1>14, <2>1 DEF Confirm, writeAgentUpdateGuard, Guards
  <2> QED
    BY <1>14, <2>2 DEF Confirm, writeAgentUpdateGuard, Step, Apart, At, history
<1>15. CASE ConfirmClears \/ ConfirmRemoves
  BY <1>15
  DEF ConfirmClears, ConfirmRemoves, writeBackup, writeAgentUpdateGuard, EndCycle, Step, Apart, At, outside, history
<1>16. CASE ReloadFails
  BY <1>16, UpdateBounds
  DEF ReloadFails, Fault, SyncFails, EndCycle, Exit, Down, OpsOff, At, files, outside, history
<1>17. CASE SyncGivesUp
  BY <1>17, UpdateBounds DEF SyncGivesUp, Fault, files, outside, history
<1>18. CASE Heartbeat \/ HeartbeatFails
  BY <1>18 DEF Heartbeat, HeartbeatThen, HeartbeatFails, EndCycle, At, files, outside, history
<1> QED
  BY <1>1, <1>2, <1>3, <1>4, <1>5, <1>6, <1>7, <1>8, <1>9, <1>10, <1>11, <1>12, <1>13, <1>14, <1>15, <1>16, <1>17,
     <1>18
  DEF ServiceStep

LEMMA OperationTypes ==
    ASSUME UpdateInv,
           \/ OperationStep \/ Lock \/ InstallFails \/ ForgetOperation \/ DeadlinePasses
           \/ \E cause \in {"cancelled", "lost"} : Interrupt(cause)
           \/ \E o \in Ops, v \in Versions : Create(o, v)
    PROVE  UpdateTypeOK'
<1> USE NoneAssumption DEF UpdateInv, UpdateTypeOK
<1>0. Working => checkpoint \in Checkpoints
  BY DEF SequenceOK
<1>1. ASSUME NEW o \in Ops, Claim(o) PROVE UpdateTypeOK'
  <2>1. Adopted(o) \in Checkpoints
    BY DEF Adopted, Checkpoints
  <2> QED
    BY <1>1, <2>1 DEF Claim, saveCheckpoint, Goto, Aside, outside, history
<1>2. CASE FindRolledBack
  BY <1>2 DEF FindRolledBack, writeAgentUpdateGuard, Finish, Aside, outside, history
<1>3. CASE FindSwitched
  <2>1. CASE Finish("failed") /\ UNCHANGED files
    BY <2>1 DEF Finish, Aside, files, outside, history
  <2>2. CASE saveCheckpoint([checkpoint EXCEPT !.switched = TRUE]) /\ Goto("confirmed")
    <3>1. checkpoint' \in Checkpoints
      BY <1>0, <1>3, <2>2 DEF FindSwitched, Working, saveCheckpoint, Checkpoints
    <3> QED
      BY <2>2, <3>1 DEF saveCheckpoint, Goto, Aside, outside, history
  <2> QED
    BY <1>3, <2>1, <2>2 DEF FindSwitched
<1>4. CASE ReportConfirmed \/ FindInstalled \/ StopEarly \/ Verify \/ Lock \/ InstallFails
  BY <1>4
  DEF ReportConfirmed, FindInstalled, StopEarly, Verify, Lock, InstallFails, Finish, Goto, Aside, files, outside,
      history
<1>5. CASE Download \/ MarkSwitched
  <2>1. checkpoint' \in Checkpoints
    BY <1>0, <1>5 DEF Download, MarkSwitched, Working, saveCheckpoint, Checkpoints
  <2> QED
    BY <1>5, <2>1 DEF Download, MarkSwitched, saveCheckpoint, Goto, Aside, outside, history
<1>6. CASE WriteGuard
  <2>1. checkpoint \in Checkpoints /\ checkpoint.op \in Ops
    BY <1>0, <1>6 DEF WriteGuard, Working, Checkpoints
  <2>2. guard' \in Guards
    BY <1>6, <2>1 DEF WriteGuard, writeAgentUpdateGuard, Guards
  <2> QED
    BY <1>6, <2>2 DEF WriteGuard, writeAgentUpdateGuard, outside
<1>7. CASE SwitchLink
  <2>1. checkpoint.op \in Ops
    BY <1>0, <1>7 DEF SwitchLink, Working, Checkpoints
  <2> QED
    BY <1>7, <2>1 DEF SwitchLink, switchBinary, Goto, Aside, outside, history
<1>8. CASE Restart
  BY <1>8 DEF Restart, Exit, Down, OpsOff, Finish, Aside, files, outside, history
<1>9. CASE Report
  <2>1. checkpoint.op \in Ops /\ ops.result \in {"succeeded", "failed"}
    BY <1>0, <1>9 DEF Report, Working, Checkpoints, OperationOK
  <2> QED
    BY <1>9, <2>1 DEF Report, saveCheckpoint
<1>10. CASE ForgetOperation
  BY <1>10 DEF ForgetOperation, saveCheckpoint, Aside, outside, history
<1>11. CASE DeadlinePasses
  <2>1. guard' \in Guards
    BY <1>11 DEF DeadlinePasses, Pending, writeAgentUpdateGuard, Guards
  <2> QED
    BY <1>11, <2>1 DEF DeadlinePasses, writeAgentUpdateGuard, Aside, outside, history
<1>12. ASSUME NEW cause \in {"cancelled", "lost"}, Interrupt(cause) PROVE UpdateTypeOK'
  BY <1>12 DEF Interrupt, files, outside, history
<1>13. ASSUME NEW o \in Ops, NEW v \in Versions, Create(o, v) PROVE UpdateTypeOK'
  BY <1>13 DEF Create, files, history
<1> QED
  BY <1>1, <1>2, <1>3, <1>4, <1>5, <1>6, <1>7, <1>8, <1>9, <1>10, <1>11, <1>12, <1>13 DEF OperationStep

----------------------------------------------------------------------------
(* Processes *)

LEMMA ProcStep ==
    ASSUME UpdateInv, UpdateNext
    PROVE  ProcOK'
<1> USE NoneAssumption DEF UpdateInv, UpdateTypeOK, ProcOK, Stopped, Installing
<1>1. CASE ServiceStarts \/ GuardPasses \/ GuardRestores \/ GuardCounts \/ RestoreNothing \/ RestoreReloads
           \/ RestoreClears \/ GuardRollsBack
  BY <1>1
  DEF ServiceStarts, GuardPasses, GuardRestores, GuardCounts, RestoreNothing, RestoreReloads, RestoreClears,
      GuardRollsBack, Restore, Step, Apart, At
<1>2. ASSUME NEW f \in ServiceFiles, RestoreFile(f) \/ SyncWrites(f) \/ UndoWrites(f) PROVE ProcOK'
  BY <1>2 DEF RestoreFile, SyncWrites, UndoWrites, Apart
<1>3. CASE Boot
  BY <1>3 DEF Boot, At
<1>4. CASE BootFails \/ RestoreFails \/ Crash
  BY <1>4 DEF BootFails, RestoreFails, Crash, Exit, Down, OpsOff
<1>5. CASE SyncUnchanged \/ SyncReloads \/ SyncBegins \/ RefreshGuard \/ Confirm \/ ConfirmClears
  BY <1>5
  DEF SyncUnchanged, SyncReloads, SyncBegins, RefreshGuard, Confirm, ConfirmClears, SyncReturns, Step, Apart, At
<1>6. CASE UndoReloads \/ ReloadFails
  BY <1>6 DEF UndoReloads, ReloadFails, SyncFails, EndCycle, Exit, Down, OpsOff, At
<1>7. CASE ConfirmRemoves \/ HeartbeatFails
  BY <1>7 DEF ConfirmRemoves, HeartbeatFails, EndCycle, At
<1>8. CASE Heartbeat
  BY <1>8 DEF Heartbeat, HeartbeatThen, EndCycle, At
<1>9. CASE SyncGivesUp
  BY <1>9 DEF SyncGivesUp
<1>10. CASE Restart
  BY <1>10 DEF Restart, Exit, Down, OpsOff, Finish, Aside
<1>11. CASE OperationStep /\ ~Restart
  BY <1>11
  DEF OperationStep, Claim, FindRolledBack, FindSwitched, ReportConfirmed, FindInstalled, StopEarly, Download,
      Verify, WriteGuard, SwitchLink, MarkSwitched, Report, Finish, Goto, Aside
<1>12. CASE Lock \/ InstallFails \/ ForgetOperation \/ DeadlinePasses
  BY <1>12 DEF Lock, InstallFails, ForgetOperation, DeadlinePasses, Finish, Goto, Aside
<1>13. ASSUME NEW cause \in {"cancelled", "lost"}, Interrupt(cause) PROVE ProcOK'
  BY <1>13 DEF Interrupt
<1>14. ASSUME NEW o \in Ops, NEW v \in Versions, Create(o, v) PROVE ProcOK'
  BY <1>14 DEF Create
<1> QED
  BY <1>1, <1>2, <1>3, <1>4, <1>5, <1>6, <1>7, <1>8, <1>9, <1>10, <1>11, <1>12, <1>13, <1>14
  DEF UpdateNext, ServiceStep

----------------------------------------------------------------------------
(* Operations *)

LEMMA SequenceStep ==
    ASSUME UpdateInv, UpdateNext
    PROVE  SequenceOK'
<1> USE NoneAssumption, UpdateBounds DEF UpdateInv, UpdateTypeOK, SequenceOK, Working
<1>1. CASE UNCHANGED <<outcome, checkpoint>> /\ (ops'.pc \in {"off", "idle"} \/ Working)
  BY <1>1
<1>2. CASE ServiceStep \/ RestoreFails \/ ReloadFails \/ SyncGivesUp \/ Heartbeat \/ HeartbeatFails \/ Crash
  <2>1. UNCHANGED <<outcome, checkpoint>>
    BY <1>2
    DEF ServiceStep, ServiceStarts, GuardPasses, GuardRestores, GuardCounts, RestoreNothing, RestoreFile,
        RestoreReloads, RestoreClears, GuardRollsBack, Boot, BootFails, SyncUnchanged, SyncBegins, SyncWrites,
        SyncReloads, UndoWrites, UndoReloads, RefreshGuard, Confirm, ConfirmClears, ConfirmRemoves, RestoreFails,
        ReloadFails, SyncGivesUp, Heartbeat, HeartbeatThen, HeartbeatFails, Crash, Restore, SyncReturns,
        writeAgentUpdateGuard, switchBinary, writeBackup, writeServiceFile, Step, Apart, files, outside
  <2>2. ops' = ops \/ ops'.pc \in {"off", "idle"}
    BY <1>2
    DEF ServiceStep, ServiceStarts, GuardPasses, GuardRestores, GuardCounts, RestoreNothing, RestoreFile,
        RestoreReloads, RestoreClears, GuardRollsBack, Boot, BootFails, SyncUnchanged, SyncBegins, SyncWrites,
        SyncReloads, UndoWrites, UndoReloads, RefreshGuard, Confirm, ConfirmClears, ConfirmRemoves, RestoreFails,
        ReloadFails, SyncGivesUp, Heartbeat, HeartbeatThen, HeartbeatFails, Crash, Restore, SyncReturns, SyncFails,
        Step, Apart, Exit, EndCycle, OpsOff
  <2> QED
    BY <1>1, <2>1, <2>2
<1>3. ASSUME NEW o \in Ops, Claim(o) PROVE SequenceOK'
  <2>0. Adopted(o) \in Checkpoints /\ Adopted(o).op = o
    BY DEF Adopted, Checkpoints
  <2>1. checkpoint' # None /\ checkpoint'.op = o /\ outcome[o] = "running" /\ UNCHANGED outcome
    BY <1>3, <2>0 DEF Claim, saveCheckpoint, Goto, Aside, outside
  <2> QED
    BY <2>1
<1>4. CASE FindRolledBack \/ ReportConfirmed \/ FindInstalled \/ StopEarly \/ Verify \/ Lock \/ InstallFails \/ Restart
           \/ WriteGuard \/ SwitchLink \/ DeadlinePasses
  <2>1. UNCHANGED <<outcome, checkpoint>>
    BY <1>4
    DEF FindRolledBack, ReportConfirmed, FindInstalled, StopEarly, Verify, Lock, InstallFails, Restart, WriteGuard,
        SwitchLink, DeadlinePasses, Finish, Goto, Aside, writeAgentUpdateGuard, switchBinary, files, outside
  <2>2. ops'.pc \in {"off", "idle"} \/ Working
    BY <1>4
    DEF FindRolledBack, ReportConfirmed, FindInstalled, StopEarly, Verify, Lock, InstallFails, Restart, WriteGuard,
        SwitchLink, DeadlinePasses, Finish, Goto, Aside, Exit, OpsOff
  <2> QED
    BY <1>1, <2>1, <2>2
<1>5. CASE FindSwitched \/ Download \/ MarkSwitched
  <2>1. checkpoint # None /\ checkpoint \in Checkpoints /\ UNCHANGED outcome
    BY <1>5 DEF FindSwitched, Download, MarkSwitched, Finish, Goto, Aside, outside
  <2>2. checkpoint' \in Checkpoints /\ checkpoint'.op = checkpoint.op
    BY <1>5, <2>1, ZenonT(60) DEF FindSwitched, Download, MarkSwitched, saveCheckpoint, Checkpoints, files
  <2> QED
    BY <2>1, <2>2
<1>6. CASE Report
  <2>1. /\ checkpoint \in Checkpoints /\ outcome[checkpoint.op] = "running" /\ ops.result \in {"succeeded", "failed"}
        /\ checkpoint.op \in Ops
    BY <1>6 DEF Report, OperationOK, Checkpoints
  <2>2. /\ checkpoint' = None /\ ops'.pc = "idle"
        /\ outcome' \in [Ops -> {"none", "running", "succeeded", "failed"}]
        /\ \A o \in Ops : outcome'[o] = "none" <=> outcome[o] = "none"
        /\ \A o \in Ops : outcome[o] \in {"succeeded", "failed"} => outcome'[o] = outcome[o]
    BY <1>6, <2>1 DEF Report, saveCheckpoint
  <2> QED
    BY <2>2
<1>7. CASE ForgetOperation
  BY <1>7 DEF ForgetOperation, saveCheckpoint, Aside, outside
<1>8. ASSUME NEW cause \in {"cancelled", "lost"}, Interrupt(cause) PROVE SequenceOK'
  BY <1>8 DEF Interrupt, files, outside
<1>9. ASSUME NEW o \in Ops, NEW v \in Versions, Create(o, v) PROVE SequenceOK'
  <2>1. /\ outcome[o] = "none" /\ outcome' = [outcome EXCEPT ![o] = "running"] /\ UNCHANGED <<checkpoint, ops>>
        /\ \A p \in Ops : p < o => outcome[p] \in {"succeeded", "failed"}
    BY <1>9 DEF Create, files
  <2>2. \A p \in Ops : p > o => outcome[p] = "none"
    BY <2>1 DEF Ops
  <2>3. \A q \in Ops : outcome'[q] # "none" => \A p \in Ops : p < q => outcome'[p] \in {"succeeded", "failed"}
    BY <2>1, <2>2 DEF Ops
  <2>4. checkpoint # None => checkpoint.op \in Ops /\ checkpoint.op # o
    BY <2>1 DEF Checkpoints
  <2> QED
    BY <2>1, <2>3, <2>4
<1> QED
  BY <1>2, <1>3, <1>4, <1>5, <1>6, <1>7, <1>8, <1>9 DEF UpdateNext, OperationStep

LEMMA OperationStepOK ==
    ASSUME UpdateInv, UpdateNext
    PROVE  OperationOK'
<1> USE NoneAssumption DEF UpdateInv, UpdateTypeOK, OperationOK, Working, Updates
<1>1. CASE ops'.pc \in {"off", "idle"}
  BY <1>1
<1>2. CASE UNCHANGED <<ops, proc, target, checkpoint, guard>>
  BY <1>2 DEF Pending, Expected
<1>3. CASE UNCHANGED <<ops, proc, target, checkpoint>> /\ Working
           /\ (Pending' /\ Expected' => Pending /\ Expected)
           /\ (ops.pc \in {"switch", "mark", "restart"} => Pending' /\ guard'.expected = guard.expected)
  BY <1>3
<1>4. CASE Stopped /\ UNCHANGED ops
  BY <1>1, <1>4 DEF ProcOK
<1>5. CASE ServiceStarts \/ GuardPasses \/ GuardRestores \/ GuardCounts \/ RestoreNothing \/ RestoreReloads
           \/ RestoreClears \/ GuardRollsBack \/ Boot
  BY <1>4, <1>5
  DEF ServiceStarts, GuardPasses, GuardRestores, GuardCounts, RestoreNothing, RestoreReloads, RestoreClears,
      GuardRollsBack, Boot, Restore, Step, Apart, Stopped
<1>6. ASSUME NEW f \in ServiceFiles, RestoreFile(f) \/ SyncWrites(f) \/ UndoWrites(f) PROVE OperationOK'
  BY <1>2, <1>6 DEF RestoreFile, SyncWrites, UndoWrites, Apart, writeServiceFile
<1>7. CASE BootFails \/ RestoreFails \/ Crash
  BY <1>1, <1>7 DEF BootFails, RestoreFails, Crash, Exit, OpsOff
<1>8. CASE SyncUnchanged \/ SyncReloads \/ SyncBegins \/ RefreshGuard \/ ConfirmClears
  BY <1>2, <1>8
  DEF SyncUnchanged, SyncReloads, SyncBegins, RefreshGuard, ConfirmClears, SyncReturns, Step, Apart, writeBackup,
      files
<1>9. CASE Confirm
  <2>1. Pending /\ Expected /\ UNCHANGED ops
    BY <1>9 DEF Confirm, MainOK, Step, Apart
  <2> QED
    BY <1>1, <2>1
<1>10. CASE ReloadFails \/ UndoReloads \/ HeartbeatFails \/ Heartbeat
  <2>1. ops'.pc \in {"off", "idle"} \/ UNCHANGED <<ops, proc>>
    BY <1>10 DEF ReloadFails, UndoReloads, HeartbeatFails, Heartbeat, HeartbeatThen, SyncFails, Exit, EndCycle, OpsOff
  <2>2. UNCHANGED <<target, checkpoint, guard>>
    BY <1>10 DEF ReloadFails, UndoReloads, HeartbeatFails, Heartbeat, HeartbeatThen, files, outside
  <2> QED
    BY <1>1, <1>2, <2>1, <2>2
<1>11. CASE ConfirmRemoves
  <2>1. /\ ops'.pc = "idle" \/ UNCHANGED <<ops, proc>>
        /\ UNCHANGED <<target, checkpoint>> /\ guard' = None /\ main.pc = "remove"
    BY <1>11 DEF ConfirmRemoves, EndCycle, writeAgentUpdateGuard, outside
  <2>2. ~Pending' /\ ops.pc \notin {"switch", "mark", "restart"}
    BY <2>1 DEF Pending, ProcOK, Installing
  <2> QED
    BY <1>1, <1>3, <2>1, <2>2
<1>12. CASE SyncGivesUp
  BY <1>2, <1>12 DEF SyncGivesUp, files, outside
<1>13. ASSUME NEW o \in Ops, Claim(o) PROVE OperationOK'
  BY <1>13 DEF Claim, saveCheckpoint, Goto, Aside, Pending, Expected
<1>14. CASE FindRolledBack
  BY <1>14 DEF FindRolledBack, writeAgentUpdateGuard, Finish, Aside, Pending
<1>15. CASE FindSwitched
  <2>1. checkpoint \in Checkpoints /\ ops.pc = "begin" /\ UNCHANGED <<proc, target, guard>> /\ ~(Pending /\ Expected)
    BY <1>15 DEF FindSwitched, SequenceOK, Finish, Goto, Aside, outside, files, saveCheckpoint
  <2>2. CASE Finish("failed") /\ UNCHANGED files
    BY <2>1, <2>2 DEF Finish, Pending, Expected
  <2>3. CASE ~(proc # target[checkpoint.op] \/ Pending)
    <3>1. checkpoint'.op = checkpoint.op /\ ops'.pc = "confirmed" /\ proc = target[checkpoint.op]
      BY <1>15, <2>1, <2>3 DEF FindSwitched, saveCheckpoint, Checkpoints, Goto
    <3> QED
      BY <2>1, <3>1 DEF Pending, Expected
  <2> QED
    BY <1>15, <2>2, <2>3 DEF FindSwitched
<1>16. CASE ReportConfirmed \/ FindInstalled \/ StopEarly \/ Verify \/ Lock \/ InstallFails
  <2>1. UNCHANGED <<proc, target, checkpoint, guard>> /\ Working
    BY <1>16
    DEF ReportConfirmed, FindInstalled, StopEarly, Verify, Lock, InstallFails, Finish, Goto, Aside, files, outside
  <2> QED
    BY <1>16, <2>1
    DEF ReportConfirmed, FindInstalled, StopEarly, Verify, Lock, InstallFails, Finish, Goto, Pending, Expected
<1>17. CASE Download \/ MarkSwitched
  <2>1. checkpoint \in Checkpoints /\ ops.pc \in {"download", "mark"} /\ UNCHANGED <<proc, target, guard>>
    BY <1>17 DEF Download, MarkSwitched, SequenceOK, Goto, Aside, outside, saveCheckpoint
  <2>2. checkpoint'.op = checkpoint.op /\ ops'.pc = IF ops.pc = "download" THEN "verify" ELSE "restart"
    BY <1>17, <2>1 DEF Download, MarkSwitched, saveCheckpoint, Checkpoints, Goto
  <2> QED
    BY <2>1, <2>2 DEF Pending, Expected
<1>18. CASE WriteGuard
  <2>1. /\ ops.pc = "guard" /\ ops'.pc = "switch" /\ UNCHANGED <<proc, target, checkpoint>>
        /\ guard'.expected = target[checkpoint.op] /\ guard'.status = "pending"
    BY <1>18 DEF WriteGuard, writeAgentUpdateGuard, outside
  <2>2. guard' # None
    <3>1. checkpoint \in Checkpoints
      BY <2>1 DEF SequenceOK
    <3>2. guard' \in Guards
      BY <1>18, <3>1 DEF WriteGuard, writeAgentUpdateGuard, Guards, Checkpoints
    <3> QED
      BY <3>2
  <2> QED
    BY <2>1, <2>2 DEF Pending, Expected
<1>19. CASE SwitchLink
  BY <1>19 DEF SwitchLink, switchBinary, Goto, Aside, outside, Pending, Expected
<1>20. CASE Restart
  BY <1>1, <1>20 DEF Restart, Exit, OpsOff, Finish, Aside, files, outside, Pending, Expected
<1>21. CASE Report
  BY <1>1, <1>21 DEF Report
<1>22. CASE ForgetOperation
  BY <1>1, <1>22 DEF ForgetOperation
<1>23. CASE DeadlinePasses
  <2>1. UNCHANGED <<ops, proc, target, checkpoint>>
    BY <1>23 DEF DeadlinePasses, writeAgentUpdateGuard, Aside, outside
  <2>2. Pending /\ guard' \in Guards /\ guard'.expected = guard.expected /\ guard'.status = "pending"
    BY <1>23 DEF DeadlinePasses, writeAgentUpdateGuard, Guards, Pending
  <2>3. CASE Working
    BY <1>3, <2>1, <2>2, <2>3 DEF Pending, Expected
  <2> QED
    BY <1>1, <2>1, <2>3
<1>24. ASSUME NEW cause \in {"cancelled", "lost"}, Interrupt(cause) PROVE OperationOK'
  BY <1>2, <1>24 DEF Interrupt, files, outside
<1>25. ASSUME NEW o \in Ops, NEW v \in Versions, Create(o, v) PROVE OperationOK'
  <2>1. UNCHANGED <<ops, proc, checkpoint, guard>> /\ target' = [target EXCEPT ![o] = v] /\ outcome[o] = "none"
    BY <1>25 DEF Create, files
  <2>2. Working => target'[checkpoint.op] = target[checkpoint.op]
    BY <2>1 DEF SequenceOK, Checkpoints
  <2> QED
    BY <1>1, <2>1, <2>2 DEF Pending, Expected
<1> QED
  BY <1>5, <1>6, <1>7, <1>8, <1>9, <1>10, <1>11, <1>12, <1>13, <1>14, <1>15, <1>16, <1>17, <1>18, <1>19, <1>20,
     <1>21, <1>22, <1>23, <1>24, <1>25
  DEF UpdateNext, ServiceStep, OperationStep

----------------------------------------------------------------------------
(* The main goroutine *)

LEMMA MainStep ==
    ASSUME UpdateInv, UpdateNext
    PROVE  MainOK' /\ GuardIsHealthy'
<1> USE NoneAssumption DEF UpdateInv, UpdateTypeOK, MainOK, GuardIsHealthy
<1>0. guard # None => guard \in Guards /\ guard.expected \in Versions /\ guard.previous \in Versions
  BY DEF Guards
<1>1. CASE UNCHANGED <<main, guard, link, proc, guardBin>>
  BY <1>1 DEF Pending, Expected
<1>2. CASE UNCHANGED guardBin /\ main'.pc \in {"down", "guard", "boot", "poll"}
           /\ (Pending' /\ Expected' => link' = proc')
  BY <1>2
<1>3. CASE ServiceStarts \/ GuardPasses
  <2>1. proc' = None /\ UNCHANGED <<guardBin, guard>> /\ main'.pc \in {"guard", "boot"}
    BY <1>3 DEF ServiceStarts, GuardPasses, Step, Apart, At, ProcOK, Stopped, files
  <2> QED
    BY <1>0, <1>2, <2>1 DEF Expected
<1>4. CASE GuardRestores
  <2>1. /\ UNCHANGED <<guardBin, guard, link, proc>> /\ main'.pc \in {"restore", "rolledBack"} /\ proc = None
        /\ guard # None /\ guard.status # "confirmed" /\ (guard.status = "pending" => link = guard.previous)
    BY <1>4 DEF GuardRestores, Restore, Step, Apart, At, ProcOK, Stopped, files
  <2> QED
    BY <1>0, <2>1 DEF Expected, Pending
<1>5. CASE GuardCounts
  <2>1. proc' = None /\ proc = None /\ UNCHANGED guardBin /\ Pending
    BY <1>5 DEF GuardCounts, Restore, Step, Apart, ProcOK, Stopped, writeAgentUpdateGuard, switchBinary
  <2>2. CASE guard.attempts + 1 < maxAgentGuardStarts /\ ~guard.late
    <3>1. guard'.expected \in Versions /\ main'.pc = "boot"
      BY <1>0, <1>5, <2>1, <2>2 DEF GuardCounts, writeAgentUpdateGuard, Step, At, Pending, Guards
    <3> QED
      BY <1>2, <2>1, <3>1 DEF Expected
  <2>3. CASE ~(guard.attempts + 1 < maxAgentGuardStarts /\ ~guard.late)
    <3>1. UNCHANGED guard /\ link' = guard.previous /\ main'.pc \in {"restore", "rolledBack"}
      BY <1>5, <2>3 DEF GuardCounts, switchBinary, Restore, Step, At
    <3> QED
      BY <1>0, <2>1, <3>1 DEF Expected, Pending
  <2> QED
    BY <2>2, <2>3
<1>6. CASE RestoreNothing \/ RestoreReloads \/ RestoreClears
  <2>1. /\ UNCHANGED <<guardBin, guard, link, proc>> /\ main.pc \in {"restore", "restored"}
        /\ main'.pc \in {"restored", "rolledBack"}
    BY <1>6 DEF RestoreNothing, RestoreReloads, RestoreClears, Step, Apart, At, files, writeBackup
  <2> QED
    BY <2>1 DEF Pending, Expected
<1>7. ASSUME NEW f \in ServiceFiles, RestoreFile(f) \/ SyncWrites(f) \/ UndoWrites(f) PROVE MainOK' /\ GuardIsHealthy'
  BY <1>1, <1>7 DEF RestoreFile, SyncWrites, UndoWrites, Apart, writeServiceFile
<1>8. CASE GuardRollsBack
  <2>1. UNCHANGED guardBin /\ main'.pc = "boot" /\ guard'.status = "rolled_back"
    BY <1>0, <1>8 DEF GuardRollsBack, Step, At, writeAgentUpdateGuard, Guards
  <2> QED
    BY <1>2, <2>1 DEF Pending
<1>9. CASE Boot
  <2>1. UNCHANGED <<guardBin, guard, link>> /\ proc' = link /\ main'.pc = IF Pending THEN "poll" ELSE "sync"
    BY <1>9 DEF Boot, At, files
  <2> QED
    BY <2>1 DEF Pending, Expected
<1>10. CASE BootFails \/ RestoreFails \/ Crash
  <2>1. UNCHANGED <<guardBin, guard>> /\ proc' = None /\ main'.pc = "down"
    BY <1>10 DEF BootFails, RestoreFails, Crash, Exit, Down, files
  <2> QED
    BY <1>0, <1>2, <2>1 DEF Expected
<1>11. CASE SyncUnchanged \/ SyncReloads
  <2>1. /\ UNCHANGED <<guardBin, guard, link, proc>> /\ main.pc \in {"sync", "write"}
        /\ main'.pc = IF Pending THEN "confirm" ELSE "poll"
    BY <1>11 DEF SyncUnchanged, SyncReloads, SyncReturns, Step, Apart, At, files
  <2> QED
    BY <2>1 DEF Pending, Expected
<1>12. CASE SyncBegins
  <2>1. /\ UNCHANGED <<guardBin, guard, link, proc>> /\ main.pc = "sync"
        /\ main'.pc = "write" /\ main'.prev = units
    BY <1>12 DEF SyncBegins, Apart, writeBackup
  <2> QED
    BY <2>1 DEF Pending, Expected
<1>13. CASE UndoReloads \/ ReloadFails
  <2>1. UNCHANGED <<guardBin, guard, link>>
    BY <1>13 DEF UndoReloads, ReloadFails, files
  <2>2. (main'.pc = "poll" /\ UNCHANGED proc) \/ (main'.pc = "down" /\ proc' = None)
    BY <1>13 DEF UndoReloads, ReloadFails, SyncFails, EndCycle, Exit, Down, At
  <2> QED
    BY <1>0, <1>2, <2>1, <2>2 DEF Pending, Expected
<1>14. CASE RefreshGuard
  <2>1. /\ UNCHANGED <<guard, link, proc>> /\ main.pc = "refresh" /\ main'.pc = "sync" /\ guardBin' = link
        /\ Pending /\ Expected /\ link = proc
    BY <1>14 DEF RefreshGuard, Step, Apart, At
  <2>2. link \notin Broken
    BY <1>0, <2>1 DEF ProcOK, Stopped
  <2> QED
    BY <2>1, <2>2 DEF Pending, Expected
<1>15. CASE Confirm
  <2>1. UNCHANGED guardBin /\ main.pc = "confirm" /\ main'.pc = "clear" /\ guard' \in Guards /\ guard'.status = "confirmed"
    BY <1>0, <1>15 DEF Confirm, Step, At, writeAgentUpdateGuard, Guards, Pending
  <2> QED
    BY <2>1 DEF Pending
<1>16. CASE ConfirmClears
  <2>1. UNCHANGED <<guardBin, guard, link, proc>> /\ main.pc = "clear" /\ main'.pc = "remove"
    BY <1>16 DEF ConfirmClears, Step, Apart, At, writeBackup
  <2> QED
    BY <2>1 DEF Pending, Expected
<1>17. CASE ConfirmRemoves
  <2>1. UNCHANGED guardBin /\ main'.pc = "poll" /\ guard' = None
    BY <1>17 DEF ConfirmRemoves, EndCycle, At, writeAgentUpdateGuard
  <2> QED
    BY <1>2, <2>1 DEF Pending
<1>18. CASE SyncGivesUp
  <2>1. /\ UNCHANGED <<guardBin, guard, link, proc>> /\ main.pc = "write"
        /\ main'.pc = "undo" /\ main'.prev = main.prev
    BY <1>18 DEF SyncGivesUp, files
  <2> QED
    BY <2>1 DEF Pending, Expected
<1>19. CASE HeartbeatFails
  <2>1. UNCHANGED <<guardBin, guard, link, proc>> /\ main'.pc = "poll"
    BY <1>19 DEF HeartbeatFails, EndCycle, At, files
  <2> QED
    BY <1>2, <2>1 DEF Pending, Expected
<1>20. CASE Heartbeat
  <2>1. UNCHANGED <<guardBin, guard, link, proc>>
    BY <1>20 DEF Heartbeat, HeartbeatThen, EndCycle, files
  <2>2. CASE Expected /\ guard.status # "rolled_back"
    <3>1. main'.pc = IF guard.status = "pending" THEN "refresh" ELSE "clear"
      BY <1>20, <2>2 DEF Heartbeat, HeartbeatThen, At
    <3>2. guard # None /\ guard.status \in {"pending", "confirmed"}
      BY <1>0, <2>2 DEF Expected, Guards
    <3> QED
      BY <2>1, <2>2, <3>1, <3>2 DEF Pending, Expected
  <2>3. CASE ~(Expected /\ guard.status # "rolled_back")
    <3>1. main'.pc = "poll"
      BY <1>20, <2>3 DEF Heartbeat, HeartbeatThen, EndCycle, At
    <3> QED
      BY <1>2, <2>1, <3>1 DEF Pending, Expected
  <2> QED
    BY <2>2, <2>3
<1>21. CASE FindRolledBack
  <2>1. guard' = None /\ UNCHANGED <<guardBin, main>> /\ guard # None /\ guard.status = "rolled_back" /\ ops.pc = "begin"
    BY <1>21 DEF FindRolledBack, Reverted, writeAgentUpdateGuard, Finish, Aside
  <2>2. ~Stopped
    BY <2>1 DEF ProcOK
  <2> QED
    BY <2>1, <2>2 DEF Pending, Stopped
<1>22. CASE WriteGuard
  <2>1. /\ UNCHANGED <<guardBin, main, link, proc>> /\ main.pc = "poll" /\ proc # target[checkpoint.op]
        /\ guard'.expected = target[checkpoint.op]
    BY <1>22 DEF WriteGuard, writeAgentUpdateGuard, ProcOK, Installing, OperationOK, Updates
  <2> QED
    BY <1>2, <2>1 DEF Expected
<1>23. CASE SwitchLink
  <2>1. UNCHANGED <<guardBin, main, guard, proc>> /\ main.pc = "poll" /\ ~(Pending /\ Expected)
    BY <1>23 DEF SwitchLink, switchBinary, Goto, Aside, ProcOK, Installing, OperationOK, Working
  <2> QED
    BY <1>2, <2>1 DEF Pending, Expected
<1>24. CASE Restart
  <2>1. CASE Exit
    BY <1>0, <1>2, <1>24, <2>1 DEF Restart, Exit, Down, files, Expected
  <2>2. CASE ~Exit
    BY <1>1, <1>24, <2>2 DEF Restart, Finish, Aside, files
  <2> QED
    BY <2>1, <2>2
<1>25. CASE DeadlinePasses
  <2>1. /\ UNCHANGED <<guardBin, main, link, proc>> /\ Pending /\ guard' \in Guards /\ guard'.status = "pending"
        /\ guard'.expected = guard.expected /\ guard'.previous = guard.previous
    BY <1>0, <1>25 DEF DeadlinePasses, writeAgentUpdateGuard, Aside, Guards, Pending
  <2> QED
    BY <2>1 DEF Pending, Expected
<1>26. CASE \/ \E o \in Ops : Claim(o)
            \/ FindSwitched \/ ReportConfirmed \/ FindInstalled \/ StopEarly \/ Download \/ Verify \/ MarkSwitched
            \/ Report \/ Lock \/ InstallFails \/ ForgetOperation
            \/ \E cause \in {"cancelled", "lost"} : Interrupt(cause)
            \/ \E o \in Ops, v \in Versions : Create(o, v)
  BY <1>1, <1>26
  DEF Claim, FindSwitched, ReportConfirmed, FindInstalled, StopEarly, Download, Verify, MarkSwitched, Report, Lock,
      InstallFails, ForgetOperation, Interrupt, Create, Finish, Goto, Aside, saveCheckpoint, files
<1> QED
  BY <1>3, <1>4, <1>5, <1>6, <1>7, <1>8, <1>9, <1>10, <1>11, <1>12, <1>13, <1>14, <1>15, <1>16, <1>17, <1>18,
     <1>19, <1>20, <1>21, <1>22, <1>23, <1>24, <1>25, <1>26
  DEF UpdateNext, ServiceStep, OperationStep

----------------------------------------------------------------------------
(* Regular updates *)

(* What was regular stays to be seen as regular.                           *)
LEMMA RegularBefore ==
    ASSUME UpdateInv, UpdateNext, Regular'
    PROVE  Regular
<1>1. CASE UNCHANGED history
  BY <1>1 DEF Regular, history
<1>2. CASE WriteGuard \/ Report
  <2>1. /\ leftover' = leftover \/ leftover' = (leftover \/ backup # None)
        /\ strayed' = strayed \/ strayed' = (strayed \/ link # proc)
    BY <1>2 DEF WriteGuard, Report
  <2>2. ~leftover' /\ ~strayed'
    BY DEF Regular
  <2>3. ~leftover
    <3>1. CASE leftover' = leftover
      BY <2>2, <3>1
    <3>2. CASE leftover' = (leftover \/ backup # None)
      BY <2>2, <3>2
    <3> QED
      BY <2>1, <3>1, <3>2
  <2>4. ~strayed
    <3>1. CASE strayed' = strayed
      BY <2>2, <3>1
    <3>2. CASE strayed' = (strayed \/ link # proc)
      BY <2>2, <3>2
    <3> QED
      BY <2>1, <3>1, <3>2
  <2> QED
    BY <2>3, <2>4 DEF Regular
<1> QED
  BY <1>1, <1>2
  DEF UpdateNext, ServiceStep, OperationStep,
      ServiceStarts, GuardPasses, GuardRestores, GuardCounts, RestoreNothing, RestoreFile,
      RestoreReloads, RestoreClears, GuardRollsBack, Boot, BootFails, SyncUnchanged, SyncBegins, SyncWrites,
      SyncReloads, UndoWrites, UndoReloads, RefreshGuard, Confirm, ConfirmClears, ConfirmRemoves, RestoreFails,
      ReloadFails, SyncGivesUp, Heartbeat, HeartbeatThen, HeartbeatFails, Crash, Restore, SyncReturns,
      Claim, FindRolledBack, FindSwitched, ReportConfirmed, FindInstalled, StopEarly, Download, Verify, SwitchLink,
      MarkSwitched, Restart, Lock, InstallFails, ForgetOperation, DeadlinePasses, Interrupt, Create,
      Step, Apart, Finish, Goto, Aside

(* A step that writes no file the guard or the migration looks at.         *)
Unwritten == UNCHANGED <<link, guard, units, backup, guardBin, loaded, origin, outcome, target>>
LEMMA UnwrittenFiles ==
    ASSUME RegularOK, Unwritten, proc' # None => proc' = proc
    PROVE  FilesOK' /\ SuccessOK'
BY DEF RegularOK, Unwritten, FilesOK, SuccessOK, PendingFiles, SettledFiles, Pending, Latest, Rendered

(* The guard, before the agent runs.                                       *)
LEMMA GuardRegular ==
    ASSUME UpdateInv, RegularOK, ProcOK',
           \/ ServiceStarts \/ GuardPasses \/ GuardRestores \/ GuardCounts \/ RestoreNothing
           \/ \E f \in ServiceFiles : RestoreFile(f)
           \/ RestoreReloads \/ RestoreClears \/ GuardRollsBack
    PROVE  RegularOK'
<1> USE NoneAssumption DEF UpdateInv, UpdateTypeOK
<1>0. guard # None => guard \in Guards /\ guard.expected \in Versions /\ guard.previous \in Versions
  BY DEF Guards
<1>1. proc = None /\ proc' = None /\ UNCHANGED <<ops, target, outcome, origin>> /\ LinkOK'
  BY DEF ServiceStarts, GuardPasses, GuardRestores, GuardCounts, RestoreNothing, RestoreFile, RestoreReloads,
         RestoreClears, GuardRollsBack, Restore, Step, Apart, ProcOK, Stopped, history, LinkOK
<1>2. CASE ServiceStarts \/ GuardPasses
  <2>1. Unwritten /\ main'.pc \in {"guard", "boot"} /\ (main'.pc = "boot" => ~Pending')
    BY <1>1, <1>2 DEF ServiceStarts, GuardPasses, Step, At, Unwritten, files, Pending
  <2> QED
    BY <1>1, <2>1, UnwrittenFiles DEF RegularOK, StageOK
<1>3. CASE GuardRestores
  <2>1. Unwritten /\ main'.pc = (IF guardBin = LegacyGuard THEN "rolledBack" ELSE "restore")
        /\ guard # None /\ guard.status # "confirmed"
    BY <1>1, <1>3 DEF GuardRestores, Restore, Step, At, Unwritten, files
  <2>2. guardBin = LegacyGuard => backup = None
    BY <2>1 DEF RegularOK, FilesOK, PendingFiles, SettledFiles
  <2>3. StageOK'
    BY <2>1, <2>2 DEF StageOK, Unwritten
  <2> QED
    BY <1>1, <2>1, <2>3, UnwrittenFiles DEF RegularOK
<1>4. CASE GuardCounts
  <2>1. Pending /\ link # guard.previous /\ UNCHANGED <<units, backup, guardBin, loaded>> /\ PendingFiles
    BY <1>4 DEF GuardCounts, writeAgentUpdateGuard, switchBinary, RegularOK, FilesOK
  <2>2. \A o \in Ops : ~(outcome[o] = "succeeded" /\ Latest(o))
    BY <2>1 DEF RegularOK, SuccessOK
  <2>3. SuccessOK'
    BY <1>1, <2>2 DEF SuccessOK, Latest
  <2>4. CASE guard.attempts + 1 < maxAgentGuardStarts /\ ~guard.late
    <3>1. /\ UNCHANGED link /\ main'.pc = "boot" /\ guard' # None /\ guard'.status = "pending"
          /\ guard'.expected = guard.expected /\ guard'.previous = guard.previous
      <4>1. guard \in Guards /\ guard.status = "pending" /\ guard.attempts \in 0..3
        BY <1>0, <2>1 DEF Pending, Guards
      <4>2. /\ UNCHANGED link /\ main'.pc = "boot" /\ guard' = [guard EXCEPT !.attempts = guard.attempts + 1]
        BY <1>4, <2>4 DEF GuardCounts, writeAgentUpdateGuard, Step, At
      <4>3. guard' \in Guards
        BY <2>4, <4>1, <4>2 DEF Guards, maxAgentGuardStarts
      <4> QED
        BY <4>1, <4>2, <4>3 DEF Guards
    <3>2. FilesOK'
      BY <1>1, <2>1, <3>1 DEF FilesOK, PendingFiles, Pending, Rendered
    <3>3. StageOK'
      BY <2>1, <3>1 DEF StageOK
    <3> QED
      BY <1>1, <2>3, <3>2, <3>3 DEF RegularOK
  <2>5. CASE ~(guard.attempts + 1 < maxAgentGuardStarts /\ ~guard.late)
    <3>1. /\ UNCHANGED guard /\ link' = guard.previous
          /\ main'.pc = (IF guardBin = LegacyGuard THEN "rolledBack" ELSE "restore")
      BY <1>4, <2>5 DEF GuardCounts, switchBinary, Restore, Step, At
    <3>2. FilesOK'
      BY <1>1, <2>1, <3>1 DEF FilesOK, PendingFiles, Pending, Rendered
    <3>3. StageOK'
      BY <2>1, <3>1 DEF StageOK, PendingFiles
    <3> QED
      BY <1>1, <2>3, <3>2, <3>3 DEF RegularOK
  <2> QED
    BY <2>4, <2>5
<1>5. CASE RestoreNothing
  <2>1. Unwritten /\ main'.pc = "rolledBack" /\ backup = None
    BY <1>1, <1>5 DEF RestoreNothing, Step, At, Unwritten, files
  <2>2. StageOK'
    BY <2>1 DEF StageOK, Unwritten
  <2> QED
    BY <1>1, <2>1, <2>2, UnwrittenFiles DEF RegularOK
<1>6. main.pc \in {"restore", "restored"} /\ backup # None => Pending /\ PendingFiles /\ link = guard.previous
  BY DEF MainOK, RegularOK, FilesOK, SettledFiles
<1>7. ASSUME NEW f \in ServiceFiles, RestoreFile(f) PROVE RegularOK'
  <2>1. /\ main.pc = "restore" /\ backup # None /\ UNCHANGED <<main, link, guard, guardBin, backup, loaded>>
    BY <1>7 DEF RestoreFile, writeServiceFile, Apart
  <2>2. FilesOK'
    BY <1>1, <1>6, <2>1 DEF FilesOK, PendingFiles, Pending, Rendered
  <2>3. SuccessOK'
    BY <1>1, <2>1 DEF RegularOK, SuccessOK, Latest, Pending
  <2>4. StageOK'
    BY <2>1 DEF StageOK
  <2> QED
    BY <1>1, <2>2, <2>3, <2>4 DEF RegularOK
<1>8. CASE RestoreReloads
  <2>1. /\ main.pc = "restore" /\ units = backup /\ main'.pc = "restored" /\ loaded' = units
        /\ UNCHANGED <<link, guard, guardBin, backup, units>>
    BY <1>8 DEF RestoreReloads, Step, At, files
  <2>2. backup # None
    BY <2>1
  <2>3. FilesOK'
    BY <1>1, <1>6, <2>1, <2>2 DEF FilesOK, PendingFiles, Pending, Rendered
  <2>4. SuccessOK'
    BY <1>1, <2>1 DEF RegularOK, SuccessOK, Latest, Pending
  <2>5. StageOK'
    BY <1>6, <2>1, <2>2 DEF StageOK, Pending
  <2> QED
    BY <1>1, <2>3, <2>4, <2>5 DEF RegularOK
<1>9. CASE RestoreClears
  <2>1. /\ main.pc = "restored" /\ backup' = None /\ main'.pc = "rolledBack"
        /\ UNCHANGED <<link, guard, guardBin, units, loaded>>
    BY <1>9 DEF RestoreClears, writeBackup, Step, At
  <2>2. Pending /\ PendingFiles /\ backup # None /\ units = backup /\ loaded = units
    BY <2>1 DEF RegularOK, StageOK, FilesOK
  <2>3. FilesOK'
    BY <1>1, <2>1, <2>2 DEF FilesOK, PendingFiles, Pending, Rendered
  <2>4. SuccessOK'
    BY <1>1, <2>1 DEF RegularOK, SuccessOK, Latest, Pending
  <2>5. StageOK'
    BY <2>1 DEF StageOK
  <2> QED
    BY <1>1, <2>3, <2>4, <2>5 DEF RegularOK
<1>10. CASE GuardRollsBack
  <2>1. /\ main.pc = "rolledBack" /\ main'.pc = "boot" /\ UNCHANGED <<link, guardBin, units, backup, loaded>>
        /\ guard # None /\ guard.status # "confirmed" /\ guard' = [guard EXCEPT !.status = "rolled_back"]
    BY <1>10 DEF GuardRollsBack, writeAgentUpdateGuard, Step, At, MainOK
  <2>2. guard' \in Guards /\ guard'.status = "rolled_back"
    BY <1>0, <2>1 DEF Guards
  <2>3. backup = None
    BY <2>1 DEF RegularOK, StageOK
  <2>4. units = Rendered(link) /\ loaded = units
    <3>1. CASE Pending
      BY <2>1, <2>3, <3>1 DEF MainOK, RegularOK, FilesOK, PendingFiles
    <3>2. CASE ~Pending
      BY <3>2 DEF RegularOK, FilesOK, SettledFiles
    <3> QED
      BY <3>1, <3>2
  <2>5. FilesOK'
    BY <2>1, <2>2, <2>3, <2>4 DEF FilesOK, SettledFiles, Pending, Rendered
  <2>6. SuccessOK'
    BY <1>1, <2>1, <2>2 DEF RegularOK, SuccessOK, Latest, Pending
  <2>7. StageOK'
    BY <2>1, <2>2 DEF StageOK, Pending
  <2> QED
    BY <1>1, <2>5, <2>6, <2>7 DEF RegularOK
<1> QED
  BY <1>2, <1>3, <1>4, <1>5, <1>7, <1>8, <1>9, <1>10

(* The main goroutine of the agent.                                        *)
LEMMA MainRegular ==
    ASSUME UpdateInv, RegularOK, ProcOK', MainOK',
           \/ Boot \/ BootFails \/ Crash \/ RestoreFails \/ ReloadFails \/ SyncGivesUp \/ Heartbeat \/ HeartbeatFails
           \/ SyncUnchanged \/ SyncBegins \/ SyncReloads \/ UndoReloads \/ RefreshGuard
           \/ \E f \in ServiceFiles : SyncWrites(f) \/ UndoWrites(f)
           \/ Confirm \/ ConfirmClears \/ ConfirmRemoves
    PROVE  RegularOK'
<1> USE NoneAssumption DEF UpdateInv, UpdateTypeOK
<1>0. /\ guard # None => guard \in Guards /\ guard.expected \in Versions /\ guard.previous \in Versions
      /\ proc # None => proc \in Versions
  BY DEF Guards
<1>1. CASE Boot
  <2>1. /\ Unwritten /\ proc' = link /\ main.pc = "boot" /\ main'.pc = IF Pending THEN "poll" ELSE "sync"
    BY <1>1 DEF Boot, At, Unwritten, files, outside, history
  <2>2. Pending => link # guard.previous
    BY <2>1 DEF RegularOK, StageOK
  <2>3. FilesOK'
    BY <2>1, <2>2 DEF RegularOK, Unwritten, FilesOK, PendingFiles, SettledFiles, Pending, Rendered
  <2>4. SuccessOK'
    BY <2>1 DEF RegularOK, Unwritten, SuccessOK, Pending, Latest
  <2>5. LinkOK' /\ StageOK'
    BY <2>1 DEF LinkOK, StageOK, Unwritten, Pending
  <2> QED
    BY <2>3, <2>4, <2>5 DEF RegularOK
<1>2. CASE Exit /\ Unwritten
  <2>1. proc' = None /\ main'.pc = "down"
    BY <1>2 DEF Exit, Down
  <2> QED
    BY <1>2, <2>1, UnwrittenFiles DEF RegularOK, LinkOK, StageOK
<1>3. CASE BootFails \/ Crash \/ RestoreFails
  BY <1>2, <1>3 DEF BootFails, Crash, RestoreFails, Unwritten, files, outside, history
<1>4. CASE /\ main'.pc \in {"poll", "refresh", "clear"} /\ UNCHANGED proc
           /\ ops' = ops \/ (ops.pc = "off" /\ ops'.pc = "idle")
           /\ UNCHANGED <<link, guard, backup, guardBin, units, origin, outcome, target>>
           /\ loaded' = loaded \/ (Pending /\ backup # None)
  <2>1. FilesOK'
    BY <1>4 DEF RegularOK, FilesOK, PendingFiles, SettledFiles, Pending, Rendered
  <2>2. SuccessOK'
    BY <1>4 DEF RegularOK, SuccessOK, Pending, Latest
  <2>3. LinkOK' /\ StageOK'
    BY <1>4 DEF RegularOK, LinkOK, StageOK, Pending
  <2> QED
    BY <2>1, <2>2, <2>3 DEF RegularOK
<1>5. CASE ReloadFails \/ UndoReloads
  <2>1. UNCHANGED <<link, guard, backup, guardBin, units, origin, outcome, target>>
    BY <1>5 DEF ReloadFails, UndoReloads, files, outside, history
  <2>2. CASE Pending
    <3>1. main'.pc = "poll" /\ UNCHANGED proc /\ (ops' = ops \/ (ops.pc = "off" /\ ops'.pc = "idle"))
      BY <1>5, <2>2 DEF ReloadFails, UndoReloads, SyncFails, EndCycle, At
    <3>2. loaded' = loaded \/ backup # None
      BY <1>5 DEF ReloadFails, UndoReloads, outside, RegularOK, StageOK
    <3> QED
      BY <1>4, <2>1, <2>2, <3>1, <3>2
  <2>3. CASE ~Pending
    <3>1. ReloadFails /\ Unwritten
      BY <1>5, <2>1, <2>3 DEF ReloadFails, UndoReloads, outside, RegularOK, StageOK, Unwritten
    <3>2. Exit
      BY <2>3, <3>1 DEF ReloadFails, SyncFails
    <3> QED
      BY <1>2, <3>1, <3>2
  <2> QED
    BY <2>2, <2>3
<1>6. CASE SyncGivesUp
  <2>1. Unwritten /\ main.pc = "write" /\ main'.pc = "undo" /\ UNCHANGED <<proc, ops>>
    BY <1>6 DEF SyncGivesUp, Unwritten, files, outside, history
  <2>2. StageOK'
    BY <2>1 DEF RegularOK, StageOK, Unwritten, Pending
  <2>3. LinkOK'
    BY <2>1 DEF RegularOK, LinkOK, Unwritten, Pending
  <2> QED
    BY <2>1, <2>2, <2>3, UnwrittenFiles DEF RegularOK
<1>7. CASE Heartbeat \/ HeartbeatFails
  <2>1. /\ main'.pc \in {"poll", "refresh", "clear"} /\ UNCHANGED proc
        /\ ops' = ops \/ (ops.pc = "off" /\ ops'.pc = "idle")
    BY <1>7 DEF Heartbeat, HeartbeatThen, HeartbeatFails, EndCycle, At
  <2>2. UNCHANGED <<link, guard, backup, guardBin, units, origin, outcome, target, loaded>>
    BY <1>7 DEF Heartbeat, HeartbeatThen, HeartbeatFails, files, outside, history
  <2> QED
    BY <1>4, <2>1, <2>2
<1>8. main.pc \in {"sync", "write", "undo", "confirm", "refresh", "clear", "remove"} =>
        /\ proc # None /\ proc \in Versions /\ proc = link
        /\ ~Pending => units = Rendered(proc) /\ loaded = units
  <2> SUFFICES ASSUME main.pc \in {"sync", "write", "undo", "confirm", "refresh", "clear", "remove"}
               PROVE  /\ proc # None /\ proc \in Versions /\ proc = link
                      /\ ~Pending => units = Rendered(proc) /\ loaded = units
    OBVIOUS
  <2>1. proc # None /\ proc \in Versions
    BY <1>0 DEF ProcOK, Stopped
  <2>2. Pending => Expected
    BY DEF MainOK, Pending
  <2>3. proc = link
    BY <2>1, <2>2 DEF RegularOK, LinkOK, MainOK
  <2> QED
    BY <2>1, <2>3 DEF RegularOK, FilesOK, SettledFiles
<1>9. CASE SyncUnchanged
  <2>1. /\ main.pc = "sync" /\ units = Rendered(proc) /\ main'.pc = (IF Pending THEN "confirm" ELSE "poll")
        /\ loaded' = (IF backup = None THEN loaded ELSE units) /\ UNCHANGED <<proc, ops>>
        /\ UNCHANGED <<link, guard, backup, guardBin, units, origin, outcome, target>>
    BY <1>9 DEF SyncUnchanged, SyncReturns, Step, At, Apart, files, history
  <2>2. loaded' = units
    BY <1>8, <2>1 DEF RegularOK, FilesOK, PendingFiles
  <2>3. FilesOK'
    BY <2>1, <2>2 DEF RegularOK, FilesOK, PendingFiles, SettledFiles, Pending, Rendered
  <2>4. SuccessOK'
    BY <2>1 DEF RegularOK, SuccessOK, Pending, Latest
  <2>5. StageOK'
    BY <2>1, <2>2 DEF StageOK, Pending, Rendered
  <2>6. LinkOK'
    BY <2>1 DEF RegularOK, LinkOK, Pending
  <2> QED
    BY <2>3, <2>4, <2>5, <2>6 DEF RegularOK
<1>10. CASE SyncBegins
  <2>1. /\ main.pc = "sync" /\ units # Rendered(proc) /\ main'.pc = "write"
        /\ backup' = (IF Pending /\ Expected /\ backup = None THEN units ELSE backup) /\ UNCHANGED <<proc, ops>>
        /\ UNCHANGED <<link, guard, loaded, guardBin, units, origin, outcome, target>>
    BY <1>10 DEF SyncBegins, writeBackup, Apart, history
  <2>2. /\ Pending /\ Expected /\ PendingFiles /\ link = guard.expected /\ guardBin # LegacyGuard
    BY <1>8, <2>1 DEF MainOK, Expected, RegularOK, FilesOK, StageOK
  <2>3. backup' # None /\ backup' = origin
    BY <2>1, <2>2 DEF PendingFiles
  <2>4. FilesOK'
    BY <2>1, <2>2, <2>3 DEF FilesOK, PendingFiles, Pending, Rendered
  <2>5. SuccessOK'
    BY <2>1, <2>2 DEF RegularOK, SuccessOK, Pending, Latest, PendingFiles
  <2>6. StageOK'
    BY <2>1, <2>2, <2>3 DEF StageOK, Pending
  <2>7. LinkOK'
    BY <2>1 DEF RegularOK, LinkOK, Pending
  <2> QED
    BY <2>4, <2>5, <2>6, <2>7 DEF RegularOK
<1>11. ASSUME NEW f \in ServiceFiles, SyncWrites(f) \/ UndoWrites(f) PROVE RegularOK'
  <2>1. /\ main.pc \in {"write", "undo"} /\ UNCHANGED <<proc, ops, main>>
        /\ UNCHANGED <<link, guard, loaded, guardBin, backup, origin, outcome, target>>
    BY <1>11 DEF SyncWrites, UndoWrites, writeServiceFile, Apart, history
  <2>2. Pending /\ PendingFiles /\ backup # None
    BY <2>1 DEF RegularOK, FilesOK, StageOK
  <2>3. FilesOK'
    BY <2>1, <2>2 DEF FilesOK, PendingFiles, Pending, Rendered
  <2>4. SuccessOK'
    BY <2>1 DEF RegularOK, SuccessOK, Pending, Latest
  <2>5. StageOK'
    BY <2>1 DEF RegularOK, StageOK, Pending
  <2>6. LinkOK'
    BY <2>1 DEF RegularOK, LinkOK, Pending
  <2> QED
    BY <2>3, <2>4, <2>5, <2>6 DEF RegularOK
<1>12. CASE SyncReloads
  <2>1. /\ main.pc = "write" /\ units = Rendered(proc) /\ loaded' = units /\ UNCHANGED <<proc, ops>>
        /\ main'.pc = (IF Pending THEN "confirm" ELSE "poll")
        /\ UNCHANGED <<link, guard, backup, guardBin, units, origin, outcome, target>>
    BY <1>12 DEF SyncReloads, SyncReturns, Step, At, Apart, files, history
  <2>2. Pending /\ PendingFiles /\ backup # None
    BY <2>1 DEF RegularOK, FilesOK, StageOK
  <2>3. FilesOK'
    BY <2>1, <2>2 DEF FilesOK, PendingFiles, Pending, Rendered
  <2>4. SuccessOK'
    BY <2>1 DEF RegularOK, SuccessOK, Pending, Latest
  <2>5. StageOK'
    BY <2>1, <2>2 DEF StageOK, Pending, Rendered
  <2>6. LinkOK'
    BY <2>1 DEF RegularOK, LinkOK, Pending
  <2> QED
    BY <2>3, <2>4, <2>5, <2>6 DEF RegularOK
<1>13. CASE RefreshGuard
  <2>1. /\ main.pc = "refresh" /\ main'.pc = "sync" /\ guardBin' = link /\ UNCHANGED <<proc, ops>>
        /\ UNCHANGED <<link, guard, backup, loaded, units, origin, outcome, target>>
    BY <1>13 DEF RefreshGuard, Step, At, Apart, history
  <2>2. guardBin' # LegacyGuard
    BY <2>1, LegacyAssumption
  <2>3. FilesOK'
    BY <2>1, <2>2 DEF RegularOK, FilesOK, PendingFiles, SettledFiles, Pending, Rendered
  <2>4. SuccessOK'
    BY <2>1 DEF RegularOK, SuccessOK, Pending, Latest
  <2>5. StageOK'
    BY <2>1, <2>2 DEF StageOK
  <2>6. LinkOK'
    BY <2>1 DEF RegularOK, LinkOK, Pending
  <2> QED
    BY <2>3, <2>4, <2>5, <2>6 DEF RegularOK
<1>14. CASE Confirm
  <2>1. /\ main.pc = "confirm" /\ main'.pc = "clear" /\ UNCHANGED <<proc, ops>>
        /\ guard' = [guard EXCEPT !.status = "confirmed"] /\ Pending /\ Expected
        /\ UNCHANGED <<link, guardBin, backup, loaded, units, origin, outcome, target>>
    BY <1>14 DEF Confirm, writeAgentUpdateGuard, Step, At, Apart, history, MainOK
  <2>2. guard' \in Guards /\ guard'.status = "confirmed"
    BY <1>0, <2>1 DEF Guards, Pending
  <2>3. units = Rendered(link) /\ loaded = units
    BY <1>8, <2>1 DEF RegularOK, StageOK
  <2>4. FilesOK'
    BY <2>1, <2>2, <2>3 DEF FilesOK, SettledFiles, Pending, Rendered
  <2>5. SuccessOK'
    BY <2>1, <2>2 DEF RegularOK, SuccessOK, Pending, Latest
  <2>6. StageOK'
    BY <2>1 DEF StageOK
  <2>7. LinkOK'
    BY <1>8, <2>1 DEF LinkOK
  <2> QED
    BY <2>4, <2>5, <2>6, <2>7 DEF RegularOK
<1>15. CASE ConfirmClears
  <2>1. /\ main.pc = "clear" /\ main'.pc = "remove" /\ backup' = None /\ UNCHANGED <<proc, ops>>
        /\ UNCHANGED <<link, guardBin, guard, loaded, units, origin, outcome, target>>
    BY <1>15 DEF ConfirmClears, writeBackup, Step, At, Apart, history
  <2>2. ~Pending
    BY <2>1 DEF MainOK, Pending
  <2>3. FilesOK'
    BY <2>1, <2>2 DEF RegularOK, FilesOK, SettledFiles, Pending, Rendered
  <2>4. SuccessOK'
    BY <2>1, <2>2 DEF RegularOK, SuccessOK, Pending, Latest
  <2>5. StageOK'
    BY <2>1 DEF StageOK
  <2>6. LinkOK'
    BY <1>8, <2>1 DEF LinkOK
  <2> QED
    BY <2>3, <2>4, <2>5, <2>6 DEF RegularOK
<1>16. CASE ConfirmRemoves
  <2>1. /\ main.pc = "remove" /\ main'.pc = "poll" /\ guard' = None /\ UNCHANGED proc
        /\ UNCHANGED <<link, guardBin, backup, loaded, units, origin, outcome, target>>
    BY <1>16 DEF ConfirmRemoves, writeAgentUpdateGuard, EndCycle, At, outside, history
  <2>2. ~Pending /\ backup = None
    BY <2>1 DEF MainOK, Pending, RegularOK, StageOK
  <2>3. FilesOK'
    BY <2>1, <2>2 DEF RegularOK, FilesOK, SettledFiles, Pending, Rendered
  <2>4. SuccessOK'
    BY <2>1, <2>2 DEF RegularOK, SuccessOK, Pending, Latest
  <2>5. StageOK'
    BY <2>1 DEF StageOK
  <2>6. LinkOK'
    BY <1>8, <2>1 DEF LinkOK
  <2> QED
    BY <2>3, <2>4, <2>5, <2>6 DEF RegularOK
<1> QED
  BY <1>1, <1>3, <1>5, <1>6, <1>7, <1>9, <1>10, <1>11, <1>12, <1>13, <1>14, <1>15, <1>16

(* The operations goroutine and the server.                                *)
LEMMA OperationRegular ==
    ASSUME UpdateInv, RegularOK, Regular',
           \/ OperationStep \/ Lock \/ InstallFails \/ ForgetOperation \/ DeadlinePasses
           \/ \E cause \in {"cancelled", "lost"} : Interrupt(cause)
           \/ \E o \in Ops, v \in Versions : Create(o, v)
    PROVE  RegularOK'
<1> USE NoneAssumption DEF UpdateInv, UpdateTypeOK
<1>0. /\ guard # None => guard \in Guards /\ guard.expected \in Versions /\ guard.previous \in Versions
      /\ Working => checkpoint \in Checkpoints /\ checkpoint.op \in Ops /\ outcome[checkpoint.op] = "running"
  BY DEF Guards, Checkpoints, SequenceOK
<1>1. Working => /\ \A o \in Ops : ~(outcome[o] = "succeeded" /\ Latest(o))
                 /\ ~Stopped /\ proc # None
  <2> SUFFICES ASSUME Working PROVE /\ \A o \in Ops : ~(outcome[o] = "succeeded" /\ Latest(o))
                                    /\ ~Stopped /\ proc # None
    OBVIOUS
  <2>1. ASSUME NEW o \in Ops, outcome[o] = "succeeded", Latest(o) PROVE FALSE
    <3>1. outcome[checkpoint.op] = "running" /\ checkpoint.op \in Ops
      BY <1>0
    <3>2. ~(checkpoint.op < o)
      BY <2>1, <3>1 DEF SequenceOK
    <3>3. ~(checkpoint.op > o)
      BY <2>1, <3>1 DEF Latest
    <3> QED
      BY <2>1, <3>1, <3>2, <3>3, UpdateBounds DEF Ops
  <2> QED
    BY <2>1 DEF ProcOK, Working
<1>2. CASE Unwritten /\ UNCHANGED <<main, proc>> /\ LinkOK'
  <2>1. StageOK'
    BY <1>2 DEF RegularOK, StageOK, Unwritten, Pending, Rendered
  <2> QED
    BY <1>2, <2>1, UnwrittenFiles DEF RegularOK
<1>3. CASE \/ \E o \in Ops : Claim(o)
           \/ FindSwitched \/ ReportConfirmed \/ FindInstalled \/ StopEarly \/ Download \/ Verify \/ Lock
           \/ InstallFails \/ ForgetOperation
  <2>1. Unwritten /\ UNCHANGED <<main, proc>> /\ ops.pc \notin {"mark", "restart", "report"}
    BY <1>3
    DEF Claim, FindSwitched, ReportConfirmed, FindInstalled, StopEarly, Download, Verify, Lock, InstallFails,
        ForgetOperation, Finish, Goto, Aside, saveCheckpoint, files, outside, history, Unwritten
  <2>2. LinkOK'
    BY <2>1 DEF RegularOK, LinkOK, Unwritten
  <2> QED
    BY <1>2, <2>1, <2>2
<1>4. ASSUME NEW cause \in {"cancelled", "lost"}, Interrupt(cause) PROVE RegularOK'
  <2>1. Unwritten /\ UNCHANGED <<main, proc, ops>>
    BY <1>4 DEF Interrupt, files, outside, history, Unwritten
  <2>2. LinkOK'
    BY <2>1 DEF RegularOK, LinkOK, Unwritten, Pending
  <2> QED
    BY <1>2, <2>1, <2>2
<1>5. CASE MarkSwitched
  <2>1. Unwritten /\ UNCHANGED <<main, proc>> /\ ops.pc = "mark" /\ ops'.pc = "restart"
    BY <1>5 DEF MarkSwitched, saveCheckpoint, Goto, Aside, outside, history, Unwritten
  <2>2. LinkOK'
    BY <2>1 DEF RegularOK, LinkOK, Unwritten, Pending
  <2> QED
    BY <1>2, <2>1, <2>2
<1>6. CASE Restart
  <2>1. CASE ctx = "ok"
    <3>1. Unwritten /\ proc' = None /\ main'.pc = "down"
      BY <1>6, <2>1 DEF Restart, Exit, Down, files, outside, history, Unwritten
    <3> QED
      BY <3>1, UnwrittenFiles DEF RegularOK, LinkOK, StageOK
  <2>2. CASE ctx # "ok"
    <3>1. Unwritten /\ UNCHANGED <<main, proc>> /\ ops.pc = "restart" /\ ops'.pc = "report" /\ ops'.result = "failed"
      BY <1>6, <2>2 DEF Restart, Finish, Aside, files, outside, history, Unwritten
    <3>2. LinkOK'
      BY <3>1 DEF RegularOK, LinkOK, Unwritten, Pending
    <3> QED
      BY <1>2, <3>1, <3>2
  <2> QED
    BY <2>1, <2>2
<1>7. CASE FindRolledBack
  <2>1. /\ ops.pc = "begin" /\ guard' = None /\ guard # None /\ guard.status = "rolled_back"
        /\ UNCHANGED <<main, proc, link, units, backup, guardBin, loaded, origin, outcome, target>>
    BY <1>7 DEF FindRolledBack, Reverted, writeAgentUpdateGuard, Finish, Aside, outside, history
  <2>2. FilesOK'
    BY <2>1 DEF RegularOK, FilesOK, SettledFiles, Pending, Rendered
  <2>3. SuccessOK'
    BY <2>1 DEF RegularOK, SuccessOK, Pending, Latest
  <2>4. LinkOK'
    BY <2>1 DEF RegularOK, LinkOK
  <2>5. StageOK'
    BY <2>1 DEF RegularOK, StageOK, Pending, Rendered
  <2> QED
    BY <2>2, <2>3, <2>4, <2>5 DEF RegularOK
<1>8. CASE WriteGuard
  <2>1. /\ ops.pc = "guard" /\ Working /\ main.pc = "poll" /\ proc # target[checkpoint.op] /\ ~(Pending /\ Expected)
    BY <1>8 DEF WriteGuard, Working, ProcOK, Installing, OperationOK, Updates
  <2>2. /\ UNCHANGED <<main, proc, link, units, backup, guardBin, loaded, outcome, target>>
        /\ origin' = units /\ leftover' = (leftover \/ backup # None)
        /\ guard' = [op |-> checkpoint.op, expected |-> target[checkpoint.op], previous |-> link,
                     status |-> "pending", attempts |-> 0, late |-> FALSE]
    BY <1>8 DEF WriteGuard, writeAgentUpdateGuard, outside
  <2>3. backup = None
    <3>1. ~leftover'
      BY DEF Regular
    <3> QED
      BY <2>2, <3>1
  <2>4. /\ guard' # None /\ guard'.status = "pending"
        /\ guard'.previous = link /\ guard'.expected = target[checkpoint.op]
    <3>1. guard' \in Guards
      BY <1>0, <2>1, <2>2 DEF Guards
    <3> QED
      BY <2>2, <3>1
  <2>5. link = proc
    BY <1>1, <2>1 DEF RegularOK, LinkOK
  <2>6. units = Rendered(link) /\ loaded = units
    <3>1. CASE Pending
      BY <2>1, <2>3, <2>5, <3>1 DEF RegularOK, FilesOK, PendingFiles, Expected, Pending
    <3>2. CASE ~Pending
      BY <3>2 DEF RegularOK, FilesOK, SettledFiles
    <3> QED
      BY <3>1, <3>2
  <2>7. FilesOK'
    BY <2>1, <2>2, <2>3, <2>4, <2>5, <2>6 DEF FilesOK, PendingFiles, Pending, Rendered
  <2>8. SuccessOK'
    BY <1>1, <2>1, <2>2 DEF SuccessOK, Latest
  <2>9. LinkOK'
    BY <2>2, <2>5 DEF LinkOK
  <2>10. StageOK'
    BY <2>1, <2>2 DEF StageOK
  <2> QED
    BY <2>7, <2>8, <2>9, <2>10 DEF RegularOK
<1>9. CASE SwitchLink
  <2>1. /\ ops.pc = "switch" /\ Working /\ main.pc = "poll" /\ Pending /\ guard.expected = target[checkpoint.op]
    BY <1>9 DEF SwitchLink, Working, ProcOK, Installing, OperationOK
  <2>2. /\ UNCHANGED <<main, proc, guard, units, backup, guardBin, loaded, origin, outcome, target>>
        /\ link' = target[checkpoint.op] /\ ops'.pc = "mark"
    BY <1>9 DEF SwitchLink, switchBinary, Goto, Aside, outside, history
  <2>3. FilesOK'
    BY <2>1, <2>2 DEF RegularOK, FilesOK, PendingFiles, Pending, Rendered
  <2>4. SuccessOK'
    BY <1>1, <2>1, <2>2 DEF SuccessOK, Latest
  <2>5. LinkOK'
    BY <2>1, <2>2 DEF LinkOK, Pending
  <2>6. StageOK'
    BY <2>1, <2>2 DEF StageOK
  <2> QED
    BY <2>3, <2>4, <2>5, <2>6 DEF RegularOK
<1>10. CASE Report
  <2>1. ops.pc = "report" /\ Working /\ ops'.pc = "idle" /\ ~(Pending /\ Expected) /\ proc # None
    BY <1>1, <1>10 DEF Report, Working, OperationOK
  <2>2. /\ UNCHANGED <<main, proc, link, guard, units, backup, guardBin, loaded, origin, target>>
        /\ strayed' = (strayed \/ link # proc)
        /\ outcome' = [outcome EXCEPT ![checkpoint.op] = IF ctx = "lost" THEN "failed" ELSE ops.result]
    BY <1>10 DEF Report, saveCheckpoint
  <2>3. link = proc
    <3>1. ~strayed'
      BY DEF Regular
    <3> QED
      BY <2>2, <3>1
  <2>4. FilesOK'
    BY <2>2 DEF RegularOK, FilesOK, PendingFiles, SettledFiles, Pending, Rendered
  <2>5. LinkOK'
    BY <2>2, <2>3 DEF LinkOK
  <2>6. StageOK'
    BY <2>2 DEF RegularOK, StageOK, Pending, Rendered
  <2>7. ops.result = "succeeded" => link = target[checkpoint.op] /\ (Pending => link = guard.previous /\ backup = None)
    <3>1. ops.result = "succeeded" => link = target[checkpoint.op]
      BY <2>1, <2>3 DEF OperationOK
    <3>2. Pending => link = guard.previous
      BY <2>1, <2>3 DEF RegularOK, FilesOK, PendingFiles, Expected, Pending
    <3>3. Pending => backup = None
      BY <2>1, <3>2 DEF RegularOK, FilesOK, PendingFiles
    <3> QED
      BY <3>1, <3>2, <3>3
  <2>8. ASSUME NEW o \in Ops, outcome'[o] = "succeeded", Latest(o)'
        PROVE  link = target[o] /\ (Pending => link = guard.previous /\ backup = None)
    <3>1. checkpoint.op \in Ops /\ outcome[checkpoint.op] = "running"
      BY <1>0, <2>1
    <3>2. CASE o = checkpoint.op
      BY <2>2, <2>7, <2>8, <3>1, <3>2
    <3>3. CASE o # checkpoint.op
      <4>1. outcome[o] = "succeeded"
        BY <2>2, <2>8, <3>1, <3>3
      <4>2. \A p \in Ops : p > o => outcome'[p] = "none"
        BY <2>8 DEF Latest
      <4>3. ops.result \in {"succeeded", "failed"}
        BY <2>1 DEF OperationOK
      <4>4. Latest(o)
        BY <2>2, <3>1, <4>2, <4>3 DEF Latest
      <4> QED
        BY <1>1, <2>1, <4>1, <4>4
    <3> QED
      BY <3>2, <3>3
  <2>9. SuccessOK'
    BY <2>2, <2>8 DEF SuccessOK, Pending
  <2> QED
    BY <2>4, <2>5, <2>6, <2>9 DEF RegularOK
<1>11. CASE DeadlinePasses
  <2>1. /\ UNCHANGED <<main, proc, ops, link, units, backup, guardBin, loaded, origin, outcome, target>> /\ Pending
        /\ guard' = [guard EXCEPT !.late = TRUE]
    BY <1>11 DEF DeadlinePasses, writeAgentUpdateGuard, Aside, outside, history
  <2>2. /\ guard' \in Guards /\ guard'.status = "pending"
        /\ guard'.previous = guard.previous /\ guard'.expected = guard.expected
    BY <1>0, <2>1 DEF Guards, Pending
  <2>3. Pending'
    BY <2>2 DEF Pending
  <2>4. FilesOK'
    BY <2>1, <2>2, <2>3 DEF RegularOK, FilesOK, PendingFiles, Rendered
  <2>5. SuccessOK'
    BY <2>1, <2>2 DEF RegularOK, SuccessOK, Latest
  <2>6. LinkOK'
    BY <2>1, <2>3 DEF RegularOK, LinkOK
  <2>7. StageOK'
    BY <2>1, <2>2, <2>3 DEF RegularOK, StageOK, Rendered
  <2> QED
    BY <2>4, <2>5, <2>6, <2>7 DEF RegularOK
<1>12. ASSUME NEW o \in Ops, NEW v \in Versions, Create(o, v) PROVE RegularOK'
  <2>1. /\ UNCHANGED <<main, proc, ops, link, guard, units, backup, guardBin, loaded, origin>>
        /\ outcome' = [outcome EXCEPT ![o] = "running"] /\ target' = [target EXCEPT ![o] = v]
    BY <1>12 DEF Create, files, history
  <2>2. FilesOK'
    BY <2>1 DEF RegularOK, FilesOK, PendingFiles, SettledFiles, Pending, Rendered
  <2>3. LinkOK'
    BY <2>1 DEF RegularOK, LinkOK, Pending
  <2>4. StageOK'
    BY <2>1 DEF RegularOK, StageOK, Pending, Rendered
  <2>5. ASSUME NEW q \in Ops, outcome'[q] = "succeeded", Latest(q)'
        PROVE  link = target'[q] /\ (Pending => link = guard.previous /\ backup = None)
    <3>1. q # o /\ outcome[q] = "succeeded" /\ target'[q] = target[q]
      BY <2>1, <2>5
    <3>2. \A p \in Ops : p > q => outcome'[p] = "none"
      BY <2>5 DEF Latest
    <3>3. Latest(q)
      BY <2>1, <3>2 DEF Latest
    <3> QED
      BY <3>1, <3>3 DEF RegularOK, SuccessOK
  <2>6. SuccessOK'
    BY <2>1, <2>5 DEF SuccessOK, Pending
  <2> QED
    BY <2>2, <2>3, <2>4, <2>6 DEF RegularOK
<1> QED
  BY <1>3, <1>4, <1>5, <1>6, <1>7, <1>8, <1>9, <1>10, <1>11, <1>12 DEF OperationStep

----------------------------------------------------------------------------
(* The theorems *)

LEMMA InitInv ==
    ASSUME UpdateInit
    PROVE  UpdateInv
<1> USE NoneAssumption, VersionsAssumption, LegacyAssumption, UpdateBounds
<1>1. /\ main.pc = "poll" /\ main \in [pc : {"poll"}, prev : {None}] /\ ops.pc = "idle"
      /\ ops \in [pc : {"idle"}, result : {None}]
  BY DEF UpdateInit, At
<1>2. Rendered(Installed) \in [ServiceFiles -> Versions]
  BY DEF Rendered
<1>3. UpdateTypeOK
  <2>1. /\ target \in [Ops -> Versions]
        /\ outcome \in [Ops -> {"none", "running", "succeeded", "failed"}]
    BY DEF UpdateInit
  <2>2. /\ units \in [ServiceFiles -> Versions] /\ loaded \in [ServiceFiles -> Versions]
        /\ origin \in [ServiceFiles -> Versions]
    BY <1>2 DEF UpdateInit
  <2>3. /\ link \in Versions /\ guardBin \in Versions \cup {LegacyGuard} /\ proc \in Versions
        /\ guard = None /\ backup = None /\ checkpoint = None /\ ctx = "ok"
    BY DEF UpdateInit
  <2>4. faults \in 0..MaxFaults
    BY DEF UpdateInit
  <2>5. leftover \in BOOLEAN /\ strayed \in BOOLEAN
    BY DEF UpdateInit
  <2> QED
    BY <1>1, <2>1, <2>2, <2>3, <2>4, <2>5 DEF UpdateTypeOK
<1>4. ProcOK /\ MainOK /\ GuardIsHealthy /\ OperationOK
  BY <1>1 DEF UpdateInit, ProcOK, Stopped, Installing, MainOK, Pending, GuardIsHealthy, OperationOK, Updates, Working
<1>5. SequenceOK
  BY <1>1 DEF UpdateInit, SequenceOK, Working
<1>6. RegularOK
  BY <1>1 DEF UpdateInit, RegularOK, FilesOK, SettledFiles, LinkOK, StageOK, SuccessOK, Pending
<1> QED
  BY <1>3, <1>4, <1>5, <1>6 DEF UpdateInv

LEMMA UpdateStepInv ==
    ASSUME UpdateInv, [UpdateNext]_updateVars
    PROVE  UpdateInv'
<1>1. CASE UpdateNext
  <2>1. UpdateTypeOK'
    BY <1>1, ServiceTypes, OperationTypes DEF UpdateNext
  <2>2. ProcOK' /\ SequenceOK' /\ OperationOK' /\ MainOK' /\ GuardIsHealthy'
    BY <1>1, ProcStep, SequenceStep, OperationStepOK, MainStep
  <2>3. ASSUME Regular' PROVE RegularOK'
    <3>1. RegularOK
      BY <1>1, <2>3, RegularBefore DEF UpdateInv
    <3> QED
      BY <1>1, <2>2, <2>3, <3>1, GuardRegular, MainRegular, OperationRegular DEF UpdateNext, ServiceStep
  <2> QED
    BY <2>1, <2>2, <2>3 DEF UpdateInv
<1>2. CASE UNCHANGED updateVars
  BY <1>2
  DEF updateVars, files, outside, history, UpdateInv, UpdateTypeOK, ProcOK, Stopped, SequenceOK, Working, OperationOK,
      Updates, MainOK, Installing, GuardIsHealthy, Regular, RegularOK, FilesOK, PendingFiles, SettledFiles, LinkOK,
      StageOK, SuccessOK, Latest, Pending, Expected, Rendered
<1> QED
  BY <1>1, <1>2

LEMMA UpdateAlways == UpdateSpec => []UpdateInv
BY InitInv, UpdateStepInv, PTL DEF UpdateSpec

(* The state is always of the shape the files and the processes have.      *)
THEOREM UpdateTypeCorrect == UpdateSpec => []UpdateTypeOK
<1>1. UpdateInv => UpdateTypeOK
  BY DEF UpdateInv
<1> QED
  BY <1>1, UpdateAlways, PTL

(* The program that has to roll an update back is never an executable that *)
(* cannot start, whatever was installed and wherever a process died.       *)
THEOREM GuardNeverBroken == UpdateSpec => []GuardIsHealthy
<1>1. UpdateInv => GuardIsHealthy
  BY DEF UpdateInv
<1> QED
  BY <1>1, UpdateAlways, PTL

(* A reported success is not undone until the next update.                 *)
THEOREM SuccessStays == UpdateSpec => []SucceededStays
<1>1. UpdateInv => SucceededStays
  <2> SUFFICES ASSUME UpdateInv, NEW o \in Ops, outcome[o] = "succeeded", Latest(o), Regular
               PROVE  /\ link = target[o]
                      /\ Pending => guard.previous = link
                      /\ units = Rendered(target[o])
                      /\ loaded = units
    BY DEF SucceededStays
  <2>1. link = target[o] /\ (Pending => link = guard.previous /\ backup = None)
    BY DEF UpdateInv, RegularOK, SuccessOK
  <2>2. CASE Pending
    BY <2>1, <2>2 DEF UpdateInv, RegularOK, FilesOK, PendingFiles
  <2>3. CASE ~Pending
    BY <2>1, <2>3 DEF UpdateInv, RegularOK, FilesOK, SettledFiles
  <2> QED
    BY <2>2, <2>3
<1> QED
  BY <1>1, UpdateAlways, PTL

(* A rollback that is recorded is complete.                                *)
THEOREM RollbackIsComplete == UpdateSpec => RollbackRestores
<1>1. ASSUME UpdateInv, UpdateNext, Pending, RolledBack, Regular
      PROVE  Restored
  <2> USE NoneAssumption DEF UpdateInv, UpdateTypeOK
  <2>0. guard \in Guards /\ guard.status = "pending"
    BY <1>1 DEF Pending
  <2>1. CASE GuardRollsBack
    <3>1. UNCHANGED <<link, backup, units, loaded>> /\ main.pc = "rolledBack"
      BY <2>1 DEF GuardRollsBack, writeAgentUpdateGuard
    <3>2. link = guard.previous /\ backup = None /\ units = origin /\ loaded = units
      BY <1>1, <3>1 DEF MainOK, RegularOK, StageOK, FilesOK, PendingFiles
    <3> QED
      BY <3>1, <3>2 DEF Restored
  <2>2. CASE ~GuardRollsBack
    <3>1. guard' = guard \/ guard' = None \/ Confirm \/ WriteGuard \/ GuardCounts \/ DeadlinePasses
      BY <1>1, <2>2
      DEF UpdateNext, ServiceStep, OperationStep,
      ServiceStarts, GuardPasses, GuardRestores, RestoreNothing, RestoreFile,
      RestoreReloads, RestoreClears, Boot, BootFails, SyncUnchanged, SyncBegins, SyncWrites,
      SyncReloads, UndoWrites, UndoReloads, RefreshGuard, ConfirmClears, ConfirmRemoves, RestoreFails,
      ReloadFails, SyncGivesUp, Heartbeat, HeartbeatThen, HeartbeatFails, Crash,
      Claim, FindRolledBack, FindSwitched, ReportConfirmed, FindInstalled, StopEarly, Download, Verify, SwitchLink,
      MarkSwitched, Restart, Report, Lock, InstallFails, ForgetOperation, Interrupt, Create,
      writeAgentUpdateGuard, switchBinary, writeBackup, saveCheckpoint, writeServiceFile, files
    <3>2. CASE guard' = guard \/ guard' = None
      BY <1>1, <2>0, <3>2 DEF RolledBack
    <3>3. CASE Confirm \/ DeadlinePasses
      BY <1>1, <2>0, <3>3 DEF Confirm, DeadlinePasses, writeAgentUpdateGuard, RolledBack, Guards
    <3>4. CASE WriteGuard
      BY <1>1, <3>4 DEF WriteGuard, writeAgentUpdateGuard, RolledBack
    <3>5. CASE GuardCounts
      BY <1>1, <2>0, <3>5 DEF GuardCounts, writeAgentUpdateGuard, switchBinary, RolledBack, Guards
    <3> QED
      BY <3>1, <3>2, <3>3, <3>4, <3>5
  <2> QED
    BY <2>1, <2>2
<1>2. UpdateInv /\ [UpdateNext]_updateVars => [Pending /\ RolledBack /\ Regular => Restored]_updateVars
  BY <1>1
<1> QED
  BY <1>2, UpdateAlways, PTL DEF UpdateSpec, RollbackRestores
=============================================================================
