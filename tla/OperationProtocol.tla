-------------------------- MODULE OperationProtocol -------------------------
(***************************************************************************)
(* The agent's operations loop (internal/agent/operations.go) against the  *)
(* operation store, over HTTP, for the one node the agent runs on.         *)
(*                                                                         *)
(* The agent keeps one durable record, operation-state.json (`local'): the *)
(* assignment it was given, the last acknowledged event, the event in its  *)
(* outbox, and a checkpoint of what it installed.  Everything else about   *)
(* the process (`agent') is lost when it crashes or exits with an error;   *)
(* the service manager starts it again.                                    *)
(*                                                                         *)
(* A report that was saved may reach the server at any later time, also    *)
(* after the agent gave up on it; a report is acknowledged when a retry    *)
(* finds it stored (the server answers an exact replay with 200).  A claim *)
(* whose answer is not awaited any longer still runs to its end.           *)
(***************************************************************************)
EXTENDS NodeOperations

CONSTANTS
    Node,       \* the node of this agent
    Caps,       \* agentCapabilities()
    MaxFaults,  \* bound: crashes, lapsed leases, lost answers
    AdminCancels  \* whether the administrator may request cancellation

ASSUME ProtocolAssumption ==
    /\ Node \in Nodes
    /\ Caps \in CapabilitySets
    /\ {"starting", "progress", "result"} \subseteq Contents
    /\ MaxFaults \in Nat
    /\ AdminCancels \in BOOLEAN

(* The agent's own update, which hands control to the service manager in   *)
(* the middle of the operation, is not executed here.                      *)
ASSUME ProtocolKinds == Kinds \cap {"update.agent", "update.bundle"} = {}

VARIABLES
    local,      \* operation-state.json, None when it does not exist
    agent,      \* the operations goroutine and its lease monitor
    sent,       \* reports on their way to the server
    installed,  \* operations whose executor has completed its work
    faults

agentVars == <<local, agent, sent, installed, faults>>
protocolVars == <<vars, agentVars>>

-----------------------------------------------------------------------------
Locals == [op : Ops, attempt : Nat, token : Nat, last : Nat,
           pending : EventRows \cup {None},   \* the outbox
           done : BOOLEAN]                    \* checkpoint: the step is confirmed

ASSUME NoneIsNoRecord == None \notin Locals \cup EventRows \cup Grants

(* ctx is the cause the operation context was cancelled with; lost says    *)
(* that the monitor has put an error into leaseErrors.                     *)
Agents == [pc : {"idle", "claiming", "flush", "starting", "begin", "progress",
                 "work", "finish", "renew", "report", "reporting"},
           slot : Claimers \cup {None},
           ctx : {"ok", "cancelled", "lost"},
           lost : BOOLEAN,
           renewing : BOOLEAN,                 \* the monitor's call is under way
           committed : BOOLEAN,                \* result["committed"]
           err : {"none", "error", "lost", "cancelled"}]

IdleAgent == [pc |-> "idle", slot |-> None, ctx |-> "ok", lost |-> FALSE,
              renewing |-> FALSE, committed |-> FALSE, err |-> "none"]

(* A sing-box update checkpoints the confirmed step and returns a          *)
(* committed result; the other kinds are simply run again.                 *)
Commits(o) == request[o].kind = "update.sing_box"

Goto(pc) == agent' = [agent EXCEPT !.pc = pc]

Fault == faults < MaxFaults /\ faults' = faults + 1

(* The next round of RunOperations, in this process or, when RunOperations *)
(* returned an error or the process died, in the one that the service      *)
(* manager starts: both begin from operation-state.json.                   *)
BackToIdle == agent' = IdleAgent

-----------------------------------------------------------------------------
(* Claiming *)

(* Mutant: a claim names the operation but does not present its lease.     *)
SendClaimWithoutLease(c) ==
    /\ agent.pc = "idle"
    /\ IF local = None THEN ClaimBegin(c, Node, None, NoToken, Caps)
                       ELSE ClaimBegin(c, Node, local.op, NoToken, Caps)
    /\ agent' = [agent EXCEPT !.pc = "claiming", !.slot = c]
    /\ UNCHANGED <<local, sent, installed, faults>>

SendClaim(c) ==
    /\ agent.pc = "idle"
    /\ IF local = None THEN ClaimBegin(c, Node, None, NoToken, Caps)
                       ELSE ClaimBegin(c, Node, local.op, local.token, Caps)
    /\ agent' = [agent EXCEPT !.pc = "claiming", !.slot = c]
    /\ UNCHANGED <<local, sent, installed, faults>>

(* Mutant: a new attempt goes on counting where the last one stopped.      *)
AdoptedWithSequence(g) ==
    IF local = None \/ local.op # g.op
    THEN [op |-> g.op, attempt |-> g.attempt, token |-> g.token, last |-> 0,
          pending |-> None, done |-> FALSE]
    ELSE [local EXCEPT !.attempt = g.attempt, !.token = g.token, !.pending = None]

(* The local state for an assignment: a new attempt of the same operation  *)
(* keeps the checkpoint only, a resumed lease keeps everything.            *)
Adopted(g) ==
    IF local = None \/ local.op # g.op
    THEN [op |-> g.op, attempt |-> g.attempt, token |-> g.token, last |-> 0,
          pending |-> None, done |-> FALSE]
    ELSE IF local.attempt # g.attempt
         THEN [op |-> g.op, attempt |-> g.attempt, token |-> g.token, last |-> 0,
               pending |-> None, done |-> local.done]
         ELSE local

(* Nothing found: 204 without local state; 409 with it, and the agent      *)
(* removes operation-state.json.                                           *)
ClaimDelivered(c) ==
    /\ agent.pc = "claiming" /\ agent.slot = c
    /\ ClaimReturn(c)
    /\ IF claims[c].answer = None
       THEN local' = None /\ BackToIdle
       ELSE /\ local' = Adopted(claims[c].answer)
            /\ agent' = [IdleAgent EXCEPT !.pc = "flush"]
    /\ UNCHANGED <<sent, installed, faults>>

(* The request times out or its answer is lost; the agent sends another.   *)
ClaimAbandoned ==
    /\ agent.pc = "claiming"
    /\ Fault
    /\ BackToIdle
    /\ UNCHANGED <<vars, local, sent, installed>>

(* An answer nobody waits for.                                             *)
ClaimDropped(c) ==
    /\ agent.slot # c
    /\ ClaimReturn(c)
    /\ UNCHANGED agentVars

-----------------------------------------------------------------------------
(* Reporting: the outbox holds one event.                                  *)

(* reportOperationEventWithRetry saves the event before sending it, unless *)
(* the outbox is occupied: then the new event is not recorded anywhere.    *)
Report(st, content) ==
    IF local.pending = None
    THEN LET e == [op |-> local.op, attempt |-> local.attempt,
                   sequence |-> local.last + 1, status |-> st, content |-> content]
         IN  /\ local' = [local EXCEPT !.pending = e]
             /\ sent' = sent \cup {[event |-> e, token |-> local.token]}
    ELSE UNCHANGED <<local, sent>>

Acknowledged == local.pending # None /\ Replayed(local.pending)

Refused ==
    /\ local.pending # None
    /\ ~Replayed(local.pending)
    /\ ~Acceptable(local.pending, local.token)

EmptiedOutbox == [local EXCEPT !.last = local.pending.sequence, !.pending = None]

(* The server takes a report off the wire.                                 *)
ServerRecords(m) ==
    /\ RecordNodeOperationEvent(m.event, m.token)
    /\ sent' = sent \ {m}
    /\ UNCHANGED <<local, agent, installed, faults>>

(* runClaimedOperation flushes the outbox, then announces the start of an  *)
(* attempt that has no event yet.                                          *)
FlushOutbox ==
    /\ agent.pc = "flush"
    /\ \/ local.pending = None /\ Goto("starting") /\ UNCHANGED local
       \/ Acknowledged /\ local' = EmptiedOutbox /\ Goto("starting")
       \/ Refused /\ BackToIdle /\ UNCHANGED local
    /\ UNCHANGED <<vars, sent, installed, faults>>

ReportStarting ==
    /\ agent.pc = "starting"
    /\ \/ local.last > 0 /\ Goto("begin") /\ UNCHANGED <<local, sent>>
       \/ /\ local.last = 0 /\ local.pending = None
          /\ Report("running", "starting") /\ UNCHANGED agent
       \/ Acknowledged /\ local' = EmptiedOutbox /\ Goto("begin") /\ UNCHANGED sent
       \/ Refused /\ BackToIdle /\ UNCHANGED <<local, sent>>
    /\ UNCHANGED <<vars, installed, faults>>

-----------------------------------------------------------------------------
(* Executing *)

Stop(err) == agent' = [agent EXCEPT !.pc = "finish", !.err = err]

(* Mutant: the change is not announced.                                    *)
BeginWorkUnannounced ==
    /\ agent.pc = "begin"
    /\ Goto("work")
    /\ UNCHANGED <<vars, local, sent, installed, faults>>

(* A step confirmed by the checkpoint is not repeated; anything else is    *)
(* announced first.                                                        *)
BeginWork ==
    /\ agent.pc = "begin"
    /\ IF agent.ctx # "ok"
       THEN Stop(agent.ctx) /\ UNCHANGED <<local, sent>>
       ELSE IF local.done
            THEN /\ agent' = [agent EXCEPT !.pc = "finish", !.committed = TRUE]
                 /\ UNCHANGED <<local, sent>>
            ELSE Report("running", "progress") /\ Goto("progress")
    /\ UNCHANGED <<vars, installed, faults>>

(* The announcement is retried until it is acknowledged or refused, or the *)
(* operation context is cancelled, which leaves it in the outbox.          *)
AwaitProgress ==
    /\ agent.pc = "progress"
    /\ \/ agent.ctx # "ok" /\ Stop(agent.ctx) /\ UNCHANGED local
       \/ agent.ctx = "ok" /\ Acknowledged /\ local' = EmptiedOutbox /\ Goto("work")
       \/ agent.ctx = "ok" /\ Refused /\ Stop("error") /\ UNCHANGED local
    /\ UNCHANGED <<vars, sent, installed, faults>>

(* The change to the machine.  An update runs it under a context that      *)
(* cancellation does not reach; the other kinds observe it afterwards.     *)
Work ==
    /\ agent.pc = "work"
    /\ \/ /\ installed' = installed \cup {local.op}
          /\ IF Commits(local.op)
             THEN /\ local' = [local EXCEPT !.done = TRUE]
                  /\ agent' = [agent EXCEPT !.pc = "finish", !.committed = TRUE]
             ELSE /\ Stop(IF agent.ctx = "ok" THEN "none" ELSE agent.ctx)
                  /\ UNCHANGED local
       \/ Stop("error") /\ UNCHANGED <<local, installed>>
    /\ UNCHANGED <<vars, sent, faults>>

(* The lease monitor, running beside the executor.                         *)
Monitored == agent.pc \in {"begin", "progress", "work"} /\ agent.ctx = "ok"

MonitorTick ==
    /\ Monitored /\ ~agent.renewing
    /\ agent' = [agent EXCEPT !.renewing = TRUE]
    /\ UNCHANGED <<vars, local, sent, installed, faults>>

LeaseLost ==
    agent' = [agent EXCEPT !.renewing = FALSE, !.ctx = "lost", !.lost = TRUE]

MonitorRenewed ==
    /\ Monitored /\ agent.renewing
    /\ \/ /\ RenewNodeOperationLease(local.op, local.attempt, local.token)
          /\ agent' = [agent EXCEPT !.renewing = FALSE,
                          !.ctx = IF local.op \in cancel THEN "cancelled" ELSE "ok"]
       \/ /\ ~RenewNodeOperationLease(local.op, local.attempt, local.token)
          /\ LeaseLost
    /\ UNCHANGED <<vars, local, sent, installed, faults>>

(* Forty-five seconds of failed retries.                                   *)
MonitorFails ==
    /\ Monitored /\ agent.renewing
    /\ Fault
    /\ LeaseLost
    /\ UNCHANGED <<vars, local, sent, installed>>

(* operationExecutionError prefers the cause of a cancelled context; then  *)
(* cancel(nil) stops the monitor.  A renewal under way at that moment ends *)
(* with an error, which the monitor may or may not have put into           *)
(* leaseErrors when the select looks.                                      *)
FinishWork ==
    /\ agent.pc = "finish"
    /\ \E raced \in IF agent.renewing THEN BOOLEAN ELSE {FALSE} :
        LET cause == IF agent.err # "none" /\ agent.ctx # "ok" THEN agent.ctx ELSE agent.err
            err == IF cause = "none" /\ (agent.lost \/ raced) THEN "lost" ELSE cause
        IN  agent' = [agent EXCEPT !.err = err, !.renewing = FALSE,
                         !.pc = IF err = "none" THEN "renew" ELSE "report"]
    /\ UNCHANGED <<vars, local, sent, installed, faults>>

(* The final renewal and finalLeaseError; failed says that the renewal got *)
(* no answer for forty-five seconds.                                       *)
FinalRenewal(failed) ==
    /\ agent.pc = "renew"
    /\ IF failed THEN Fault ELSE UNCHANGED faults
    /\ LET renewed == ~failed /\ RenewNodeOperationLease(local.op, local.attempt, local.token)
           err == IF agent.committed THEN "none"
                  ELSE IF ~renewed THEN "lost"
                  ELSE IF local.op \in cancel THEN "cancelled" ELSE "none"
       IN  agent' = [agent EXCEPT !.err = err, !.pc = "report"]
    /\ UNCHANGED <<vars, local, sent, installed>>

(* Mutants: the error is reported as the status, and a lost lease counts   *)
(* as success.                                                             *)
ErrorAsStatus(err) == err

LostIsSuccess(err) == IF err = "error" THEN "failed" ELSE "succeeded"

TerminalStatus(err) ==
    CASE err = "none" -> "succeeded" [] err = "cancelled" -> "cancelled" [] OTHER -> "failed"

ReportTerminal ==
    /\ agent.pc = "report"
    /\ Report(TerminalStatus(agent.err), "result")
    /\ Goto("reporting")
    /\ UNCHANGED <<vars, installed, faults>>

(* Once the outbox is empty the operation is forgotten.                    *)
AwaitTerminal ==
    /\ agent.pc = "reporting"
    /\ \/ Acknowledged /\ local' = None
       \/ Refused /\ UNCHANGED local
    /\ BackToIdle
    /\ UNCHANGED <<vars, sent, installed, faults>>

-----------------------------------------------------------------------------
(* Environment *)

Crash ==
    /\ agent.pc # "idle"
    /\ Fault
    /\ BackToIdle
    /\ UNCHANGED <<vars, local, sent, installed>>

(* A lease lapses: soon if nobody works on the operation, and by bad luck  *)
(* (a pause longer than the lease) if somebody does.                       *)
Unattended(o) ==
    /\ local # None => local.op # o
    /\ agent.pc = "claiming" /\ claims[agent.slot].answer # None =>
           claims[agent.slot].answer.op # o

LeaseLapses(o) ==
    /\ Unattended(o)
    /\ LeaseExpires(o)
    /\ UNCHANGED agentVars

LeaseOutlived(o) ==
    /\ ~Unattended(o)
    /\ Fault
    /\ LeaseExpires(o)
    /\ UNCHANGED <<local, agent, sent, installed>>

AdminCreates ==
    /\ \E o \in Ops, r \in Requests :
          r.node = Node /\ r.retryOf = None /\ CreateNodeOperation(o, r, "open")
    /\ UNCHANGED agentVars

DeadlinePasses ==
    /\ \E o \in Ops : WindowMoves(o)
    /\ UNCHANGED agentVars

AdminRequestsCancel ==
    /\ AdminCancels
    /\ \E o \in Ops : RequestNodeOperationCancel(o)
    /\ UNCHANGED agentVars

ServerClaims(c) ==
    /\ ClaimRead(c) \/ ClaimResume(c) \/ ClaimFresh(c)
    /\ UNCHANGED agentVars

-----------------------------------------------------------------------------
ProtocolInit ==
    /\ Init
    /\ local = None
    /\ agent = IdleAgent
    /\ sent = {}
    /\ installed = {}
    /\ faults = 0

AgentStep ==
    \/ \E c \in Claimers : SendClaim(c)
    \/ \E c \in Claimers : ClaimDelivered(c)
    \/ FlushOutbox
    \/ ReportStarting
    \/ BeginWork
    \/ AwaitProgress
    \/ Work
    \/ FinishWork
    \/ FinalRenewal(FALSE)
    \/ ReportTerminal
    \/ AwaitTerminal

ServerStep ==
    \/ \E c \in Claimers : ServerClaims(c)
    \/ \E c \in Claimers : ClaimDropped(c)
    \/ \E m \in sent : ServerRecords(m)

ProtocolNext ==
    \/ AgentStep
    \/ ServerStep
    \/ MonitorTick
    \/ MonitorRenewed
    \/ MonitorFails
    \/ FinalRenewal(TRUE)
    \/ ClaimAbandoned
    \/ Crash
    \/ \E o \in Ops : LeaseLapses(o)
    \/ \E o \in Ops : LeaseOutlived(o)
    \/ AdminCreates
    \/ DeadlinePasses
    \/ AdminRequestsCancel

ProtocolSpec == ProtocolInit /\ [][ProtocolNext]_protocolVars

(* The agent and the server keep running, reports that are retried get     *)
(* through, and the clock advances while a lease is not being renewed.     *)
(* Faults are not fair: they may stop, and are bounded by MaxFaults.       *)
Fairness ==
    /\ WF_protocolVars(AgentStep)
    /\ \A c \in Claimers : WF_protocolVars(ServerClaims(c))
    /\ \A c \in Claimers : WF_protocolVars(ClaimDropped(c))
    /\ WF_protocolVars(\E m \in sent : ServerRecords(m))
    /\ WF_protocolVars(MonitorRenewed)
    /\ \A o \in Ops : WF_protocolVars(LeaseLapses(o))

FairProtocolSpec == ProtocolSpec /\ Fairness

-----------------------------------------------------------------------------
(* Properties *)

ProtocolTypeOK ==
    /\ local \in Locals \cup {None}
    /\ agent \in Agents
    /\ sent \subseteq [event : EventRows, token : Nat]
    /\ installed \subseteq Ops
    /\ faults \in 0..MaxFaults

(* The outbox and the stored history agree: the server has exactly the     *)
(* events the agent counts as acknowledged, or one more, and then that one *)
(* is the event still in the outbox.  So a retry after a crash, a lost     *)
(* answer or a new attempt never reuses a sequence for another event.      *)
OutboxAgrees ==
    local # None =>
        LET known == LastSequence(local.op, local.attempt)
        IN  \/ known = local.last
            \/ /\ known = local.last + 1
               /\ local.pending # None
               /\ local.pending \in events

(* The agent never changes the machine for an operation that has ended on  *)
(* the server, although after a crash it executes again an operation whose *)
(* terminal event is still in its outbox: the event announced before the   *)
(* change is refused.                                                      *)
NoWorkAfterEnd == agent.pc = "work" => ~Terminal(local.op)

(* An operation the server lists as succeeded was completed on the node,   *)
(* through every resume, retry and change of attempt.                      *)
SucceededIsInstalled == \A o \in Ops : status[o] = "succeeded" => o \in installed

(* The agent puts the state of one operation in place of another's, with   *)
(* its outbox and checkpoint, only when the replaced operation has ended.  *)
ReplacedOnlyIfEnded ==
    [][local # None /\ local' # None /\ local'.op # local.op => Terminal(local.op)]_protocolVars

(* What the agent and the server do together is what the store allows of   *)
(* any set of lease holders: the store's theorems hold of this system.     *)
ProtocolUsesStore == Spec

(* Every operation that is queued ends, through any bounded number of      *)
(* crashes, lapsed leases and lost answers, unless somebody requests       *)
(* cancellation.                                                           *)
QueuedEnds == \A o \in Ops : (status[o] = "queued") ~> (Terminal(o) \/ o \in cancel)

(* A cancellation that was accepted takes effect: the operation ends, as   *)
(* the status model running -> cancelled of docs/node-operations.md says.  *)
CancelledEnds == \A o \in Ops : (o \in cancel) ~> Terminal(o)

(* A committed update is not reported as failed or cancelled (the comment  *)
(* on finalLeaseError).                                                    *)
CommittedNotFailed ==
    \A o \in Ops : o \in installed /\ Commits(o) => status[o] \notin {"failed", "cancelled"}
=============================================================================
