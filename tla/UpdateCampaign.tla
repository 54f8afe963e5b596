----------------------------- MODULE UpdateCampaign -----------------------------
(***************************************************************************)
(* A bulk update: the campaign's canary, its batches and the controller    *)
(* that dispatches, follows and retries the operations of its members      *)
(* (src/internal/server/api/update_campaigns.go,                           *)
(* db/node_update_campaigns.go).                                           *)
(*                                                                         *)
(* The controller holds a mutex for a pass and makes many statements in    *)
(* it; agents, administrators, the clock and a crash of the server act     *)
(* between them.  Only the controller and the two handlers that take its   *)
(* mutex write members, so a pass reads them as they are.  Operations are  *)
(* abstracted to what a campaign sees of them (NodeOperations models them  *)
(* in full): an operation is named by its idempotency key, <<node, 0>> for *)
(* the first and <<node, k + 1>> for the retry of <<node, k>>.             *)
(***************************************************************************)
EXTENDS Naturals, FiniteSets

CONSTANTS NodeCount,      \* nodes are 1..NodeCount, in the order of their names
          BatchSize,      \* 1 or 2
          Selections,     \* the <<eligible, online, active>> nodes a campaign may find
          MaxRetries,     \* bound: retries of a member
          MaxResumes,     \* bound: resumes of the campaign
          MaxFaults,      \* bound: crashes, deletions, disablings, cancellations, other operations
          None

Nodes == 1..NodeCount
Keys == Nodes \X (0..MaxRetries)
OperationStatuses == {"queued", "running", "succeeded", "failed", "cancelled", "expired"}
MemberStatuses == {"pending", "queued", "running", "succeeded", "failed", "cancelled", "skipped"}
OperationRows == [status : OperationStatuses, claimed : BOOLEAN, due : BOOLEAN, cancel : BOOLEAN, term : Nat]
MemberRows == [position : Nat, batch : Nat, op : Keys \cup {None}, status : MemberStatuses]

ASSUME CampaignConstants ==
  /\ NodeCount \in Nat \ {0} /\ BatchSize \in {1, 2} /\ {MaxRetries, MaxResumes, MaxFaults} \subseteq Nat
  /\ \A s \in Selections : s[1] \subseteq 1..NodeCount /\ s[2] \subseteq s[1] /\ s[3] \subseteq s[1] /\ s[2] # {}
  /\ None \notin Keys /\ None \notin OperationRows /\ None \notin MemberRows

VARIABLES campaign,   \* [status, batch, due, term]: due, ten minutes since its last state change;
                      \* term, the resumes so far, each of which moves the deadline of its batch
          members,    \* node |-> [position, batch, op, status] or None
          ops,        \* key |-> [status, claimed, due, cancel, term] or None: due, past its expiry;
                      \* cancel, its agent is asked to stop
          node,       \* node |-> "ok", "disabled" or "deleted"
          busy,       \* nodes with an active operation of someone else
          ctl,        \* what the holder of the mutex is doing: [pc, todo], the members still to do,
                      \* and between two statements about one of them, at and what was read, status
          faults

vars == <<campaign, members, ops, node, busy, ctl, faults>>

Idle == [pc |-> "idle"]
Member(n) == members[n] # None
InBatch(b) == {n \in Nodes : Member(n) /\ members[n].batch = b}

----------------------------------------------------------------------------
(* Statements *)

\* Members come in the order of their positions, the canary first: the next of S.
ListNodeUpdateCampaignMembers(S) == {n \in S : \A m \in S : members[n].position <= members[m].position}
GetActiveNodeUpdateCampaign == campaign.status \in {"queued", "running", "paused"}
\* At most one campaign is active.
CreateNodeUpdateCampaignRow ==
  /\ ~GetActiveNodeUpdateCampaign
  /\ campaign' = [campaign EXCEPT !.status = "queued", !.batch = 0, !.due = FALSE]
CreateNodeUpdateCampaignMember(position, batch) ==
  [position |-> position, batch |-> batch, op |-> None, status |-> "pending"]
UpdateNodeUpdateCampaignState(status, batch) ==
  campaign' = [campaign EXCEPT !.status = status, !.batch = batch, !.due = FALSE]
UpdateNodeUpdateCampaignMemberState(n, status) ==
  members' = [members EXCEPT ![n].status = status]
\* Both take the status the operation had when it was created or found.
AttachNodeUpdateCampaignOperation(n, key, status) ==
  members' = IF members[n].op = None THEN [members EXCEPT ![n].op = key, ![n].status = status] ELSE members
ReplaceNodeUpdateCampaignOperationForRetry(n, key, status) ==
  members' = IF members[n].status \in {"failed", "cancelled"}
             THEN [members EXCEPT ![n].op = key, ![n].status = status] ELSE members

Active(key) == ops[key] # None /\ ops[key].status \in {"queued", "running"}
Occupied(n) == n \in busy \/ \E k \in 0..MaxRetries : Active(<<n, k>>)
NewOperation == [status |-> "queued", claimed |-> FALSE, due |-> FALSE, cancel |-> FALSE, term |-> campaign.term]

\* RequestNodeOperationCancel and CancelUnclaimedNodeOperation on a row.
Cancelled(op) ==
  CASE op.status = "queued" -> [op EXCEPT !.status = "cancelled"]
    [] op.status = "running" -> [op EXCEPT !.cancel = TRUE]
    [] OTHER -> op
CancelledUnclaimed(op) == IF op.status = "queued" THEN Cancelled(op) ELSE op

----------------------------------------------------------------------------
(* Creating the campaign *)

\* The first online active node, else the first online one.
canaries(online, active) ==
  LET S == IF online \cap active # {} THEN online \cap active ELSE online
  IN  {n \in S : \A m \in S : n <= m}

\* The eligible nodes in the order of their names, with the canary swapped to the front.
position(eligible, canary, n) ==
  LET index(m) == Cardinality({k \in eligible : k < m})
  IN  IF n = canary THEN 0 ELSE IF index(n) = 0 THEN index(canary) ELSE index(n)

batchNumber(i) == IF i = 0 THEN 0 ELSE 1 + ((i - 1) \div BatchSize)

\* One transaction inserts the campaign and its members.
CreateNodeUpdateCampaign(positions) ==
  /\ CreateNodeUpdateCampaignRow
  /\ members' = [n \in Nodes |->
       IF n \in DOMAIN positions THEN CreateNodeUpdateCampaignMember(positions[n], batchNumber(positions[n])) ELSE None]

\* The handler's own pass after the insertion is one of ReconcileBegin's.
CreateUpdateCampaign(eligible, online, active) ==
  /\ campaign.status = "none"
  /\ \E canary \in canaries(online, active) :
       CreateNodeUpdateCampaign([n \in eligible |-> position(eligible, canary, n)])
  /\ UNCHANGED <<ops, node, busy, ctl, faults>>

----------------------------------------------------------------------------
(* A pass of the controller: refresh every member, decide, dispatch *)

\* The ticker, a handler or an agent's event starts a pass; a paused or
\* finished campaign ends it at once.  Of the members that are not done, only
\* those with an operation or without a node are touched.
ReconcileBegin ==
  /\ ctl = Idle
  /\ GetActiveNodeUpdateCampaign /\ campaign.status # "paused"
  /\ ctl' = [pc |-> "refresh",
             todo |-> {n \in Nodes : Member(n) /\ members[n].status \notin {"skipped", "succeeded"}
                                    /\ (members[n].op # None \/ node[n] = "deleted")}]
  /\ UNCHANGED <<campaign, members, ops, node, busy, faults>>

\* The member whose turn it is, and what is left after it.
Turn(pc, n) == ctl.pc = pc /\ n \in ListNodeUpdateCampaignMembers(ctl.todo)
GoOn(pc, n) == ctl' = [pc |-> pc, todo |-> ctl.todo \ {n}]
GoOnOrIdle(n) == IF ctl.todo = {n} THEN ctl' = Idle ELSE GoOn("dispatch", n)

\* What the member is to be written, in a statement of its own.
WriteNext(n, status) == ctl' = [pc |-> "write", todo |-> ctl.todo, at |-> n, status |-> status]

\* A deleted node: its operation is asked to stop, then the member is skipped.
RefreshDeletedMember(n) ==
  /\ Turn("refresh", n)
  /\ node[n] = "deleted"
  /\ ops' = IF members[n].op # None /\ members[n].status \in {"queued", "running"}
            THEN [ops EXCEPT ![members[n].op] = Cancelled(@)] ELSE ops
  /\ WriteNext(n, "skipped")
  /\ UNCHANGED <<campaign, members, node, busy, faults>>

\* The member takes the status of its operation; an expired one was never
\* claimed and is skipped.
StatusOf(op) ==
  CASE op.status = "expired" /\ ~op.claimed -> "skipped"
    [] op.status = "expired" /\ op.claimed -> "failed"
    [] OTHER -> op.status

RefreshMember(n) ==
  /\ Turn("refresh", n)
  /\ node[n] # "deleted"
  /\ LET op == ops[members[n].op]
     IN  IF op.status = "queued" /\ op.due
         THEN ctl' = [pc |-> "timeout", todo |-> ctl.todo, at |-> n]
         ELSE IF StatusOf(op) # members[n].status THEN WriteNext(n, StatusOf(op)) ELSE GoOn("refresh", n)
  /\ UNCHANGED <<campaign, members, ops, node, busy, faults>>

\* Ten minutes in the queue: cancelled if no agent claimed it meanwhile, and
\* the member is to be skipped if it then is cancelled.
TimeoutMember ==
  /\ ctl.pc = "timeout"
  /\ LET n == ctl.at
         op == CancelledUnclaimed(ops[members[n].op])
     IN  /\ ops' = [ops EXCEPT ![members[n].op] = op]
         /\ WriteNext(n, IF op.status = "cancelled" THEN "skipped" ELSE StatusOf(op))
  /\ UNCHANGED <<campaign, members, node, busy, faults>>

\* The member is written, from what was read of its node and its operation.
WriteMember ==
  /\ ctl.pc = "write"
  /\ UpdateNodeUpdateCampaignMemberState(ctl.at, ctl.status)
  /\ GoOn("refresh", ctl.at)
  /\ UNCHANGED <<campaign, ops, node, busy, faults>>

Failed(n) == members[n].status \in {"failed", "cancelled"}

\* Mutant: a batch is left as soon as none of its members is pending.
CompletedDispatched(n) == members[n].status # "pending"

Completed(n) == members[n].status \in {"succeeded", "skipped"}

\* The next batch with a pending member, or the end.
Advance ==
  LET pending == {n \in Nodes : Member(n) /\ members[n].status = "pending" /\ members[n].batch > campaign.batch}
  IN  \/ /\ pending = {}
         /\ UpdateNodeUpdateCampaignState("succeeded", campaign.batch)
      \/ \E n \in pending :
           /\ \A m \in pending : members[n].batch <= members[m].batch
           /\ UpdateNodeUpdateCampaignState("running", members[n].batch)

\* Mutant: pending members of every batch are dispatched.
UndispatchedAnywhere == {n \in Nodes : Member(n) /\ members[n].status = "pending" /\ members[n].op = None}

Undispatched == {n \in InBatch(campaign.batch) : members[n].status = "pending" /\ members[n].op = None}

\* Members are refreshed: start the campaign, pause it, dispatch its batch,
\* wait for it or leave it.
Decide ==
  /\ ctl.pc = "refresh" /\ ctl.todo = {}
  /\ LET batch == InBatch(campaign.batch)
         sound == campaign.status = "running" /\ \A n \in batch : ~Failed(n)
     IN  \/ /\ campaign.status = "queued"
            /\ UpdateNodeUpdateCampaignState("running", 0)
            /\ ctl' = Idle
         \/ /\ campaign.status = "running" /\ \E n \in batch : Failed(n)
            /\ UpdateNodeUpdateCampaignState("paused", campaign.batch)
            /\ ctl' = Idle
         \/ /\ sound /\ Undispatched # {}
            /\ ctl' = [pc |-> "dispatch", todo |-> Undispatched]
            /\ UNCHANGED campaign
         \/ /\ sound /\ Undispatched = {}
            /\ IF \A n \in batch : Completed(n) THEN Advance ELSE UNCHANGED campaign
            /\ ctl' = Idle
  /\ UNCHANGED <<members, ops, node, busy, faults>>

\* The idempotency key of a member names an operation whose expiry was
\* another: the campaign was resumed since.
Conflicting(key) == ops[key] # None /\ ops[key].term # campaign.term
\* Mutant: a waiting member is never given up.
DueNever == FALSE

\* The queue time of the batch is over.
Due == campaign.due

\* A member of the batch that has no operation yet is skipped when the batch's
\* queue time is over or its node is gone, waits for an operation of someone
\* else, or has its operation created (or found, after a crash) ...
DispatchMember(n) ==
  LET key == <<n, 0>>
      dispatchable == ~Due /\ node[n] = "ok"
  IN  /\ Turn("dispatch", n)
      /\ \/ /\ ~dispatchable
            /\ UpdateNodeUpdateCampaignMemberState(n, "skipped")
            /\ GoOnOrIdle(n)
            /\ UNCHANGED ops
         \/ /\ dispatchable /\ ops[key] = None /\ Occupied(n)
            /\ GoOnOrIdle(n)
            /\ UNCHANGED <<members, ops>>
         \/ /\ dispatchable /\ Conflicting(key)
            /\ ctl' = Idle
            /\ UNCHANGED <<members, ops>>
         \/ /\ dispatchable /\ ops[key] = None /\ ~Occupied(n)
            /\ ops' = [ops EXCEPT ![key] = NewOperation]
            /\ ctl' = [pc |-> "attach", todo |-> ctl.todo, at |-> n, status |-> "queued"]
            /\ UNCHANGED members
         \/ /\ dispatchable /\ ops[key] # None /\ ~Conflicting(key)
            /\ ctl' = [pc |-> "attach", todo |-> ctl.todo, at |-> n, status |-> ops[key].status]
            /\ UNCHANGED <<members, ops>>
      /\ UNCHANGED <<campaign, node, busy, faults>>

\* ... and attached in a later statement, which fails for an expired one: the
\* CHECK of the table knows no such member.
AttachMember ==
  /\ ctl.pc = "attach"
  /\ IF ctl.status = "expired"
     THEN ctl' = Idle /\ UNCHANGED members
     ELSE AttachNodeUpdateCampaignOperation(ctl.at, <<ctl.at, 0>>, ctl.status) /\ GoOnOrIdle(ctl.at)
  /\ UNCHANGED <<campaign, ops, node, busy, faults>>

ControllerStep ==
  \/ \E n \in Nodes : RefreshDeletedMember(n) \/ RefreshMember(n) \/ DispatchMember(n)
  \/ TimeoutMember \/ WriteMember \/ Decide \/ AttachMember

----------------------------------------------------------------------------
(* Resuming and cancelling *)

\* Mutant: every member of the batch is retried.
RetriedWholeBatch == {n \in InBatch(campaign.batch) : members[n].op # None}

Retried == {n \in InBatch(campaign.batch) : Failed(n)}

ResumeBegin ==
  /\ ctl = Idle /\ campaign.status = "paused" /\ campaign.term < MaxResumes
  /\ Retried # {}
  /\ ctl' = [pc |-> "retry", todo |-> Retried]
  /\ UNCHANGED <<campaign, members, ops, node, busy, faults>>

RetryKey(n) == <<n, members[n].op[2] + 1>>
\* A retry is created unless its key is taken (its expiry differs from the
\* earlier request's), the node has an active operation or was deleted.
Retryable(n) ==
  members[n].op[2] < MaxRetries /\ node[n] # "deleted" /\ ~Occupied(n) /\ ops[RetryKey(n)] = None

ResumeRetry(n) ==
  /\ Turn("retry", n)
  /\ IF Retryable(n)
     THEN /\ ops' = [ops EXCEPT ![RetryKey(n)] = NewOperation]
          /\ ctl' = [pc |-> "replace", todo |-> ctl.todo, at |-> n]
     ELSE ctl' = Idle /\ UNCHANGED ops
  /\ UNCHANGED <<campaign, members, node, busy, faults>>

ResumeReplace ==
  /\ ctl.pc = "replace"
  /\ ReplaceNodeUpdateCampaignOperationForRetry(ctl.at, RetryKey(ctl.at), "queued")
  /\ GoOn("retry", ctl.at)
  /\ UNCHANGED <<campaign, ops, node, busy, faults>>

ResumeEnd ==
  /\ ctl.pc = "retry" /\ ctl.todo = {}
  /\ campaign' = [campaign EXCEPT !.status = "running", !.due = FALSE, !.term = @ + 1]
  /\ ctl' = Idle
  /\ UNCHANGED <<members, ops, node, busy, faults>>

Fault == faults < MaxFaults /\ faults' = faults + 1

CancelBegin ==
  /\ Fault
  /\ ctl = Idle /\ GetActiveNodeUpdateCampaign
  /\ UpdateNodeUpdateCampaignState("cancelled", campaign.batch)
  /\ ctl' = [pc |-> "cancel",
             todo |-> {n \in Nodes : Member(n) /\ members[n].op # None /\ members[n].status \in {"queued", "running"}}]
  /\ UNCHANGED <<members, ops, node, busy>>

CancelMember(n) ==
  /\ Turn("cancel", n)
  /\ ops' = [ops EXCEPT ![members[n].op] = Cancelled(@)]
  /\ GoOn("cancel", n)
  /\ UNCHANGED <<campaign, members, node, busy, faults>>

CancelEnd ==
  /\ ctl.pc = "cancel" /\ ctl.todo = {}
  /\ ctl' = Idle
  /\ UNCHANGED <<campaign, members, ops, node, busy, faults>>

HandlerStep ==
  \/ \E n \in Nodes : ResumeRetry(n) \/ CancelMember(n)
  \/ ResumeReplace \/ ResumeEnd \/ CancelEnd

----------------------------------------------------------------------------
(* Agents, administrators, time and crashes *)

Claim(key) ==
  /\ ops[key] # None /\ ops[key].status = "queued" /\ ~ops[key].due /\ node[key[1]] # "deleted"
  /\ ops' = [ops EXCEPT ![key].status = "running", ![key].claimed = TRUE]
  /\ UNCHANGED <<campaign, members, node, busy, ctl, faults>>

Finish(key) ==
  /\ ops[key] # None /\ ops[key].status = "running" /\ node[key[1]] # "deleted"
  /\ \E status \in {"succeeded", "failed"} \cup (IF ops[key].cancel THEN {"cancelled"} ELSE {}) :
       ops' = [ops EXCEPT ![key].status = status, ![key].cancel = FALSE]
  /\ UNCHANGED <<campaign, members, node, busy, ctl, faults>>

\* ExpireQueuedNodeOperations, of a claim or a read of the node's operation.
Expire(key) ==
  /\ ops[key] # None /\ ops[key].status = "queued" /\ ops[key].due /\ node[key[1]] # "deleted"
  /\ ops' = [ops EXCEPT ![key].status = "expired"]
  /\ UNCHANGED <<campaign, members, node, busy, ctl, faults>>

\* Operations are dispatched with the deadline of their campaign, ten minutes
\* after its state changed, retries with their own; the controller's own
\* timeout, ten minutes after the request, is taken as the same moment.
SharesDeadline(key) == key[2] = 0 /\ ops[key].term = campaign.term
OperationAges(key) ==
  /\ ops[key] # None /\ ops[key].status = "queued" /\ ~ops[key].due /\ ~SharesDeadline(key)
  /\ ops' = [ops EXCEPT ![key].due = TRUE]
  /\ UNCHANGED <<campaign, members, node, busy, ctl, faults>>

CampaignAges ==
  /\ campaign.status \in {"running", "paused", "cancelled"} /\ ~campaign.due
  /\ campaign' = [campaign EXCEPT !.due = TRUE]
  /\ ops' = [key \in Keys |-> IF ops[key] # None /\ ops[key].status = "queued" /\ SharesDeadline(key)
                              THEN [ops[key] EXCEPT !.due = TRUE] ELSE ops[key]]
  /\ UNCHANGED <<members, node, busy, ctl, faults>>

\* The server stops, a statement fails or the client of a handler goes away.
Crash == Fault /\ ctl # Idle /\ ctl' = Idle /\ UNCHANGED <<campaign, members, ops, node, busy>>
DeleteNode(n) ==
  /\ Fault /\ node[n] # "deleted"
  /\ node' = [node EXCEPT ![n] = "deleted"] /\ UNCHANGED <<campaign, members, ops, busy, ctl>>
DisableNode(n) ==
  /\ Fault /\ node[n] = "ok"
  /\ node' = [node EXCEPT ![n] = "disabled"] /\ UNCHANGED <<campaign, members, ops, busy, ctl>>
CancelOperation(key) ==
  /\ Fault /\ Active(key)
  /\ ops' = [ops EXCEPT ![key] = Cancelled(@)] /\ UNCHANGED <<campaign, members, node, busy, ctl>>
OtherOperation(n) ==
  /\ Fault /\ ~Occupied(n) /\ node[n] # "deleted"
  /\ busy' = busy \cup {n} /\ UNCHANGED <<campaign, members, ops, node, ctl>>
OtherOperationEnds(n) ==
  /\ n \in busy
  /\ busy' = busy \ {n} /\ UNCHANGED <<campaign, members, ops, node, ctl, faults>>

----------------------------------------------------------------------------
Init ==
  /\ campaign = [status |-> "none", batch |-> 0, due |-> FALSE, term |-> 0]
  /\ members = [n \in Nodes |-> None]
  /\ ops = [key \in Keys |-> None]
  /\ node = [n \in Nodes |-> "ok"]
  /\ busy = {}
  /\ ctl = Idle
  /\ faults = 0

\* A finished campaign that nobody works on stays as it is.
Done ==
  /\ campaign.status \in {"succeeded", "cancelled"} /\ ctl = Idle
  /\ UNCHANGED vars

Next ==
  \/ \E nodes \in Selections : CreateUpdateCampaign(nodes[1], nodes[2], nodes[3])
  \/ ReconcileBegin \/ ControllerStep
  \/ ResumeBegin \/ CancelBegin \/ HandlerStep
  \/ \E key \in Keys : Claim(key) \/ Finish(key) \/ Expire(key) \/ OperationAges(key) \/ CancelOperation(key)
  \/ CampaignAges
  \/ Crash
  \/ \E n \in Nodes : DeleteNode(n) \/ DisableNode(n) \/ OtherOperation(n) \/ OtherOperationEnds(n)
  \/ Done

\* Whoever holds the controller's mutex goes on, and the ticker, which starts
\* a pass every 15 seconds, takes it when it is free; time passes; agents that
\* claimed operations come back to them and end them, unless they were asked to
\* stop: then the last event may be dropped, or the lease run out, and nothing
\* ends the operation (CancelledEnds of OperationProtocol).  Nothing obliges an
\* administrator to act.
Fairness ==
  /\ WF_vars(ReconcileBegin \/ ControllerStep \/ HandlerStep)
  /\ WF_vars(CampaignAges \/ \E key \in Keys : OperationAges(key))
  /\ WF_vars(\E key \in Keys : Finish(key) /\ ~ops[key].cancel)

Spec == Init /\ [][Next]_vars /\ Fairness

----------------------------------------------------------------------------
(* Properties *)

\* Rows hold values their CHECKs allow, and the members of a campaign start
\* with one canary and go on in batches of BatchSize.
CampaignTypeOK ==
  /\ campaign \in [status : {"none", "queued", "running", "paused", "succeeded", "cancelled"},
                   batch : 0..NodeCount, due : BOOLEAN, term : 0..MaxResumes]
  /\ \A n \in Nodes : Member(n) => members[n].status \in MemberStatuses /\ members[n].op \in Keys \cup {None}
  /\ campaign.status # "none" => Cardinality(InBatch(0)) = 1 /\ \A b \in 1..NodeCount : Cardinality(InBatch(b)) <= BatchSize
  /\ busy \subseteq Nodes

\* A batch is released only when every earlier one is over: no operation of a
\* later batch exists, attached or not, while an earlier member is not done.
BatchesInOrder ==
  \A n, m \in Nodes :
    Member(n) /\ Member(m) /\ members[m].batch < members[n].batch /\ (\E k \in 0..MaxRetries : ops[<<n, k>>] # None)
      => Completed(m)

\* Whatever crashes and retries do, a node carries out a campaign's update at most once.
UpdatedOnce ==
  \A n \in Nodes : Cardinality({k \in 0..MaxRetries : ops[<<n, k>>] # None /\ ops[<<n, k>>].status = "succeeded"}) <= 1

\* A campaign that succeeded left no operation that failed or still runs
\* behind, but for nodes that were deleted or whose member was skipped.
SucceededMeansUpdated ==
  campaign.status = "succeeded" =>
    \A n \in Nodes : Member(n) /\ members[n].status # "skipped"
      => members[n].status = "succeeded" /\ ops[members[n].op].status = "succeeded"

\* A member of the current batch waits for an operation that was asked to stop.
HeldUp == \E n \in InBatch(campaign.batch) : members[n].op # None /\ Active(members[n].op) /\ ops[members[n].op].cancel

\* A queued or running campaign ends or pauses for its operator, though nodes
\* fail, are deleted, disabled or kept busy and the server stops in the middle
\* of a pass, unless it is held up: one that never comes to rest waits, again
\* and again, for an operation that was asked to stop.
CampaignComesToRest ==
  (campaign.status \in {"queued", "running"}) ~> (campaign.status \in {"paused", "succeeded", "cancelled"} \/ HeldUp)

\* "Never skip an operation that has started executing on the node."
NeverSkipsStarted ==
  \A n \in Nodes : Member(n) /\ members[n].status = "skipped" /\ node[n] # "deleted"
    => \A k \in 0..MaxRetries : ops[<<n, k>>] # None => ~ops[<<n, k>>].claimed

\* An operator can retry the failed members of a paused campaign.
PausedCanResume ==
  campaign.status = "paused" /\ ctl = Idle => \E n \in InBatch(campaign.batch) : Failed(n)
=================================================================================
