-------------------------- MODULE UpdateCampaignProofs --------------------------
(***************************************************************************)
(* Proofs about UpdateCampaign for every number of nodes, every selection, *)
(* both batch sizes and every number of retries and faults.                *)
(***************************************************************************)
EXTENDS UpdateCampaign, FiniteSetTheorems, TLAPS

Retries == 0..MaxRetries

(* An operation that is over, and one that did not carry out the update.   *)
Over == {"succeeded", "failed", "cancelled", "expired"}
Lost == {"failed", "cancelled", "expired"}

CampaignStatuses == {"none", "queued", "running", "paused", "succeeded", "cancelled"}
RowsOK ==
  /\ campaign \in [status : CampaignStatuses, batch : Nat, due : BOOLEAN, term : Nat]
  /\ members \in [Nodes -> MemberRows \cup {None}]
  /\ ops \in [Keys -> OperationRows \cup {None}]
  /\ node \in [Nodes -> {"ok", "disabled", "deleted"}]

(* The operations of a node come one after the other: each was lost before *)
(* the next was created.                                                   *)
OneByOne(n) ==
  \A j, k \in Retries : j < k /\ ops[<<n, k>>] # None => ops[<<n, j>>] # None /\ ops[<<n, j>>].status \in Lost

(* A member without an operation attached has at most the one of its first *)
(* dispatch; a member with one knows how it ended, and there is at most    *)
(* one more, created by a resume that did not come to replace it.          *)
Unattached(n) ==
  /\ members[n].op = None /\ members[n].status \in {"pending", "skipped"}
  /\ \A j \in Retries : j > 0 => ops[<<n, j>>] = None
Attached(n, k) ==
  /\ members[n].op = <<n, k>> /\ ops[<<n, k>>] # None
  /\ Failed(n) => ops[<<n, k>>].status \in Lost
  /\ members[n].status = "succeeded" => ops[<<n, k>>].status = "succeeded"
  /\ \A j \in Retries : j > k + 1 => ops[<<n, j>>] = None
MemberOK(n) ==
  /\ Member(n) => Unattached(n) \/ \E k \in Retries : Attached(n, k)
  /\ ~Member(n) => \A j \in Retries : ops[<<n, j>>] = None

(* Earlier batches are over and later ones untouched.                      *)
BatchOK(n) ==
  Member(n) => /\ members[n].batch < campaign.batch => Completed(n)
               /\ members[n].batch > campaign.batch => Unattached(n) /\ ops[<<n, 0>>] = None

(* What the holder of the mutex relies on: only it changes members.        *)
Refreshable(n) == ~Completed(n) /\ (members[n].op # None \/ node[n] = "deleted")
Dispatchable(n) == members[n].batch = campaign.batch /\ members[n].status = "pending" /\ members[n].op = None
Resumable(n) == members[n].batch = campaign.batch /\ Failed(n)
(* What was read of a member's operation remains true of it.               *)
ReadOK(n, status) ==
  \/ status = "skipped"
  \/ /\ members[n].op # None /\ status \in MemberStatuses
     /\ status \in {"failed", "cancelled"} => ops[members[n].op].status \in Lost
     /\ status = "succeeded" => ops[members[n].op].status = "succeeded"
PassOK ==
  /\ ctl.pc \in {"idle", "refresh", "timeout", "write", "dispatch", "attach", "retry", "replace", "cancel"}
  /\ ctl.pc = "idle" => ctl = Idle
  /\ ctl.pc # "idle" => \A n \in ctl.todo : n \in Nodes /\ Member(n)
  /\ ctl.pc \in {"refresh", "timeout", "write"} =>
       campaign.status \in {"queued", "running"} /\ \A n \in ctl.todo : Refreshable(n)
  /\ ctl.pc = "timeout" => ctl.at \in ctl.todo /\ members[ctl.at].op # None
  /\ ctl.pc = "write" => ctl.at \in ctl.todo /\ ReadOK(ctl.at, ctl.status)
  /\ ctl.pc \in {"dispatch", "attach"} => campaign.status = "running" /\ \A n \in ctl.todo : Dispatchable(n)
  /\ ctl.pc = "attach" =>
       /\ ctl.at \in ctl.todo /\ ops[<<ctl.at, 0>>] # None /\ ctl.status \in OperationStatuses
       /\ ctl.status \in Over => ops[<<ctl.at, 0>>].status = ctl.status
  /\ ctl.pc \in {"retry", "replace"} => campaign.status = "paused" /\ \A n \in ctl.todo : Resumable(n)
  /\ ctl.pc = "replace" => ctl.at \in ctl.todo /\ RetryKey(ctl.at) \in Keys /\ ops[RetryKey(ctl.at)] # None
  /\ ctl.pc = "cancel" => campaign.status = "cancelled" /\ \A n \in ctl.todo : members[n].op # None

(* Before a campaign there is nothing, after it nothing is left to do.     *)
EndsOK ==
  /\ campaign.status = "none" => ctl = Idle /\ \A n \in Nodes : ~Member(n)
  /\ campaign.status = "queued" => campaign.batch = 0
  /\ campaign.status = "succeeded" => ctl = Idle /\ \A n \in Nodes : Member(n) => Completed(n)

CampaignInv ==
  /\ RowsOK /\ PassOK /\ EndsOK
  /\ \A n \in Nodes : OneByOne(n) /\ MemberOK(n) /\ BatchOK(n)

----------------------------------------------------------------------------
(* Operations that go on *)

LEMMA Constants ==
  /\ None \notin Keys /\ None \notin OperationRows /\ None \notin MemberRows
  /\ NodeCount \in Nat /\ MaxRetries \in Nat /\ 0 \in Retries /\ BatchSize \in Nat /\ BatchSize # 0
  /\ \A n \in Nodes : \A k \in Retries : <<n, k>> \in Keys
<1>1. NodeCount \in Nat /\ MaxRetries \in Nat /\ BatchSize \in {1, 2}
  BY CampaignConstants
<1>2. None \notin Keys /\ None \notin OperationRows /\ None \notin MemberRows
  BY CampaignConstants
<1>3. \A n \in Nodes : \A k \in Retries : <<n, k>> \in Keys
  BY DEF Keys, Retries
<1> QED
  BY <1>1, <1>2, <1>3 DEF Retries

(* Operations neither appear nor vanish, and one that is over stays so.    *)
OpsAdvance ==
  /\ ops' \in [Keys -> OperationRows \cup {None}]
  /\ \A key \in Keys : /\ ops[key] = None <=> ops'[key] = None
                       /\ ops[key] # None /\ ops[key].status \in Over => ops'[key].status = ops[key].status

LEMMA OneAdvances ==
  ASSUME RowsOK, NEW key \in Keys, ops[key] # None, NEW row \in OperationRows, ops' = [ops EXCEPT ![key] = row],
         ops[key].status \in Over => row.status = ops[key].status
  PROVE  OpsAdvance
<1>1. ops' \in [Keys -> OperationRows \cup {None}] /\ ops'[key] = row
  BY DEF RowsOK
<1>2. \A k \in Keys \ {key} : ops'[k] = ops[k]
  BY DEF RowsOK
<1>3. row # None
  BY Constants
<1> QED
  BY <1>1, <1>2, <1>3 DEF OpsAdvance

LEMMA NoneAdvances == ASSUME RowsOK, ops' = ops PROVE OpsAdvance
BY DEF OpsAdvance, RowsOK

(* Asking an operation to stop ends it in the queue and changes nothing of *)
(* one that is over.                                                       *)
LEMMA CancelledRow ==
  ASSUME NEW op \in OperationRows
  PROVE  /\ Cancelled(op) \in OperationRows /\ (op.status \in Over => Cancelled(op) = op)
         /\ CancelledUnclaimed(op) \in OperationRows /\ (op.status \in Over => CancelledUnclaimed(op) = op)
<1> DEFINE one == [op EXCEPT !.status = "cancelled"]
           two == [op EXCEPT !.cancel = TRUE]
<1>1. one \in OperationRows /\ two \in OperationRows
  BY DEF OperationRows, OperationStatuses
<1>2. Cancelled(op) = IF op.status = "queued" THEN one ELSE IF op.status = "running" THEN two ELSE op
  BY DEF Cancelled
<1> HIDE DEF one, two
<1>3. Cancelled(op) \in OperationRows /\ (op.status \in Over => Cancelled(op) = op)
  BY <1>1, <1>2 DEF Over
<1> QED
  BY <1>3 DEF CancelledUnclaimed, Over

LEMMA CancelAdvances ==
  ASSUME RowsOK, NEW key \in Keys, ops[key] # None, ops' = [ops EXCEPT ![key] = Cancelled(@)]
  PROVE  OpsAdvance
<1>1. ops[key] \in OperationRows
  BY DEF RowsOK
<1> DEFINE row == Cancelled(ops[key])
<1>2. row \in OperationRows /\ (ops[key].status \in Over => row.status = ops[key].status)
  BY <1>1, CancelledRow
<1>3. ops' = [ops EXCEPT ![key] = row]
  OBVIOUS
<1> HIDE DEF row
<1> QED
  BY <1>2, <1>3, OneAdvances

(* The same of the operations of one node.                                 *)
OperationsKept(n) ==
  \A j \in Retries : /\ ops[<<n, j>>] = None <=> ops'[<<n, j>>] = None
                     /\ ops[<<n, j>>] # None /\ ops[<<n, j>>].status \in Over
                          => ops'[<<n, j>>].status = ops[<<n, j>>].status

LEMMA AdvanceKeepsOperations == ASSUME OpsAdvance PROVE \A n \in Nodes : OperationsKept(n)
BY Constants DEF OpsAdvance, OperationsKept

LEMMA StillOneByOne == ASSUME NEW n \in Nodes, OperationsKept(n), OneByOne(n) PROVE OneByOne(n)'
BY DEF OneByOne, OperationsKept, Over, Lost

(* A member that is not written, while its batch is not left.              *)
LEMMA Undisturbed ==
  ASSUME NEW n \in Nodes, OperationsKept(n), members'[n] = members[n], campaign'.batch = campaign.batch,
         OneByOne(n), MemberOK(n), BatchOK(n)
  PROVE  OneByOne(n)' /\ MemberOK(n)' /\ BatchOK(n)'
<1>1. Unattached(n) => Unattached(n)'
  BY DEF Unattached, OperationsKept
<1>2. ASSUME NEW k \in Retries, Attached(n, k) PROVE Attached(n, k)'
  BY <1>2 DEF Attached, Failed, OperationsKept, Over, Lost
<1>3. MemberOK(n)'
  BY <1>1, <1>2 DEF MemberOK, Member, OperationsKept
<1>4. BatchOK(n)'
  BY <1>1, Constants DEF BatchOK, Member, Completed, OperationsKept
<1> QED
  BY <1>3, <1>4, StillOneByOne

(* No member is written: what remains is the campaign row and the mutex.   *)
LEMMA MembersKept ==
  ASSUME CampaignInv, OpsAdvance, UNCHANGED members, campaign'.batch = campaign.batch
  PROVE  \A n \in Nodes : OneByOne(n)' /\ MemberOK(n)' /\ BatchOK(n)'
BY Undisturbed, AdvanceKeepsOperations DEF CampaignInv

(* Of a member in hand that has an operation, the operation exists.        *)
LEMMA OperationExists ==
  ASSUME CampaignInv, NEW n \in Nodes, Member(n), members[n].op # None
  PROVE  \E k \in Retries : Attached(n, k) /\ members[n].op = <<n, k>> /\ members[n].op \in Keys /\ ops[members[n].op] # None
<1>1. PICK k \in Retries : Attached(n, k)
  BY DEF CampaignInv, MemberOK, Unattached
<1>2. <<n, k>> \in Keys
  BY Constants
<1> QED
  BY <1>1, <1>2 DEF Attached

(* A deleted node stays deleted.                                           *)
NodesAge ==
  /\ node' \in [Nodes -> {"ok", "disabled", "deleted"}]
  /\ \A n \in Nodes : node[n] = "deleted" => node'[n] = "deleted"

(* Operations advance, nodes are deleted and time passes while the         *)
(* controller is where it was.                                             *)
LEMMA SurroundingsKeep ==
  ASSUME CampaignInv, OpsAdvance, NodesAge, UNCHANGED <<members, ctl>>,
         campaign' \in [status : {campaign.status}, batch : {campaign.batch}, due : BOOLEAN, term : Nat]
  PROVE  CampaignInv'
<1>1. campaign'.status = campaign.status /\ campaign'.batch = campaign.batch
  OBVIOUS
<1>2. RowsOK'
  BY DEF CampaignInv, RowsOK, OpsAdvance, NodesAge
<1>3. EndsOK'
  BY <1>1 DEF CampaignInv, EndsOK, Member, Completed
<1>4. PassOK'
  <2>1. \A n \in Nodes : /\ Member(n)' <=> Member(n)
                         /\ Refreshable(n) => Refreshable(n)'
                         /\ Dispatchable(n) => Dispatchable(n)'
                         /\ Resumable(n) => Resumable(n)'
    BY <1>1 DEF Member, Refreshable, Dispatchable, Resumable, Completed, Failed, NodesAge
  <2>2. PassOK
    BY DEF CampaignInv
  <2>3. CASE ctl.pc = "idle"
    BY <2>2, <2>3 DEF PassOK
  <2>4. CASE ctl.pc \in {"refresh", "timeout", "dispatch", "retry", "cancel"}
    BY <1>1, <2>1, <2>2, <2>4 DEF PassOK
  <2>5. CASE ctl.pc = "attach"
    <3>1. ctl.at \in Nodes /\ <<ctl.at, 0>> \in Keys
      BY <2>2, <2>5, Constants DEF PassOK
    <3>2. ops'[<<ctl.at, 0>>] # None /\ (ctl.status \in Over => ops'[<<ctl.at, 0>>].status = ctl.status)
      BY <2>2, <2>5, <3>1 DEF PassOK, OpsAdvance
    <3> QED
      BY <1>1, <2>1, <2>2, <2>5, <3>2 DEF PassOK
  <2>6. CASE ctl.pc = "write"
    <3>1. ReadOK(ctl.at, ctl.status)'
      <4>1. ctl.at \in Nodes /\ Member(ctl.at) /\ ReadOK(ctl.at, ctl.status)
        BY <2>2, <2>6 DEF PassOK
      <4>2. members[ctl.at].op # None => members[ctl.at].op \in Keys /\ ops[members[ctl.at].op] # None
        BY <4>1, OperationExists
      <4> QED
        BY <4>1, <4>2 DEF ReadOK, OpsAdvance, Over, Lost
    <3> QED
      BY <1>1, <2>1, <2>2, <2>6, <3>1 DEF PassOK
  <2>7. CASE ctl.pc = "replace"
    <3>1. RetryKey(ctl.at)' = RetryKey(ctl.at)
      BY DEF RetryKey
    <3>2. RetryKey(ctl.at) \in Keys /\ ops'[RetryKey(ctl.at)] # None
      BY <2>2, <2>7 DEF PassOK, OpsAdvance
    <3> QED
      BY <1>1, <2>1, <2>2, <2>7, <3>1, <3>2 DEF PassOK
  <2> QED
    BY <2>2, <2>3, <2>4, <2>5, <2>6, <2>7 DEF PassOK
<1> QED
  BY <1>1, <1>2, <1>3, <1>4, MembersKept DEF CampaignInv

LEMMA SameCampaign ==
  ASSUME RowsOK, campaign' = campaign
  PROVE  campaign' \in [status : {campaign.status}, batch : {campaign.batch}, due : BOOLEAN, term : Nat]
BY DEF RowsOK

LEMMA SameNodes == ASSUME RowsOK, node' = node PROVE NodesAge
BY DEF RowsOK, NodesAge

(* Agents: claiming and ending operations, and expiry.                     *)
LEMMA AgentsKeep ==
  ASSUME CampaignInv, NEW key \in Keys, Claim(key) \/ Finish(key) \/ Expire(key) \/ OperationAges(key) \/ CancelOperation(key)
  PROVE  CampaignInv'
<1>1. ops[key] # None /\ UNCHANGED <<members, ctl, campaign, node>> /\ RowsOK
  BY DEF Claim, Finish, Expire, OperationAges, CancelOperation, Active, CampaignInv
<1>2. ops[key] \in OperationRows
  BY <1>1 DEF RowsOK
<1>3. CASE Claim(key)
  <2> DEFINE row == [ops[key] EXCEPT !.status = "running", !.claimed = TRUE]
  <2>1. row \in OperationRows /\ ops[key].status \notin Over
    BY <1>2, <1>3 DEF OperationRows, OperationStatuses, Claim, Over
  <2>2. ops' = [ops EXCEPT ![key] = row]
    BY <1>3 DEF Claim, RowsOK
  <2> HIDE DEF row
  <2>3. OpsAdvance
    BY <1>1, <2>1, <2>2, OneAdvances
  <2> QED
    BY <1>1, <2>3, SameCampaign, SameNodes, SurroundingsKeep
<1>4. CASE Finish(key)
  <2>1. PICK status \in {"succeeded", "failed", "cancelled"} : ops' = [ops EXCEPT ![key].status = status, ![key].cancel = FALSE]
    BY <1>4 DEF Finish
  <2> DEFINE row == [ops[key] EXCEPT !.status = status, !.cancel = FALSE]
  <2>2. row \in OperationRows /\ ops[key].status \notin Over
    BY <1>2, <1>4 DEF OperationRows, OperationStatuses, Finish, Over
  <2>3. ops' = [ops EXCEPT ![key] = row]
    BY <2>1 DEF RowsOK
  <2> HIDE DEF row
  <2>4. OpsAdvance
    BY <1>1, <2>2, <2>3, OneAdvances
  <2> QED
    BY <1>1, <2>4, SameCampaign, SameNodes, SurroundingsKeep
<1>5. CASE Expire(key)
  <2> DEFINE row == [ops[key] EXCEPT !.status = "expired"]
  <2>1. row \in OperationRows /\ ops[key].status \notin Over
    BY <1>2, <1>5 DEF OperationRows, OperationStatuses, Expire, Over
  <2>2. ops' = [ops EXCEPT ![key] = row]
    BY <1>5 DEF Expire
  <2> HIDE DEF row
  <2>3. OpsAdvance
    BY <1>1, <2>1, <2>2, OneAdvances
  <2> QED
    BY <1>1, <2>3, SameCampaign, SameNodes, SurroundingsKeep
<1>6. CASE OperationAges(key)
  <2> DEFINE row == [ops[key] EXCEPT !.due = TRUE]
  <2>1. row \in OperationRows /\ ops[key].status \notin Over
    BY <1>2, <1>6 DEF OperationRows, OperationStatuses, OperationAges, Over
  <2>2. ops' = [ops EXCEPT ![key] = row]
    BY <1>6 DEF OperationAges
  <2> HIDE DEF row
  <2>3. OpsAdvance
    BY <1>1, <2>1, <2>2, OneAdvances
  <2> QED
    BY <1>1, <2>3, SameCampaign, SameNodes, SurroundingsKeep
<1>7. CASE CancelOperation(key)
  <2>1. OpsAdvance
    BY <1>1, <1>7, CancelAdvances DEF CancelOperation
  <2> QED
    BY <1>1, <2>1, SameCampaign, SameNodes, SurroundingsKeep
<1> QED
  BY <1>3, <1>4, <1>5, <1>6, <1>7

LEMMA CampaignAgesKeeps ==
  ASSUME CampaignInv, CampaignAges
  PROVE  CampaignInv'
<1>1. RowsOK /\ UNCHANGED <<members, ctl, node>>
  BY DEF CampaignInv, CampaignAges
<1>2. ASSUME NEW key \in Keys
      PROVE  /\ ops'[key] \in OperationRows \cup {None}
             /\ ops[key] = None <=> ops'[key] = None
             /\ ops[key] # None /\ ops[key].status \in Over => ops'[key].status = ops[key].status
  <2>1. CASE ops[key] # None /\ ops[key].status = "queued" /\ SharesDeadline(key)
    <3> DEFINE row == [ops[key] EXCEPT !.due = TRUE]
    <3>1. ops'[key] = row
      BY <2>1 DEF CampaignAges
    <3>2. ops[key] \in OperationRows
      BY <1>1, <2>1 DEF RowsOK
    <3>3. row \in OperationRows
      BY <3>2 DEF OperationRows
    <3> HIDE DEF row
    <3> QED
      BY <2>1, <3>1, <3>3, Constants DEF Over
  <2>2. CASE ~(ops[key] # None /\ ops[key].status = "queued" /\ SharesDeadline(key))
    <3>1. ops'[key] = ops[key]
      BY <2>2 DEF CampaignAges
    <3> QED
      BY <1>1, <3>1 DEF RowsOK
  <2> QED
    BY <2>1, <2>2
<1>3. ops' = [key \in Keys |-> ops'[key]]
  BY DEF CampaignAges
<1>4. ops' \in [Keys -> OperationRows \cup {None}]
  BY <1>2, <1>3
<1>5. OpsAdvance
  BY <1>2, <1>4 DEF OpsAdvance
<1>6. campaign' \in [status : {campaign.status}, batch : {campaign.batch}, due : BOOLEAN, term : Nat]
  BY <1>1 DEF CampaignAges, RowsOK
<1> QED
  BY <1>1, <1>5, <1>6, SameNodes, SurroundingsKeep

LEMMA AdministratorsKeep ==
  ASSUME CampaignInv, NEW n \in Nodes, DeleteNode(n) \/ DisableNode(n) \/ OtherOperation(n) \/ OtherOperationEnds(n)
  PROVE  CampaignInv'
<1>1. RowsOK /\ UNCHANGED <<members, ctl, campaign, ops>>
  BY DEF CampaignInv, DeleteNode, DisableNode, OtherOperation, OtherOperationEnds
<1>2. NodesAge
  <2>1. CASE node' = node
    BY <1>1, <2>1, SameNodes
  <2>2. CASE DeleteNode(n) \/ DisableNode(n)
    BY <1>1, <2>2 DEF DeleteNode, DisableNode, NodesAge, RowsOK
  <2> QED
    BY <2>1, <2>2 DEF OtherOperation, OtherOperationEnds
<1> QED
  BY <1>1, <1>2, NoneAdvances, SameCampaign, SurroundingsKeep

LEMMA NothingKeeps ==
  ASSUME CampaignInv, UNCHANGED vars
  PROVE  CampaignInv'
<1>1. RowsOK /\ UNCHANGED <<members, ctl, campaign, ops, node>>
  BY DEF CampaignInv, vars
<1> QED
  BY <1>1, NoneAdvances, SameCampaign, SameNodes, SurroundingsKeep

----------------------------------------------------------------------------
(* Steps of the holder of the mutex that write no member *)

LEMMA MutexStep ==
  ASSUME CampaignInv, OpsAdvance, UNCHANGED <<members, node>>, campaign'.batch = campaign.batch,
         campaign' \in [status : CampaignStatuses, batch : Nat, due : BOOLEAN, term : Nat], PassOK', EndsOK'
  PROVE  CampaignInv'
<1>1. RowsOK'
  BY DEF CampaignInv, RowsOK, OpsAdvance
<1> QED
  BY <1>1, MembersKept DEF CampaignInv

LEMMA StateWritten ==
  ASSUME RowsOK, NEW status \in CampaignStatuses, NEW batch \in Nat, UpdateNodeUpdateCampaignState(status, batch)
  PROVE  /\ campaign' \in [status : CampaignStatuses, batch : Nat, due : BOOLEAN, term : Nat]
         /\ campaign'.status = status /\ campaign'.batch = batch
BY DEF RowsOK, UpdateNodeUpdateCampaignState

(* Nothing is in hand.                                                     *)
LEMMA IdlePass == ASSUME ctl' = Idle PROVE PassOK'
BY DEF PassOK, Idle

LEMMA ReconcileBeginKeeps ==
  ASSUME CampaignInv, ReconcileBegin
  PROVE  CampaignInv'
<1> DEFINE S == {n \in Nodes : Member(n) /\ members[n].status \notin {"skipped", "succeeded"}
                               /\ (members[n].op # None \/ node[n] = "deleted")}
<1>1. /\ ctl' = [pc |-> "refresh", todo |-> S] /\ UNCHANGED <<campaign, members, ops, node>>
      /\ campaign.status \in {"queued", "running"} /\ RowsOK /\ EndsOK
  BY DEF ReconcileBegin, GetActiveNodeUpdateCampaign, CampaignInv
<1>2. \A n \in S : n \in Nodes /\ Member(n)' /\ Refreshable(n)'
  BY <1>1 DEF Member, Refreshable, Completed
<1> HIDE DEF S
<1>3. ctl'.pc = "refresh" /\ ctl'.todo = S
  BY <1>1
<1>4. PassOK'
  BY <1>1, <1>2, <1>3 DEF PassOK
<1>5. EndsOK'
  BY <1>1 DEF EndsOK
<1> QED
  BY <1>1, <1>4, <1>5, NoneAdvances, MutexStep DEF RowsOK

LEMMA ResumeBeginKeeps ==
  ASSUME CampaignInv, ResumeBegin
  PROVE  CampaignInv'
<1>1. /\ ctl' = [pc |-> "retry", todo |-> Retried] /\ UNCHANGED <<campaign, members, ops, node>>
      /\ campaign.status = "paused" /\ RowsOK /\ EndsOK
  BY DEF ResumeBegin, CampaignInv
<1>2. \A n \in Retried : n \in Nodes /\ Member(n)' /\ Resumable(n)'
  BY <1>1 DEF Retried, InBatch, Member, Resumable, Failed
<1>3. ctl'.pc = "retry" /\ ctl'.todo = Retried
  BY <1>1
<1>4. PassOK'
  BY <1>1, <1>2, <1>3 DEF PassOK
<1>5. EndsOK'
  BY <1>1 DEF EndsOK
<1> QED
  BY <1>1, <1>4, <1>5, NoneAdvances, MutexStep DEF RowsOK

LEMMA ResumeEndKeeps ==
  ASSUME CampaignInv, ResumeEnd
  PROVE  CampaignInv'
<1>1. ctl' = Idle /\ UNCHANGED <<members, ops, node>> /\ RowsOK
  BY DEF ResumeEnd, CampaignInv
<1>2. /\ campaign' \in [status : CampaignStatuses, batch : Nat, due : BOOLEAN, term : Nat]
      /\ campaign'.status = "running" /\ campaign'.batch = campaign.batch
  <2> DEFINE t == campaign.term + 1
  <2>1. t \in Nat
    BY <1>1 DEF RowsOK
  <2>2. campaign' = [campaign EXCEPT !.status = "running", !.due = FALSE, !.term = t]
    BY DEF ResumeEnd
  <2> HIDE DEF t
  <2> QED
    BY <1>1, <2>1, <2>2 DEF RowsOK, CampaignStatuses
<1>3. EndsOK'
  BY <1>2 DEF EndsOK
<1> QED
  BY <1>1, <1>2, <1>3, IdlePass, NoneAdvances, MutexStep

LEMMA CancelBeginKeeps ==
  ASSUME CampaignInv, CancelBegin
  PROVE  CampaignInv'
<1> DEFINE S == {n \in Nodes : Member(n) /\ members[n].op # None /\ members[n].status \in {"queued", "running"}}
<1>1. ctl' = [pc |-> "cancel", todo |-> S] /\ UNCHANGED <<members, ops, node>> /\ RowsOK
  BY DEF CancelBegin, CampaignInv
<1>2. \A n \in S : n \in Nodes /\ Member(n)' /\ members'[n].op # None
  BY <1>1 DEF Member
<1> HIDE DEF S
<1>3. ctl'.pc = "cancel" /\ ctl'.todo = S
  BY <1>1
<1>4. /\ campaign' \in [status : CampaignStatuses, batch : Nat, due : BOOLEAN, term : Nat]
      /\ campaign'.status = "cancelled" /\ campaign'.batch = campaign.batch
  BY <1>1, StateWritten DEF CancelBegin, RowsOK, CampaignStatuses
<1>5. PassOK'
  BY <1>2, <1>3, <1>4 DEF PassOK
<1>6. EndsOK'
  BY <1>4 DEF EndsOK
<1> QED
  BY <1>1, <1>4, <1>5, <1>6, NoneAdvances, MutexStep

LEMMA CancelMemberKeeps ==
  ASSUME CampaignInv, NEW n \in Nodes, CancelMember(n)
  PROVE  CampaignInv'
<1>1. /\ ctl.pc = "cancel" /\ n \in ctl.todo /\ ctl' = [pc |-> "cancel", todo |-> ctl.todo \ {n}]
      /\ UNCHANGED <<campaign, members, node>> /\ RowsOK /\ PassOK /\ EndsOK
      /\ ops' = [ops EXCEPT ![members[n].op] = Cancelled(@)]
  BY DEF CancelMember, Turn, ListNodeUpdateCampaignMembers, GoOn, CampaignInv
<1>2. campaign.status = "cancelled" /\ \A m \in ctl.todo : m \in Nodes /\ Member(m) /\ members[m].op # None
  BY <1>1 DEF PassOK
<1>3. members[n].op \in Keys /\ ops[members[n].op] # None
  BY <1>1, <1>2, OperationExists
<1>4. OpsAdvance
  BY <1>1, <1>3, CancelAdvances
<1>5. ctl'.pc = "cancel" /\ ctl'.todo = ctl.todo \ {n}
  BY <1>1
<1>6. PassOK'
  BY <1>1, <1>2, <1>5 DEF PassOK, Member
<1>7. EndsOK'
  BY <1>1, <1>2 DEF EndsOK
<1> QED
  BY <1>1, <1>4, <1>6, <1>7, MutexStep DEF RowsOK

(* The mutex is released with everything left as it is.                    *)
LEMMA ReleaseKeeps ==
  ASSUME CampaignInv, ctl' = Idle, UNCHANGED <<campaign, members, ops, node>>
  PROVE  CampaignInv'
<1>1. RowsOK /\ EndsOK'
  BY DEF CampaignInv, EndsOK, Member, Completed
<1> QED
  BY <1>1, IdlePass, NoneAdvances, MutexStep DEF RowsOK

(* Leaving a batch: every member up to the next one is over.               *)
LEMMA AdvanceKeeps ==
  ASSUME CampaignInv, Advance, \A n \in InBatch(campaign.batch) : Completed(n), ctl' = Idle,
         UNCHANGED <<members, ops, node>>
  PROVE  CampaignInv'
<1> DEFINE pending == {n \in Nodes : Member(n) /\ members[n].status = "pending" /\ members[n].batch > campaign.batch}
<1>1. RowsOK /\ campaign.batch \in Nat
  BY DEF CampaignInv, RowsOK
<1>2. \A n \in Nodes : Member(n) => members[n].batch \in Nat
  BY <1>1 DEF RowsOK, Member, MemberRows
<1>3. \A n \in Nodes : Member(n) => Completed(n) \/ n \in pending
  <2> SUFFICES ASSUME NEW n \in Nodes, Member(n), n \notin pending PROVE Completed(n)
    OBVIOUS
  <2>1. CASE members[n].batch > campaign.batch
    BY <2>1 DEF CampaignInv, BatchOK, Unattached, Completed
  <2>2. CASE members[n].batch = campaign.batch
    BY <2>2 DEF InBatch
  <2>3. CASE members[n].batch < campaign.batch
    BY <2>3 DEF CampaignInv, BatchOK
  <2> QED
    BY <1>1, <1>2, <2>1, <2>2, <2>3
<1>4. CASE pending = {} /\ UpdateNodeUpdateCampaignState("succeeded", campaign.batch)
  <2>1. /\ campaign' \in [status : CampaignStatuses, batch : Nat, due : BOOLEAN, term : Nat]
        /\ campaign'.status = "succeeded" /\ campaign'.batch = campaign.batch
    BY <1>1, <1>4, StateWritten DEF CampaignStatuses
  <2>2. EndsOK'
    BY <1>3, <1>4, <2>1 DEF EndsOK, Member, Completed
  <2> QED
    BY <1>1, <2>1, <2>2, IdlePass, NoneAdvances, MutexStep
<1>5. ASSUME NEW n \in pending, \A m \in pending : members[n].batch <= members[m].batch,
             UpdateNodeUpdateCampaignState("running", members[n].batch)
      PROVE  CampaignInv'
  <2> DEFINE b == members[n].batch
  <2>1. b \in Nat /\ b > campaign.batch
    BY <1>2
  <2>2. /\ campaign' \in [status : CampaignStatuses, batch : Nat, due : BOOLEAN, term : Nat]
        /\ campaign'.status = "running" /\ campaign'.batch = b
    BY <1>1, <1>5, <2>1, StateWritten DEF CampaignStatuses
  <2>3. ASSUME NEW m \in Nodes PROVE OneByOne(m)' /\ MemberOK(m)' /\ BatchOK(m)'
    <3>1. OneByOne(m)' /\ MemberOK(m)'
      BY DEF CampaignInv, OneByOne, MemberOK, Member, Unattached, Attached, Failed
    <3>2. ASSUME Member(m), members[m].batch < b PROVE Completed(m)'
      <4>1. m \notin pending
        BY <1>2, <1>5, <2>1, <3>2
      <4> QED
        BY <1>3, <3>2, <4>1 DEF Completed
    <3>3. ASSUME Member(m), members[m].batch > b PROVE Unattached(m)' /\ ops'[<<m, 0>>] = None
      <4>1. members[m].batch > campaign.batch
        BY <1>1, <1>2, <2>1, <3>3
      <4> QED
        BY <3>3, <4>1 DEF CampaignInv, BatchOK, Unattached
    <3> QED
      BY <2>2, <3>1, <3>2, <3>3 DEF BatchOK, Member
  <2>4. EndsOK'
    BY <2>2 DEF EndsOK
  <2>5. RowsOK'
    BY <1>1, <2>2 DEF RowsOK
  <2> QED
    BY <2>3, <2>4, <2>5, IdlePass DEF CampaignInv
<1> QED
  BY <1>4, <1>5 DEF Advance

LEMMA DecideKeeps ==
  ASSUME CampaignInv, Decide
  PROVE  CampaignInv'
<1>1. /\ ctl.pc = "refresh" /\ ctl.todo = {} /\ UNCHANGED <<members, ops, node>>
      /\ RowsOK /\ PassOK /\ EndsOK /\ campaign.batch \in Nat
  BY DEF Decide, CampaignInv, RowsOK
<1>2. CASE campaign.status = "queued" /\ UpdateNodeUpdateCampaignState("running", 0) /\ ctl' = Idle
  <2>1. /\ campaign' \in [status : CampaignStatuses, batch : Nat, due : BOOLEAN, term : Nat]
        /\ campaign'.status = "running" /\ campaign'.batch = campaign.batch
    BY <1>1, <1>2, StateWritten DEF CampaignStatuses, EndsOK
  <2>2. EndsOK'
    BY <2>1 DEF EndsOK
  <2> QED
    BY <1>1, <1>2, <2>1, <2>2, IdlePass, NoneAdvances, MutexStep
<1>3. CASE UpdateNodeUpdateCampaignState("paused", campaign.batch) /\ ctl' = Idle
  <2>1. /\ campaign' \in [status : CampaignStatuses, batch : Nat, due : BOOLEAN, term : Nat]
        /\ campaign'.status = "paused" /\ campaign'.batch = campaign.batch
    BY <1>1, <1>3, StateWritten DEF CampaignStatuses
  <2>2. EndsOK'
    BY <2>1 DEF EndsOK
  <2> QED
    BY <1>1, <1>3, <2>1, <2>2, IdlePass, NoneAdvances, MutexStep
<1>4. CASE /\ campaign.status = "running" /\ ctl' = [pc |-> "dispatch", todo |-> Undispatched]
           /\ UNCHANGED campaign
  <2>1. \A n \in Undispatched : n \in Nodes /\ Member(n)' /\ Dispatchable(n)'
    BY <1>1, <1>4 DEF Undispatched, InBatch, Member, Dispatchable
  <2>2. ctl'.pc = "dispatch" /\ ctl'.todo = Undispatched
    BY <1>4
  <2>3. PassOK'
    BY <1>4, <2>1, <2>2 DEF PassOK
  <2>4. EndsOK'
    BY <1>4 DEF EndsOK
  <2> QED
    BY <1>1, <1>4, <2>3, <2>4, NoneAdvances, MutexStep DEF RowsOK
<1>5. CASE (\A n \in InBatch(campaign.batch) : Completed(n)) /\ Advance /\ ctl' = Idle
  BY <1>1, <1>5, AdvanceKeeps
<1>6. CASE UNCHANGED campaign /\ ctl' = Idle
  BY <1>1, <1>6, ReleaseKeeps
<1> QED
  BY <1>2, <1>3, <1>4, <1>5, <1>6 DEF Decide

----------------------------------------------------------------------------
(* Steps that write a member *)

MemberWritten(n) ==
  /\ members' \in [Nodes -> MemberRows \cup {None}] /\ members'[n] \in MemberRows
  /\ members'[n].batch = members[n].batch
  /\ \A m \in Nodes \ {n} : members'[m] = members[m]

LEMMA StatusWritten ==
  ASSUME RowsOK, NEW n \in Nodes, Member(n), NEW status \in MemberStatuses, UpdateNodeUpdateCampaignMemberState(n, status)
  PROVE  MemberWritten(n) /\ members'[n].op = members[n].op /\ members'[n].status = status
<1> DEFINE row == [members[n] EXCEPT !.status = status]
<1>1. members[n] \in MemberRows
  BY DEF RowsOK, Member
<1>2. row \in MemberRows /\ row.batch = members[n].batch /\ row.op = members[n].op /\ row.status = status
  BY <1>1 DEF MemberRows
<1>3. members' = [members EXCEPT ![n] = row]
  BY DEF UpdateNodeUpdateCampaignMemberState
<1> HIDE DEF row
<1> QED
  BY <1>2, <1>3 DEF RowsOK, MemberWritten

LEMMA OperationWritten ==
  ASSUME RowsOK, NEW n \in Nodes, Member(n), NEW status \in MemberStatuses, NEW key \in Keys,
         members' = [members EXCEPT ![n].op = key, ![n].status = status]
  PROVE  MemberWritten(n) /\ members'[n].op = key /\ members'[n].status = status
<1> DEFINE row == [members[n] EXCEPT !.op = key, !.status = status]
<1>1. members[n] \in MemberRows
  BY DEF RowsOK, Member
<1>2. row \in MemberRows /\ row.batch = members[n].batch /\ row.op = key /\ row.status = status
  BY <1>1 DEF MemberRows
<1>3. members' = [members EXCEPT ![n] = row]
  BY DEF RowsOK
<1> HIDE DEF row
<1> QED
  BY <1>2, <1>3, ZenonT(60) DEF RowsOK, MemberWritten

LEMMA MemberStep ==
  ASSUME CampaignInv, NEW n \in Nodes, MemberWritten(n), OpsAdvance, UNCHANGED <<campaign, node>>,
         MemberOK(n)', BatchOK(n)', PassOK', campaign.status \notin {"none", "succeeded"}
  PROVE  CampaignInv'
<1>1. \A m \in Nodes \ {n} : OneByOne(m)' /\ MemberOK(m)' /\ BatchOK(m)'
  BY Undisturbed, AdvanceKeepsOperations DEF CampaignInv, MemberWritten
<1>2. OneByOne(n)'
  BY StillOneByOne, AdvanceKeepsOperations DEF CampaignInv
<1>3. RowsOK'
  BY DEF CampaignInv, RowsOK, MemberWritten, OpsAdvance
<1>4. EndsOK'
  BY DEF CampaignInv, EndsOK
<1> QED
  BY <1>1, <1>2, <1>3, <1>4 DEF CampaignInv

(* Skipping a member never hurts: it is over, whatever its operation does. *)
LEMMA SkippedMember ==
  ASSUME CampaignInv, NEW n \in Nodes, Member(n), OpsAdvance, MemberWritten(n), members'[n].op = members[n].op,
         members'[n].status = "skipped", UNCHANGED campaign
  PROVE  MemberOK(n)' /\ BatchOK(n)'
<1>1. OperationsKept(n)
  BY AdvanceKeepsOperations
<1>2. Member(n)' /\ Completed(n)' /\ ~Failed(n)'
  BY Constants DEF Member, Completed, Failed, MemberWritten
<1>3. Unattached(n) => Unattached(n)'
  BY <1>1 DEF Unattached, OperationsKept
<1>4. ASSUME NEW k \in Retries, Attached(n, k) PROVE Attached(n, k)'
  BY <1>1, <1>2, <1>4 DEF Attached, OperationsKept
<1>5. MemberOK(n)'
  BY <1>2, <1>3, <1>4 DEF CampaignInv, MemberOK
<1>6. BatchOK(n)'
  BY <1>1, <1>2, <1>3, Constants DEF CampaignInv, BatchOK, MemberWritten, OperationsKept
<1> QED
  BY <1>5, <1>6

(* A member of the current batch takes the status of its operation.        *)
LEMMA RefreshedMember ==
  ASSUME CampaignInv, NEW n \in Nodes, Member(n), ~Completed(n), NEW k \in Retries, Attached(n, k),
         OpsAdvance, MemberWritten(n), members'[n].op = members[n].op, UNCHANGED campaign,
         Failed(n)' => ops'[<<n, k>>].status \in Lost,
         members'[n].status = "succeeded" => ops'[<<n, k>>].status = "succeeded"
  PROVE  MemberOK(n)' /\ BatchOK(n)'
<1>1. OperationsKept(n)
  BY AdvanceKeepsOperations
<1>2. members[n].op # None
  BY Constants DEF Attached
<1>3. members[n].batch = campaign.batch
  <2>1. members[n].batch \in Nat /\ campaign.batch \in Nat
    BY DEF CampaignInv, RowsOK, Member, MemberRows
  <2>2. ~(members[n].batch < campaign.batch) /\ ~(members[n].batch > campaign.batch)
    BY <1>2 DEF CampaignInv, BatchOK, Unattached
  <2> QED
    BY <2>1, <2>2
<1>4. Attached(n, k)'
  BY <1>1 DEF Attached, OperationsKept
<1>5. Member(n)'
  BY Constants DEF Member, MemberWritten
<1>6. BatchOK(n)'
  BY <1>3 DEF BatchOK, MemberWritten, CampaignInv, RowsOK
<1> QED
  BY <1>4, <1>5, <1>6 DEF MemberOK

(* Going on to the next member of the pass.                                *)
LEMMA PassGoesOn ==
  ASSUME PassOK, RowsOK, NEW n \in Nodes, \A m \in Nodes \ {n} : members'[m] = members[m], UNCHANGED <<campaign, node>>,
         NEW pc, \/ pc = "refresh" /\ ctl.pc \in {"refresh", "write"}
                 \/ pc = "dispatch" /\ ctl.pc \in {"dispatch", "attach"}
                 \/ pc = "retry" /\ ctl.pc \in {"retry", "replace"},
         ctl' = [pc |-> pc, todo |-> ctl.todo \ {n}]
  PROVE  PassOK'
<1>1. ctl'.pc = pc /\ ctl'.todo = ctl.todo \ {n}
  OBVIOUS
<1>2. \A m \in Nodes \ {n} : /\ Member(m)' <=> Member(m)
                             /\ Refreshable(m)' <=> Refreshable(m)
                             /\ Dispatchable(m)' <=> Dispatchable(m)
                             /\ Resumable(m)' <=> Resumable(m)
  BY DEF Member, Refreshable, Dispatchable, Resumable, Completed, Failed
<1>3. \A m \in ctl.todo : m \in Nodes /\ Member(m)
  BY DEF PassOK
<1>4. CASE pc = "refresh"
  BY <1>1, <1>2, <1>3, <1>4 DEF PassOK
<1>5. CASE pc = "dispatch"
  BY <1>1, <1>2, <1>3, <1>5 DEF PassOK
<1>6. CASE pc = "retry"
  BY <1>1, <1>2, <1>3, <1>6 DEF PassOK
<1> QED
  BY <1>4, <1>5, <1>6

(* The status a member takes says how the operation ended.                 *)
LEMMA StatusTaken ==
  ASSUME NEW op \in OperationRows
  PROVE  /\ StatusOf(op) \in MemberStatuses \ {"pending"}
         /\ StatusOf(op) \in {"failed", "cancelled"} => op.status \in Lost
         /\ StatusOf(op) = "succeeded" => op.status = "succeeded"
<1>1. op.status \in OperationStatuses /\ op.claimed \in BOOLEAN
  BY DEF OperationRows
<1>2. CASE op.status = "expired" /\ ~op.claimed
  BY <1>2 DEF StatusOf, MemberStatuses
<1>3. CASE op.status = "expired" /\ op.claimed
  BY <1>3 DEF StatusOf, MemberStatuses, Lost
<1>4. CASE op.status # "expired"
  BY <1>1, <1>4 DEF StatusOf, MemberStatuses, OperationStatuses, Lost
<1> QED
  BY <1>2, <1>3, <1>4

(* Something is read of a member, to be written in the next statement.     *)
LEMMA WriteNextKeeps ==
  ASSUME CampaignInv, NEW n \in Nodes, n \in ctl.todo, ctl.pc \in {"refresh", "timeout"}, OpsAdvance,
         UNCHANGED <<campaign, members, node>>, NEW status, WriteNext(n, status), ReadOK(n, status)'
  PROVE  CampaignInv'
<1>1. RowsOK /\ PassOK /\ EndsOK
  BY DEF CampaignInv
<1>2. ctl'.pc = "write" /\ ctl'.todo = ctl.todo /\ ctl'.at = n /\ ctl'.status = status
  BY DEF WriteNext
<1>3. campaign.status \in {"queued", "running"} /\ \A m \in ctl.todo : m \in Nodes /\ Member(m)' /\ Refreshable(m)'
  BY <1>1 DEF PassOK, Member, Refreshable, Completed
<1>4. ReadOK(ctl.at, ctl.status)'
  BY <1>2 DEF ReadOK
<1>5. PassOK'
  BY <1>2, <1>3, <1>4 DEF PassOK
<1>6. EndsOK'
  BY <1>1, <1>3 DEF EndsOK
<1> QED
  BY <1>1, <1>5, <1>6, MutexStep DEF RowsOK

LEMMA RefreshDeletedMemberKeeps ==
  ASSUME CampaignInv, NEW n \in Nodes, RefreshDeletedMember(n)
  PROVE  CampaignInv'
<1>1. /\ ctl.pc = "refresh" /\ n \in ctl.todo /\ WriteNext(n, "skipped")
      /\ UNCHANGED <<campaign, members, node>> /\ RowsOK /\ PassOK
  BY DEF RefreshDeletedMember, Turn, ListNodeUpdateCampaignMembers, CampaignInv
<1>2. Member(n)
  BY <1>1 DEF PassOK
<1>3. OpsAdvance
  <2>1. CASE ops' = ops
    BY <1>1, <2>1, NoneAdvances
  <2>2. CASE members[n].op # None /\ ops' = [ops EXCEPT ![members[n].op] = Cancelled(@)]
    <3>1. members[n].op \in Keys /\ ops[members[n].op] # None
      BY <1>2, <2>2, OperationExists
    <3> QED
      BY <1>1, <2>2, <3>1, CancelAdvances
  <2> QED
    BY <2>1, <2>2 DEF RefreshDeletedMember
<1>4. ReadOK(n, "skipped")'
  BY DEF ReadOK
<1> QED
  BY <1>1, <1>3, <1>4, WriteNextKeeps

LEMMA RefreshMemberKeeps ==
  ASSUME CampaignInv, NEW n \in Nodes, RefreshMember(n)
  PROVE  CampaignInv'
<1> DEFINE op == ops[members[n].op]
<1>1. /\ ctl.pc = "refresh" /\ n \in ctl.todo /\ node[n] # "deleted"
      /\ UNCHANGED <<campaign, members, ops, node>> /\ RowsOK /\ PassOK
  BY DEF RefreshMember, Turn, ListNodeUpdateCampaignMembers, CampaignInv
<1>2. Member(n) /\ members[n].op # None /\ campaign.status \in {"queued", "running"}
  BY <1>1 DEF PassOK, Refreshable
<1>3. members[n].op \in Keys /\ op # None
  BY <1>2, OperationExists
<1>4. OpsAdvance /\ EndsOK'
  BY <1>1, <1>2, NoneAdvances DEF CampaignInv, EndsOK
<1>5. CASE ctl' = [pc |-> "timeout", todo |-> ctl.todo, at |-> n]
  <2>1. ctl'.pc = "timeout" /\ ctl'.todo = ctl.todo /\ ctl'.at = n
    BY <1>5
  <2>2. \A m \in ctl.todo : m \in Nodes /\ Member(m)' /\ Refreshable(m)'
    BY <1>1 DEF PassOK, Member, Refreshable, Completed
  <2>3. PassOK'
    BY <1>1, <1>2, <2>1, <2>2 DEF PassOK
  <2> QED
    BY <1>1, <1>4, <2>3, MutexStep DEF RowsOK
<1>6. CASE WriteNext(n, StatusOf(op))
  <2>1. op \in OperationRows
    BY <1>1, <1>3 DEF RowsOK
  <2>2. /\ StatusOf(op) \in MemberStatuses
        /\ StatusOf(op) \in {"failed", "cancelled"} => op.status \in Lost
        /\ StatusOf(op) = "succeeded" => op.status = "succeeded"
    BY <2>1, StatusTaken
  <2>3. PICK status : status = StatusOf(op)
    OBVIOUS
  <2>4. ReadOK(n, status)'
    BY <1>1, <1>2, <2>2, <2>3 DEF ReadOK
  <2>5. WriteNext(n, status)
    BY <1>6, <2>3
  <2> QED
    BY <1>1, <1>4, <2>4, <2>5, WriteNextKeeps
<1>7. CASE ctl' = [pc |-> "refresh", todo |-> ctl.todo \ {n}]
  <2>1. PassOK'
    BY <1>1, <1>7, PassGoesOn
  <2> QED
    BY <1>1, <1>4, <2>1, MutexStep DEF RowsOK
<1> QED
  BY <1>5, <1>6, <1>7 DEF RefreshMember, GoOn

LEMMA TimeoutMemberKeeps ==
  ASSUME CampaignInv, TimeoutMember
  PROVE  CampaignInv'
<1>0. PICK n \in Nodes : n = ctl.at /\ n \in ctl.todo
  BY DEF TimeoutMember, CampaignInv, PassOK
<1> DEFINE was == ops[members[n].op]
           op == CancelledUnclaimed(was)
           status == IF op.status = "cancelled" THEN "skipped" ELSE StatusOf(op)
<1>1. /\ ctl.pc = "timeout" /\ UNCHANGED <<campaign, members, node>> /\ RowsOK /\ PassOK
      /\ ops' = [ops EXCEPT ![members[n].op] = op] /\ WriteNext(n, status)
  BY <1>0 DEF TimeoutMember, CampaignInv
<1>2. Member(n) /\ members[n].op # None
  BY <1>0, <1>1 DEF PassOK
<1>3. members[n].op \in Keys /\ was # None
  BY <1>2, OperationExists
<1>4. was \in OperationRows
  BY <1>1, <1>3 DEF RowsOK
<1>5. op \in OperationRows /\ (was.status \in Over => op.status = was.status)
  BY <1>4, CancelledRow
<1>6. /\ status \in MemberStatuses
      /\ status \in {"failed", "cancelled"} => op.status \in Lost
      /\ status = "succeeded" => op.status = "succeeded"
  BY <1>5, StatusTaken DEF MemberStatuses
<1> HIDE DEF op, status
<1>7. OpsAdvance
  BY <1>1, <1>3, <1>5, OneAdvances
<1>8. ops'[members[n].op] = op
  BY <1>1, <1>3 DEF RowsOK
<1>9. PICK s : s = status
  OBVIOUS
<1>10. ReadOK(n, s)'
  BY <1>1, <1>2, <1>6, <1>8, <1>9 DEF ReadOK
<1>11. WriteNext(n, s)
  BY <1>1, <1>9
<1> QED
  BY <1>0, <1>1, <1>7, <1>10, <1>11, WriteNextKeeps

LEMMA WriteMemberKeeps ==
  ASSUME CampaignInv, WriteMember
  PROVE  CampaignInv'
<1>0. PICK n \in Nodes : n = ctl.at
  BY DEF WriteMember, CampaignInv, PassOK
<1>1. /\ ctl.pc = "write" /\ UNCHANGED <<campaign, ops, node>> /\ RowsOK /\ PassOK
      /\ UpdateNodeUpdateCampaignMemberState(n, ctl.status) /\ ctl' = [pc |-> "refresh", todo |-> ctl.todo \ {n}]
  BY <1>0 DEF WriteMember, CampaignInv, GoOn
<1>2. /\ Member(n) /\ ~Completed(n) /\ ReadOK(n, ctl.status) /\ ctl.status \in MemberStatuses
      /\ campaign.status \in {"queued", "running"}
  BY <1>0, <1>1 DEF PassOK, Refreshable, ReadOK, MemberStatuses
<1>3. MemberWritten(n) /\ members'[n].op = members[n].op /\ members'[n].status = ctl.status
  BY <1>1, <1>2, StatusWritten
<1>4. OpsAdvance
  BY <1>1, NoneAdvances
<1>5. MemberOK(n)' /\ BatchOK(n)'
  <2>1. CASE ctl.status = "skipped"
    BY <1>1, <1>2, <1>3, <1>4, <2>1, SkippedMember
  <2>2. CASE ctl.status # "skipped"
    <3>1. members[n].op # None
      BY <1>2, <2>2 DEF ReadOK
    <3>2. PICK k \in Retries : Attached(n, k) /\ members[n].op = <<n, k>>
      BY <1>2, <3>1, OperationExists
    <3>3. /\ Failed(n)' => ops'[<<n, k>>].status \in Lost
          /\ members'[n].status = "succeeded" => ops'[<<n, k>>].status = "succeeded"
      BY <1>1, <1>2, <1>3, <2>2, <3>2 DEF ReadOK, Failed
    <3> QED
      BY <1>1, <1>2, <1>3, <1>4, <3>2, <3>3, RefreshedMember
  <2> QED
    BY <2>1, <2>2
<1>6. PassOK'
  BY <1>1, <1>3, PassGoesOn DEF MemberWritten
<1> QED
  BY <1>1, <1>2, <1>3, <1>4, <1>5, <1>6, MemberStep

(* A new operation of n leaves every other one as it was.                  *)
LEMMA OperationCreated ==
  ASSUME CampaignInv, NEW n \in Nodes, NEW k \in Retries, ops[<<n, k>>] = None,
         ops' = [ops EXCEPT ![<<n, k>>] = NewOperation]
  PROVE  /\ ops' \in [Keys -> OperationRows \cup {None}]
         /\ ops'[<<n, k>>] # None /\ ops'[<<n, k>>].status = "queued"
         /\ \A j \in Retries \ {k} : ops'[<<n, j>>] = ops[<<n, j>>]
         /\ \A m \in Nodes \ {n} : OperationsKept(m)
<1> DEFINE row == NewOperation
<1>1. row \in OperationRows /\ row.status = "queued"
  <2>1. campaign.term \in Nat
    BY DEF CampaignInv, RowsOK
  <2> QED
    BY <2>1 DEF NewOperation, OperationRows, OperationStatuses
<1>2. ops' = [ops EXCEPT ![<<n, k>>] = row]
  OBVIOUS
<1> HIDE DEF row
<1>3. <<n, k>> \in Keys /\ row # None
  BY <1>1, Constants
<1>4. ops' \in [Keys -> OperationRows \cup {None}] /\ ops'[<<n, k>>] = row
  BY <1>1, <1>2, <1>3 DEF CampaignInv, RowsOK
<1>5. \A key \in Keys : key # <<n, k>> => ops'[key] = ops[key]
  BY <1>2 DEF CampaignInv, RowsOK
<1>6. \A j \in Retries \ {k} : ops'[<<n, j>>] = ops[<<n, j>>]
  BY <1>5, Constants
<1>7. \A m \in Nodes \ {n} : \A j \in Retries : ops'[<<m, j>>] = ops[<<m, j>>]
  BY <1>5, Constants
<1>8. \A m \in Nodes \ {n} : OperationsKept(m)
  BY <1>7 DEF OperationsKept
<1> QED
  BY <1>1, <1>3, <1>4, <1>6, <1>8

LEMMA CreationStep ==
  ASSUME CampaignInv, NEW n \in Nodes, NEW k \in Retries, ops[<<n, k>>] = None, UNCHANGED <<campaign, members, node>>,
         ops' = [ops EXCEPT ![<<n, k>>] = NewOperation], OneByOne(n)', MemberOK(n)', BatchOK(n)', PassOK',
         campaign.status \notin {"none", "succeeded"}
  PROVE  CampaignInv'
<1>1. ops' \in [Keys -> OperationRows \cup {None}] /\ \A m \in Nodes \ {n} : OperationsKept(m)
  BY OperationCreated
<1>2. \A m \in Nodes \ {n} : OneByOne(m)' /\ MemberOK(m)' /\ BatchOK(m)'
  BY <1>1, Undisturbed DEF CampaignInv
<1>3. RowsOK' /\ EndsOK'
  BY <1>1 DEF CampaignInv, RowsOK, EndsOK
<1> QED
  BY <1>2, <1>3 DEF CampaignInv

(* The operation of a member's first dispatch.                             *)
LEMMA DispatchedMember ==
  ASSUME CampaignInv, NEW n \in Nodes, Member(n), Dispatchable(n), ops[<<n, 0>>] = None, UNCHANGED <<campaign, members>>,
         ops' = [ops EXCEPT ![<<n, 0>>] = NewOperation]
  PROVE  OneByOne(n)' /\ MemberOK(n)' /\ BatchOK(n)'
<1>1. 0 \in Retries /\ Retries \subseteq Nat
  BY Constants DEF Retries
<1>2. \A j \in Retries \ {0} : ops'[<<n, j>>] = ops[<<n, j>>]
  BY <1>1, OperationCreated
<1>3. Unattached(n)
  BY Constants DEF CampaignInv, MemberOK, Attached, Dispatchable
<1>4. ASSUME NEW j \in Retries, j > 0 PROVE ops'[<<n, j>>] = None
  <2>1. j \in Retries \ {0} /\ ops[<<n, j>>] = None
    BY <1>1, <1>3, <1>4 DEF Unattached
  <2> QED
    BY <1>2, <2>1
<1>5. OneByOne(n)' /\ Unattached(n)'
  <2>1. Unattached(n)'
    BY <1>3, <1>4 DEF Unattached
  <2>2. ASSUME NEW i \in Retries, NEW j \in Retries, i < j PROVE ops'[<<n, j>>] = None
    <3>1. j > 0
      BY <1>1, <2>2
    <3> QED
      BY <1>4, <3>1
  <2> QED
    BY <2>1, <2>2 DEF OneByOne
<1>6. MemberOK(n)'
  BY <1>5 DEF MemberOK, Member
<1>7. BatchOK(n)'
  BY DEF BatchOK, Dispatchable, CampaignInv, RowsOK
<1> QED
  BY <1>5, <1>6, <1>7

LEMMA DispatchMemberKeeps ==
  ASSUME CampaignInv, NEW n \in Nodes, DispatchMember(n)
  PROVE  CampaignInv'
<1> DEFINE key == <<n, 0>>
<1>1. ctl.pc = "dispatch" /\ n \in ctl.todo /\ UNCHANGED <<campaign, node>> /\ RowsOK /\ PassOK /\ EndsOK
  BY DEF DispatchMember, Turn, ListNodeUpdateCampaignMembers, CampaignInv
<1>2. Member(n) /\ Dispatchable(n) /\ campaign.status = "running" /\ key \in Keys /\ 0 \in Retries
  BY <1>1, Constants DEF PassOK
<1>3. CASE UpdateNodeUpdateCampaignMemberState(n, "skipped") /\ GoOnOrIdle(n) /\ UNCHANGED ops
  <2>1. MemberWritten(n) /\ members'[n].op = members[n].op /\ members'[n].status = "skipped"
    BY <1>1, <1>2, <1>3, StatusWritten DEF MemberStatuses
  <2>2. OpsAdvance
    BY <1>1, <1>3, NoneAdvances
  <2>3. MemberOK(n)' /\ BatchOK(n)'
    BY <1>1, <1>2, <2>1, <2>2, SkippedMember
  <2>4. PassOK'
    BY <1>1, <1>3, <2>1, PassGoesOn, IdlePass DEF MemberWritten, GoOnOrIdle, GoOn
  <2> QED
    BY <1>1, <1>2, <2>1, <2>2, <2>3, <2>4, MemberStep
<1>4. CASE GoOnOrIdle(n) /\ UNCHANGED <<members, ops>>
  <2>1. PassOK'
    BY <1>1, <1>4, PassGoesOn, IdlePass DEF GoOnOrIdle, GoOn
  <2>2. EndsOK'
    BY <1>1, <1>2 DEF EndsOK
  <2> QED
    BY <1>1, <1>4, <2>1, <2>2, NoneAdvances, MutexStep DEF RowsOK
<1>5. CASE ctl' = Idle /\ UNCHANGED <<members, ops>>
  BY <1>1, <1>5, ReleaseKeeps
<1>6. ASSUME NEW status \in OperationStatuses, ctl' = [pc |-> "attach", todo |-> ctl.todo, at |-> n, status |-> status],
             UNCHANGED members, ops'[key] # None, status \in Over => ops'[key].status = status
      PROVE  PassOK'
  <2>1. ctl'.pc = "attach" /\ ctl'.todo = ctl.todo /\ ctl'.at = n /\ ctl'.status = status
    BY <1>6
  <2>2. \A m \in ctl.todo : m \in Nodes /\ Member(m)' /\ Dispatchable(m)'
    BY <1>1, <1>6 DEF PassOK, Member, Dispatchable
  <2> QED
    BY <1>1, <1>2, <1>6, <2>1, <2>2 DEF PassOK
<1>7. CASE /\ ops[key] = None /\ ops' = [ops EXCEPT ![key] = NewOperation] /\ UNCHANGED members
           /\ ctl' = [pc |-> "attach", todo |-> ctl.todo, at |-> n, status |-> "queued"]
  <2>1. ops'[key] # None
    BY <1>2, <1>7, OperationCreated
  <2>2. PassOK'
    BY <1>6, <1>7, <2>1 DEF OperationStatuses, Over
  <2>3. OneByOne(n)' /\ MemberOK(n)' /\ BatchOK(n)'
    BY <1>1, <1>2, <1>7, DispatchedMember
  <2> QED
    BY <1>1, <1>2, <1>7, <2>2, <2>3, CreationStep
<1>8. CASE /\ ops[key] # None /\ UNCHANGED <<members, ops>>
           /\ ctl' = [pc |-> "attach", todo |-> ctl.todo, at |-> n, status |-> ops[key].status]
  <2>1. ops[key].status \in OperationStatuses
    BY <1>1, <1>2, <1>8 DEF RowsOK, OperationRows
  <2>2. PassOK'
    BY <1>6, <1>8, <2>1
  <2>3. EndsOK'
    BY <1>1, <1>2 DEF EndsOK
  <2> QED
    BY <1>1, <1>8, <2>2, <2>3, NoneAdvances, MutexStep DEF RowsOK
<1> QED
  BY <1>3, <1>4, <1>5, <1>7, <1>8 DEF DispatchMember

LEMMA AttachMemberKeeps ==
  ASSUME CampaignInv, AttachMember
  PROVE  CampaignInv'
<1>0. PICK n \in Nodes : n = ctl.at
  BY DEF AttachMember, CampaignInv, PassOK
<1>1. ctl.pc = "attach" /\ UNCHANGED <<campaign, ops, node>> /\ RowsOK /\ PassOK
  BY DEF AttachMember, CampaignInv
<1>2. /\ Member(n) /\ Dispatchable(n) /\ campaign.status = "running" /\ <<n, 0>> \in Keys /\ 0 \in Retries
      /\ ops[<<n, 0>>] # None /\ ctl.status \in OperationStatuses
      /\ ctl.status \in Over => ops[<<n, 0>>].status = ctl.status
  BY <1>0, <1>1, Constants DEF PassOK
<1>3. CASE ctl' = Idle /\ UNCHANGED members
  BY <1>1, <1>3, ReleaseKeeps
<1>4. CASE /\ ctl.status # "expired" /\ GoOnOrIdle(ctl.at)
           /\ AttachNodeUpdateCampaignOperation(ctl.at, <<ctl.at, 0>>, ctl.status)
  <2>1. ctl.status \in MemberStatuses \ {"pending", "skipped"}
    BY <1>2, <1>4 DEF OperationStatuses, MemberStatuses
  <2>2. members' = [members EXCEPT ![n].op = <<n, 0>>, ![n].status = ctl.status]
    BY <1>0, <1>2, <1>4 DEF AttachNodeUpdateCampaignOperation, Dispatchable
  <2>3. MemberWritten(n) /\ members'[n].op = <<n, 0>> /\ members'[n].status = ctl.status
    BY <1>1, <1>2, <2>1, <2>2, OperationWritten
  <2>4. Unattached(n)
    BY <1>2, Constants DEF CampaignInv, MemberOK, Attached, Dispatchable
  <2>5. Attached(n, 0)'
    <3>1. \A j \in Retries : j > 1 => ops[<<n, j>>] = None
      BY <2>4 DEF Unattached, Retries
    <3> QED
      BY <1>1, <1>2, <2>3, <3>1 DEF Attached, Failed, Over, Lost
  <2>6. MemberOK(n)'
    BY <1>2, <2>3, <2>5, Constants DEF MemberOK, Member, MemberWritten
  <2>7. BatchOK(n)'
    BY <1>1, <1>2, <2>3 DEF BatchOK, MemberWritten, Dispatchable, RowsOK
  <2>8. PassOK'
    <3>1. ctl' = Idle \/ ctl' = [pc |-> "dispatch", todo |-> ctl.todo \ {n}]
      BY <1>0, <1>4 DEF GoOnOrIdle, GoOn
    <3> QED
      BY <1>1, <2>3, <3>1, PassGoesOn, IdlePass DEF MemberWritten
  <2> QED
    BY <1>1, <1>2, <2>3, <2>6, <2>7, <2>8, NoneAdvances, MemberStep
<1> QED
  BY <1>3, <1>4 DEF AttachMember

(* A retry follows an operation that was lost.                             *)
LEMMA ResumeRetryKeeps ==
  ASSUME CampaignInv, NEW n \in Nodes, ResumeRetry(n)
  PROVE  CampaignInv'
<1>1. ctl.pc = "retry" /\ n \in ctl.todo /\ UNCHANGED <<campaign, members, node>> /\ RowsOK /\ PassOK
  BY DEF ResumeRetry, Turn, ListNodeUpdateCampaignMembers, CampaignInv
<1>2. Member(n) /\ Resumable(n) /\ campaign.status = "paused"
  BY <1>1 DEF PassOK
<1>3. CASE ctl' = Idle /\ UNCHANGED ops
  BY <1>1, <1>3, ReleaseKeeps
<1>4. CASE /\ Retryable(n) /\ ops' = [ops EXCEPT ![RetryKey(n)] = NewOperation]
           /\ ctl' = [pc |-> "replace", todo |-> ctl.todo, at |-> n]
  <2>1. PICK k \in Retries : Attached(n, k) /\ members[n].op = <<n, k>>
    BY <1>2 DEF CampaignInv, MemberOK, Unattached, Resumable, Failed, Attached
  <2>2. k \in Nat /\ k < MaxRetries /\ RetryKey(n) = <<n, k + 1>> /\ ops[<<n, k + 1>>] = None
    BY <1>4, <2>1, Constants DEF Retryable, RetryKey, Retries
  <2>3. k + 1 \in Retries
    BY <2>1, <2>2, Constants DEF Retries
  <2>4. ops' = [ops EXCEPT ![<<n, k + 1>>] = NewOperation]
    BY <1>4, <2>2
  <2>5. ops'[<<n, k + 1>>] # None /\ \A j \in Retries \ {k + 1} : ops'[<<n, j>>] = ops[<<n, j>>]
    BY <2>2, <2>3, <2>4, OperationCreated
  <2>6. ops[<<n, k>>] # None /\ ops[<<n, k>>].status \in Lost
    BY <1>2, <2>1 DEF Attached, Resumable
  <2>7. OneByOne(n)'
    <3> SUFFICES ASSUME NEW i \in Retries, NEW j \in Retries, i < j, ops'[<<n, j>>] # None
                 PROVE  ops'[<<n, i>>] # None /\ ops'[<<n, i>>].status \in Lost
      BY DEF OneByOne
    <3>1. i \in Nat /\ j \in Nat
      BY DEF Retries
    <3>2. j <= k + 1
      BY <2>1, <2>2, <2>5, <3>1 DEF Attached
    <3>3. i # k + 1 /\ ops'[<<n, i>>] = ops[<<n, i>>]
      BY <2>2, <2>5, <3>1, <3>2
    <3>4. CASE i = k
      BY <2>6, <3>3, <3>4
    <3>5. CASE i < k
      BY <2>6, <3>3, <3>5 DEF CampaignInv, OneByOne
    <3> QED
      BY <2>2, <3>1, <3>2, <3>4, <3>5
  <2>8. MemberOK(n)'
    <3>1. k # k + 1 /\ \A j \in Retries : j > k + 1 => j # k + 1
      BY <2>2 DEF Retries
    <3>2. Attached(n, k)'
      BY <1>1, <2>1, <2>5, <2>6, <3>1 DEF Attached, Failed
    <3> QED
      BY <1>1, <1>2, <3>2 DEF MemberOK, Member
  <2>9. BatchOK(n)'
    BY <1>1, <1>2 DEF BatchOK, Resumable, RowsOK
  <2>10. PassOK'
    <3>1. ctl'.pc = "replace" /\ ctl'.todo = ctl.todo /\ ctl'.at = n
      BY <1>4
    <3>2. \A m \in ctl.todo : m \in Nodes /\ Member(m)' /\ Resumable(m)'
      BY <1>1 DEF PassOK, Member, Resumable, Failed
    <3>3. RetryKey(ctl.at)' = <<n, k + 1>>
      BY <1>1, <2>2, <3>1 DEF RetryKey
    <3> QED
      BY <1>1, <1>2, <2>3, <2>5, <3>1, <3>2, <3>3, Constants DEF PassOK
  <2> QED
    BY <1>1, <1>2, <2>2, <2>3, <2>4, <2>7, <2>8, <2>9, <2>10, CreationStep
<1> QED
  BY <1>3, <1>4 DEF ResumeRetry

LEMMA ResumeReplaceKeeps ==
  ASSUME CampaignInv, ResumeReplace
  PROVE  CampaignInv'
<1>0. PICK n \in Nodes : n = ctl.at
  BY DEF ResumeReplace, CampaignInv, PassOK
<1>1. /\ ctl.pc = "replace" /\ UNCHANGED <<campaign, ops, node>> /\ RowsOK /\ PassOK
      /\ ctl' = [pc |-> "retry", todo |-> ctl.todo \ {n}]
  BY <1>0 DEF ResumeReplace, CampaignInv, GoOn
<1>2. /\ Member(n) /\ Resumable(n) /\ campaign.status = "paused"
      /\ RetryKey(n) \in Keys /\ ops[RetryKey(n)] # None
  BY <1>0, <1>1 DEF PassOK
<1>3. PICK k \in Retries : Attached(n, k) /\ members[n].op = <<n, k>>
  BY <1>2 DEF CampaignInv, MemberOK, Unattached, Resumable, Failed, Attached
<1>4. k \in Nat /\ RetryKey(n) = <<n, k + 1>>
  BY <1>3 DEF RetryKey, Retries
<1>5. k + 1 \in Retries
  BY <1>2, <1>4 DEF Keys, Retries
<1>6. members' = [members EXCEPT ![n].op = <<n, k + 1>>, ![n].status = "queued"]
  BY <1>0, <1>2, <1>4 DEF ResumeReplace, ReplaceNodeUpdateCampaignOperationForRetry, Resumable, Failed
<1>7. MemberWritten(n) /\ members'[n].op = <<n, k + 1>> /\ members'[n].status = "queued"
  BY <1>1, <1>2, <1>4, <1>6, OperationWritten DEF MemberStatuses
<1>8. Attached(n, k + 1)'
  <2>1. \A j \in Retries : j > (k + 1) + 1 => j > k + 1
    BY <1>4 DEF Retries
  <2> QED
    BY <1>1, <1>2, <1>3, <1>4, <1>7, <2>1 DEF Attached, Failed
<1>9. MemberOK(n)'
  BY <1>5, <1>7, <1>8, Constants DEF MemberOK, Member, MemberWritten
<1>10. BatchOK(n)'
  BY <1>1, <1>2, <1>7 DEF BatchOK, MemberWritten, Resumable, RowsOK
<1>11. PassOK'
  BY <1>1, <1>7, PassGoesOn DEF MemberWritten
<1> QED
  BY <1>1, <1>2, <1>7, <1>9, <1>10, <1>11, NoneAdvances, MemberStep

(* Positions and batches are natural numbers.                              *)
LEMMA PositionType ==
  ASSUME NEW eligible, eligible \subseteq Nodes, NEW canary, NEW n
  PROVE  position(eligible, canary, n) \in Nat /\ batchNumber(position(eligible, canary, n)) \in Nat
<1>1. \A m : Cardinality({k \in eligible : k < m}) \in Nat
  <2> TAKE m
  <2>1. IsFiniteSet(Nodes)
    BY FS_Interval, Constants DEF Nodes
  <2>2. {k \in eligible : k < m} \subseteq Nodes
    OBVIOUS
  <2>3. IsFiniteSet({k \in eligible : k < m})
    BY <2>1, <2>2, FS_Subset
  <2> QED
    BY <2>3, FS_CardinalityType
<1>2. position(eligible, canary, n) \in Nat
  BY <1>1 DEF position
<1>3. ASSUME NEW i \in Nat PROVE batchNumber(i) \in Nat
  <2>1. CASE i = 0
    BY <2>1 DEF batchNumber
  <2>2. CASE i # 0
    <3>1. i - 1 \in Nat /\ BatchSize \in Nat /\ BatchSize > 0
      BY <2>2, Constants
    <3>2. (i - 1) \div BatchSize \in Nat
      <4>1. BatchSize \in {1, 2}
        BY CampaignConstants
      <4> QED
        BY <3>1, <4>1
    <3> QED
      BY <2>2, <3>2 DEF batchNumber
  <2> QED
    BY <2>1, <2>2
<1> QED
  BY <1>2, <1>3

(* A new campaign finds nothing of an earlier one.                         *)
LEMMA CreateUpdateCampaignKeeps ==
  ASSUME CampaignInv, NEW nodes \in Selections, CreateUpdateCampaign(nodes[1], nodes[2], nodes[3])
  PROVE  CampaignInv'
<1> DEFINE eligible == nodes[1]
<1>1. campaign.status = "none" /\ UNCHANGED <<ops, node, ctl>> /\ RowsOK /\ PassOK
  BY DEF CreateUpdateCampaign, CampaignInv
<1>2. ctl = Idle /\ ctl' = Idle /\ \A n \in Nodes : \A j \in Retries : ops[<<n, j>>] = None
  BY <1>1 DEF CampaignInv, EndsOK, MemberOK
<1>3. campaign' \in [status : CampaignStatuses, batch : Nat, due : BOOLEAN, term : Nat]
      /\ campaign'.status = "queued" /\ campaign'.batch = 0
  <2>1. campaign' = [campaign EXCEPT !.status = "queued", !.batch = 0, !.due = FALSE]
    BY DEF CreateUpdateCampaign, CreateNodeUpdateCampaign, CreateNodeUpdateCampaignRow
  <2>2. campaign \in [status : CampaignStatuses, batch : Nat, due : BOOLEAN, term : Nat]
    BY <1>1 DEF RowsOK
  <2> QED
    BY <2>1, <2>2 DEF CampaignStatuses
<1>4. eligible \subseteq Nodes
  BY CampaignConstants DEF Nodes
<1>5. PICK canary : CreateNodeUpdateCampaign([n \in eligible |-> position(eligible, canary, n)])
  BY DEF CreateUpdateCampaign
<1>6. ASSUME NEW n \in Nodes
      PROVE  /\ members'[n] \in MemberRows \cup {None}
             /\ members'[n] # None => members'[n].op = None /\ members'[n].status = "pending"
  <2> DEFINE p == position(eligible, canary, n)
  <2>1. p \in Nat /\ batchNumber(p) \in Nat
    BY <1>4, PositionType
  <2>2. members'[n] = IF n \in eligible THEN CreateNodeUpdateCampaignMember(p, batchNumber(p)) ELSE None
    BY <1>5 DEF CreateNodeUpdateCampaign
  <2> HIDE DEF p
  <2> QED
    BY <2>1, <2>2 DEF CreateNodeUpdateCampaignMember, MemberRows, MemberStatuses
<1>7. members' = [n \in Nodes |-> members'[n]]
  BY <1>5 DEF CreateNodeUpdateCampaign
<1>8. members' \in [Nodes -> MemberRows \cup {None}]
  BY <1>6, <1>7
<1>9. RowsOK'
  BY <1>1, <1>3, <1>8 DEF RowsOK
<1>10. PassOK'
  BY <1>2, IdlePass
<1>11. EndsOK'
  BY <1>3 DEF EndsOK
<1>12. ASSUME NEW n \in Nodes PROVE OneByOne(n)' /\ MemberOK(n)' /\ BatchOK(n)'
  <2>1. OneByOne(n)'
    BY <1>1, <1>2 DEF OneByOne
  <2>2. Member(n)' => Unattached(n)'
    BY <1>1, <1>2, <1>6 DEF Member, Unattached
  <2>3. MemberOK(n)'
    BY <1>1, <1>2, <2>2 DEF MemberOK
  <2>4. BatchOK(n)'
    <3>1. Member(n)' => members'[n].batch \in Nat
      BY <1>6 DEF Member, MemberRows
    <3> QED
      BY <1>1, <1>2, <1>3, <2>2, <3>1, Constants DEF BatchOK, Member
  <2> QED
    BY <2>1, <2>3, <2>4
<1> QED
  BY <1>9, <1>10, <1>11, <1>12 DEF CampaignInv

----------------------------------------------------------------------------
(* The invariant *)

LEMMA CampaignInit == ASSUME Init PROVE CampaignInv
<1>1. RowsOK
  BY DEF Init, RowsOK, CampaignStatuses
<1>2. PassOK /\ EndsOK
  BY DEF Init, PassOK, EndsOK, Idle, Member
<1>3. ASSUME NEW n \in Nodes PROVE OneByOne(n) /\ MemberOK(n) /\ BatchOK(n)
  <2>1. \A j \in Retries : ops[<<n, j>>] = None
    BY Constants DEF Init
  <2> QED
    BY <2>1 DEF Init, OneByOne, MemberOK, BatchOK, Member
<1> QED
  BY <1>1, <1>2, <1>3 DEF CampaignInv

LEMMA CampaignStep == ASSUME CampaignInv, [Next]_vars PROVE CampaignInv'
<1>1. CASE \E nodes \in Selections : CreateUpdateCampaign(nodes[1], nodes[2], nodes[3])
  BY <1>1, CreateUpdateCampaignKeeps
<1>2. CASE ReconcileBegin
  BY <1>2, ReconcileBeginKeeps
<1>3. CASE ControllerStep
  BY <1>3, RefreshDeletedMemberKeeps, RefreshMemberKeeps, DispatchMemberKeeps, TimeoutMemberKeeps, WriteMemberKeeps, DecideKeeps,
     AttachMemberKeeps DEF ControllerStep
<1>4. CASE ResumeBegin \/ CancelBegin
  BY <1>4, ResumeBeginKeeps, CancelBeginKeeps
<1>5. CASE HandlerStep
  <2>1. ASSUME CancelEnd PROVE CampaignInv'
    BY <2>1, ReleaseKeeps DEF CancelEnd
  <2> QED
    BY <1>5, <2>1, ResumeRetryKeeps, CancelMemberKeeps, ResumeReplaceKeeps, ResumeEndKeeps DEF HandlerStep
<1>6. CASE \E key \in Keys : Claim(key) \/ Finish(key) \/ Expire(key) \/ OperationAges(key) \/ CancelOperation(key)
  BY <1>6, AgentsKeep
<1>7. CASE CampaignAges
  BY <1>7, CampaignAgesKeeps
<1>8. CASE Crash
  BY <1>8, ReleaseKeeps DEF Crash
<1>9. CASE \E n \in Nodes : DeleteNode(n) \/ DisableNode(n) \/ OtherOperation(n) \/ OtherOperationEnds(n)
  BY <1>9, AdministratorsKeep
<1>10. CASE UNCHANGED vars
  BY <1>10, NothingKeeps
<1> QED
  BY <1>1, <1>2, <1>3, <1>4, <1>5, <1>6, <1>7, <1>8, <1>9, <1>10 DEF Next, Done

LEMMA CampaignInvariant == Spec => []CampaignInv
BY CampaignInit, CampaignStep, PTL DEF Spec

----------------------------------------------------------------------------
(* Results *)

(* A batch is released only when every earlier one is over, whatever the   *)
(* agents, the administrators and a crashed pass do: no operation of a     *)
(* later batch exists, attached or left behind, while a member of an       *)
(* earlier one is neither succeeded nor skipped.                           *)
THEOREM BatchesReleasedInOrder == Spec => []BatchesInOrder
<1>1. ASSUME CampaignInv PROVE BatchesInOrder
  <2> SUFFICES ASSUME NEW n \in Nodes, NEW m \in Nodes, Member(n), Member(m), members[m].batch < members[n].batch,
                      NEW k \in Retries, ops[<<n, k>>] # None
               PROVE  Completed(m)
    BY DEF BatchesInOrder, Retries
  <2>1. members[m].batch \in Nat /\ members[n].batch \in Nat /\ campaign.batch \in Nat
    BY <1>1 DEF CampaignInv, RowsOK, Member, MemberRows
  <2>2. BatchOK(n) /\ BatchOK(m)
    BY <1>1 DEF CampaignInv
  <2>3. ~(members[n].batch > campaign.batch)
    <3>1. k = 0 \/ k > 0
      BY Constants DEF Retries
    <3> QED
      BY <2>2, <3>1 DEF BatchOK, Unattached
  <2> QED
    BY <2>1, <2>2, <2>3 DEF BatchOK
<1> QED
  BY <1>1, CampaignInvariant, PTL

(* A node carries out a campaign's update at most once: a retry is created *)
(* only after the operation before it was lost, and one that is lost       *)
(* stays lost.                                                             *)
THEOREM NoSecondUpdate == Spec => []UpdatedOnce
<1>1. ASSUME CampaignInv PROVE UpdatedOnce
  <2> SUFFICES ASSUME NEW n \in Nodes
               PROVE  Cardinality({k \in Retries : ops[<<n, k>>] # None /\ ops[<<n, k>>].status = "succeeded"}) <= 1
    BY DEF UpdatedOnce, Retries
  <2> DEFINE done == {k \in Retries : ops[<<n, k>>] # None /\ ops[<<n, k>>].status = "succeeded"}
  <2>1. ASSUME NEW i \in done, NEW j \in done PROVE i = j
    <3>1. ~(i < j) /\ ~(j < i)
      BY <1>1 DEF CampaignInv, OneByOne, Lost
    <3>2. i \in Nat /\ j \in Nat
      BY DEF Retries
    <3> QED
      BY <3>1, <3>2
  <2> HIDE DEF done
  <2>2. ASSUME done = {} PROVE Cardinality(done) <= 1
    BY <2>2, FS_EmptySet
  <2>3. ASSUME done # {} PROVE Cardinality(done) <= 1
    <3>1. PICK i : i \in done
      BY <2>3
    <3>2. done = {i}
      BY <2>1, <3>1
    <3>3. Cardinality({i}) = 1
      BY FS_Singleton
    <3> QED
      BY <3>2, <3>3
  <2> QED
    BY <2>2, <2>3 DEF done
<1> QED
  BY <1>1, CampaignInvariant, PTL

(* A campaign that reports success has updated every member that it did    *)
(* not skip: the operation attached to the member has succeeded.           *)
THEOREM SuccessIsReal == Spec => []SucceededMeansUpdated
<1>1. ASSUME CampaignInv PROVE SucceededMeansUpdated
  <2> SUFFICES ASSUME campaign.status = "succeeded", NEW n \in Nodes, Member(n), members[n].status # "skipped"
               PROVE  members[n].status = "succeeded" /\ ops[members[n].op].status = "succeeded"
    BY DEF SucceededMeansUpdated
  <2>1. members[n].status = "succeeded"
    BY <1>1 DEF CampaignInv, EndsOK, Completed
  <2>2. PICK k \in Retries : Attached(n, k)
    BY <1>1, <2>1 DEF CampaignInv, MemberOK, Unattached
  <2> QED
    BY <2>1, <2>2 DEF Attached
<1> QED
  BY <1>1, CampaignInvariant, PTL

================================================================================
