----------------------- MODULE OperationProtocolProofs ----------------------
(***************************************************************************)
(* Proofs about the store of operations, NodeOperations, and about the     *)
(* agent and the server together, OperationProtocol.  The first part is    *)
(* about the store alone, for every set of nodes, operations, keys, claim  *)
(* requests and every bound.  The second is about the protocol, for every  *)
(* set of operations, every number of claims in flight and every number of *)
(* faults; it uses the store's results as they are, because its first one  *)
(* is that the agent and the server only do what the store allows.         *)
(***************************************************************************)
EXTENDS OperationProtocol, TLAPS

-----------------------------------------------------------------------------
(* Part one: the store.                                                    *)

(* A claim in flight carries capabilities, and once it has read the active *)
(* row it carries that row.                                                *)
ClaimsInFlight ==
    \A c \in Claimers :
        /\ claims[c].pc \in {"read", "resume", "claim"} =>
               claims[c].caps \in CapabilitySets
        /\ claims[c].pc \in {"resume", "claim"} => claims[c].row \in Ops

(* Rows that exist carry the request they were created from, and leases    *)
(* are handed out for existing rows only.                                  *)
RowsComplete ==
    /\ \A o \in Ops : Exists(o) => request[o] \in Requests
    /\ \A g \in grants : Exists(g.op)

TypeInv == TypeOK /\ ClaimsInFlight /\ RowsComplete

(* Updating the record of one claim leaves a well-typed record.            *)
LEMMA AnsweredClaim ==
    ASSUME NEW r \in Claims, NEW a \in Grants \cup {None}
    PROVE  LET q == [r EXCEPT !.pc = "done", !.answer = a]
           IN  q \in Claims /\ q.pc = "done"
    BY DEF Claims

(* Answering a claim takes it out of flight and disturbs no other claim.   *)
LEMMA AnswerTyped ==
    ASSUME TypeInv, NEW c \in Claimers, NEW a \in Grants \cup {None}, ClaimAnswer(c, a)
    PROVE  /\ claims' \in [Claimers -> Claims] /\ ClaimsInFlight'
           /\ claims'[c].pc = "done"
           /\ \A d \in Claimers \ {c} : claims'[d] = claims[d]
<1> DEFINE q == [claims[c] EXCEPT !.pc = "done", !.answer = a]
<1>1. q \in Claims /\ q.pc = "done"
    BY AnsweredClaim DEF TypeInv, TypeOK
<1>2. claims' = [claims EXCEPT ![c] = q]
    BY DEF ClaimAnswer
<1> HIDE DEF q
<1> QED
    BY <1>1, <1>2 DEF TypeInv, TypeOK, ClaimsInFlight

(* Finding a row makes it the row of this claim and of no other claim.     *)
LEMMA FoundTyped ==
    ASSUME TypeInv, NEW c \in Claimers, NEW o \in Ops, ClaimFindsRow(c, o),
           claims[c].pc = "read"
    PROVE  /\ claims' \in [Claimers -> Claims] /\ ClaimsInFlight'
           /\ claims'[c].pc \in {"resume", "claim"} /\ claims'[c].row = o
           /\ claims'[c].caps = claims[c].caps /\ claims'[c].node = claims[c].node
           /\ \A d \in Claimers \ {c} : claims'[d] = claims[d]
<1> DEFINE p == IF claims[c].cur = o /\ claims[c].token # NoToken
                THEN "resume" ELSE "claim"
           q == [claims[c] EXCEPT !.row = o, !.pc = p]
<1>1. p \in {"resume", "claim"} /\ claims' = [claims EXCEPT ![c] = q]
    BY DEF ClaimFindsRow
<1>2. claims[c] \in Claims
    BY DEF TypeInv, TypeOK
<1> HIDE DEF p
<1>3. /\ q \in Claims /\ q.pc = p /\ q.row = o
      /\ q.caps = claims[c].caps /\ q.node = claims[c].node
    BY <1>1, <1>2 DEF Claims
<1> HIDE DEF q
<1> QED
    BY <1>1, <1>3 DEF TypeInv, TypeOK, ClaimsInFlight

(* The initial, empty tables are well typed.                               *)
LEMMA TypeInit == Init => TypeInv
<1> SUFFICES ASSUME Init PROVE TypeInv
    OBVIOUS
<1>1. IdleClaim \in Claims
    BY DEF IdleClaim, Claims, NoToken
<1>2. TypeOK
    BY <1>1 DEF Init, TypeOK, Windows, NoToken
<1>3. ClaimsInFlight /\ RowsComplete
    BY DEF Init, ClaimsInFlight, RowsComplete, IdleClaim, Exists
<1> QED
    BY <1>2, <1>3 DEF TypeInv

(* Every statement of the store leaves the tables well typed.              *)
LEMMA TypeStep == TypeInv /\ [Next]_vars => TypeInv'
<1> SUFFICES ASSUME TypeInv, [Next]_vars PROVE TypeInv'
    OBVIOUS
<1> USE DEF TypeInv, TypeOK, ClaimsInFlight, RowsComplete, Exists, table
<1>0. IdleClaim \in Claims /\ IdleClaim.pc = "idle"
    BY DEF IdleClaim, Claims, NoToken
<1>1. CASE Create
    <2>1. PICK o \in Ops, r \in Requests, w \in Windows : CreateNodeOperation(o, r, w)
        BY <1>1 DEF Create
    <2>2. UNCHANGED <<attempt, token, live, cancel, events, grants, issued, claims>>
        BY <2>1 DEF CreateNodeOperation
    <2>3. /\ request' = [request EXCEPT ![o] = r]
          /\ status' = [status EXCEPT ![o] = "queued"]
          /\ window' = [window EXCEPT ![o] = w]
        BY <2>1 DEF CreateNodeOperation
    <2>4. TypeOK'
        BY <2>2, <2>3 DEF ActiveStatuses
    <2>5. ClaimsInFlight' /\ RowsComplete'
        BY <2>2, <2>3 DEF Grants
    <2> QED
        BY <2>4, <2>5
<1>2. CASE BeginClaim
    <2>1. PICK c \in Claimers, caps \in CapabilitySets :
             \/ \E n \in Nodes : ClaimBegin(c, n, None, NoToken, caps)
             \/ \E g \in grants : ClaimBegin(c, request[g.op].node, g.op, g.token, caps)
        BY <1>2 DEF BeginClaim
    <2>2. PICK n \in Nodes, cur \in Ops \cup {None}, tok \in Nat :
             ClaimBegin(c, n, cur, tok, caps)
        BY <2>1 DEF Grants, Requests, NoToken
    <2>3. status' \in [Ops -> ActiveStatuses \cup TerminalStatuses \cup {"absent"}]
        BY <2>2 DEF ClaimBegin, ExpireQueuedNodeOperations, TerminalStatuses
    <2>4. \A o \in Ops : status'[o] # "absent" <=> status[o] # "absent"
        BY <2>2 DEF ClaimBegin, ExpireQueuedNodeOperations
    <2>5. claims' \in [Claimers -> Claims] /\ ClaimsInFlight'
        BY <2>2 DEF ClaimBegin, Claims
    <2> QED
        BY <2>2, <2>3, <2>4, <2>5 DEF ClaimBegin, ExpireQueuedNodeOperations, Grants
<1>3. ASSUME NEW c \in Claimers, ClaimRead(c) PROVE TypeInv'
    <2>1. claims[c].pc = "read" /\ UNCHANGED <<table, events, grants, issued>>
        BY <1>3 DEF ClaimRead
    <2>2. CASE ClaimFindsNothing(c)
        BY <2>1, <2>2, AnswerTyped DEF ClaimFindsNothing
    <2>3. ASSUME NEW o \in Ops, ClaimFindsRow(c, o) PROVE TypeInv'
        BY <2>1, <2>3, FoundTyped
    <2> QED
        BY <1>3, <2>2, <2>3 DEF ClaimRead
<1>4. ASSUME NEW c \in Claimers, ClaimResume(c) PROVE TypeInv'
    <2> DEFINE o == claims[c].row
               g == [op |-> o, attempt |-> attempt[o],
                     token |-> claims[c].token, caps |-> claims[c].caps]
    <2>1. o \in Ops /\ g \in Grants
        BY <1>4 DEF ClaimResume, Grants, Claims
    <2>2. CASE ClaimAnswer(c, g) /\ grants' = grants \cup {g} /\ Resumable(o, claims[c].token)
        BY <1>4, <2>1, <2>2, AnswerTyped DEF ClaimResume, Resumable
    <2>3. CASE claims' = [claims EXCEPT ![c].pc = "claim"] /\ UNCHANGED grants
        BY <1>4, <2>1, <2>3 DEF ClaimResume, Claims
    <2> QED
        BY <1>4, <2>2, <2>3 DEF ClaimResume
<1>5. ASSUME NEW c \in Claimers, ClaimFresh(c) PROVE TypeInv'
    <2> DEFINE o == claims[c].row
               g == [op |-> o, attempt |-> attempt[o] + 1,
                     token |-> issued + 1, caps |-> claims[c].caps]
    <2>1. o \in Ops /\ g \in Grants
        BY <1>5 DEF ClaimFresh, Grants, Claims
    <2>2. claims' \in [Claimers -> Claims] /\ ClaimsInFlight'
        BY <1>5, <2>1, AnswerTyped DEF ClaimFresh
    <2>3. TypeOK'
        BY <1>5, <2>1, <2>2 DEF ClaimFresh, ActiveStatuses
    <2> QED
        BY <1>5, <2>1, <2>2, <2>3 DEF ClaimFresh, Claimable, Grants
<1>6. ASSUME NEW c \in Claimers, ClaimReturn(c) PROVE TypeInv'
    BY <1>0, <1>6 DEF ClaimReturn
<1>7. CASE Record
    <2>1. PICK e \in EventRows, tok \in Nat : RecordNodeOperationEvent(e, tok)
        BY <1>7 DEF Record, Grants, EventRows
    <2>2. e.op \in Ops /\ e.status \in EventStatuses
        BY <2>1 DEF EventRows
    <2> QED
        BY <2>1, <2>2 DEF RecordNodeOperationEvent, EventStatuses, ActiveStatuses,
                          TerminalStatuses, NoToken, Acceptable, Holds
<1>8. ASSUME NEW o \in Ops, RequestNodeOperationCancel(o) PROVE TypeInv'
    BY <1>8 DEF RequestNodeOperationCancel, ActiveStatuses, TerminalStatuses, Active
<1>9. ASSUME NEW o \in Ops, CancelUnclaimedNodeOperation(o) PROVE TypeInv'
    BY <1>9 DEF CancelUnclaimedNodeOperation, ActiveStatuses, TerminalStatuses
<1>10. ASSUME NEW n \in Nodes, GetActiveNodeOperation(n) PROVE TypeInv'
    <2>1. \A o \in Ops : status'[o] # "absent" <=> status[o] # "absent"
        BY <1>10 DEF GetActiveNodeOperation, ExpireQueuedNodeOperations
    <2> QED
        BY <1>10, <2>1 DEF GetActiveNodeOperation, ExpireQueuedNodeOperations,
                           TerminalStatuses, Grants
<1>11. ASSUME NEW o \in Ops, LeaseExpires(o) \/ WindowMoves(o) PROVE TypeInv'
    BY <1>11 DEF LeaseExpires, WindowMoves, Windows
<1>12. CASE UNCHANGED vars
    BY <1>12 DEF vars
<1> QED
    BY <1>1, <1>2, <1>3, <1>4, <1>5, <1>6, <1>7, <1>8, <1>9, <1>10, <1>11, <1>12
    DEF Next

(* The tables stay well typed in every behaviour.                          *)
THEOREM TypeCorrect == Spec => []TypeOK
<1>1. Init => TypeInv
    BY TypeInit
<1>2. TypeInv /\ [Next]_vars => TypeInv'
    BY TypeStep
<1>3. TypeInv => TypeOK
    BY DEF TypeInv
<1> QED
    BY <1>1, <1>2, <1>3, PTL DEF Spec

-----------------------------------------------------------------------------
(* Slots *)

(* A step that creates no row leaves every request alone, activates        *)
(* nothing, and changes no row that has ended or does not exist.           *)
NoCreation ==
    /\ request' = request
    /\ \A o \in Ops :
          /\ Active(o)' => Active(o)
          /\ ~Active(o) => status'[o] = status[o]
          /\ Exists(o) => Exists(o)'

(* Every statement but CreateNodeOperation.                                *)
Statement ==
    \/ BeginClaim \/ Record
    \/ \E c \in Claimers : ClaimRead(c) \/ ClaimResume(c) \/ ClaimFresh(c) \/ ClaimReturn(c)
    \/ \E o \in Ops : \/ RequestNodeOperationCancel(o) \/ CancelUnclaimedNodeOperation(o)
                      \/ LeaseExpires(o) \/ WindowMoves(o)
    \/ \E n \in Nodes : GetActiveNodeOperation(n)

(* Apart from CreateNodeOperation no statement adds a row, moves a row     *)
(* that has ended or makes one active.                                     *)
LEMMA StatementShape ==
    ASSUME TypeInv, Statement
    PROVE  NoCreation
<1> USE DEF NoCreation, Active, ActiveStatuses, Exists, table, TypeInv, TypeOK
<1>1. CASE BeginClaim
    BY <1>1 DEF BeginClaim, ClaimBegin, ExpireQueuedNodeOperations
<1>2. ASSUME NEW c \in Claimers, ClaimRead(c) \/ ClaimResume(c) \/ ClaimReturn(c)
      PROVE NoCreation
    BY <1>2 DEF ClaimRead, ClaimResume, ClaimReturn
<1>3. ASSUME NEW c \in Claimers, ClaimFresh(c) PROVE NoCreation
    BY <1>3 DEF ClaimFresh, Claimable, ClaimsInFlight
<1>4. CASE Record
    <2>1. PICK e \in EventRows, tok \in Nat : RecordNodeOperationEvent(e, tok)
        BY <1>4 DEF Record, Grants, EventRows
    <2>2. e.op \in Ops /\ e.status # "absent"
        BY <2>1 DEF EventRows, EventStatuses
    <2> QED
        BY <2>1, <2>2 DEF RecordNodeOperationEvent, Acceptable, Holds
<1>5. ASSUME NEW o \in Ops,
             \/ RequestNodeOperationCancel(o) \/ CancelUnclaimedNodeOperation(o)
             \/ LeaseExpires(o) \/ WindowMoves(o)
      PROVE NoCreation
    BY <1>5 DEF RequestNodeOperationCancel, CancelUnclaimedNodeOperation,
                LeaseExpires, WindowMoves
<1>6. ASSUME NEW n \in Nodes, GetActiveNodeOperation(n) PROVE NoCreation
    BY <1>6 DEF GetActiveNodeOperation, ExpireQueuedNodeOperations
<1> QED
    BY <1>1, <1>2, <1>3, <1>4, <1>5, <1>6 DEF Statement

LEMMA StepShape ==
    ASSUME TypeInv, [Next]_vars
    PROVE  NoCreation
           \/ \E o \in Ops, r \in Requests, w \in Windows : CreateNodeOperation(o, r, w)
<1>1. CASE Create
    BY <1>1 DEF Create
<1>2. CASE Statement
    BY <1>2, StatementShape
<1>3. CASE UNCHANGED vars
    BY <1>3 DEF vars, table, NoCreation, Active, Exists
<1> QED
    BY <1>1, <1>2, <1>3 DEF Next, Statement

(* Every statement of the store keeps at most one active row per node.     *)
LEMMA OneActiveStep ==
    TypeInv /\ OneActivePerNode /\ [Next]_vars => OneActivePerNode'
<1> SUFFICES ASSUME TypeInv, OneActivePerNode, [Next]_vars PROVE OneActivePerNode'
    OBVIOUS
<1>1. CASE NoCreation
    BY <1>1 DEF NoCreation, OneActivePerNode, Active
<1>2. ASSUME NEW o \in Ops, NEW r \in Requests, NEW w \in Windows,
             CreateNodeOperation(o, r, w)
      PROVE  OneActivePerNode'
    <2>1. \A p \in Ops \ {o} : status'[p] = status[p] /\ request'[p] = request[p]
        BY <1>2 DEF CreateNodeOperation, TypeInv, TypeOK
    <2>2. request'[o] = r /\ \A p \in Ops : Active(p) => request[p].node # r.node
        BY <1>2 DEF CreateNodeOperation, ActiveOps, TypeInv, TypeOK
    <2> QED
        BY <2>1, <2>2 DEF OneActivePerNode, Active
<1> QED
    BY <1>1, <1>2, StepShape

(* At most one operation of a node is active, for any number of nodes,     *)
(* operations and concurrent claims: the guards of CreateNodeOperation     *)
(* suffice, without the unique index that backs them in the schema.        *)
THEOREM OneActive == Spec => []OneActivePerNode
<1>1. Init => TypeInv /\ OneActivePerNode
    BY TypeInit DEF Init, OneActivePerNode, Active, ActiveStatuses
<1>2. TypeInv /\ OneActivePerNode /\ [Next]_vars => (TypeInv /\ OneActivePerNode)'
    BY TypeStep, OneActiveStep
<1> QED
    BY <1>1, <1>2, PTL DEF Spec

(* Every statement keeps retry_of pointing at rows that have ended.        *)
LEMMA RetryStep == TypeInv /\ RetryOfEnded /\ [Next]_vars => RetryOfEnded'
<1> SUFFICES ASSUME TypeInv, RetryOfEnded, [Next]_vars PROVE RetryOfEnded'
    OBVIOUS
<1> USE DEF RetryOfEnded, Exists, Terminal, TerminalStatuses, Active, ActiveStatuses
<1>0. \A o \in Ops : Exists(o) => request[o] \in Requests
    BY DEF TypeInv, RowsComplete
<1>1. CASE NoCreation
    <2>1. \A o \in Ops : Exists(o)' => Exists(o)
        BY <1>1 DEF NoCreation
    <2>2. \A o \in Ops : Terminal(o) => Terminal(o)'
        BY <1>1 DEF NoCreation
    <2>3. \A o \in Ops : Exists(o) => request[o].retryOf \in Ops \cup {None}
        BY <1>0 DEF Requests
    <2> QED
        BY <1>1, <2>1, <2>2, <2>3 DEF NoCreation
<1>2. ASSUME NEW o \in Ops, NEW r \in Requests, NEW w \in Windows,
             CreateNodeOperation(o, r, w)
      PROVE  RetryOfEnded'
    <2>1. \A p \in Ops \ {o} : status'[p] = status[p] /\ request'[p] = request[p]
        BY <1>2 DEF CreateNodeOperation, TypeInv, TypeOK
    <2>2. /\ request'[o] = r /\ ~Exists(o)
          /\ r.retryOf # None => Terminal(r.retryOf) /\ request[r.retryOf].node = r.node
        BY <1>2 DEF CreateNodeOperation, TypeInv, TypeOK
    <2>3. r.retryOf \in Ops \cup {None}
        BY DEF Requests
    <2>4. \A p \in Ops : Exists(p) => request[p].retryOf \in Ops \cup {None}
        BY <1>0 DEF Requests
    <2> QED
        BY <2>1, <2>2, <2>3, <2>4
<1> QED
    BY <1>1, <1>2, StepShape

(* A retry never points at an operation that could still change.           *)
THEOREM RetrySound == Spec => []RetryOfEnded
<1>1. Init => TypeInv /\ RetryOfEnded
    BY TypeInit DEF Init, RetryOfEnded, Exists
<1>2. TypeInv /\ RetryOfEnded /\ [Next]_vars => (TypeInv /\ RetryOfEnded)'
    BY TypeStep, RetryStep
<1> QED
    BY <1>1, <1>2, PTL DEF Spec

-----------------------------------------------------------------------------
(* Leases *)

(* The strengthening that makes LeaseHolderUnique inductive: an attempt is *)
(* counted exactly once it was handed out, and tokens are fresh because    *)
(* every token ever handed out is at most `issued'.                        *)
AttemptInv ==
    \A o \in Ops :
        /\ status[o] \in {"absent", "queued", "expired"} => attempt[o] = 0
        /\ status[o] \in {"running", "succeeded", "failed"} => attempt[o] > 0
        /\ status[o] = "running" <=> token[o] # NoToken
        /\ attempt[o] <= MaxAttempts
        /\ token[o] <= issued

GrantInv ==
    /\ \A g \in grants : /\ g.attempt \in 1..attempt[g.op]
                         /\ g.token \in 1..issued
    /\ \A g, h \in grants : g.token = h.token => g.op = h.op /\ g.attempt = h.attempt
    /\ \A o \in Ops : token[o] # NoToken =>
          \E g \in grants : g.op = o /\ g.token = token[o] /\ g.attempt = attempt[o]

LeaseInv == AttemptInv /\ GrantInv

(* The lease invariant holds of the empty tables.                          *)
LEMMA LeaseInit == Init => LeaseInv
    BY BoundsAssumption DEF Init, LeaseInv, AttemptInv, GrantInv, NoToken

(* Attempt counters, statuses and stored tokens move together in every     *)
(* statement.                                                              *)
LEMMA AttemptStep == TypeInv /\ AttemptInv /\ [Next]_vars => AttemptInv'
<1> SUFFICES ASSUME TypeInv, AttemptInv, [Next]_vars PROVE AttemptInv'
    OBVIOUS
<1> USE BoundsAssumption DEF AttemptInv, NoToken, table, TypeInv, TypeOK
<1>1. CASE Create
    BY <1>1 DEF Create, CreateNodeOperation, Exists
<1>2. CASE BeginClaim
    BY <1>2 DEF BeginClaim, ClaimBegin, ExpireQueuedNodeOperations
<1>3. ASSUME NEW c \in Claimers, ClaimRead(c) \/ ClaimResume(c) \/ ClaimReturn(c)
      PROVE AttemptInv'
    BY <1>3 DEF ClaimRead, ClaimResume, ClaimReturn
<1>4. ASSUME NEW c \in Claimers, ClaimFresh(c) PROVE AttemptInv'
    BY <1>4 DEF ClaimFresh, Claimable, ClaimsInFlight
<1>5. CASE Record
    <2>1. PICK e \in EventRows, tok \in Nat : RecordNodeOperationEvent(e, tok)
        BY <1>5 DEF Record, Grants, EventRows
    <2>2. e.op \in Ops /\ e.status \in EventStatuses
        BY <2>1 DEF EventRows
    <2> QED
        BY <2>1, <2>2 DEF RecordNodeOperationEvent, Acceptable, Holds, EventStatuses
<1>6. ASSUME NEW o \in Ops,
             \/ RequestNodeOperationCancel(o) \/ CancelUnclaimedNodeOperation(o)
             \/ LeaseExpires(o) \/ WindowMoves(o)
      PROVE AttemptInv'
    BY <1>6 DEF RequestNodeOperationCancel, CancelUnclaimedNodeOperation,
                LeaseExpires, WindowMoves
<1>7. ASSUME NEW n \in Nodes, GetActiveNodeOperation(n) PROVE AttemptInv'
    BY <1>7 DEF GetActiveNodeOperation, ExpireQueuedNodeOperations
<1>8. CASE UNCHANGED vars
    BY <1>8 DEF vars
<1> QED
    BY <1>1, <1>2, <1>3, <1>4, <1>5, <1>6, <1>7, <1>8 DEF Next

(* Only resuming, claiming and recording touch what GrantInv speaks of.    *)
LEMMA GrantStep == TypeInv /\ LeaseInv /\ [Next]_vars => GrantInv'
<1> SUFFICES ASSUME TypeInv, LeaseInv, [Next]_vars PROVE GrantInv'
    OBVIOUS
<1> USE DEF LeaseInv, NoToken, table, TypeInv, TypeOK
<1>1. CASE UNCHANGED <<attempt, token, grants, issued>>
    BY <1>1 DEF GrantInv
<1>2. ASSUME NEW c \in Claimers, ClaimResume(c) PROVE GrantInv'
    <2> DEFINE o == claims[c].row
               g == [op |-> o, attempt |-> attempt[o],
                     token |-> claims[c].token, caps |-> claims[c].caps]
    <2>1. CASE UNCHANGED grants
        BY <1>2, <2>1, <1>1 DEF ClaimResume
    <2>2. CASE grants' = grants \cup {g} /\ Resumable(o, claims[c].token)
        <3>1. o \in Ops /\ UNCHANGED <<attempt, token, issued>>
            BY <1>2 DEF ClaimResume, ClaimsInFlight
        <3>2. PICK h \in grants : h.op = o /\ h.token = token[o] /\ h.attempt = attempt[o]
            BY <2>2, <3>1 DEF Resumable, AttemptInv, GrantInv
        <3>3. g.op = h.op /\ g.token = h.token /\ g.attempt = h.attempt
            BY <2>2, <3>2 DEF Resumable
        <3> HIDE DEF g
        <3> QED
            BY <2>2, <3>1, <3>2, <3>3 DEF GrantInv
    <2> QED
        BY <1>2, <2>1, <2>2 DEF ClaimResume
<1>3. ASSUME NEW c \in Claimers, ClaimFresh(c) PROVE GrantInv'
    <2> DEFINE o == claims[c].row
               g == [op |-> o, attempt |-> attempt[o] + 1,
                     token |-> issued + 1, caps |-> claims[c].caps]
    <2>1. CASE UNCHANGED <<attempt, token, grants, issued>>
        BY <2>1, <1>1
    <2>2. CASE ~UNCHANGED <<attempt, token, grants, issued>>
        <3>1. /\ o \in Ops
              /\ attempt' = [attempt EXCEPT ![o] = attempt[o] + 1]
              /\ token' = [token EXCEPT ![o] = issued + 1]
              /\ issued' = issued + 1
              /\ grants' = grants \cup {g}
            BY <1>3, <2>2 DEF ClaimFresh, ClaimsInFlight
        <3>2. g.op = o /\ g.token = issued + 1 /\ g.attempt = attempt[o] + 1
            OBVIOUS
        <3>3. \A h \in grants : h.op \in Ops /\ h.token \in Nat /\ h.attempt \in Nat
            BY DEF Grants
        <3> HIDE DEF g, o
        <3> QED
            BY <3>1, <3>2, <3>3 DEF GrantInv
    <2> QED
        BY <2>1, <2>2
<1>4. CASE Record
    <2>1. PICK e \in EventRows, tok \in Nat : RecordNodeOperationEvent(e, tok)
        BY <1>4 DEF Record, Grants, EventRows
    <2>2. e.op \in Ops
        BY <2>1 DEF EventRows
    <2> QED
        BY <2>1, <2>2 DEF RecordNodeOperationEvent, Acceptable, Holds, GrantInv
<1>5. CASE Create \/ BeginClaim
    BY <1>1, <1>5 DEF Create, CreateNodeOperation, BeginClaim, ClaimBegin,
                      ExpireQueuedNodeOperations
<1>6. ASSUME NEW c \in Claimers, ClaimRead(c) \/ ClaimReturn(c) PROVE GrantInv'
    BY <1>1, <1>6 DEF ClaimRead, ClaimReturn
<1>7. ASSUME NEW o \in Ops,
             \/ RequestNodeOperationCancel(o) \/ CancelUnclaimedNodeOperation(o)
             \/ LeaseExpires(o) \/ WindowMoves(o)
      PROVE GrantInv'
    BY <1>1, <1>7 DEF RequestNodeOperationCancel, CancelUnclaimedNodeOperation,
                      LeaseExpires, WindowMoves
<1>8. ASSUME NEW n \in Nodes, GetActiveNodeOperation(n) PROVE GrantInv'
    BY <1>1, <1>8 DEF GetActiveNodeOperation, ExpireQueuedNodeOperations
<1>9. CASE UNCHANGED vars
    BY <1>1, <1>9 DEF vars
<1> QED
    BY <1>2, <1>3, <1>4, <1>5, <1>6, <1>7, <1>8, <1>9 DEF Next

(* An agent that holds the lease of an earlier attempt, or of another      *)
(* operation, is never taken for the holder of the current one.            *)
THEOREM LeaseHolder == Spec => []LeaseHolderUnique
<1>1. Init => TypeInv /\ LeaseInv
    BY TypeInit, LeaseInit
<1>2. TypeInv /\ LeaseInv /\ [Next]_vars => (TypeInv /\ LeaseInv)'
    BY TypeStep, AttemptStep, GrantStep DEF LeaseInv
<1>3. TypeInv /\ LeaseInv => LeaseHolderUnique
    <2> SUFFICES ASSUME TypeInv, LeaseInv, NEW o \in Ops
                 PROVE  /\ status[o] = "running" <=> token[o] # NoToken
                        /\ status[o] = "running" =>
                              \E g \in grants : g.op = o /\ g.token = token[o]
                                                /\ g.attempt = attempt[o]
                        /\ \A g \in grants : token[o] = g.token =>
                              g.op = o /\ g.attempt = attempt[o]
        BY DEF LeaseHolderUnique
    <2> QED
        BY DEF LeaseInv, AttemptInv, GrantInv, NoToken, TypeInv, TypeOK, Grants
<1> QED
    BY <1>1, <1>2, <1>3, PTL DEF Spec

-----------------------------------------------------------------------------
(* Event history *)

(* The history properties together with the range of the attempts that     *)
(* events carry.                                                           *)
EventAttempts == \A e \in events : e.attempt \in 1..attempt[e.op]

HistoryInv == EventAttempts /\ HistoryContiguous /\ TerminalEventFinal /\ ClaimedEndsByEvent

(* With the numbers of an attempt being 1..n, the last one is n.           *)
LEMMA LastOfContiguous ==
    ASSUME NEW o, NEW a, NEW n \in Nat, SequencesOf(o, a) = 1..n
    PROVE  LastSequence(o, a) = n
<1>1. CASE n = 0
    BY <1>1 DEF LastSequence
<1>2. CASE n > 0
    <2>1. n \in 1..n /\ \A s \in 1..n : s <= n
        BY <1>2
    <2>2. \A m \in 1..n : (\A s \in 1..n : s <= m) => m = n
        BY <1>2
    <2> QED
        BY <1>2, <2>1, <2>2 DEF LastSequence
<1> QED
    BY <1>1, <1>2

(* A step that appends nothing keeps the history properties, as long as    *)
(* no row that has ended changes and a row ends only if it was never       *)
(* handed out.                                                             *)
LEMMA HistoryQuiet ==
    ASSUME TypeInv, HistoryInv, UNCHANGED events,
           \A o \in Ops : /\ attempt'[o] = attempt[o] \/ (Active(o) /\ attempt'[o] = attempt[o] + 1)
                          /\ Terminal(o) => status'[o] = status[o]
                          /\ Terminal(o)' => Terminal(o) \/ attempt'[o] = 0
    PROVE  HistoryInv'
<1> USE DEF HistoryInv, TypeInv, TypeOK
<1>1. \A e \in events : e.op \in Ops /\ e.attempt \in Nat /\ e.status \in EventStatuses
    BY DEF EventRows
<1>2. EventAttempts'
    BY <1>1 DEF EventAttempts
<1>3. HistoryContiguous'
    BY DEF HistoryContiguous, SequencesOf, EventsOf
<1>4. TerminalEventFinal'
    <2> SUFFICES ASSUME NEW e \in events, e.status # "running"
                 PROVE  /\ status'[e.op] = e.status /\ attempt'[e.op] = e.attempt
                        /\ \A f \in EventsOf(e.op, e.attempt) : f.sequence <= e.sequence
        BY DEF TerminalEventFinal, EventsOf
    <2>1. /\ status[e.op] = e.status /\ attempt[e.op] = e.attempt
          /\ \A f \in EventsOf(e.op, e.attempt) : f.sequence <= e.sequence
        BY DEF TerminalEventFinal
    <2>2. Terminal(e.op) /\ ~Active(e.op) /\ e.op \in Ops
        BY <1>1, <2>1 DEF Terminal, TerminalStatuses, EventStatuses, Active, ActiveStatuses
    <2> QED
        BY <2>1, <2>2
<1>5. ClaimedEndsByEvent'
    <2> SUFFICES ASSUME NEW o \in Ops, Terminal(o)', attempt'[o] > 0
                 PROVE  \E e \in events : e.op = o /\ e.attempt = attempt'[o]
                                                  /\ e.status = status'[o]
        BY DEF ClaimedEndsByEvent
    <2>1. Terminal(o) /\ ~Active(o)
        BY DEF Terminal, TerminalStatuses, Active, ActiveStatuses
    <2>2. attempt'[o] = attempt[o] /\ status'[o] = status[o]
        BY <2>1
    <2> QED
        BY <2>1, <2>2 DEF ClaimedEndsByEvent
<1> QED
    BY <1>2, <1>3, <1>4, <1>5

(* Appending an accepted event keeps the history properties.               *)
LEMMA HistoryAppend ==
    ASSUME TypeInv, LeaseInv, HistoryInv, NEW e \in EventRows, NEW tok \in Nat,
           RecordNodeOperationEvent(e, tok)
    PROVE  HistoryInv'
<1> USE DEF HistoryInv, TypeInv, TypeOK
<1>1. /\ e.op \in Ops /\ e.attempt \in Nat /\ e.sequence \in Nat /\ e.status \in EventStatuses
      /\ e.attempt = attempt[e.op] /\ status[e.op] = "running" /\ e.sequence <= MaxSequence
      /\ attempt' = attempt /\ events' = events \cup {e}
      /\ status' = [status EXCEPT ![e.op] = e.status]
    BY DEF RecordNodeOperationEvent, Acceptable, Holds, EventRows
<1>2. e.attempt \in 1..MaxAttempts
    BY <1>1, BoundsAssumption DEF LeaseInv, AttemptInv
<1>3. PICK n \in 0..MaxSequence : SequencesOf(e.op, e.attempt) = 1..n
    BY <1>1, <1>2 DEF HistoryContiguous
<1>4. e.sequence = n + 1
    <2>1. n \in Nat
        BY <1>3
    <2>2. LastSequence(e.op, e.attempt) = n
        BY <1>3, <2>1, LastOfContiguous
    <2> QED
        BY <2>2 DEF RecordNodeOperationEvent, Acceptable
<1>5. \A f \in events : f.op \in Ops /\ f.attempt \in Nat /\ f.sequence \in Nat
    BY DEF EventRows
<1>6. EventAttempts'
    BY <1>1, <1>2, <1>5 DEF EventAttempts
<1>7. HistoryContiguous'
    <2> SUFFICES ASSUME NEW o \in Ops, NEW a \in 1..MaxAttempts
                 PROVE  \E m \in 0..MaxSequence : SequencesOf(o, a)' = 1..m
        BY DEF HistoryContiguous
    <2>1. CASE o = e.op /\ a = e.attempt
        <3>1. SequencesOf(o, a)' = SequencesOf(o, a) \cup {n + 1}
            BY <1>1, <1>4, <2>1 DEF SequencesOf, EventsOf
        <3>2. SequencesOf(o, a)' = 1..(n + 1)
            BY <1>3, <2>1, <3>1
        <3>3. n + 1 \in 0..MaxSequence
            BY <1>1, <1>3, <1>4, BoundsAssumption
        <3> QED
            BY <3>2, <3>3
    <2>2. CASE ~(o = e.op /\ a = e.attempt)
        <3>1. SequencesOf(o, a)' = SequencesOf(o, a)
            BY <1>1, <2>2 DEF SequencesOf, EventsOf
        <3> QED
            BY <3>1 DEF HistoryContiguous
    <2> QED
        BY <2>1, <2>2
<1>8. TerminalEventFinal'
    <2> SUFFICES ASSUME NEW f \in events', f.status # "running"
                 PROVE  /\ status'[f.op] = f.status /\ attempt'[f.op] = f.attempt
                        /\ \A d \in EventsOf(f.op, f.attempt)' : d.sequence <= f.sequence
        BY DEF TerminalEventFinal
    <2>1. CASE f = e
        <3>1. \A d \in events : d.op = e.op /\ d.attempt = e.attempt => d.sequence \in 1..n
            BY <1>3 DEF SequencesOf, EventsOf
        <3> QED
            BY <1>1, <1>3, <1>4, <1>5, <2>1, <3>1 DEF EventsOf
    <2>2. CASE f # e
        <3>1. /\ f \in events /\ f.op # e.op
              /\ status[f.op] = f.status /\ attempt[f.op] = f.attempt
              /\ \A d \in EventsOf(f.op, f.attempt) : d.sequence <= f.sequence
            BY <1>1, <2>2 DEF TerminalEventFinal
        <3> QED
            BY <1>1, <1>5, <3>1 DEF EventsOf
    <2> QED
        BY <2>1, <2>2
<1>9. ClaimedEndsByEvent'
    BY <1>1 DEF ClaimedEndsByEvent, Terminal, TerminalStatuses
<1> QED
    BY <1>6, <1>7, <1>8, <1>9

(* Every statement keeps the history properties: Record appends, all       *)
(* others are quiet.                                                       *)
LEMMA HistoryStep ==
    TypeInv /\ LeaseInv /\ HistoryInv /\ [Next]_vars => HistoryInv'
<1> SUFFICES ASSUME TypeInv, LeaseInv, HistoryInv, [Next]_vars PROVE HistoryInv'
    OBVIOUS
<1>1. CASE Record
    <2>1. PICK e \in EventRows, tok \in Nat : RecordNodeOperationEvent(e, tok)
        BY <1>1 DEF Record, Grants, EventRows, TypeInv, TypeOK
    <2> QED
        BY <2>1, HistoryAppend
<1> DEFINE Quiet ==
        /\ UNCHANGED events
        /\ \A o \in Ops :
              /\ attempt'[o] = attempt[o] \/ (Active(o) /\ attempt'[o] = attempt[o] + 1)
              /\ Terminal(o) => status'[o] = status[o]
              /\ Terminal(o)' => Terminal(o) \/ attempt'[o] = 0
<1>2. ASSUME ~Record PROVE Quiet
    <2> USE DEF table, TypeInv, TypeOK, Terminal, TerminalStatuses, Active, ActiveStatuses,
                LeaseInv, AttemptInv
    <2>1. CASE Create
        BY <2>1 DEF Create, CreateNodeOperation, Exists
    <2>2. CASE BeginClaim
        BY <2>2 DEF BeginClaim, ClaimBegin, ExpireQueuedNodeOperations
    <2>3. ASSUME NEW c \in Claimers, ClaimRead(c) \/ ClaimResume(c) \/ ClaimReturn(c)
          PROVE Quiet
        BY <2>3 DEF ClaimRead, ClaimResume, ClaimReturn
    <2>4. ASSUME NEW c \in Claimers, ClaimFresh(c) PROVE Quiet
        BY <2>4 DEF ClaimFresh, Claimable, ClaimsInFlight
    <2>5. ASSUME NEW o \in Ops,
                 \/ RequestNodeOperationCancel(o) \/ CancelUnclaimedNodeOperation(o)
                 \/ LeaseExpires(o) \/ WindowMoves(o)
          PROVE Quiet
        BY <2>5 DEF RequestNodeOperationCancel, CancelUnclaimedNodeOperation,
                    LeaseExpires, WindowMoves
    <2>6. ASSUME NEW n \in Nodes, GetActiveNodeOperation(n) PROVE Quiet
        BY <2>6 DEF GetActiveNodeOperation, ExpireQueuedNodeOperations
    <2>7. CASE UNCHANGED vars
        BY <2>7 DEF vars
    <2> QED
        BY <1>2, <2>1, <2>2, <2>3, <2>4, <2>5, <2>6, <2>7 DEF Next
<1> QED
    BY <1>1, <1>2, HistoryQuiet

(* The inductive invariant of the store.                                   *)
StoreInv == TypeInv /\ LeaseInv /\ HistoryInv

(* The store's inductive invariant holds in every behaviour.               *)
LEMMA StoreInductive == Spec => []StoreInv
<1>1. Init => StoreInv
    <2> SUFFICES ASSUME Init PROVE HistoryInv
        BY TypeInit, LeaseInit DEF StoreInv
    <2>1. EventAttempts /\ TerminalEventFinal
        BY DEF Init, EventAttempts, TerminalEventFinal
    <2>2. ClaimedEndsByEvent
        BY DEF Init, ClaimedEndsByEvent, Terminal, TerminalStatuses
    <2>3. HistoryContiguous
        <3>1. \A o, a : SequencesOf(o, a) = 1..0
            BY DEF Init, SequencesOf, EventsOf
        <3>2. 0 \in 0..MaxSequence
            BY BoundsAssumption
        <3> QED
            BY <3>1, <3>2 DEF HistoryContiguous
    <2> QED
        BY <2>1, <2>2, <2>3 DEF HistoryInv
<1>2. StoreInv /\ [Next]_vars => StoreInv'
    BY TypeStep, AttemptStep, GrantStep, HistoryStep DEF StoreInv, LeaseInv
<1> QED
    BY <1>1, <1>2, PTL DEF Spec

(* Progress histories have no gaps, for any number of attempts, events,    *)
(* and delayed or repeated reports.                                        *)
THEOREM Contiguous == Spec => []HistoryContiguous
<1>1. StoreInv => HistoryContiguous
    BY DEF StoreInv, HistoryInv
<1> QED
    BY <1>1, StoreInductive, PTL

(* Nothing is recorded after a terminal event, and the operation keeps the *)
(* status that event announced.                                            *)
THEOREM TerminalFinal == Spec => []TerminalEventFinal
<1>1. StoreInv => TerminalEventFinal
    BY DEF StoreInv, HistoryInv
<1> QED
    BY <1>1, StoreInductive, PTL

(* Claimed work ends only by a report of the agent that claimed it.        *)
THEOREM EndsByEvent == Spec => []ClaimedEndsByEvent
<1>1. StoreInv => ClaimedEndsByEvent
    BY DEF StoreInv, HistoryInv
<1> QED
    BY <1>1, StoreInductive, PTL

-----------------------------------------------------------------------------
(* Capabilities *)

(* The row a claim works on exists and was checked against the             *)
(* capabilities of that claim; its kind never changes afterwards.          *)
ClaimsChecked ==
    \A c \in Claimers : claims[c].pc \in {"resume", "claim"} =>
        /\ Exists(claims[c].row)
        /\ hasCapabilities(claims[c].caps, request[claims[c].row].kind)

CapabilityInv == ClaimsChecked /\ CapabilitiesHonoured

(* Capabilities checked when the row was read still cover it when it is    *)
(* claimed, since a row's kind never changes.                              *)
LEMMA CapabilityStep == TypeInv /\ CapabilityInv /\ [Next]_vars => CapabilityInv'
<1> SUFFICES ASSUME TypeInv, CapabilityInv, [Next]_vars PROVE CapabilityInv'
    OBVIOUS
<1> USE DEF CapabilityInv, ClaimsChecked, CapabilitiesHonoured, TypeInv, TypeOK
<1>0. /\ \A g \in grants : g.op \in Ops /\ Exists(g.op)
      /\ \A o \in Ops : Exists(o) => Exists(o)' /\ request'[o] = request[o]
    <2>1. \A g \in grants : g.op \in Ops /\ Exists(g.op)
        BY DEF RowsComplete, Grants
    <2>2. CASE NoCreation
        BY <2>1, <2>2 DEF NoCreation
    <2>3. ASSUME NEW o \in Ops, NEW r \in Requests, NEW w \in Windows,
                 CreateNodeOperation(o, r, w)
          PROVE  \A p \in Ops : Exists(p) => Exists(p)' /\ request'[p] = request[p]
        BY <2>3 DEF CreateNodeOperation, Exists
    <2> QED
        BY <2>1, <2>2, <2>3, StepShape
<1>1. CASE UNCHANGED <<grants, claims>>
    BY <1>0, <1>1 DEF ClaimsInFlight
<1>2. CASE BeginClaim
    <2>1. UNCHANGED grants
          /\ \A c \in Claimers : claims'[c] = claims[c] \/ claims'[c].pc = "read"
        BY <1>2 DEF BeginClaim, ClaimBegin
    <2> QED
        BY <1>0, <2>1 DEF ClaimsInFlight
<1>3. ASSUME NEW c \in Claimers, ClaimRead(c) PROVE CapabilityInv'
    <2>1. UNCHANGED grants /\ claims[c].pc = "read"
        BY <1>3 DEF ClaimRead
    <2>2. CASE ClaimFindsNothing(c)
        BY <1>0, <2>1, <2>2, AnswerTyped DEF ClaimFindsNothing, ClaimsInFlight
    <2>3. ASSUME NEW o \in Ops, ClaimFindsRow(c, o) PROVE CapabilityInv'
        <3>1. Exists(o) /\ hasCapabilities(claims[c].caps, request[o].kind)
            BY <2>3 DEF ClaimFindsRow, ActiveOps, Active, ActiveStatuses, Exists
        <3> QED
            BY <1>0, <2>1, <2>3, <3>1, FoundTyped DEF ClaimsInFlight
    <2> QED
        BY <1>3, <2>2, <2>3 DEF ClaimRead
<1>4. ASSUME NEW c \in Claimers, NEW g \in Grants,
             claims[c].pc \in {"resume", "claim"}, g.op = claims[c].row,
             g.caps = claims[c].caps, ClaimAnswer(c, g), grants' = grants \cup {g}
      PROVE  CapabilityInv'
    BY <1>0, <1>4, AnswerTyped DEF ClaimsInFlight
<1>5. ASSUME NEW c \in Claimers, ClaimResume(c) PROVE CapabilityInv'
    <2> DEFINE o == claims[c].row
               g == [op |-> o, attempt |-> attempt[o],
                     token |-> claims[c].token, caps |-> claims[c].caps]
    <2>1. g \in Grants /\ g.op = o /\ g.caps = claims[c].caps /\ claims[c].pc = "resume"
        BY <1>5 DEF ClaimResume, Grants, Claims, ClaimsInFlight
    <2>2. CASE ClaimAnswer(c, g) /\ grants' = grants \cup {g}
        BY <1>4, <2>1, <2>2
    <2>3. CASE claims' = [claims EXCEPT ![c].pc = "claim"] /\ UNCHANGED grants
        BY <1>0, <2>1, <2>3 DEF ClaimsInFlight, Claims
    <2> QED
        BY <1>5, <2>2, <2>3 DEF ClaimResume
<1>6. ASSUME NEW c \in Claimers, ClaimFresh(c) PROVE CapabilityInv'
    <2> DEFINE o == claims[c].row
               g == [op |-> o, attempt |-> attempt[o] + 1,
                     token |-> issued + 1, caps |-> claims[c].caps]
    <2>1. g \in Grants /\ g.op = o /\ g.caps = claims[c].caps /\ claims[c].pc = "claim"
        BY <1>6 DEF ClaimFresh, Grants, Claims, ClaimsInFlight
    <2>2. CASE ClaimAnswer(c, g) /\ grants' = grants \cup {g}
        BY <1>4, <2>1, <2>2
    <2>3. CASE ClaimAnswer(c, None) /\ UNCHANGED grants
        BY <1>0, <2>1, <2>3, AnswerTyped DEF ClaimsInFlight
    <2> QED
        BY <1>6, <2>2, <2>3 DEF ClaimFresh
<1>7. ASSUME NEW c \in Claimers, ClaimReturn(c) PROVE CapabilityInv'
    <2>1. UNCHANGED grants
          /\ \A d \in Claimers : claims'[d] = claims[d] \/ claims'[d].pc = "idle"
        BY <1>7 DEF ClaimReturn, IdleClaim
    <2> QED
        BY <1>0, <2>1 DEF ClaimsInFlight
<1>8. CASE Create \/ Record
    <2>1. CASE Create
        BY <2>1, <1>1 DEF Create, CreateNodeOperation
    <2>2. CASE Record
        <3>1. UNCHANGED <<grants, claims>>
            BY <2>2 DEF Record, RecordNodeOperationEvent
        <3> QED
            BY <3>1, <1>1
    <2> QED
        BY <1>8, <2>1, <2>2
<1>9. ASSUME NEW o \in Ops,
             \/ RequestNodeOperationCancel(o) \/ CancelUnclaimedNodeOperation(o)
             \/ LeaseExpires(o) \/ WindowMoves(o)
      PROVE CapabilityInv'
    BY <1>1, <1>9 DEF RequestNodeOperationCancel, CancelUnclaimedNodeOperation,
                      LeaseExpires, WindowMoves
<1>10. ASSUME NEW n \in Nodes, GetActiveNodeOperation(n) PROVE CapabilityInv'
    BY <1>1, <1>10 DEF GetActiveNodeOperation
<1>11. CASE UNCHANGED vars
    BY <1>1, <1>11 DEF vars
<1> QED
    BY <1>2, <1>3, <1>5, <1>6, <1>7, <1>8, <1>9, <1>10, <1>11 DEF Next

(* No operation is ever handed to an agent lacking a required capability,  *)
(* although check and claim are separate statements.                       *)
THEOREM Capabilities == Spec => []CapabilitiesHonoured
<1>1. Init => TypeInv /\ CapabilityInv
    <2> SUFFICES ASSUME Init PROVE CapabilityInv
        BY TypeInit
    <2> QED
        BY DEF Init, CapabilityInv, ClaimsChecked, CapabilitiesHonoured, IdleClaim
<1>2. TypeInv /\ CapabilityInv /\ [Next]_vars => (TypeInv /\ CapabilityInv)'
    BY TypeStep, CapabilityStep
<1>3. CapabilityInv => CapabilitiesHonoured
    BY DEF CapabilityInv
<1> QED
    BY <1>1, <1>2, <1>3, PTL DEF Spec

-----------------------------------------------------------------------------
(* The store implements OperationLifecycle *)

(* An active operation is the only occupant of the slot of its node.       *)
LEMMA SlotOf ==
    ASSUME TypeInv, OneActivePerNode, NEW o \in Ops, Active(o)
    PROVE  request[o].node \in Nodes /\ ActiveOps(request[o].node) = {o}
<1>1. request[o] \in Requests
    BY DEF TypeInv, RowsComplete, Exists, Active, ActiveStatuses
<1> QED
    BY <1>1 DEF Requests, ActiveOps, OneActivePerNode

(* A step that changes no attempt and no status but among active ones is   *)
(* invisible in the abstract state.                                        *)
LEMMA LifecycleStutter ==
    ASSUME TypeInv, UNCHANGED <<request, attempt>>,
           \A o \in Ops : /\ Active(o)' <=> Active(o)
                          /\ Terminal(o)' <=> Terminal(o)
                          /\ Terminal(o) => status'[o] = status[o]
    PROVE  UNCHANGED Lifecycle!lifecycleVars
<1>1. \A n \in Nodes : ActiveOps(n)' = ActiveOps(n)
    BY DEF ActiveOps
<1> QED
    BY <1>1 DEF Lifecycle!lifecycleVars

(* A step that ends one active operation is Leave.                         *)
LEMMA LifecycleLeave ==
    ASSUME TypeInv, OneActivePerNode, NEW o \in Ops, Active(o),
           NEW result \in TerminalStatuses,
           UNCHANGED <<request, attempt>>, status' = [status EXCEPT ![o] = result],
           result \in {"succeeded", "failed"} => attempt[o] > 0,
           result = "expired" => attempt[o] = 0
    PROVE  Lifecycle!LifecycleNext
<1> DEFINE n == request[o].node
<1>1. n \in Nodes /\ ActiveOps(n) = {o}
    BY SlotOf
<1>2. /\ ~Active(o)' /\ Terminal(o)' /\ status'[o] = result
      /\ \A p \in Ops \ {o} : status'[p] = status[p]
    BY DEF TypeInv, TypeOK, Active, Terminal, ActiveStatuses, TerminalStatuses
<1>3. \A m \in Nodes : ActiveOps(m)' = IF m = n THEN {} ELSE ActiveOps(m)
    BY <1>1, <1>2 DEF ActiveOps, Active
<1>4. \A p \in Ops : (IF Terminal(p)' THEN status'[p] ELSE "none")
                     = IF p = o THEN result
                       ELSE IF Terminal(p) THEN status[p] ELSE "none"
    BY <1>2 DEF Terminal
<1>5. Lifecycle!Leave(o, n, result)
    BY <1>1, <1>3, <1>4 DEF Lifecycle!Leave
<1> QED
    BY <1>1, <1>5 DEF Lifecycle!LifecycleNext, Lifecycle!Outcomes, TerminalStatuses

(* Expiring the queued operations of a node ends at most one of them.      *)
LEMMA LifecycleExpire ==
    ASSUME TypeInv, AttemptInv, OneActivePerNode, NEW n \in Nodes,
           ExpireQueuedNodeOperations(n)
    PROVE  Lifecycle!LifecycleNext \/ UNCHANGED Lifecycle!lifecycleVars
<1> DEFINE E == {o \in Ops : o \in ActiveOps(n) /\ status[o] = "queued"
                             /\ window[o] = "closed"}
<1>0. /\ UNCHANGED <<request, attempt>>
      /\ status' = [o \in Ops |-> IF o \in E THEN "expired" ELSE status[o]]
    BY DEF ExpireQueuedNodeOperations
<1>1. CASE E = {}
    <2>1. \A o \in Ops : status'[o] = status[o]
        BY <1>0, <1>1
    <2> QED
        BY <1>0, <2>1, LifecycleStutter DEF Active, Terminal
<1>2. CASE E # {}
    <2>1. PICK o \in Ops : o \in E
        BY <1>2
    <2>2. Active(o) /\ attempt[o] = 0
        BY <2>1 DEF ActiveOps, AttemptInv
    <2>3. \A p \in Ops : p \in E => p = o
        BY <2>1 DEF ActiveOps, OneActivePerNode
    <2>4. status' = [status EXCEPT ![o] = "expired"]
        BY <1>0, <2>1, <2>3 DEF TypeInv, TypeOK
    <2> QED
        BY <1>0, <2>2, <2>4, LifecycleLeave DEF TerminalStatuses
<1> QED
    BY <1>1, <1>2

(* Every statement is a step of OperationLifecycle or is invisible there.  *)
LEMMA LifecycleStep ==
    ASSUME TypeInv, AttemptInv, OneActivePerNode, [Next]_vars
    PROVE  Lifecycle!LifecycleNext \/ UNCHANGED Lifecycle!lifecycleVars
<1> DEFINE Goal == Lifecycle!LifecycleNext \/ UNCHANGED Lifecycle!lifecycleVars
<1>0. ASSUME UNCHANGED <<request, attempt, status>> PROVE Goal
    BY <1>0, LifecycleStutter DEF Active, Terminal
<1>1. CASE Create
    <2>1. PICK o \in Ops, r \in Requests, w \in Windows : CreateNodeOperation(o, r, w)
        BY <1>1 DEF Create
    <2> DEFINE n == r.node
    <2>2. /\ n \in Nodes /\ ActiveOps(n) = {} /\ attempt' = attempt
          /\ status[o] = "absent" /\ attempt[o] = 0
        BY <2>1 DEF CreateNodeOperation, Requests, Exists, AttemptInv
    <2>3. /\ request'[o] = r /\ status'[o] = "queued"
          /\ \A p \in Ops \ {o} : status'[p] = status[p] /\ request'[p] = request[p]
        BY <2>1 DEF CreateNodeOperation, TypeInv, TypeOK
    <2>4. \A m \in Nodes : o \notin ActiveOps(m)
        BY <2>2 DEF ActiveOps, Active, ActiveStatuses
    <2>5. \A m \in Nodes : ActiveOps(m)' = IF m = n THEN {o} ELSE ActiveOps(m)
        BY <2>2, <2>3, <2>4 DEF ActiveOps, Active, ActiveStatuses
    <2>6. \A p \in Ops : (IF Terminal(p)' THEN status'[p] ELSE "none")
                         = IF Terminal(p) THEN status[p] ELSE "none"
        BY <2>2, <2>3 DEF Terminal, TerminalStatuses
    <2>7. ~Terminal(o)
        BY <2>2 DEF Terminal, TerminalStatuses
    <2>8. Lifecycle!Enter(o, n)
        BY <2>2, <2>4, <2>5, <2>6, <2>7 DEF Lifecycle!Enter
    <2> QED
        BY <2>2, <2>8 DEF Lifecycle!LifecycleNext
<1>2. CASE BeginClaim
    <2>1. PICK n \in Nodes : ExpireQueuedNodeOperations(n)
        BY <1>2 DEF BeginClaim, ClaimBegin, TypeInv, TypeOK, RowsComplete, Grants, Requests
    <2> QED
        BY <2>1, LifecycleExpire
<1>3. ASSUME NEW c \in Claimers, ClaimRead(c) \/ ClaimResume(c) \/ ClaimReturn(c)
      PROVE Goal
    BY <1>0, <1>3 DEF ClaimRead, ClaimResume, ClaimReturn, table
<1>4. ASSUME NEW c \in Claimers, ClaimFresh(c) PROVE Goal
    <2>1. PICK o \in Ops : o = claims[c].row
        BY <1>4 DEF ClaimFresh, TypeInv, ClaimsInFlight
    <2>2. CASE UNCHANGED <<status, attempt>>
        BY <1>0, <1>4, <2>2 DEF ClaimFresh
    <2>3. CASE ~UNCHANGED <<status, attempt>>
        <3>1. /\ Active(o) /\ status' = [status EXCEPT ![o] = "running"]
              /\ attempt' = [attempt EXCEPT ![o] = attempt[o] + 1] /\ request' = request
            BY <1>4, <2>1, <2>3 DEF ClaimFresh, Claimable, Active, ActiveStatuses
        <3>2. PICK n \in Nodes : n = request[o].node /\ ActiveOps(n) = {o}
            BY <3>1, SlotOf
        <3>3. \A p \in Ops : /\ Active(p)' <=> Active(p)
                             /\ Terminal(p)' <=> Terminal(p)
                             /\ Terminal(p) => status'[p] = status[p]
            BY <3>1 DEF TypeInv, TypeOK, Active, ActiveStatuses, Terminal,
                        TerminalStatuses
        <3>4. \A m \in Nodes : ActiveOps(m)' = ActiveOps(m)
            BY <3>1, <3>3 DEF ActiveOps
        <3>5. \A p \in Ops : attempt'[p] = IF p = o THEN attempt[p] + 1 ELSE attempt[p]
            BY <3>1 DEF TypeInv, TypeOK
        <3>6. Lifecycle!Start(o, n)
            BY <3>2, <3>3, <3>4, <3>5 DEF Lifecycle!Start
        <3> QED
            BY <3>6 DEF Lifecycle!LifecycleNext
    <2> QED
        BY <2>2, <2>3
<1>5. CASE Record
    <2>1. PICK e \in EventRows, tok \in Nat : RecordNodeOperationEvent(e, tok)
        BY <1>5 DEF Record, Grants, EventRows, TypeInv, TypeOK
    <2>2. /\ e.op \in Ops /\ e.status \in EventStatuses /\ status[e.op] = "running"
          /\ status' = [status EXCEPT ![e.op] = e.status]
          /\ UNCHANGED <<request, attempt>>
        BY <2>1 DEF RecordNodeOperationEvent, Acceptable, Holds, EventRows
    <2>3. CASE e.status = "running"
        BY <1>0, <2>2, <2>3 DEF TypeInv, TypeOK
    <2>4. CASE e.status # "running"
        <3>1. Active(e.op) /\ attempt[e.op] > 0 /\ e.status \in TerminalStatuses
              /\ e.status # "expired"
            BY <2>2, <2>4 DEF Active, ActiveStatuses, AttemptInv, EventStatuses, TerminalStatuses
        <3> QED
            BY <2>2, <3>1, LifecycleLeave
    <2> QED
        BY <2>3, <2>4
<1>6. ASSUME NEW o \in Ops,
             RequestNodeOperationCancel(o) \/ CancelUnclaimedNodeOperation(o)
      PROVE Goal
    <2>1. CASE status[o] = "queued"
        <3>1. Active(o) /\ UNCHANGED <<request, attempt>>
              /\ status' = [status EXCEPT ![o] = "cancelled"]
            BY <1>6, <2>1 DEF RequestNodeOperationCancel, CancelUnclaimedNodeOperation,
                              Active, ActiveStatuses
        <3> QED
            BY <3>1, LifecycleLeave DEF TerminalStatuses
    <2>2. CASE status[o] # "queued"
        BY <1>0, <1>6, <2>2 DEF RequestNodeOperationCancel, CancelUnclaimedNodeOperation,
                                TypeInv, TypeOK
    <2> QED
        BY <2>1, <2>2
<1>7. ASSUME NEW o \in Ops, LeaseExpires(o) \/ WindowMoves(o) PROVE Goal
    BY <1>0, <1>7 DEF LeaseExpires, WindowMoves
<1>8. ASSUME NEW n \in Nodes, GetActiveNodeOperation(n) PROVE Goal
    BY <1>8, LifecycleExpire DEF GetActiveNodeOperation
<1>9. CASE UNCHANGED vars
    BY <1>0, <1>9 DEF vars, table
<1> QED
    BY <1>1, <1>2, <1>3, <1>4, <1>5, <1>6, <1>7, <1>8, <1>9 DEF Next

(* The store implements the slot discipline: whatever the interleaving of  *)
(* creations, claim statements, reports, cancellations and expiry, every   *)
(* operation takes the slot of its node once and leaves it once.           *)
THEOREM StoreImplementsLifecycle == Spec => ImplementsLifecycle
<1> DEFINE Inv == TypeInv /\ AttemptInv /\ OneActivePerNode
<1>1. Init => Inv
    BY TypeInit, LeaseInit DEF LeaseInv, Init, OneActivePerNode, Active, ActiveStatuses
<1>2. Inv /\ [Next]_vars => Inv'
    BY TypeStep, AttemptStep, OneActiveStep
<1>3. Init => Lifecycle!LifecycleInit
    <2> SUFFICES ASSUME Init PROVE Lifecycle!LifecycleInit
        OBVIOUS
    <2>1. \A n \in Nodes : ActiveOps(n) = {}
        BY DEF Init, ActiveOps, Active, ActiveStatuses
    <2>2. \A o \in Ops : ~Terminal(o) /\ attempt[o] = 0
        BY DEF Init, Terminal, TerminalStatuses
    <2> QED
        BY <2>1, <2>2 DEF Lifecycle!LifecycleInit
<1>4. Inv /\ [Next]_vars => [Lifecycle!LifecycleNext]_(Lifecycle!lifecycleVars)
    BY LifecycleStep
<1> QED
    BY <1>1, <1>2, <1>3, <1>4, PTL DEF Spec, ImplementsLifecycle, Lifecycle!LifecycleSpec

-----------------------------------------------------------------------------
(* Part two: the protocol.                                                 *)

(* A lease that was handed out.                                            *)
Granted(o, a, t) == \E g \in grants : g.op = o /\ g.attempt = a /\ g.token = t

(* An answer is a lease that was handed out.                               *)
AnswersGranted == \A c \in Claimers : claims[c].answer # None => claims[c].answer \in grants

(* The agent works, reports and claims under leases that were handed out   *)
(* to it, for operations of its node.                                      *)
LeasesOK ==
    /\ \A o \in Ops : Exists(o) => request[o].node = Node
    /\ AnswersGranted
    /\ agent.pc \notin {"idle", "claiming"} => local # None
    /\ local # None => Granted(local.op, local.attempt, local.token)
    /\ \A m \in sent : Granted(m.event.op, m.event.attempt, m.token) /\ m.event.sequence > 0

SafeInv == TypeInv /\ ProtocolTypeOK /\ LeasesOK

-----------------------------------------------------------------------------
(* What may still reach the server, or has.                                *)
Known == events \cup {m.event : m \in sent}

EventsUnique ==
    \A e, f \in events : e.op = f.op /\ e.attempt = f.attempt /\ e.sequence = f.sequence => e = f

(* The outbox: of the attempt the agent works on, the server has what the  *)
(* agent counts as acknowledged, or the pending event as well; what is on  *)
(* its way is that event or is stored already; and no report was ever made *)
(* of a later attempt.                                                     *)
OutboxOK ==
    local # None =>
        /\ OutboxAgrees
        /\ local.pending # None => /\ local.pending.op = local.op
                                   /\ local.pending.attempt = local.attempt
                                   /\ local.pending.sequence = local.last + 1
        /\ \A m \in sent : m.event.op = local.op /\ m.event.attempt = local.attempt =>
              m.event = local.pending \/ m.event.sequence <= local.last
        /\ \A e \in Known : e.op = local.op => e.attempt <= local.attempt

(* The claim the agent waits for presents the lease it holds; a row found  *)
(* in place of its operation means that this one has ended; the answer is  *)
(* the attempt it has or one nobody has reported of.                       *)
ClaimOK ==
    agent.pc = "claiming" =>
        /\ agent.slot \in Claimers
        /\ claims[agent.slot].node = Node
        /\ claims[agent.slot].token = IF local = None THEN NoToken ELSE local.token
        /\ claims[agent.slot].row # None /\ local # None /\ claims[agent.slot].row # local.op
              => Terminal(local.op)
        /\ claims[agent.slot].pc # "done" => claims[agent.slot].answer = None
        /\ LET g == claims[agent.slot].answer
           IN  g # None => /\ g.op = claims[agent.slot].row
                           /\ \/ local # None /\ g.op = local.op /\ g.attempt = local.attempt
                              \/ \A e \in Known : e.op = g.op => e.attempt < g.attempt

(* Where the agent is in its operation.                                    *)
StageOK ==
    /\ agent.pc = "renew" => agent.err = "none"
    /\ agent.pc = "starting" /\ local.last > 0 => local.pending = None
    /\ agent.pc \in {"begin", "work"} => local.pending = None
    /\ agent.pc = "progress" /\ local.pending # None => local.pending.status = "running"
    /\ agent.pc = "work" =>
          \E e \in events : /\ e.op = local.op /\ e.attempt = local.attempt
                            /\ e.sequence = local.last /\ e.status = "running"

(* Success is only reported, and a step only confirmed, of work that was   *)
(* completed.                                                              *)
InstalledOK ==
    /\ \A e \in Known : e.status = "succeeded" => e.op \in installed
    /\ local # None /\ local.done => local.op \in installed
    /\ agent.pc \in {"finish", "renew", "report"} /\ agent.err = "none" => local.op \in installed

ProtocolInv == EventsUnique /\ OutboxOK /\ ClaimOK /\ StageOK /\ InstalledOK

-----------------------------------------------------------------------------
(* Facts about the store's steps *)

(* Leases that were handed out stay handed out.                            *)
LEMMA GrantsGrow == ASSUME [Next]_vars PROVE grants \subseteq grants'
<1> USE DEF table
<1>1. CASE Create
    BY <1>1 DEF Create, CreateNodeOperation
<1>2. CASE BeginClaim
    BY <1>2 DEF BeginClaim, ClaimBegin
<1>3. ASSUME NEW c \in Claimers, ClaimRead(c) \/ ClaimResume(c) \/ ClaimFresh(c) \/ ClaimReturn(c)
      PROVE grants \subseteq grants'
    BY <1>3 DEF ClaimRead, ClaimResume, ClaimFresh, ClaimReturn
<1>4. CASE Record
    BY <1>4 DEF Record, RecordNodeOperationEvent
<1>5. ASSUME NEW o \in Ops,
             \/ RequestNodeOperationCancel(o) \/ CancelUnclaimedNodeOperation(o)
             \/ LeaseExpires(o) \/ WindowMoves(o)
      PROVE grants \subseteq grants'
    BY <1>5 DEF RequestNodeOperationCancel, CancelUnclaimedNodeOperation, LeaseExpires, WindowMoves
<1>6. ASSUME NEW n \in Nodes, GetActiveNodeOperation(n) PROVE grants \subseteq grants'
    BY <1>6 DEF GetActiveNodeOperation
<1>7. CASE UNCHANGED vars
    BY <1>7 DEF vars
<1> QED
    BY <1>1, <1>2, <1>3, <1>4, <1>5, <1>6, <1>7 DEF Next

(* What a claim's own steps leave in its record.                           *)
LEMMA ClaimAnswered ==
    ASSUME TypeInv, NEW c \in Claimers, NEW a, ClaimAnswer(c, a)
    PROVE  /\ claims'[c].answer = a /\ claims'[c].row = claims[c].row
           /\ claims'[c].node = claims[c].node /\ claims'[c].token = claims[c].token
           /\ \A d \in Claimers \ {c} : claims'[d] = claims[d]
<1> DEFINE q == [claims[c] EXCEPT !.pc = "done", !.answer = a]
<1>1. claims[c] \in Claims
    BY DEF TypeInv, TypeOK
<1>2. /\ q.answer = a /\ q.row = claims[c].row
      /\ q.node = claims[c].node /\ q.token = claims[c].token
    BY <1>1 DEF Claims
<1>3. claims' = [claims EXCEPT ![c] = q]
    BY DEF ClaimAnswer
<1> HIDE DEF q
<1> QED
    BY <1>2, <1>3 DEF TypeInv, TypeOK

LEMMA ClaimFound ==
    ASSUME TypeInv, NEW c \in Claimers, NEW o \in Ops, ClaimFindsRow(c, o)
    PROVE  /\ claims'[c].answer = claims[c].answer /\ claims'[c].row = o
           /\ claims'[c].node = claims[c].node /\ claims'[c].token = claims[c].token
           /\ \A d \in Claimers \ {c} : claims'[d] = claims[d]
<1> DEFINE p == IF claims[c].cur = o /\ claims[c].token # NoToken THEN "resume" ELSE "claim"
           q == [claims[c] EXCEPT !.row = o, !.pc = p]
<1>1. claims[c] \in Claims
    BY DEF TypeInv, TypeOK
<1>2. claims' = [claims EXCEPT ![c] = q]
    BY DEF ClaimFindsRow
<1> HIDE DEF p
<1>3. /\ q.answer = claims[c].answer /\ q.row = o
      /\ q.node = claims[c].node /\ q.token = claims[c].token
    BY <1>1 DEF Claims
<1> HIDE DEF q
<1> QED
    BY <1>2, <1>3 DEF TypeInv, TypeOK

LEMMA ClaimFallsThrough ==
    ASSUME TypeInv, NEW c \in Claimers, claims' = [claims EXCEPT ![c].pc = "claim"]
    PROVE  /\ claims'[c].answer = claims[c].answer /\ claims'[c].row = claims[c].row
           /\ claims'[c].node = claims[c].node /\ claims'[c].token = claims[c].token
           /\ \A d \in Claimers \ {c} : claims'[d] = claims[d]
<1> DEFINE q == [claims[c] EXCEPT !.pc = "claim"]
<1>1. claims[c] \in Claims
    BY DEF TypeInv, TypeOK
<1>2. claims' = [claims EXCEPT ![c] = q]
    OBVIOUS
<1>3. /\ q.answer = claims[c].answer /\ q.row = claims[c].row
      /\ q.node = claims[c].node /\ q.token = claims[c].token
    BY <1>1 DEF Claims
<1> HIDE DEF q
<1> QED
    BY <1>2, <1>3 DEF TypeInv, TypeOK

(* An answer stays a lease that was handed out.                            *)
LEMMA AnswersStep ==
    ASSUME TypeInv, AnswersGranted, [Next]_vars
    PROVE  AnswersGranted'
<1>0. grants \subseteq grants'
    BY GrantsGrow
<1>1. CASE UNCHANGED claims
    BY <1>0, <1>1 DEF AnswersGranted
<1>2. CASE BeginClaim
    <2>1. PICK c \in Claimers : \A d \in Claimers : claims'[d] = claims[d] \/ claims'[d].answer = None
        BY <1>2 DEF BeginClaim, ClaimBegin, TypeInv, TypeOK
    <2> QED
        BY <1>0, <2>1 DEF AnswersGranted
<1>3. ASSUME NEW c \in Claimers, ClaimRead(c) PROVE AnswersGranted'
    <2>1. CASE ClaimFindsNothing(c)
        BY <1>0, <2>1, ClaimAnswered DEF AnswersGranted, ClaimFindsNothing
    <2>2. CASE \E o \in Ops : ClaimFindsRow(c, o)
        BY <1>0, <2>2, ClaimFound DEF AnswersGranted
    <2> QED
        BY <1>3, <2>1, <2>2 DEF ClaimRead
<1>4. ASSUME NEW c \in Claimers, ClaimResume(c) PROVE AnswersGranted'
    <2>1. CASE \E g : grants' = grants \cup {g} /\ ClaimAnswer(c, g)
        BY <1>0, <2>1, ClaimAnswered DEF AnswersGranted
    <2>2. CASE claims' = [claims EXCEPT ![c].pc = "claim"]
        BY <1>0, <2>2, ClaimFallsThrough DEF AnswersGranted
    <2> QED
        BY <1>4, <2>1, <2>2 DEF ClaimResume
<1>5. ASSUME NEW c \in Claimers, ClaimFresh(c) PROVE AnswersGranted'
    <2>1. CASE \E g : grants' = grants \cup {g} /\ ClaimAnswer(c, g)
        BY <1>0, <2>1, ClaimAnswered DEF AnswersGranted
    <2>2. CASE ClaimAnswer(c, None)
        BY <1>0, <2>2, ClaimAnswered DEF AnswersGranted
    <2> QED
        BY <1>5, <2>1, <2>2 DEF ClaimFresh
<1>6. ASSUME NEW c \in Claimers, ClaimReturn(c) PROVE AnswersGranted'
    <2>1. \A d \in Claimers : claims'[d] = claims[d] \/ claims'[d].answer = None
        BY <1>6 DEF ClaimReturn, TypeInv, TypeOK, IdleClaim
    <2> QED
        BY <1>0, <2>1 DEF AnswersGranted
<1> QED
    <2>0. ASSUME Create PROVE UNCHANGED claims
        BY <2>0 DEF Create, CreateNodeOperation
    <2>1. ASSUME Record PROVE UNCHANGED claims
        BY <2>1 DEF Record, RecordNodeOperationEvent
    <2>2. ASSUME NEW o \in Ops,
                 \/ RequestNodeOperationCancel(o) \/ CancelUnclaimedNodeOperation(o)
                 \/ LeaseExpires(o) \/ WindowMoves(o)
          PROVE  UNCHANGED claims
        BY <2>2 DEF RequestNodeOperationCancel, CancelUnclaimedNodeOperation, LeaseExpires, WindowMoves
    <2>3. ASSUME NEW n \in Nodes, GetActiveNodeOperation(n) PROVE UNCHANGED claims
        BY <2>3 DEF GetActiveNodeOperation
    <2> QED
        BY <1>1, <1>2, <1>3, <1>4, <1>5, <1>6, <2>0, <2>1, <2>2, <2>3 DEF Next, vars

-----------------------------------------------------------------------------
(* The agent's own steps *)

(* The outbox after a report: the event is saved and sent, or dropped      *)
(* because the outbox is occupied.                                         *)
Saved(st) ==
    \E e \in EventRows :
        /\ e.op = local.op /\ e.attempt = local.attempt /\ e.sequence = local.last + 1 /\ e.status = st
        /\ local'.pending = e
        /\ \A m \in sent' : m \in sent \/ (m.event = e /\ m.token = local.token)

(* The record keeps its operation, attempt and lease.                      *)
SameLease ==
    /\ local # None /\ local' \in Locals /\ local' # None
    /\ local'.op = local.op /\ local'.attempt = local.attempt /\ local'.token = local.token

LEMMA Reported ==
    ASSUME local \in Locals, sent \subseteq [event : EventRows, token : Nat],
           NEW st \in EventStatuses, NEW content \in Contents, Report(st, content)
    PROVE  /\ sent' \subseteq [event : EventRows, token : Nat] /\ sent \subseteq sent'
           /\ SameLease /\ local'.last = local.last /\ local'.done = local.done
           /\ local.pending = None => Saved(st)
           /\ local.pending # None => local' = local /\ sent' = sent
<1>0. local # None
    BY NoneIsNoRecord
<1>1. CASE local.pending = None
    <2> DEFINE e == [op |-> local.op, attempt |-> local.attempt, sequence |-> local.last + 1,
                     status |-> st, content |-> content]
               m == [event |-> e, token |-> local.token]
    <2>1. local' = [local EXCEPT !.pending = e] /\ sent' = sent \cup {m}
        BY <1>1 DEF Report
    <2>2. /\ e \in EventRows /\ e.op = local.op /\ e.attempt = local.attempt
          /\ e.sequence = local.last + 1 /\ e.status = st
        BY DEF EventRows, Locals
    <2> HIDE DEF e
    <2>3. m \in [event : EventRows, token : Nat] /\ m.event = e /\ m.token = local.token
        BY <2>2 DEF Locals
    <2> HIDE DEF m
    <2>4. /\ local' \in Locals /\ local'.op = local.op /\ local'.attempt = local.attempt
          /\ local'.token = local.token /\ local'.last = local.last /\ local'.done = local.done
          /\ local'.pending = e
        BY <2>1, <2>2 DEF Locals
    <2>5. Saved(st)
        BY <2>1, <2>2, <2>3, <2>4 DEF Saved
    <2> QED
        BY <1>1, <2>1, <2>3, <2>4, <2>5, NoneIsNoRecord DEF SameLease
<1>2. CASE local.pending # None
    BY <1>0, <1>2 DEF Report, SameLease
<1> QED
    BY <1>1, <1>2

LEMMA Emptied ==
    ASSUME local \in Locals, local.pending # None, local' = EmptiedOutbox
    PROVE  /\ SameLease /\ local'.done = local.done
           /\ local'.last = local.pending.sequence /\ local'.pending = None
<1>1. local.pending \in EventRows
    BY DEF Locals
<1>2. local.pending.sequence \in Nat
    BY <1>1 DEF EventRows
<1> QED
    BY <1>2, NoneIsNoRecord DEF EmptiedOutbox, SameLease, Locals

LEMMA Unwritten == ASSUME local \in Locals, local' = local PROVE SameLease
BY NoneIsNoRecord DEF SameLease

(* A step of the agent alone.                                              *)
AgentAlone ==
    \/ FlushOutbox \/ ReportStarting \/ BeginWork \/ AwaitProgress \/ Work \/ FinishWork
    \/ FinalRenewal(FALSE) \/ FinalRenewal(TRUE) \/ ReportTerminal \/ AwaitTerminal
    \/ MonitorTick \/ MonitorRenewed \/ MonitorFails \/ ClaimAbandoned \/ Crash

Stages == {"idle", "claiming", "flush", "starting", "begin", "progress",
           "work", "finish", "renew", "report", "reporting"}
Errors == {"none", "error", "lost", "cancelled"}

(* Where the agent is after it goes on, stops or starts again.             *)
LEMMA Went ==
    ASSUME agent \in Agents, NEW pc \in Stages, Goto(pc)
    PROVE  agent' \in Agents /\ agent'.pc = pc /\ agent'.err = agent.err
BY DEF Agents, Stages, Goto

LEMMA StoppedWith ==
    ASSUME agent \in Agents, NEW err \in Errors, Stop(err)
    PROVE  agent' \in Agents /\ agent'.pc = "finish" /\ agent'.err = err
BY DEF Agents, Errors, Stop

LEMMA Committed ==
    ASSUME agent \in Agents, agent' = [agent EXCEPT !.pc = "finish", !.committed = TRUE]
    PROVE  agent' \in Agents /\ agent'.pc = "finish"
BY DEF Agents

LEMMA StartedAgain ==
    ASSUME BackToIdle
    PROVE  agent' = IdleAgent /\ agent' \in Agents /\ agent'.pc = "idle"
BY DEF Agents, BackToIdle, IdleAgent

LEMMA Finished ==
    ASSUME agent \in Agents, FinishWork
    PROVE  /\ agent' \in Agents /\ agent'.pc \in {"renew", "report"}
           /\ agent'.err = "none" => agent.err = "none"
           /\ agent'.pc = "renew" => agent'.err = "none"
<1>1. PICK raced \in BOOLEAN :
        LET cause == IF agent.err # "none" /\ agent.ctx # "ok" THEN agent.ctx ELSE agent.err
            err == IF cause = "none" /\ (agent.lost \/ raced) THEN "lost" ELSE cause
        IN  agent' = [agent EXCEPT !.err = err, !.renewing = FALSE,
                         !.pc = IF err = "none" THEN "renew" ELSE "report"]
    BY DEF FinishWork
<1> DEFINE cause == IF agent.err # "none" /\ agent.ctx # "ok" THEN agent.ctx ELSE agent.err
           err == IF cause = "none" /\ (agent.lost \/ raced) THEN "lost" ELSE cause
           pc == IF err = "none" THEN "renew" ELSE "report"
<1>2. /\ err \in Errors /\ pc \in {"renew", "report"}
      /\ err = "none" => agent.err = "none"
      /\ pc = "renew" => err = "none"
    BY DEF Agents, Errors
<1>3. agent' = [agent EXCEPT !.err = err, !.renewing = FALSE, !.pc = pc]
    BY <1>1
<1> HIDE DEF err, pc
<1>4. agent' \in Agents /\ agent'.err = err /\ agent'.pc = pc
    BY <1>2, <1>3 DEF Agents, Errors
<1> QED
    BY <1>2, <1>4

LEMMA Renewed ==
    ASSUME agent \in Agents, NEW failed \in BOOLEAN, FinalRenewal(failed)
    PROVE  agent' \in Agents /\ agent'.pc = "report"
<1>1. PICK err \in Errors : agent' = [agent EXCEPT !.err = err, !.pc = "report"]
    BY DEF FinalRenewal, Errors
<1> QED
    BY <1>1 DEF Agents, Errors

(* The monitor does not move the executor.                                 *)
LEMMA MonitorMoved ==
    ASSUME agent \in Agents, MonitorTick \/ MonitorRenewed \/ MonitorFails
    PROVE  agent' \in Agents /\ agent'.pc = agent.pc /\ agent'.err = agent.err
<1>1. CASE MonitorTick
    BY <1>1 DEF MonitorTick, Agents
<1>2. CASE LeaseLost
    BY <1>2 DEF LeaseLost, Agents
<1>3. CASE \E ctx \in {"cancelled", "ok"} : agent' = [agent EXCEPT !.renewing = FALSE, !.ctx = ctx]
    BY <1>3 DEF Agents
<1> QED
    BY <1>1, <1>2, <1>3 DEF MonitorRenewed, MonitorFails

(* It leaves the store alone and keeps the record under its lease, or      *)
(* forgets it when it goes back to the start; a new report is one of the   *)
(* record's attempt.                                                       *)
AgentShape ==
    /\ UNCHANGED vars
    /\ agent' \in Agents /\ faults' \in 0..MaxFaults
    /\ SameLease \/ local' = local \/ (local' = None /\ agent' = IdleAgent)
    /\ agent'.pc \notin {"idle", "claiming"} => local' # None
    /\ installed \subseteq installed' /\ installed' \subseteq Ops
    /\ sent' \subseteq [event : EventRows, token : Nat]
    /\ \A m \in sent' : \/ m \in sent
                        \/ /\ local # None /\ m.event.op = local.op /\ m.event.attempt = local.attempt
                           /\ m.token = local.token /\ m.event.sequence > 0

LEMMA AgentAloneShape ==
    ASSUME SafeInv, AgentAlone
    PROVE  AgentShape
<1>0. /\ agent \in Agents /\ faults \in 0..MaxFaults /\ MaxFaults \in Nat /\ installed \subseteq Ops
      /\ sent \subseteq [event : EventRows, token : Nat] /\ local \in Locals \cup {None}
      /\ agent.pc \notin {"idle", "claiming"} => local \in Locals /\ local # None
    BY ProtocolAssumption DEF SafeInv, ProtocolTypeOK, LeasesOK
<1>1. ASSUME Fault PROVE faults' \in 0..MaxFaults
    BY <1>0, <1>1 DEF Fault
<1>2. CASE MonitorTick \/ MonitorRenewed \/ MonitorFails
    <2>1. UNCHANGED <<vars, local, sent, installed>> /\ faults' \in 0..MaxFaults
        BY <1>0, <1>1, <1>2 DEF MonitorTick, MonitorRenewed, MonitorFails
    <2>2. agent' \in Agents /\ agent'.pc = agent.pc
        BY <1>0, <1>2, MonitorMoved
    <2> QED
        BY <1>0, <2>1, <2>2 DEF AgentShape
<1>3. CASE ClaimAbandoned \/ Crash
    <2>1. UNCHANGED <<vars, local, sent, installed>> /\ faults' \in 0..MaxFaults /\ BackToIdle
        BY <1>0, <1>1, <1>3 DEF ClaimAbandoned, Crash
    <2> QED
        BY <1>0, <2>1, StartedAgain DEF AgentShape
<1>4. CASE FinishWork
    <2>1. UNCHANGED <<vars, local, sent, installed, faults>> /\ agent.pc = "finish"
        BY <1>4 DEF FinishWork
    <2> QED
        BY <1>0, <1>4, <2>1, Finished DEF AgentShape
<1>5. ASSUME NEW failed \in BOOLEAN, FinalRenewal(failed) PROVE AgentShape
    <2>1. UNCHANGED <<vars, local, sent, installed>> /\ agent.pc = "renew" /\ faults' \in 0..MaxFaults
        BY <1>0, <1>1, <1>5 DEF FinalRenewal
    <2> QED
        BY <1>0, <1>5, <2>1, Renewed DEF AgentShape
<1>6. CASE FlushOutbox
    <2>1. UNCHANGED <<vars, sent, installed, faults>> /\ local \in Locals
        BY <1>0, <1>6 DEF FlushOutbox
    <2>2. agent' \in Agents
        BY <1>0, <1>6, StartedAgain, Went DEF FlushOutbox, Stages
    <2>3. SameLease
        BY <1>6, <2>1, Emptied, Unwritten DEF FlushOutbox, Acknowledged
    <2> QED
        BY <1>0, <2>1, <2>2, <2>3 DEF AgentShape, SameLease
<1>7. ASSUME NEW st \in EventStatuses, NEW content \in Contents, Report(st, content), local \in Locals
      PROVE  /\ SameLease
             /\ sent' \subseteq [event : EventRows, token : Nat]
             /\ \A m \in sent' : \/ m \in sent
                                 \/ /\ local # None /\ m.event.op = local.op /\ m.event.attempt = local.attempt
                                    /\ m.token = local.token /\ m.event.sequence > 0
    <2>1. local.last \in Nat /\ local # None
        BY <1>7, NoneIsNoRecord DEF Locals
    <2>2. /\ sent' \subseteq [event : EventRows, token : Nat] /\ SameLease
          /\ Saved(st) \/ sent' = sent
        BY <1>0, <1>7, Reported
    <2> QED
        BY <2>1, <2>2 DEF Saved
<1>8. CASE ReportStarting
    <2>1. UNCHANGED <<vars, installed, faults>> /\ local \in Locals
        BY <1>0, <1>8 DEF ReportStarting
    <2>2. agent' \in Agents
        BY <1>0, <1>8, StartedAgain, Went DEF ReportStarting, Stages
    <2>3. CASE Report("running", "starting")
        BY <1>0, <1>7, <2>1, <2>2, <2>3, ProtocolAssumption DEF AgentShape, EventStatuses, SameLease
    <2>4. CASE UNCHANGED sent /\ (local' = local \/ (Acknowledged /\ local' = EmptiedOutbox))
        <3>1. SameLease
            BY <2>1, <2>4, Emptied, Unwritten DEF Acknowledged
        <3> QED
            BY <1>0, <2>1, <2>2, <2>4, <3>1 DEF AgentShape, SameLease
    <2> QED
        BY <1>8, <2>3, <2>4 DEF ReportStarting
<1>9. CASE BeginWork
    <2>1. UNCHANGED <<vars, installed, faults>> /\ local \in Locals
        BY <1>0, <1>9 DEF BeginWork
    <2>2. agent' \in Agents
        <3>1. agent.ctx # "ok" => agent.ctx \in Errors
            BY <1>0 DEF Agents, Errors
        <3> QED
            BY <1>0, <1>9, <3>1, StoppedWith, Committed, Went DEF BeginWork, Stages
    <2>3. CASE Report("running", "progress")
        BY <1>0, <1>7, <2>1, <2>2, <2>3, ProtocolAssumption DEF AgentShape, EventStatuses, SameLease
    <2>4. CASE UNCHANGED <<local, sent>>
        BY <1>0, <2>1, <2>2, <2>4, Unwritten DEF AgentShape, SameLease
    <2> QED
        BY <1>9, <2>3, <2>4 DEF BeginWork
<1>10. CASE AwaitProgress
    <2>1. UNCHANGED <<vars, sent, installed, faults>> /\ local \in Locals
        BY <1>0, <1>10 DEF AwaitProgress
    <2>2. agent' \in Agents
        <3>1. agent.ctx # "ok" => agent.ctx \in Errors
            BY <1>0 DEF Agents, Errors
        <3> QED
            BY <1>0, <1>10, <3>1, StoppedWith, Went DEF AwaitProgress, Stages, Errors
    <2>3. SameLease
        BY <1>10, <2>1, Emptied, Unwritten DEF AwaitProgress, Acknowledged
    <2> QED
        BY <1>0, <2>1, <2>2, <2>3 DEF AgentShape, SameLease
<1>11. CASE Work
    <2>1. UNCHANGED <<vars, sent, faults>> /\ local \in Locals /\ local.op \in Ops
        BY <1>0, <1>11 DEF Work, Locals
    <2>2. agent' \in Agents
        <3>1. (IF agent.ctx = "ok" THEN "none" ELSE agent.ctx) \in Errors
            BY <1>0 DEF Agents, Errors
        <3> QED
            BY <1>0, <1>11, <3>1, StoppedWith, Committed DEF Work, Errors
    <2>3. installed' = installed \/ installed' = installed \cup {local.op}
        BY <1>11 DEF Work
    <2>4. SameLease
        <3>1. CASE local' = [local EXCEPT !.done = TRUE]
            BY <2>1, <3>1, NoneIsNoRecord DEF SameLease, Locals
        <3> QED
            BY <1>11, <2>1, <3>1, Unwritten DEF Work
    <2> QED
        BY <1>0, <2>1, <2>2, <2>3, <2>4 DEF AgentShape, SameLease
<1>12. CASE ReportTerminal
    <2>1. UNCHANGED <<vars, installed, faults>> /\ local \in Locals
        BY <1>0, <1>12 DEF ReportTerminal
    <2>2. agent' \in Agents
        BY <1>0, <1>12, Went DEF ReportTerminal, Stages
    <2>3. TerminalStatus(agent.err) \in EventStatuses
        BY DEF TerminalStatus, EventStatuses
    <2>4. Report(TerminalStatus(agent.err), "result")
        BY <1>12 DEF ReportTerminal
    <2> QED
        BY <1>0, <1>7, <2>1, <2>2, <2>3, <2>4, ProtocolAssumption DEF AgentShape, SameLease
<1>13. CASE AwaitTerminal
    <2>1. UNCHANGED <<vars, sent, installed, faults>> /\ BackToIdle /\ (local' = None \/ local' = local)
        BY <1>13 DEF AwaitTerminal
    <2> QED
        BY <1>0, <2>1, StartedAgain DEF AgentShape
<1> QED
    BY <1>2, <1>3, <1>4, <1>5, <1>6, <1>8, <1>9, <1>10, <1>11, <1>12, <1>13 DEF AgentAlone

-----------------------------------------------------------------------------
(* The system's steps are the store's *)

(* What the agent, or its requests, have the store do.                     *)
Served ==
    \/ \E c \in Claimers : SendClaim(c) \/ ClaimDelivered(c) \/ ServerClaims(c) \/ ClaimDropped(c)
    \/ \E m \in sent : ServerRecords(m)
    \/ \E o \in Ops : LeaseLapses(o) \/ LeaseOutlived(o)
    \/ DeadlinePasses \/ AdminRequestsCancel

(* A claim presents the lease the agent was given, or none.                *)
LEMMA SendClaimIsStatement ==
    ASSUME SafeInv, NEW c \in Claimers, SendClaim(c)
    PROVE  Statement
<1>1. Node \in Nodes /\ Caps \in CapabilitySets
    BY ProtocolAssumption
<1>2. CASE local = None
    BY <1>1, <1>2 DEF SendClaim, Statement, BeginClaim
<1>3. CASE local # None
    <2>1. PICK g \in grants : g.op = local.op /\ g.attempt = local.attempt /\ g.token = local.token
        BY <1>3 DEF SafeInv, LeasesOK, Granted
    <2>2. request[g.op].node = Node
        BY <2>1 DEF SafeInv, LeasesOK, TypeInv, TypeOK, RowsComplete, Grants
    <2>3. ClaimBegin(c, request[g.op].node, g.op, g.token, Caps)
        BY <1>3, <2>1, <2>2 DEF SendClaim
    <2> QED
        BY <1>1, <2>3 DEF Statement, BeginClaim
<1> QED
    BY <1>2, <1>3

(* A report is made under a lease the agent was given.                     *)
LEMMA ServerRecordsIsStatement ==
    ASSUME SafeInv, NEW m \in sent, ServerRecords(m)
    PROVE  Statement
<1>1. PICK g \in grants : g.op = m.event.op /\ g.attempt = m.event.attempt /\ g.token = m.token
    BY DEF SafeInv, LeasesOK, Granted
<1>2. m.event \in EventRows /\ m.event.sequence > 0
    BY DEF SafeInv, ProtocolTypeOK, LeasesOK
<1>3. RecordNodeOperationEvent(m.event, m.token) /\ m.event.sequence <= MaxSequence
    BY DEF ServerRecords, RecordNodeOperationEvent
<1>4. /\ m.event.sequence \in 1..MaxSequence /\ m.event.status \in EventStatuses /\ m.event.content \in Contents
    BY <1>2, <1>3, BoundsAssumption DEF EventRows
<1>5. m.event = [op |-> g.op, attempt |-> g.attempt, sequence |-> m.event.sequence,
                 status |-> m.event.status, content |-> m.event.content]
    BY <1>1, <1>2 DEF EventRows
<1>6. RecordNodeOperationEvent([op |-> g.op, attempt |-> g.attempt, sequence |-> m.event.sequence,
                 status |-> m.event.status, content |-> m.event.content], g.token)
    BY <1>1, <1>3, <1>5
<1> QED
    BY <1>4, <1>6 DEF Statement, Record

LEMMA ServedIsStatement ==
    ASSUME SafeInv, Served
    PROVE  Statement
<1>1. ASSUME NEW c \in Claimers, ClaimDelivered(c) \/ ServerClaims(c) \/ ClaimDropped(c) PROVE Statement
    BY <1>1 DEF ClaimDelivered, ServerClaims, ClaimDropped, Statement
<1>2. ASSUME NEW o \in Ops, LeaseLapses(o) \/ LeaseOutlived(o) PROVE Statement
    BY <1>2 DEF LeaseLapses, LeaseOutlived, Statement
<1>3. DeadlinePasses \/ AdminRequestsCancel => Statement
    BY DEF DeadlinePasses, AdminRequestsCancel, Statement
<1> QED
    BY <1>1, <1>2, <1>3, SendClaimIsStatement, ServerRecordsIsStatement DEF Served

LEMMA StepKinds ==
    ASSUME [ProtocolNext]_protocolVars
    PROVE  AgentAlone \/ Served \/ AdminCreates \/ UNCHANGED protocolVars
BY DEF ProtocolNext, AgentStep, ServerStep, AgentAlone, Served

LEMMA ProtocolStepIsStoreStep ==
    ASSUME SafeInv, [ProtocolNext]_protocolVars
    PROVE  [Next]_vars
<1>1. CASE AgentAlone
    BY <1>1, AgentAloneShape DEF AgentShape
<1>2. CASE Served
    BY <1>2, ServedIsStatement DEF Statement, Next
<1>3. CASE AdminCreates
    BY <1>3 DEF AdminCreates, Next, Create, Windows
<1>4. CASE UNCHANGED protocolVars
    BY <1>4 DEF protocolVars
<1> QED
    BY <1>1, <1>2, <1>3, <1>4, StepKinds

(* The record an answer leaves.                                            *)
LEMMA AdoptedRecord ==
    ASSUME local \in Locals \cup {None}, NEW g \in Grants
    PROVE  /\ Adopted(g) \in Locals /\ Adopted(g).op = g.op /\ Adopted(g).attempt = g.attempt
           /\ \/ Adopted(g).last = 0 /\ Adopted(g).pending = None
              \/ local # None /\ Adopted(g) = local
           /\ Adopted(g).done => local # None /\ local.op = g.op /\ local.done
           /\ Adopted(g).token = g.token \/ (local # None /\ Adopted(g) = local)
<1>1. g.op \in Ops /\ g.attempt \in Nat /\ g.token \in Nat
    BY DEF Grants
<1>2. CASE local = None \/ local.op # g.op
    <2> DEFINE r == [op |-> g.op, attempt |-> g.attempt, token |-> g.token, last |-> 0,
                     pending |-> None, done |-> FALSE]
    <2>1. Adopted(g) = r
        BY <1>2 DEF Adopted
    <2>2. r \in Locals
        BY <1>1 DEF Locals
    <2> QED
        BY <2>1, <2>2
<1>3. CASE local # None /\ local.op = g.op /\ local.attempt # g.attempt
    <2> DEFINE r == [op |-> g.op, attempt |-> g.attempt, token |-> g.token, last |-> 0,
                     pending |-> None, done |-> local.done]
    <2>1. Adopted(g) = r
        BY <1>3 DEF Adopted
    <2>2. r \in Locals
        BY <1>1, <1>3 DEF Locals
    <2> QED
        BY <1>3, <2>1, <2>2
<1>4. CASE local # None /\ local.op = g.op /\ local.attempt = g.attempt
    BY <1>4 DEF Adopted
<1> QED
    BY <1>2, <1>3, <1>4

(* The state the agent finds in the store's answers.                       *)
LEMMA AnswerRow ==
    ASSUME SafeInv, NEW c \in Claimers, claims[c].answer # None
    PROVE  claims[c].answer \in grants /\ claims[c].answer \in Grants
BY DEF SafeInv, LeasesOK, AnswersGranted, TypeInv, TypeOK

LEMMA GrantedStays ==
    ASSUME [Next]_vars
    PROVE  \A o, a, t : Granted(o, a, t) => \E g \in grants' : g.op = o /\ g.attempt = a /\ g.token = t
BY GrantsGrow DEF Granted

LEMMA SafeStep ==
    ASSUME SafeInv, [ProtocolNext]_protocolVars
    PROVE  SafeInv'
<1>0. /\ TypeInv /\ ProtocolTypeOK /\ LeasesOK /\ [Next]_vars
      /\ MaxFaults \in Nat
    BY ProtocolStepIsStoreStep, ProtocolAssumption DEF SafeInv
<1>1. TypeInv'
    BY <1>0, TypeStep
<1>2. AnswersGranted'
    BY <1>0, AnswersStep DEF LeasesOK
<1> DEFINE OnNode == \A o \in Ops : Exists(o) => request[o].node = Node
           Held == local # None => Granted(local.op, local.attempt, local.token)
           Sends == \A m \in sent : Granted(m.event.op, m.event.attempt, m.token) /\ m.event.sequence > 0
           Present == agent.pc \notin {"idle", "claiming"} => local # None
<1>3. ASSUME UNCHANGED local PROVE Held'
    BY <1>0, <1>3, GrantedStays DEF LeasesOK, Granted
<1>4. ASSUME sent' \subseteq sent PROVE Sends'
    BY <1>0, <1>4, GrantedStays DEF LeasesOK, Granted
<1>5. ASSUME NoCreation PROVE OnNode'
    <2>1. \A o \in Ops : Exists(o)' => Exists(o)
        BY <1>5 DEF NoCreation, Exists, Active, ActiveStatuses
    <2> QED
        BY <1>0, <1>5, <2>1 DEF NoCreation, LeasesOK
<1>6. CASE AgentAlone
    <2>1. AgentShape
        BY <1>6, AgentAloneShape
    <2>2. ProtocolTypeOK' /\ Present'
        BY <1>0, <2>1 DEF AgentShape, ProtocolTypeOK, SameLease
    <2>3. OnNode'
        BY <1>0, <2>1 DEF AgentShape, LeasesOK, vars, table, Exists
    <2>4. Held'
        <3>1. CASE SameLease /\ local # None
            <4>1. Granted(local.op, local.attempt, local.token)
                BY <1>0, <3>1 DEF LeasesOK
            <4> QED
                BY <1>0, <3>1, <4>1, GrantedStays DEF SameLease, Granted
        <3>2. CASE local' = local \/ local' = None
            BY <1>3, <3>2
        <3> QED
            BY <2>1, <3>1, <3>2 DEF AgentShape, SameLease
    <2>5. Sends'
        BY <1>0, <2>1, GrantedStays DEF AgentShape, LeasesOK, Granted
    <2> QED
        BY <1>1, <1>2, <2>2, <2>3, <2>4, <2>5 DEF SafeInv, LeasesOK
<1>7. CASE Served
    <2>1. OnNode'
        BY <1>0, <1>5, <1>7, ServedIsStatement, StatementShape
    <2>2. ASSUME NEW c \in Claimers, SendClaim(c) PROVE SafeInv'
        <3>1. UNCHANGED <<local, sent, installed, faults>> /\ agent.pc = "idle"
            BY <2>2 DEF SendClaim
        <3>2. agent' \in Agents /\ agent'.pc = "claiming"
            BY <1>0, <2>2 DEF SendClaim, ProtocolTypeOK, Agents
        <3>3. ProtocolTypeOK' /\ Present'
            BY <1>0, <3>1, <3>2 DEF ProtocolTypeOK
        <3> QED
            BY <1>1, <1>2, <1>3, <1>4, <2>1, <3>1, <3>3 DEF SafeInv, LeasesOK
    <2>3. ASSUME NEW c \in Claimers, ClaimDelivered(c) PROVE SafeInv'
        <3>1. UNCHANGED <<sent, installed, faults>>
            BY <2>3 DEF ClaimDelivered
        <3>2. CASE local' = None /\ BackToIdle
            <4>1. ProtocolTypeOK' /\ Present' /\ Held'
                BY <1>0, <3>1, <3>2, StartedAgain DEF ProtocolTypeOK
            <4> QED
                BY <1>1, <1>2, <1>4, <2>1, <3>1, <4>1 DEF SafeInv, LeasesOK
        <3>3. CASE /\ claims[c].answer # None
                   /\ local' = Adopted(claims[c].answer) /\ agent' = [IdleAgent EXCEPT !.pc = "flush"]
            <4> DEFINE g == claims[c].answer
            <4>1. g \in grants /\ g \in Grants
                BY <3>3, AnswerRow
            <4> HIDE DEF g
            <4>2. local' = Adopted(g) /\ local \in Locals \cup {None}
                BY <1>0, <3>3 DEF ProtocolTypeOK, g
            <4>3. /\ local' \in Locals /\ local'.op = g.op /\ local'.attempt = g.attempt
                  /\ local'.token = g.token \/ (local # None /\ local' = local)
                BY <4>1, <4>2, AdoptedRecord
            <4>4. agent' \in Agents
                BY <3>3 DEF Agents, IdleAgent
            <4>5. ProtocolTypeOK' /\ Present'
                BY <1>0, <3>1, <4>3, <4>4, NoneIsNoRecord DEF ProtocolTypeOK
            <4>6. \E h \in grants' : h.op = g.op /\ h.attempt = g.attempt /\ h.token = g.token
                BY <1>0, <4>1, GrantsGrow
            <4>7. Held'
                BY <1>3, <4>3, <4>6 DEF Granted
            <4> QED
                BY <1>1, <1>2, <1>4, <2>1, <3>1, <4>5, <4>7 DEF SafeInv, LeasesOK
        <3> QED
            BY <2>3, <3>2, <3>3 DEF ClaimDelivered
    <2>4. CASE UNCHANGED <<local, agent, installed>> /\ sent' \subseteq sent /\ faults' \in 0..MaxFaults
        <3>1. ProtocolTypeOK' /\ Present'
            BY <1>0, <2>4 DEF ProtocolTypeOK, LeasesOK
        <3> QED
            BY <1>1, <1>2, <1>3, <1>4, <2>1, <2>4, <3>1 DEF SafeInv, LeasesOK
    <2>5. faults \in 0..MaxFaults /\ (Fault => faults' \in 0..MaxFaults)
        BY <1>0 DEF Fault, ProtocolTypeOK
    <2> QED
        BY <1>7, <2>2, <2>3, <2>4, <2>5 DEF Served, ServerClaims, ClaimDropped, ServerRecords, LeaseLapses,
            LeaseOutlived, DeadlinePasses, AdminRequestsCancel, agentVars
<1>8. CASE AdminCreates
    <2>1. PICK o \in Ops, r \in Requests : r.node = Node /\ CreateNodeOperation(o, r, "open")
        BY <1>8 DEF AdminCreates
    <2>2. \A p \in Ops \ {o} : status'[p] = status[p] /\ request'[p] = request[p]
        BY <1>0, <2>1 DEF CreateNodeOperation, TypeInv, TypeOK
    <2>3. request'[o] = r
        BY <1>0, <2>1 DEF CreateNodeOperation, TypeInv, TypeOK
    <2>4. OnNode'
        BY <1>0, <2>1, <2>2, <2>3 DEF LeasesOK, Exists
    <2>5. UNCHANGED agentVars
        BY <1>8 DEF AdminCreates
    <2>6. ProtocolTypeOK' /\ Present'
        BY <1>0, <2>5 DEF ProtocolTypeOK, LeasesOK, agentVars
    <2> QED
        BY <1>1, <1>2, <1>3, <1>4, <2>4, <2>5, <2>6 DEF SafeInv, LeasesOK, agentVars
<1>9. CASE UNCHANGED protocolVars
    <2>1. OnNode' /\ ProtocolTypeOK' /\ Present'
        BY <1>0, <1>9 DEF protocolVars, agentVars, vars, table, ProtocolTypeOK, LeasesOK, Exists
    <2> QED
        BY <1>1, <1>2, <1>3, <1>4, <1>9, <2>1 DEF SafeInv, LeasesOK, protocolVars, agentVars
<1> QED
    BY <1>6, <1>7, <1>8, <1>9, StepKinds

LEMMA SafeInit == ASSUME ProtocolInit PROVE SafeInv
<1>1. TypeInv
    BY TypeInit DEF ProtocolInit
<1>2. ProtocolTypeOK
    BY ProtocolAssumption DEF ProtocolInit, ProtocolTypeOK, IdleAgent, Agents
<1>3. LeasesOK
    BY DEF ProtocolInit, Init, LeasesOK, AnswersGranted, Exists, IdleClaim, IdleAgent
<1> QED
    BY <1>1, <1>2, <1>3 DEF SafeInv

LEMMA SafeAlways == ProtocolSpec => []SafeInv
BY SafeInit, SafeStep, PTL DEF ProtocolSpec

(* What the agent and the server do together is what the store allows any  *)
(* set of lease holders to do: a claim presents a lease the agent was      *)
(* given, a report is made under one, however late it arrives.  So every   *)
(* theorem about the store holds of the system.                            *)
THEOREM ProtocolRefinesStore == ProtocolSpec => ProtocolUsesStore
<1>1. ProtocolInit => Init
    BY DEF ProtocolInit
<1>2. SafeInv /\ [ProtocolNext]_protocolVars => [Next]_vars
    BY ProtocolStepIsStoreStep
<1> QED
    BY <1>1, <1>2, SafeAlways, PTL DEF ProtocolSpec, ProtocolUsesStore, Spec

-----------------------------------------------------------------------------
(* The outbox *)

(* What the store's invariants say of every state of the system.           *)
Ground == SafeInv /\ StoreInv /\ OneActivePerNode

LEMMA GroundAlways == ProtocolSpec => []Ground
<1>1. Spec => []StoreInv /\ []OneActivePerNode
    BY StoreInductive, OneActive
<1>2. ProtocolSpec => Spec
    BY ProtocolRefinesStore DEF ProtocolUsesStore
<1> QED
    BY <1>1, <1>2, SafeAlways, PTL DEF Ground

(* The stored events of an attempt that was handed out are numbered from 1.*)
LEMMA Numbered ==
    ASSUME Ground, NEW o \in Ops, NEW a, NEW t, Granted(o, a, t)
    PROVE  \E n \in Nat : SequencesOf(o, a) = 1..n /\ LastSequence(o, a) = n
<1>1. a \in 1..MaxAttempts
    <2>1. a \in 1..attempt[o] /\ attempt[o] <= MaxAttempts /\ attempt[o] \in Nat
        BY DEF Granted, Ground, StoreInv, LeaseInv, GrantInv, AttemptInv, TypeInv, TypeOK
    <2> QED
        BY <2>1, BoundsAssumption
<1>2. PICK n \in 0..MaxSequence : SequencesOf(o, a) = 1..n
    BY <1>1 DEF Ground, StoreInv, HistoryInv, HistoryContiguous
<1>3. n \in Nat
    BY <1>2
<1> QED
    BY <1>2, <1>3, LastOfContiguous

(* The last of the numbers 1 to n.                                         *)
LEMMA LastNumber ==
    ASSUME NEW S, NEW n \in Nat, S = 1..n
    PROVE  (IF S = {} THEN 0 ELSE CHOOSE k \in S : \A s \in S : s <= k) = n
<1>1. CASE n = 0
    BY <1>1
<1>2. CASE n > 0
    <2>1. n \in S /\ \A s \in S : s <= n
        BY <1>2
    <2>2. \A k \in S : (\A s \in S : s <= k) => k = n
        BY <1>2
    <2> QED
        BY <2>1, <2>2
<1> QED
    BY <1>1, <1>2

(* The attempt the agent works on.                                         *)
LEMMA LocalFacts ==
    ASSUME Ground, local # None
    PROVE  /\ local \in Locals /\ local.op \in Ops /\ local.attempt \in Nat /\ local.last \in Nat
           /\ Granted(local.op, local.attempt, local.token)
           /\ local.pending # None => local.pending \in EventRows
           /\ \E n \in Nat : /\ SequencesOf(local.op, local.attempt) = 1..n
                             /\ LastSequence(local.op, local.attempt) = n
<1>1. /\ local \in Locals /\ local.op \in Ops /\ local.attempt \in Nat /\ local.last \in Nat
      /\ local.pending # None => local.pending \in EventRows
    BY DEF Ground, SafeInv, ProtocolTypeOK, Locals
<1>2. Granted(local.op, local.attempt, local.token)
    BY DEF Ground, SafeInv, LeasesOK
<1> QED
    BY <1>1, <1>2, Numbered

(* Nothing of the outbox changes.                                          *)
LEMMA OutboxKept ==
    ASSUME OutboxOK, UNCHANGED <<events, sent>>,
           \/ local' = local
           \/ SameLease /\ local'.last = local.last /\ local'.pending = local.pending
    PROVE  OutboxOK'
BY ZenonT(60) DEF OutboxOK, OutboxAgrees, LastSequence, SequencesOf, EventsOf, Known, SameLease

(* An event is acknowledged.                                               *)
LEMMA OutboxEmptied ==
    ASSUME Ground, OutboxOK, local # None, Acknowledged, local' = EmptiedOutbox, UNCHANGED <<events, sent>>
    PROVE  OutboxOK'
<1>1. /\ local.pending # None /\ local.pending \in events
      /\ local.pending.op = local.op /\ local.pending.attempt = local.attempt
      /\ local.pending.sequence = local.last + 1
      /\ \A m \in sent : m.event.op = local.op /\ m.event.attempt = local.attempt =>
              m.event = local.pending \/ m.event.sequence <= local.last
      /\ \A e \in Known : e.op = local.op => e.attempt <= local.attempt
    BY DEF Acknowledged, Replayed, OutboxOK
<1>2. /\ SameLease /\ local'.last = local.last + 1 /\ local'.pending = None
    BY <1>1, LocalFacts, Emptied
<1>3. LastSequence(local.op, local.attempt) = local.last + 1
    <2>1. PICK n \in Nat : SequencesOf(local.op, local.attempt) = 1..n /\ LastSequence(local.op, local.attempt) = n
        BY LocalFacts
    <2>2. local.last + 1 \in 1..n
        BY <1>1, <2>1 DEF SequencesOf, EventsOf
    <2> QED
        BY <2>1, <2>2, LocalFacts DEF OutboxOK, OutboxAgrees
<1>4. OutboxAgrees'
    BY <1>2, <1>3, SMTT(60) DEF OutboxAgrees, SameLease, LastSequence, SequencesOf, EventsOf
<1>5. \A m \in sent : m.event.op = local.op /\ m.event.attempt = local.attempt => m.event.sequence <= local.last + 1
    <2>1. \A m \in sent : m.event.sequence \in Nat
        BY DEF Ground, SafeInv, ProtocolTypeOK, EventRows
    <2> QED
        BY <1>1, <2>1, LocalFacts
<1> QED
    BY <1>1, <1>2, <1>4, <1>5 DEF OutboxOK, SameLease, Known

(* An event is saved in the empty outbox.                                  *)
LEMMA OutboxFilled ==
    ASSUME Ground, OutboxOK, local # None, local.pending = None, NEW st, Saved(st), UNCHANGED events,
           SameLease, local'.last = local.last
    PROVE  OutboxOK'
<1>1. PICK e \in EventRows :
        /\ e.op = local.op /\ e.attempt = local.attempt /\ e.sequence = local.last + 1 /\ e.status = st
        /\ local'.pending = e
        /\ \A m \in sent' : m \in sent \/ (m.event = e /\ m.token = local.token)
    BY DEF Saved
<1>2. LastSequence(local.op, local.attempt) = local.last
    BY DEF OutboxOK, OutboxAgrees
<1>3. OutboxAgrees'
    BY <1>2, ZenonT(60) DEF OutboxAgrees, SameLease, LastSequence, SequencesOf, EventsOf
<1>4. \A m \in sent' : m.event.op = local.op /\ m.event.attempt = local.attempt => m.event = e \/ m.event.sequence <= local.last
    <2>1. \A m \in sent : m.event # None
        BY NoneIsNoRecord DEF Ground, SafeInv, ProtocolTypeOK
    <2> QED
        BY <1>1, <2>1 DEF OutboxOK
<1>5. \A f \in Known' : f.op = local.op => f.attempt <= local.attempt
    <2>1. \A f \in Known' : f \in Known \/ f = e
        BY <1>1 DEF Known
    <2> QED
        BY <1>1, <2>1, LocalFacts DEF OutboxOK
<1> QED
    BY <1>1, <1>3, <1>4, <1>5 DEF OutboxOK, SameLease

(* The server stores a report: the one in the outbox, or one of another    *)
(* attempt.                                                                *)
LEMMA OutboxStored ==
    ASSUME Ground, OutboxOK, NEW m \in sent, ServerRecords(m)
    PROVE  OutboxOK'
<1> DEFINE e == m.event
<1>1. /\ events' = events \cup {e} /\ sent' = sent \ {m} /\ UNCHANGED local
      /\ e.sequence = LastSequence(e.op, e.attempt) + 1 /\ e \in EventRows
    BY DEF ServerRecords, RecordNodeOperationEvent, Acceptable, Ground, SafeInv, ProtocolTypeOK
<1> HIDE DEF e
<1>2. CASE local = None
    BY <1>1, <1>2 DEF OutboxOK
<1>3. CASE local # None
    <2>1. Known' \subseteq Known
        BY <1>1 DEF Known, e
    <2>2. OutboxAgrees'
        <3>1. CASE e.op = local.op /\ e.attempt = local.attempt
            <4>1. PICK n \in Nat : SequencesOf(local.op, local.attempt) = 1..n /\ LastSequence(local.op, local.attempt) = n
                BY <1>3, LocalFacts
            <4>2. n = local.last \/ n = local.last + 1
                BY <1>3, <4>1 DEF OutboxOK, OutboxAgrees
            <4>3. e = local.pending \/ e.sequence <= local.last
                BY <1>3, <3>1 DEF OutboxOK, e
            <4>4. e.sequence = n + 1 /\ local.last \in Nat
                BY <1>1, <1>3, <3>1, <4>1, LocalFacts
            <4>5. e = local.pending /\ local.pending # None /\ e.sequence = local.last + 1
                BY <1>1, <1>3, <4>2, <4>3, <4>4, NoneIsNoRecord DEF OutboxOK
            <4>6. SequencesOf(local.op, local.attempt)' = 1..(n + 1)
                <5>1. SequencesOf(local.op, local.attempt)' = SequencesOf(local.op, local.attempt) \cup {n + 1}
                    BY <1>1, <3>1, <4>4 DEF SequencesOf, EventsOf
                <5> QED
                    BY <4>1, <5>1
            <4>7. LastSequence(local.op, local.attempt)' = n + 1
                <5> DEFINE S == SequencesOf(local.op, local.attempt)'
                <5>1. S = 1..(n + 1) /\ n + 1 \in Nat
                    BY <4>6
                <5>2. LastSequence(local.op, local.attempt)' =
                        IF S = {} THEN 0 ELSE CHOOSE k \in S : \A s \in S : s <= k
                    BY DEF LastSequence
                <5> HIDE DEF S
                <5> QED
                    BY <5>1, <5>2, LastNumber
            <4> QED
                BY <1>1, <4>2, <4>4, <4>5, <4>7 DEF OutboxAgrees
        <3>2. CASE ~(e.op = local.op /\ e.attempt = local.attempt)
            <4>1. EventsOf(local.op, local.attempt)' = EventsOf(local.op, local.attempt)
                BY <1>1, <3>2 DEF EventsOf
            <4> QED
                BY <1>1, <1>3, <4>1 DEF OutboxOK, OutboxAgrees, LastSequence, SequencesOf
        <3> QED
            BY <3>1, <3>2
    <2> QED
        BY <1>1, <1>3, <2>1, <2>2 DEF OutboxOK
<1> QED
    BY <1>2, <1>3

(* An answer is adopted: the record of the same attempt, or an empty one   *)
(* of an attempt nobody has reported of.                                   *)
LEMMA OutboxAdopted ==
    ASSUME Ground, OutboxOK, ClaimOK, NEW c \in Claimers, ClaimDelivered(c), claims[c].answer # None
    PROVE  /\ OutboxOK'
           /\ local'.done => local # None /\ local.done /\ local'.op = local.op
<1> DEFINE g == claims[c].answer
<1>1. g \in Grants /\ g # None /\ agent.pc = "claiming" /\ agent.slot = c
    BY AnswerRow DEF Ground, ClaimDelivered
<1>2. \/ local # None /\ g.op = local.op /\ g.attempt = local.attempt
      \/ \A e \in Known : e.op = g.op => e.attempt < g.attempt
    BY <1>1 DEF ClaimOK
<1>3. UNCHANGED <<events, sent>> /\ local' = Adopted(g)
    BY DEF ClaimDelivered, ClaimReturn
<1> HIDE DEF g
<1>4. local \in Locals \cup {None}
    BY DEF Ground, SafeInv, ProtocolTypeOK
<1>5. /\ local' \in Locals /\ local' # None /\ local'.op = g.op /\ local'.attempt = g.attempt
      /\ local'.done => local # None /\ local.op = g.op /\ local.done
    BY <1>1, <1>3, <1>4, AdoptedRecord, NoneIsNoRecord
<1>6. CASE local # None /\ g.op = local.op /\ g.attempt = local.attempt
    <2>1. local' = local
        BY <1>3, <1>6 DEF Adopted
    <2> QED
        BY <1>3, <1>5, <2>1, OutboxKept
<1>7. CASE ~(local # None /\ g.op = local.op /\ g.attempt = local.attempt)
    <2>1. \A e \in Known : e.op = g.op => e.attempt < g.attempt
        BY <1>2, <1>7
    <2>2. local'.last = 0 /\ local'.pending = None
        BY <1>1, <1>3, <1>4, <1>5, <1>7, AdoptedRecord
    <2>3. /\ g.attempt \in Nat
          /\ \A e \in Known : e.attempt \in Nat
        BY <1>1 DEF Grants, Known, Ground, SafeInv, TypeInv, TypeOK, ProtocolTypeOK, EventRows
    <2>4. EventsOf(local.op, local.attempt)' = {}
        BY <1>3, <1>5, <2>1, <2>3 DEF EventsOf, Known
    <2>5. LastSequence(local.op, local.attempt)' = 0
        BY <2>4 DEF LastSequence, SequencesOf
    <2>6. OutboxAgrees'
        BY <2>2, <2>5 DEF OutboxAgrees
    <2>7. \A m \in sent : ~(m.event.op = g.op /\ m.event.attempt = g.attempt)
        BY <2>1, <2>3 DEF Known
    <2>8. \A e \in Known' : e.op = g.op => e.attempt <= g.attempt
        BY <1>3, <2>1, <2>3 DEF Known
    <2> QED
        BY <1>3, <1>5, <2>2, <2>6, <2>7, <2>8 DEF OutboxOK
<1> QED
    BY <1>6, <1>7

-----------------------------------------------------------------------------
(* The claim the agent waits for *)

(* An operation that has ended stays so.                                   *)
LEMMA TerminalStays ==
    ASSUME TypeInv, [Next]_vars
    PROVE  \A o \in Ops : Terminal(o) => Terminal(o)'
<1> USE DEF Terminal, TerminalStatuses, Active, ActiveStatuses, Exists
<1>1. CASE NoCreation
    BY <1>1 DEF NoCreation
<1>2. ASSUME NEW o \in Ops, NEW r \in Requests, NEW w \in Windows, CreateNodeOperation(o, r, w)
      PROVE  \A p \in Ops : Terminal(p) => Terminal(p)'
    BY <1>2 DEF CreateNodeOperation, TypeInv, TypeOK
<1> QED
    BY <1>1, <1>2, StepShape

(* The attempts that reports were made of were handed out.                 *)
LEMMA KnownAttempts ==
    ASSUME Ground
    PROVE  \A e \in Known : e \in EventRows /\ e.op \in Ops /\ e.attempt \in Nat /\ e.attempt <= attempt[e.op]
<1>1. \A e \in Known : e \in EventRows
    BY DEF Known, Ground, SafeInv, TypeInv, TypeOK, ProtocolTypeOK
<1>2. \A e \in Known : e.op \in Ops /\ e.attempt \in Nat /\ attempt[e.op] \in Nat
    BY <1>1 DEF EventRows, Ground, SafeInv, TypeInv, TypeOK
<1>3. ASSUME NEW e \in events PROVE e.attempt <= attempt[e.op]
    BY <1>2, <1>3 DEF Known, Ground, StoreInv, HistoryInv, EventAttempts
<1>4. ASSUME NEW m \in sent PROVE m.event.attempt <= attempt[m.event.op]
    <2>1. PICK g \in grants : g.op = m.event.op /\ g.attempt = m.event.attempt
        BY DEF Ground, SafeInv, LeasesOK, Granted
    <2>2. g.attempt \in 1..attempt[g.op]
        BY DEF Ground, StoreInv, LeaseInv, GrantInv
    <2> QED
        BY <1>2, <2>1, <2>2 DEF Known
<1> QED
    BY <1>1, <1>2, <1>3, <1>4 DEF Known

(* The operation of the record has ended if another is found in its place. *)
LEMMA FoundInstead ==
    ASSUME Ground, local # None, NEW o \in ActiveOps(Node), o # local.op
    PROVE  Terminal(local.op)
<1>1. PICK g \in grants : g.op = local.op
    BY LocalFacts DEF Granted
<1>2. local.op \in Ops /\ Exists(local.op) /\ request[local.op].node = Node
    BY <1>1, LocalFacts DEF Ground, SafeInv, TypeInv, RowsComplete, LeasesOK
<1>3. ~Active(local.op)
    BY <1>2 DEF Ground, OneActivePerNode, ActiveOps
<1>4. status[local.op] \in ActiveStatuses \cup TerminalStatuses \cup {"absent"}
    BY <1>2 DEF Ground, SafeInv, TypeInv, TypeOK
<1> QED
    BY <1>2, <1>3, <1>4 DEF Terminal, Active, Exists

(* Steps of other claims, and of everyone else, leave the agent's claim    *)
(* as it was.                                                              *)
LEMMA ClaimUntouched ==
    ASSUME Ground, ClaimOK, [Next]_vars, UNCHANGED <<local, agent>>, Known' \subseteq Known,
           agent.pc = "claiming" => claims'[agent.slot] = claims[agent.slot]
    PROVE  ClaimOK'
<1>1. local # None => local.op \in Ops
    BY LocalFacts
<1>2. \A o \in Ops : Terminal(o) => Terminal(o)'
    BY TerminalStays DEF Ground, SafeInv
<1> QED
    BY <1>1, <1>2 DEF ClaimOK

(* The server works on the agent's claim.                                  *)
LEMMA ClaimServed ==
    ASSUME Ground, ClaimOK, agent.pc = "claiming", ServerClaims(agent.slot)
    PROVE  ClaimOK'
<1>0. PICK c \in Claimers : c = agent.slot
    BY DEF ClaimOK
<1>1. UNCHANGED <<local, agent, sent, installed>> /\ TypeInv
    BY DEF ServerClaims, agentVars, Ground, SafeInv
<1>2. /\ claims[c].node = Node /\ claims[c].token = (IF local = None THEN NoToken ELSE local.token)
      /\ claims[c].row # None /\ local # None /\ claims[c].row # local.op => Terminal(local.op)
      /\ claims[c].pc # "done" => claims[c].answer = None
    BY <1>0 DEF ClaimOK
<1>3. ClaimRead(c) \/ ClaimResume(c) \/ ClaimFresh(c)
    BY <1>0 DEF ServerClaims
<1>4. UNCHANGED events
    BY <1>3 DEF ClaimRead, ClaimResume, ClaimFresh, table
<1>5. [Next]_vars
    BY <1>3 DEF Next
<1>6. Known' = Known /\ agent'.pc = "claiming" /\ agent'.slot = c
    BY <1>0, <1>1, <1>4 DEF Known
<1>7. local # None /\ Terminal(local.op) => Terminal(local.op)'
    <2>1. \A o \in Ops : Terminal(o) => Terminal(o)'
        BY <1>1, <1>5, TerminalStays
    <2> QED
        BY <1>1, <2>1, LocalFacts
<1> DEFINE Same == claims'[c].node = claims[c].node /\ claims'[c].token = claims[c].token
<1>8. ASSUME Same, claims'[c].row = claims[c].row, claims'[c].answer = None PROVE ClaimOK'
    BY <1>1, <1>2, <1>6, <1>7, <1>8 DEF ClaimOK
<1>9. CASE ClaimRead(c)
    <2>1. CASE ClaimFindsNothing(c)
        BY <1>1, <1>8, <2>1, ClaimAnswered DEF ClaimFindsNothing
    <2>2. ASSUME NEW o \in Ops, ClaimFindsRow(c, o) PROVE ClaimOK'
        <3>1. /\ claims'[c].row = o /\ Same /\ claims'[c].answer = claims[c].answer /\ claims[c].pc = "read"
            BY <1>1, <1>9, <2>2, ClaimFound DEF ClaimRead
        <3>2. o \in ActiveOps(Node)
            BY <1>2, <2>2 DEF ClaimFindsRow
        <3>3. local # None /\ o # local.op => Terminal(local.op)'
            BY <1>7, <3>2, FoundInstead
        <3> QED
            BY <1>1, <1>2, <1>6, <3>1, <3>3 DEF ClaimOK
    <2> QED
        BY <1>9, <2>1, <2>2 DEF ClaimRead
<1>10. CASE ClaimResume(c)
    <2> DEFINE o == claims[c].row
               g == [op |-> o, attempt |-> attempt[o], token |-> claims[c].token, caps |-> claims[c].caps]
    <2>1. CASE claims' = [claims EXCEPT ![c].pc = "claim"]
        BY <1>1, <1>2, <1>8, <1>10, <2>1, ClaimFallsThrough DEF ClaimResume
    <2>2. CASE Resumable(o, claims[c].token) /\ ClaimAnswer(c, g)
        <3>1. g.op = o /\ g.attempt = attempt[o]
            OBVIOUS
        <3> HIDE DEF g
        <3>2. claims'[c].answer = g /\ claims'[c].row = o /\ Same
            BY <1>1, <2>2, ClaimAnswered
        <3>3. o \in Ops /\ status[o] = "running" /\ token[o] = claims[c].token
            BY <1>1, <1>10, <2>2 DEF Resumable, ClaimResume, TypeInv, ClaimsInFlight
        <3>4. token[o] # NoToken
            BY <3>3 DEF Ground, StoreInv, LeaseInv, AttemptInv
        <3>5. local # None /\ token[o] = local.token
            BY <1>2, <3>3, <3>4
        <3>6. local.op = o /\ local.attempt = attempt[o]
            <4>1. PICK h \in grants : h.op = local.op /\ h.attempt = local.attempt /\ h.token = local.token
                BY <3>5, LocalFacts DEF Granted
            <4>2. PICK k \in grants : k.op = o /\ k.token = token[o] /\ k.attempt = attempt[o]
                BY <3>3, <3>4 DEF Ground, StoreInv, LeaseInv, GrantInv
            <4> QED
                BY <3>5, <4>1, <4>2 DEF Ground, StoreInv, LeaseInv, GrantInv
        <3>7. claims'[c].pc = "done"
            BY <2>2, <1>1 DEF ClaimAnswer, TypeInv, TypeOK, Claims
        <3> QED
            BY <1>1, <1>2, <1>6, <1>7, <3>1, <3>2, <3>5, <3>6, <3>7 DEF ClaimOK
    <2> QED
        BY <1>10, <2>1, <2>2 DEF ClaimResume
<1>11. CASE ClaimFresh(c)
    <2> DEFINE o == claims[c].row
               g == [op |-> o, attempt |-> attempt[o] + 1, token |-> issued + 1, caps |-> claims[c].caps]
    <2>1. CASE ClaimAnswer(c, None)
        BY <1>1, <1>8, <2>1, ClaimAnswered
    <2>2. CASE ClaimAnswer(c, g)
        <3>1. g.op = o /\ g.attempt = attempt[o] + 1
            OBVIOUS
        <3> HIDE DEF g
        <3>2. claims'[c].answer = g /\ claims'[c].row = o /\ Same
            BY <1>1, <2>2, ClaimAnswered
        <3>3. o \in Ops /\ attempt[o] \in Nat
            BY <1>1, <1>11 DEF ClaimFresh, TypeInv, TypeOK, ClaimsInFlight
        <3>4. \A e \in Known : e.op = o => e.attempt < attempt[o] + 1
            BY <3>3, KnownAttempts
        <3>5. claims'[c].pc = "done"
            BY <2>2, <1>1 DEF ClaimAnswer, TypeInv, TypeOK, Claims
        <3> QED
            BY <1>1, <1>2, <1>6, <1>7, <3>1, <3>2, <3>4, <3>5 DEF ClaimOK
    <2> QED
        BY <1>11, <2>1, <2>2 DEF ClaimFresh
<1> QED
    BY <1>3, <1>9, <1>10, <1>11

(* The agent sends a claim.                                                *)
LEMMA ClaimSent ==
    ASSUME Ground, NEW c \in Claimers, SendClaim(c)
    PROVE  ClaimOK'
<1>1. agent'.pc = "claiming" /\ agent'.slot = c /\ UNCHANGED local
    BY DEF SendClaim, Ground, SafeInv, ProtocolTypeOK, Agents
<1>2. /\ claims'[c].node = Node /\ claims'[c].row = None /\ claims'[c].answer = None
      /\ claims'[c].token = IF local = None THEN NoToken ELSE local.token
    BY DEF SendClaim, ClaimBegin, Ground, SafeInv, TypeInv, TypeOK
<1> QED
    BY <1>1, <1>2 DEF ClaimOK

-----------------------------------------------------------------------------
(* The agent's steps, one by one *)

(* What a step of the agent alone has to establish.                        *)
AgentKept == OutboxOK' /\ StageOK' /\ InstalledOK' /\ agent'.pc # "claiming"

LEMMA MonitorKeeps ==
    ASSUME Ground, ProtocolInv, MonitorTick \/ MonitorRenewed \/ MonitorFails
    PROVE  AgentKept
<1>1. UNCHANGED <<events, local, sent, installed>> /\ agent.pc \in {"begin", "progress", "work"}
    BY DEF MonitorTick, MonitorRenewed, MonitorFails, Monitored, vars
<1>2. agent'.pc = agent.pc
    BY MonitorMoved DEF Ground, SafeInv, ProtocolTypeOK
<1>3. OutboxOK'
    BY <1>1, OutboxKept DEF ProtocolInv
<1> QED
    BY <1>1, <1>2, <1>3 DEF AgentKept, ProtocolInv, StageOK, InstalledOK, Known

(* The agent starts again, with its record or without it.                  *)
LEMMA RestartKeeps ==
    ASSUME ProtocolInv, BackToIdle, local' = local \/ local' = None, UNCHANGED <<events, sent, installed>>
    PROVE  AgentKept
<1>1. agent'.pc = "idle"
    BY StartedAgain
<1>2. OutboxOK'
    BY OutboxKept DEF ProtocolInv, OutboxOK
<1> QED
    BY <1>1, <1>2 DEF AgentKept, ProtocolInv, StageOK, InstalledOK, Known

LEMMA FlushKeeps ==
    ASSUME Ground, ProtocolInv, FlushOutbox
    PROVE  AgentKept
<1>1. UNCHANGED <<events, sent, installed>> /\ local # None /\ local \in Locals /\ agent \in Agents
    BY LocalFacts DEF FlushOutbox, vars, Ground, SafeInv, LeasesOK, ProtocolTypeOK
<1>2. CASE local.pending = None /\ Goto("starting") /\ UNCHANGED local
    <2>1. agent'.pc = "starting" /\ OutboxOK'
        BY <1>1, <1>2, Went, OutboxKept DEF Stages, ProtocolInv
    <2> QED
        BY <1>1, <1>2, <2>1 DEF AgentKept, ProtocolInv, StageOK, InstalledOK, Known
<1>3. CASE Acknowledged /\ local' = EmptiedOutbox /\ Goto("starting")
    <2>1. agent'.pc = "starting" /\ OutboxOK'
        BY <1>1, <1>3, Went, OutboxEmptied DEF Stages, ProtocolInv
    <2>2. SameLease /\ local'.done = local.done /\ local'.pending = None
        BY <1>1, <1>3, Emptied DEF Acknowledged
    <2> QED
        BY <1>1, <2>1, <2>2 DEF AgentKept, ProtocolInv, StageOK, InstalledOK, Known, SameLease
<1>4. CASE BackToIdle /\ UNCHANGED local
    BY <1>1, <1>4, RestartKeeps
<1> QED
    BY <1>2, <1>3, <1>4 DEF FlushOutbox

(* A report that is not a success.                                         *)
LEMMA ReportKeeps ==
    ASSUME Ground, ProtocolInv, local # None, UNCHANGED <<events, installed>>,
           NEW st \in EventStatuses, NEW content \in Contents, Report(st, content),
           st = "succeeded" => local.op \in installed
    PROVE  /\ OutboxOK' /\ SameLease /\ local'.last = local.last /\ local'.done = local.done
           /\ \A e \in Known' : e.status = "succeeded" => e.op \in installed
           /\ local.pending = None => local'.pending.status = st
           /\ local.pending # None => local' = local
<1>1. local \in Locals /\ sent \subseteq [event : EventRows, token : Nat]
    BY LocalFacts DEF Ground, SafeInv, ProtocolTypeOK
<1>2. /\ SameLease /\ local'.last = local.last /\ local'.done = local.done
      /\ local.pending = None => Saved(st)
      /\ local.pending # None => local' = local /\ sent' = sent
    BY <1>1, Reported
<1>3. CASE local.pending = None
    <2>1. PICK e \in EventRows :
            /\ e.op = local.op /\ e.status = st /\ local'.pending = e
            /\ \A m \in sent' : m \in sent \/ m.event = e
        BY <1>2, <1>3 DEF Saved
    <2>2. \A f \in Known' : f \in Known \/ f = e
        BY <2>1 DEF Known
    <2>3. \A f \in Known' : f.status = "succeeded" => f.op \in installed
        BY <2>1, <2>2 DEF ProtocolInv, InstalledOK
    <2>4. OutboxOK'
        BY <1>2, <1>3, OutboxFilled DEF ProtocolInv
    <2> QED
        BY <1>2, <1>3, <2>1, <2>3, <2>4
<1>4. CASE local.pending # None
    <2>1. OutboxOK'
        BY <1>2, <1>4, OutboxKept DEF ProtocolInv
    <2> QED
        BY <1>2, <1>4, <2>1 DEF ProtocolInv, InstalledOK, Known
<1> QED
    BY <1>3, <1>4

LEMMA StartingKeeps ==
    ASSUME Ground, ProtocolInv, ReportStarting
    PROVE  AgentKept
<1>1. /\ UNCHANGED <<events, installed>> /\ local # None /\ local \in Locals /\ agent \in Agents
      /\ agent.pc = "starting" /\ local.last \in Nat
    BY LocalFacts DEF ReportStarting, vars, Ground, SafeInv, LeasesOK, ProtocolTypeOK
<1>2. CASE local.last > 0 /\ Goto("begin") /\ UNCHANGED <<local, sent>>
    <2>1. agent'.pc = "begin" /\ OutboxOK'
        BY <1>1, <1>2, Went, OutboxKept DEF Stages, ProtocolInv
    <2> QED
        BY <1>1, <1>2, <2>1 DEF AgentKept, ProtocolInv, StageOK, InstalledOK, Known
<1>3. CASE local.last = 0 /\ Report("running", "starting") /\ UNCHANGED agent
    <2>1. /\ OutboxOK' /\ SameLease /\ local'.last = local.last /\ local'.done = local.done
          /\ \A e \in Known' : e.status = "succeeded" => e.op \in installed
        BY <1>1, <1>3, ReportKeeps, ProtocolAssumption DEF EventStatuses
    <2> QED
        BY <1>1, <1>3, <2>1 DEF AgentKept, ProtocolInv, StageOK, InstalledOK, SameLease
<1>4. CASE Acknowledged /\ local' = EmptiedOutbox /\ Goto("begin") /\ UNCHANGED sent
    <2>1. agent'.pc = "begin" /\ OutboxOK'
        BY <1>1, <1>4, Went, OutboxEmptied DEF Stages, ProtocolInv
    <2>2. SameLease /\ local'.done = local.done /\ local'.pending = None
        BY <1>1, <1>4, Emptied DEF Acknowledged
    <2> QED
        BY <1>1, <1>4, <2>1, <2>2 DEF AgentKept, ProtocolInv, StageOK, InstalledOK, Known, SameLease
<1>5. CASE BackToIdle /\ UNCHANGED <<local, sent>>
    BY <1>1, <1>5, RestartKeeps
<1> QED
    BY <1>2, <1>3, <1>4, <1>5 DEF ReportStarting

LEMMA BeginKeeps ==
    ASSUME Ground, ProtocolInv, BeginWork
    PROVE  AgentKept
<1>1. /\ UNCHANGED <<events, installed>> /\ local # None /\ local \in Locals /\ agent \in Agents
      /\ agent.pc = "begin" /\ local.pending = None
    BY LocalFacts DEF BeginWork, vars, Ground, SafeInv, LeasesOK, ProtocolTypeOK, ProtocolInv, StageOK
<1>2. CASE agent.ctx # "ok" /\ Stop(agent.ctx) /\ UNCHANGED <<local, sent>>
    <2>1. agent.ctx \in Errors \ {"none"}
        BY <1>1, <1>2 DEF Agents, Errors
    <2>2. agent'.pc = "finish" /\ agent'.err # "none" /\ OutboxOK'
        BY <1>1, <1>2, <2>1, StoppedWith, OutboxKept DEF ProtocolInv
    <2> QED
        BY <1>1, <1>2, <2>2 DEF AgentKept, ProtocolInv, StageOK, InstalledOK, Known
<1>3. CASE /\ local.done /\ agent' = [agent EXCEPT !.pc = "finish", !.committed = TRUE]
           /\ UNCHANGED <<local, sent>>
    <2>1. agent'.pc = "finish" /\ OutboxOK'
        BY <1>1, <1>3, Committed, OutboxKept DEF ProtocolInv
    <2> QED
        BY <1>1, <1>3, <2>1 DEF AgentKept, ProtocolInv, StageOK, InstalledOK, Known
<1>4. CASE Report("running", "progress") /\ Goto("progress")
    <2>1. /\ OutboxOK' /\ SameLease /\ local'.last = local.last /\ local'.done = local.done
          /\ \A e \in Known' : e.status = "succeeded" => e.op \in installed
          /\ local'.pending.status = "running"
        BY <1>1, <1>4, ReportKeeps, ProtocolAssumption DEF EventStatuses
    <2>2. agent'.pc = "progress"
        BY <1>1, <1>4, Went DEF Stages
    <2> QED
        BY <1>1, <2>1, <2>2 DEF AgentKept, ProtocolInv, StageOK, InstalledOK, SameLease
<1> QED
    BY <1>2, <1>3, <1>4 DEF BeginWork

LEMMA ProgressKeeps ==
    ASSUME Ground, ProtocolInv, AwaitProgress
    PROVE  AgentKept
<1>1. /\ UNCHANGED <<events, sent, installed>> /\ local # None /\ local \in Locals /\ agent \in Agents
      /\ agent.pc = "progress"
    BY LocalFacts DEF AwaitProgress, vars, Ground, SafeInv, LeasesOK, ProtocolTypeOK
<1>2. CASE \E err \in Errors \ {"none"} : Stop(err) /\ UNCHANGED local
    <2>1. agent'.pc = "finish" /\ agent'.err # "none" /\ OutboxOK'
        BY <1>1, <1>2, StoppedWith, OutboxKept DEF ProtocolInv
    <2> QED
        BY <1>1, <1>2, <2>1 DEF AgentKept, ProtocolInv, StageOK, InstalledOK, Known
<1>3. CASE Acknowledged /\ local' = EmptiedOutbox /\ Goto("work")
    <2>1. agent'.pc = "work" /\ OutboxOK'
        BY <1>1, <1>3, Went, OutboxEmptied DEF Stages, ProtocolInv
    <2>2. SameLease /\ local'.done = local.done /\ local'.pending = None /\ local'.last = local.pending.sequence
        BY <1>1, <1>3, Emptied DEF Acknowledged
    <2>3. /\ local.pending \in events /\ local.pending.status = "running"
          /\ local.pending.op = local.op /\ local.pending.attempt = local.attempt
        BY <1>1, <1>3 DEF Acknowledged, Replayed, ProtocolInv, OutboxOK, StageOK
    <2> QED
        BY <1>1, <2>1, <2>2, <2>3 DEF AgentKept, ProtocolInv, StageOK, InstalledOK, Known, SameLease
<1>4. agent.ctx # "ok" => agent.ctx \in Errors \ {"none"}
    BY <1>1 DEF Agents, Errors
<1> QED
    BY <1>2, <1>3, <1>4 DEF AwaitProgress, Errors

LEMMA WorkKeeps ==
    ASSUME Ground, ProtocolInv, Work
    PROVE  AgentKept
<1>1. /\ UNCHANGED <<events, sent>> /\ local # None /\ local \in Locals /\ agent \in Agents
      /\ agent.pc = "work"
    BY LocalFacts DEF Work, vars, Ground, SafeInv, LeasesOK, ProtocolTypeOK
<1>2. CASE /\ installed' = installed \cup {local.op}
           /\ local' = local \/ local' = [local EXCEPT !.done = TRUE]
           /\ agent'.pc = "finish"
    <2>1. local' = local \/ (SameLease /\ local'.last = local.last /\ local'.pending = local.pending)
        BY <1>1, <1>2, NoneIsNoRecord, ZenonT(60) DEF SameLease, Locals
    <2>2. OutboxOK'
        BY <1>1, <2>1, OutboxKept DEF ProtocolInv
    <2>3. local'.op = local.op
        BY <2>1 DEF SameLease
    <2> QED
        BY <1>1, <1>2, <2>2, <2>3 DEF AgentKept, ProtocolInv, StageOK, InstalledOK, Known
<1>3. CASE Stop("error") /\ UNCHANGED <<local, installed>>
    <2>1. agent'.pc = "finish" /\ agent'.err # "none" /\ OutboxOK'
        BY <1>1, <1>3, StoppedWith, OutboxKept DEF ProtocolInv, Errors
    <2> QED
        BY <1>1, <1>3, <2>1 DEF AgentKept, ProtocolInv, StageOK, InstalledOK, Known
<1>4. (IF agent.ctx = "ok" THEN "none" ELSE agent.ctx) \in Errors
    BY <1>1 DEF Agents, Errors
<1> QED
    BY <1>1, <1>2, <1>3, <1>4, StoppedWith, Committed DEF Work

LEMMA EndingKeeps ==
    ASSUME Ground, ProtocolInv, FinishWork \/ FinalRenewal(TRUE) \/ FinalRenewal(FALSE)
    PROVE  AgentKept
<1>1. /\ UNCHANGED <<events, sent, local, installed>> /\ agent \in Agents
      /\ agent.pc \in {"finish", "renew"}
    BY DEF FinishWork, FinalRenewal, vars, Ground, SafeInv, ProtocolTypeOK
<1>2. OutboxOK'
    BY <1>1, OutboxKept DEF ProtocolInv
<1>3. CASE FinishWork
    <2>1. /\ agent'.pc \in {"renew", "report"} /\ agent.pc = "finish"
          /\ agent'.err = "none" => agent.err = "none"
          /\ agent'.pc = "renew" => agent'.err = "none"
        BY <1>1, <1>3, Finished DEF FinishWork
    <2> QED
        BY <1>1, <1>2, <2>1 DEF AgentKept, ProtocolInv, StageOK, InstalledOK, Known
<1>4. CASE FinalRenewal(TRUE) \/ FinalRenewal(FALSE)
    <2>1. agent'.pc = "report" /\ agent.pc = "renew"
        BY <1>1, <1>4, Renewed DEF FinalRenewal
    <2>2. local.op \in installed
        BY <2>1 DEF ProtocolInv, InstalledOK, StageOK
    <2> QED
        BY <1>1, <1>2, <2>1, <2>2 DEF AgentKept, ProtocolInv, StageOK, InstalledOK, Known
<1> QED
    BY <1>3, <1>4

LEMMA TerminalKeeps ==
    ASSUME Ground, ProtocolInv, ReportTerminal
    PROVE  AgentKept
<1>1. /\ UNCHANGED <<events, installed>> /\ local # None /\ agent \in Agents /\ agent.pc = "report"
    BY DEF ReportTerminal, vars, Ground, SafeInv, LeasesOK, ProtocolTypeOK
<1> DEFINE st == TerminalStatus(agent.err)
<1>2. st \in EventStatuses /\ (st = "succeeded" => agent.err = "none")
    BY DEF TerminalStatus, EventStatuses
<1>3. Report(st, "result") /\ Goto("reporting")
    BY DEF ReportTerminal
<1> HIDE DEF st
<1>4. st = "succeeded" => local.op \in installed
    BY <1>1, <1>2 DEF ProtocolInv, InstalledOK
<1>5. /\ OutboxOK' /\ SameLease /\ local'.done = local.done
      /\ \A e \in Known' : e.status = "succeeded" => e.op \in installed
    BY <1>1, <1>2, <1>3, <1>4, ReportKeeps, ProtocolAssumption
<1>6. agent'.pc = "reporting"
    BY <1>1, <1>3, Went DEF Stages
<1> QED
    BY <1>1, <1>5, <1>6 DEF AgentKept, ProtocolInv, StageOK, InstalledOK, SameLease

LEMMA AgentAloneKeeps ==
    ASSUME Ground, ProtocolInv, AgentAlone
    PROVE  ProtocolInv'
<1>1. AgentKept
    <2>1. ClaimAbandoned \/ Crash \/ AwaitTerminal =>
            BackToIdle /\ (local' = local \/ local' = None) /\ UNCHANGED <<events, sent, installed>>
        BY DEF ClaimAbandoned, Crash, AwaitTerminal, vars
    <2> QED
        BY <2>1, MonitorKeeps, RestartKeeps, FlushKeeps, StartingKeeps, BeginKeeps, ProgressKeeps, WorkKeeps,
           EndingKeeps, TerminalKeeps DEF AgentAlone
<1>2. UNCHANGED events
    BY AgentAloneShape DEF Ground, AgentShape, vars
<1>3. EventsUnique' /\ ClaimOK'
    BY <1>1, <1>2 DEF ProtocolInv, EventsUnique, ClaimOK, AgentKept
<1> QED
    BY <1>1, <1>3 DEF ProtocolInv, AgentKept

-----------------------------------------------------------------------------
(* The server's steps *)

(* A stored event is new.                                                  *)
LEMMA RecordKeeps ==
    ASSUME Ground, ProtocolInv, NEW m \in sent, ServerRecords(m)
    PROVE  ProtocolInv'
<1>1. /\ events' = events \cup {m.event} /\ sent' = sent \ {m} /\ UNCHANGED <<local, agent, installed, claims>>
      /\ ~Recorded(m.event)
    BY DEF ServerRecords, RecordNodeOperationEvent, Acceptable
<1>2. EventsUnique'
    BY <1>1 DEF ProtocolInv, EventsUnique, Recorded, SequencesOf, EventsOf
<1>3. OutboxOK'
    BY OutboxStored DEF ProtocolInv
<1>4. Known' \subseteq Known
    BY <1>1 DEF Known
<1>5. [Next]_vars
    BY ServerRecordsIsStatement DEF Ground, Statement, Next
<1>6. ClaimOK'
    BY <1>1, <1>4, <1>5, ClaimUntouched DEF ProtocolInv
<1>7. StageOK' /\ InstalledOK'
    BY <1>1, <1>4 DEF ProtocolInv, StageOK, InstalledOK
<1> QED
    BY <1>2, <1>3, <1>6, <1>7 DEF ProtocolInv

(* Nothing that the agent knows of changes but its claim.                  *)
LEMMA QuietKeeps ==
    ASSUME ProtocolInv, UNCHANGED <<events, sent, local, agent, installed>>, ClaimOK'
    PROVE  ProtocolInv'
<1>1. OutboxOK'
    BY OutboxKept DEF ProtocolInv
<1> QED
    BY <1>1 DEF ProtocolInv, EventsUnique, StageOK, InstalledOK, Known

LEMMA ServedKeeps ==
    ASSUME Ground, ProtocolInv, Served
    PROVE  ProtocolInv'
<1>1. [Next]_vars /\ TypeInv /\ ClaimOK
    BY ServedIsStatement DEF Ground, SafeInv, Statement, Next, ProtocolInv
<1>2. ASSUME NEW c \in Claimers, SendClaim(c) PROVE ProtocolInv'
    <2>1. UNCHANGED <<events, local, sent, installed>>
        BY <1>2 DEF SendClaim, ClaimBegin
    <2>2. ClaimOK' /\ OutboxOK'
        BY <1>2, <2>1, ClaimSent, OutboxKept DEF ProtocolInv
    <2>3. agent'.pc = "claiming"
        BY <1>2 DEF SendClaim, Ground, SafeInv, ProtocolTypeOK, Agents
    <2> QED
        BY <2>1, <2>2, <2>3 DEF ProtocolInv, EventsUnique, StageOK, InstalledOK, Known
<1>3. ASSUME NEW c \in Claimers, ClaimDelivered(c) PROVE ProtocolInv'
    <2>1. UNCHANGED <<events, sent, installed>>
        BY <1>3 DEF ClaimDelivered, ClaimReturn
    <2>2. CASE claims[c].answer = None
        <3>1. local' = None /\ BackToIdle
            BY <1>3, <2>2 DEF ClaimDelivered
        <3>2. AgentKept
            BY <2>1, <3>1, RestartKeeps
        <3> QED
            BY <2>1, <3>2 DEF ProtocolInv, EventsUnique, ClaimOK, AgentKept
    <2>3. CASE claims[c].answer # None
        <3>1. OutboxOK' /\ (local'.done => local # None /\ local.done /\ local'.op = local.op)
            BY <1>1, <1>3, <2>3, OutboxAdopted DEF ProtocolInv
        <3>2. agent'.pc = "flush"
            BY <1>3, <2>3 DEF ClaimDelivered, IdleAgent
        <3> QED
            BY <2>1, <3>1, <3>2 DEF ProtocolInv, EventsUnique, ClaimOK, StageOK, InstalledOK, Known
    <2> QED
        BY <2>2, <2>3
<1>4. ASSUME NEW c \in Claimers, ServerClaims(c) \/ ClaimDropped(c) PROVE ProtocolInv'
    <2>1. UNCHANGED <<events, sent, local, agent, installed>>
        BY <1>4 DEF ServerClaims, ClaimDropped, ClaimRead, ClaimResume, ClaimFresh, ClaimReturn, agentVars
    <2>2. CASE agent.pc = "claiming" /\ agent.slot = c
        <3>1. ServerClaims(agent.slot)
            BY <1>4, <2>2 DEF ClaimDropped
        <3> QED
            BY <1>1, <2>1, <2>2, <3>1, ClaimServed, QuietKeeps
    <2>3. CASE ~(agent.pc = "claiming" /\ agent.slot = c)
        <3>1. \A d \in Claimers \ {c} : claims'[d] = claims[d]
            <4>1. CASE ClaimRead(c)
                BY <1>1, <4>1, ClaimAnswered, ClaimFound DEF ClaimRead, ClaimFindsNothing
            <4>2. CASE ClaimResume(c)
                BY <1>1, <4>2, ClaimAnswered, ClaimFallsThrough DEF ClaimResume
            <4>3. CASE ClaimFresh(c)
                BY <1>1, <4>3, ClaimAnswered DEF ClaimFresh
            <4>4. CASE ClaimReturn(c)
                BY <1>1, <4>4 DEF ClaimReturn, TypeInv, TypeOK
            <4> QED
                BY <1>4, <4>1, <4>2, <4>3, <4>4 DEF ServerClaims, ClaimDropped
        <3>2. agent.pc = "claiming" => claims'[agent.slot] = claims[agent.slot]
            BY <1>1, <2>3, <3>1 DEF ClaimOK
        <3>3. ClaimOK'
            BY <1>1, <2>1, <3>2, ClaimUntouched DEF Known
        <3> QED
            BY <2>1, <3>3, QuietKeeps
    <2> QED
        BY <2>2, <2>3
<1>5. CASE UNCHANGED <<events, sent, local, agent, installed, claims>>
    <2>1. ClaimOK'
        BY <1>1, <1>5, ClaimUntouched DEF Known
    <2> QED
        BY <1>5, <2>1, QuietKeeps
<1>6. ASSUME NEW o \in Ops, LeaseLapses(o) \/ LeaseOutlived(o) PROVE ProtocolInv'
    BY <1>5, <1>6 DEF LeaseLapses, LeaseOutlived, LeaseExpires, agentVars
<1>7. CASE DeadlinePasses \/ AdminRequestsCancel
    BY <1>5, <1>7 DEF DeadlinePasses, AdminRequestsCancel, WindowMoves, RequestNodeOperationCancel, agentVars
<1> QED
    BY <1>2, <1>3, <1>4, <1>6, <1>7, RecordKeeps DEF Served

LEMMA ProtocolInductive ==
    ASSUME Ground, ProtocolInv, [ProtocolNext]_protocolVars
    PROVE  ProtocolInv'
<1>1. ASSUME UNCHANGED <<events, sent, local, agent, installed, claims>> PROVE ProtocolInv'
    <2>1. [Next]_vars
        BY ProtocolStepIsStoreStep DEF Ground
    <2>2. ClaimOK'
        BY <1>1, <2>1, ClaimUntouched DEF Known, ProtocolInv
    <2> QED
        BY <1>1, <2>2, QuietKeeps
<1>2. CASE AdminCreates
    BY <1>1, <1>2 DEF AdminCreates, CreateNodeOperation, agentVars
<1>3. CASE UNCHANGED protocolVars
    BY <1>1, <1>3 DEF protocolVars, agentVars, vars
<1> QED
    BY <1>2, <1>3, StepKinds, AgentAloneKeeps, ServedKeeps

LEMMA ProtocolInvariant == ProtocolSpec => []ProtocolInv
<1>1. ProtocolInit => ProtocolInv
    BY DEF ProtocolInit, Init, IdleAgent, ProtocolInv, EventsUnique, OutboxOK, ClaimOK, StageOK, InstalledOK, Known
<1>2. Ground /\ ProtocolInv /\ [ProtocolNext]_protocolVars => ProtocolInv'
    BY ProtocolInductive
<1> QED
    BY <1>1, <1>2, GroundAlways, PTL DEF ProtocolSpec

-----------------------------------------------------------------------------
(* Results *)

(* The outbox and the stored history agree in every state, for any number  *)
(* of crashes, lost answers, lapsed leases and claims in flight: what the  *)
(* server has of the agent's attempt is what the agent counts as           *)
(* acknowledged, or that and the event in its outbox.                      *)
THEOREM OutboxAndHistoryAgree == ProtocolSpec => []OutboxAgrees
<1>1. ProtocolInv => OutboxAgrees
    BY DEF ProtocolInv, OutboxOK, OutboxAgrees
<1> QED
    BY <1>1, ProtocolInvariant, PTL

(* The agent does not change the machine for an operation that has ended:  *)
(* before it works it has seen the server store a running event, which is  *)
(* then the last of its attempt, and no later attempt was reported of.     *)
THEOREM NoLateWork == ProtocolSpec => []NoWorkAfterEnd
<1>1. ASSUME Ground, ProtocolInv PROVE NoWorkAfterEnd
    <2> SUFFICES ASSUME agent.pc = "work", Terminal(local.op) PROVE FALSE
        BY DEF NoWorkAfterEnd
    <2> DEFINE o == local.op
               a == local.attempt
    <2>1. local # None /\ local.pending = None
        BY <1>1 DEF Ground, SafeInv, LeasesOK, ProtocolInv, StageOK
    <2>2. PICK f \in events : f.op = o /\ f.attempt = a /\ f.sequence = local.last /\ f.status = "running"
        BY <1>1 DEF ProtocolInv, StageOK
    <2>3. o \in Ops /\ a \in Nat /\ attempt[o] \in Nat /\ a >= 1 /\ a <= attempt[o]
        <3>1. PICK g \in grants : g.op = o /\ g.attempt = a
            BY <1>1, <2>1, LocalFacts DEF Granted
        <3>2. g.attempt \in 1..attempt[g.op]
            BY <1>1 DEF Ground, StoreInv, LeaseInv, GrantInv
        <3>3. o \in Ops /\ attempt[o] \in Nat
            BY <1>1, <2>1, LocalFacts DEF Ground, SafeInv, TypeInv, TypeOK
        <3> QED
            BY <3>1, <3>2, <3>3
    <2>4. PICK e \in events : e.op = o /\ e.attempt = attempt[o] /\ e.status = status[o]
        BY <1>1, <2>3 DEF Ground, StoreInv, HistoryInv, ClaimedEndsByEvent
    <2>5. e.attempt = a
        <3>1. e.attempt <= a
            BY <1>1, <2>1, <2>4 DEF ProtocolInv, OutboxOK, Known
        <3> QED
            BY <2>3, <2>4, <3>1
    <2>6. e.status # "running"
        BY <2>4 DEF Terminal, TerminalStatuses
    <2>7. f.sequence <= e.sequence
        BY <1>1, <2>2, <2>4, <2>5, <2>6 DEF Ground, StoreInv, HistoryInv, TerminalEventFinal, EventsOf
    <2>8. e.sequence <= local.last
        <3>1. PICK n \in Nat : SequencesOf(o, a) = 1..n /\ LastSequence(o, a) = n
            BY <1>1, <2>1, LocalFacts
        <3>2. e.sequence \in 1..n
            BY <2>4, <2>5, <3>1 DEF SequencesOf, EventsOf
        <3>3. n = local.last
            BY <1>1, <2>1, <3>1 DEF ProtocolInv, OutboxOK, OutboxAgrees
        <3> QED
            BY <3>1, <3>2, <3>3
    <2>9. e.sequence \in Nat /\ f.sequence \in Nat
        BY <1>1 DEF Ground, SafeInv, TypeInv, TypeOK, EventRows
    <2>10. e.sequence = f.sequence
        BY <2>2, <2>7, <2>8, <2>9
    <2> QED
        BY <1>1, <2>2, <2>4, <2>5, <2>6, <2>10 DEF ProtocolInv, EventsUnique
<1> QED
    BY <1>1, GroundAlways, ProtocolInvariant, PTL

(* An operation the server lists as succeeded was completed on the node:   *)
(* success is reported, and a step confirmed in the checkpoint, only after *)
(* the executor did its work, in whichever attempt and process.            *)
THEOREM SuccessWasInstalled == ProtocolSpec => []SucceededIsInstalled
<1>1. ASSUME Ground, ProtocolInv PROVE SucceededIsInstalled
    <2> SUFFICES ASSUME NEW o \in Ops, status[o] = "succeeded" PROVE o \in installed
        BY DEF SucceededIsInstalled
    <2>1. attempt[o] > 0
        BY <1>1 DEF Ground, StoreInv, LeaseInv, AttemptInv
    <2>2. PICK e \in events : e.op = o /\ e.status = "succeeded"
        BY <1>1, <2>1 DEF Ground, StoreInv, HistoryInv, ClaimedEndsByEvent, Terminal, TerminalStatuses
    <2> QED
        BY <1>1, <2>2 DEF ProtocolInv, InstalledOK, Known
<1> QED
    BY <1>1, GroundAlways, ProtocolInvariant, PTL

(* The agent gives up the state of one operation for another's only when   *)
(* the first has ended on the server, so no outbox and no checkpoint of an *)
(* operation that goes on is lost to the next.                             *)
THEOREM StateReplacedAfterEnd == ProtocolSpec => ReplacedOnlyIfEnded
<1> DEFINE Kept == local # None /\ local' # None /\ local'.op # local.op => Terminal(local.op)
<1>1. ASSUME Ground, ProtocolInv, [ProtocolNext]_protocolVars PROVE Kept
    <2>1. CASE AgentAlone
        BY <1>1, <2>1, AgentAloneShape DEF Ground, AgentShape, SameLease
    <2>2. ASSUME NEW c \in Claimers, ClaimDelivered(c) PROVE Kept
        <3> SUFFICES ASSUME local # None, local' # None, local'.op # local.op PROVE Terminal(local.op)
            OBVIOUS
        <3> DEFINE g == claims[c].answer
        <3>1. g # None /\ local' = Adopted(g) /\ agent.pc = "claiming" /\ agent.slot = c
            BY <2>2 DEF ClaimDelivered
        <3>2. g \in Grants /\ local \in Locals \cup {None}
            BY <1>1, <3>1, AnswerRow DEF Ground, SafeInv, ProtocolTypeOK
        <3>3. g.op = claims[c].row /\ g.op \in Ops
            BY <1>1, <3>1, <3>2 DEF ProtocolInv, ClaimOK, Grants
        <3> HIDE DEF g
        <3>4. local'.op = g.op
            BY <3>1, <3>2, AdoptedRecord
        <3>5. claims[c].row # None /\ claims[c].row # local.op
            BY <3>3, <3>4, NoneAssumption
        <3> QED
            BY <1>1, <3>1, <3>5 DEF ProtocolInv, ClaimOK
    <2>3. CASE UNCHANGED local
        BY <2>3
    <2>4. CASE Served
        BY <2>2, <2>3, <2>4 DEF Served, SendClaim, ServerClaims, ClaimDropped, ServerRecords, LeaseLapses,
            LeaseOutlived, DeadlinePasses, AdminRequestsCancel, agentVars
    <2> QED
        BY <1>1, <2>1, <2>3, <2>4, StepKinds DEF AdminCreates, protocolVars, agentVars
<1>2. Ground /\ ProtocolInv /\ [ProtocolNext]_protocolVars => [Kept]_protocolVars
    BY <1>1
<1> QED
    BY <1>2, GroundAlways, ProtocolInvariant, PTL DEF ProtocolSpec, ReplacedOnlyIfEnded
=============================================================================
