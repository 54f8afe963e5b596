--------------------------- MODULE NodeOperations ---------------------------
(***************************************************************************)
(* The durable operation store of the server: the tables node_operations   *)
(* and node_operation_events and the functions of                          *)
(* internal/server/db/node_operations.go that change them.                 *)
(*                                                                         *)
(* A statement or a transaction is one action (transactions take the write *)
(* lock up front, _txlock=immediate).  ClaimNodeOperation is not a         *)
(* transaction: it runs up to four statements, so a claim in flight is a   *)
(* record of `claims' and each statement an action of its own.             *)
(*                                                                         *)
(* Time appears in this code only in comparisons with "now": the state of  *)
(* a lease and of the claim window are kept as the outcome of the          *)
(* comparison, and the passage of time is the actions LeaseExpires and    *)
(* WindowMoves, which may happen at any moment.                            *)
(***************************************************************************)
EXTENDS Naturals, FiniteSets

CONSTANTS
    Nodes,           \* the managed nodes
    Ops,             \* operation identifiers (node_operations.id)
    Keys,            \* idempotency keys
    Kinds,           \* the operation kinds in use
    Contents,        \* phase, message, details, result and error of an event
    CapabilitySets,  \* the capability lists agents send when they claim
    Claimers,        \* slots for claim requests in flight
    None,            \* SQL NULL, the empty string
    MaxAttempts,     \* bound: attempts of one operation
    MaxSequence      \* bound: events of one attempt

AllowedKinds == {"update.bundle", "update.agent", "update.sing_box",
                 "config.reconcile", "diagnostics.collect", "logs.collect"}

ASSUME KindsAssumption == Kinds \subseteq AllowedKinds
ASSUME NoneAssumption == None \notin Nodes \cup Ops \cup Keys
ASSUME BoundsAssumption == MaxAttempts \in Nat /\ MaxSequence \in Nat

VARIABLES
    (* the node_operations table, by column *)
    request,  \* request[o]: what was asked for, never updated
    status,
    attempt,
    token,    \* token[o]: lease_token_hash, NoToken when NULL
    live,     \* the rows whose lease_expires_at is in the future
    cancel,   \* the rows with cancel_requested = 1
    window,   \* window[o]: now against not_before and expires_at
    (* the node_operation_events table *)
    events,
    (* outside the database *)
    grants,   \* every lease ever handed out: what some agent may hold
    issued,   \* number of lease tokens generated so far
    claims    \* claim requests in flight

table == <<request, status, attempt, token, live, cancel, window>>
vars == <<table, events, grants, issued, claims>>

-----------------------------------------------------------------------------
(* Rows *)

ActiveStatuses   == {"queued", "running"}
TerminalStatuses == {"succeeded", "failed", "cancelled", "expired"}
(* Mutant: the status of an event is not validated.                        *)
AnyEventStatus == {"running", "succeeded", "failed", "cancelled", "skipped"}

EventStatuses    == {"running", "succeeded", "failed", "cancelled"}

(* The claim window [not_before, expires_at) seen from now; CreateNode-    *)
(* Operation rejects an expires_at that is not after not_before.           *)
Windows == {"early", "open", "closed"}

NoToken == 0

(* expires: the row has an expires_at.                                     *)
Requests == [node : Nodes, key : Keys, kind : Kinds,
             retryOf : Ops \cup {None}, expires : BOOLEAN]

EventRows == [op : Ops, attempt : Nat, sequence : Nat,
              status : EventStatuses, content : Contents]

Grants == [op : Ops, attempt : Nat, token : Nat, caps : CapabilitySets]

(* A claim in flight: the node and capabilities of the request, the lease  *)
(* it presents (cur, token), the row it read and the answer it produced.   *)
Claims == [pc     : {"idle", "read", "resume", "claim", "done"},
           node   : Nodes \cup {None},
           cur    : Ops \cup {None},
           token  : Nat,
           caps   : CapabilitySets \cup {None},
           row    : Ops \cup {None},
           answer : Grants \cup {None}]

IdleClaim == [pc |-> "idle", node |-> None, cur |-> None, token |-> NoToken,
              caps |-> None, row |-> None, answer |-> None]

Exists(o)   == status[o] # "absent"
Active(o)   == status[o] \in ActiveStatuses
Terminal(o) == status[o] \in TerminalStatuses

ActiveOps(n) == {o \in Ops : Active(o) /\ request[o].node = n}

RequiredCapabilities(kind) ==
    CASE kind = "update.agent" ->
            {"operations", "agent", "streaming", "versioned", "restart"}
      [] kind = "update.sing_box" ->
            {"operations", "sing_box", "streaming", "versioned", "rollback"}
      [] kind = "update.bundle" ->
            {"operations", "agent", "sing_box", "streaming", "versioned",
             "restart", "rollback"}
      [] OTHER -> {"operations"}

hasCapabilities(available, kind) == RequiredCapabilities(kind) \subseteq available

-----------------------------------------------------------------------------
(* Creation *)

(* Mutants of creation: without the one-active-per-node index, and with a  *)
(* retry_of that need only exist.                                          *)
CreateBesideActive(o, r, w) ==
    /\ ~Exists(o)
    /\ \A p \in Ops : Exists(p) => <<request[p].node, request[p].key>> # <<r.node, r.key>>
    /\ r.retryOf # None => Terminal(r.retryOf) /\ request[r.retryOf].node = r.node
    /\ request' = [request EXCEPT ![o] = r]
    /\ status' = [status EXCEPT ![o] = "queued"]
    /\ window' = [window EXCEPT ![o] = w]
    /\ UNCHANGED <<attempt, token, live, cancel, events, grants, issued, claims>>

CreateRetryOfAny(o, r, w) ==
    /\ ~Exists(o)
    /\ ActiveOps(r.node) = {}
    /\ r.retryOf # None => Exists(r.retryOf)
    /\ request' = [request EXCEPT ![o] = r]
    /\ status' = [status EXCEPT ![o] = "queued"]
    /\ window' = [window EXCEPT ![o] = w]
    /\ UNCHANGED <<attempt, token, live, cancel, events, grants, issued, claims>>

(* The key is new for the node, the node has no active operation, and      *)
(* retry_of, when given, is a terminal operation of the same node.  (A key *)
(* that is known is answered from its row and changes nothing.)            *)
CreateNodeOperation(o, r, w) ==
    /\ ~Exists(o)
    /\ \A p \in Ops : Exists(p) => <<request[p].node, request[p].key>> # <<r.node, r.key>>
    /\ ActiveOps(r.node) = {}
    /\ r.retryOf # None => Terminal(r.retryOf) /\ request[r.retryOf].node = r.node
    /\ w = "closed" => r.expires
    /\ request' = [request EXCEPT ![o] = r]
    /\ status' = [status EXCEPT ![o] = "queued"]
    /\ window' = [window EXCEPT ![o] = w]
    /\ UNCHANGED <<attempt, token, live, cancel, events, grants, issued, claims>>

-----------------------------------------------------------------------------
(* Claiming *)

(* Mutant: the deadline also ends work that was claimed.                   *)
ExpireActive(n) ==
    /\ status' = [o \in Ops |-> IF o \in ActiveOps(n) /\ window[o] = "closed"
                               THEN "expired" ELSE status[o]]
    /\ UNCHANGED <<request, attempt, token, live, cancel, window>>

ExpireQueuedNodeOperations(n) ==
    /\ status' = [o \in Ops |->
                    IF o \in ActiveOps(n) /\ status[o] = "queued" /\ window[o] = "closed"
                    THEN "expired" ELSE status[o]]
    /\ UNCHANGED <<request, attempt, token, live, cancel, window>>

(* A claim request arrives; its first statement expires queued rows.       *)
ClaimBegin(c, n, cur, tok, caps) ==
    /\ claims[c].pc = "idle"
    /\ ExpireQueuedNodeOperations(n)
    /\ claims' = [claims EXCEPT ![c] =
                    [pc |-> "read", node |-> n, cur |-> cur, token |-> tok,
                     caps |-> caps, row |-> None, answer |-> None]]
    /\ UNCHANGED <<events, grants, issued>>

ClaimAnswer(c, answer) ==
    claims' = [claims EXCEPT ![c] = [claims[c] EXCEPT !.pc = "done", !.answer = answer]]

(* GetActiveNodeOperation and the capability check: nothing to hand out,   *)
(* or a row o that the next statements work on.                            *)
ClaimFindsNothing(c) ==
    /\ \A o \in ActiveOps(claims[c].node) :
           ~hasCapabilities(claims[c].caps, request[o].kind)
    /\ ClaimAnswer(c, None)

(* Mutant: the capability check is missing.                                *)
ClaimFindsAnyRow(c, o) ==
    /\ o \in ActiveOps(claims[c].node)
    /\ claims' = [claims EXCEPT ![c] = [claims[c] EXCEPT !.row = o, !.pc = "claim"]]

ClaimFindsRow(c, o) ==
    /\ o \in ActiveOps(claims[c].node)
    /\ hasCapabilities(claims[c].caps, request[o].kind)
    /\ claims' = [claims EXCEPT ![c] = [claims[c] EXCEPT
           !.row = o,
           !.pc = IF claims[c].cur = o /\ claims[c].token # NoToken
                  THEN "resume" ELSE "claim"]]

ClaimRead(c) ==
    /\ claims[c].pc = "read"
    /\ ClaimFindsNothing(c) \/ \E o \in Ops : ClaimFindsRow(c, o)
    /\ UNCHANGED <<table, events, grants, issued>>

Resumable(o, tok) == status[o] = "running" /\ token[o] = tok /\ o \in live

(* ResumeNodeOperationLease: extends a lease the request still holds, or   *)
(* falls through to a fresh claim.                                         *)
ClaimResume(c) ==
    LET o == claims[c].row
        g == [op |-> o, attempt |-> attempt[o],
              token |-> claims[c].token, caps |-> claims[c].caps]
    IN  /\ claims[c].pc = "resume"
        /\ UNCHANGED <<table, events, issued>>
        /\ \/ /\ Resumable(o, claims[c].token)
              /\ grants' = grants \cup {g}
              /\ ClaimAnswer(c, g)
           \/ /\ ~Resumable(o, claims[c].token)
              /\ claims' = [claims EXCEPT ![c].pc = "claim"]
              /\ UNCHANGED grants

(* Mutant: a row whose lease ran out is not claimed again.                 *)
ClaimableQueued(o) == o \notin cancel /\ status[o] = "queued" /\ window[o] = "open"

Claimable(o) ==
    /\ o \notin cancel
    /\ window[o] # "early"
    /\ \/ status[o] = "queued" /\ window[o] # "closed"
       \/ status[o] = "running" /\ token[o] # NoToken /\ o \notin live

(* ClaimNodeOperation, the statement: a new attempt under a fresh token,   *)
(* of the row that was read, if it is still claimable.                     *)
ClaimFresh(c) ==
    LET o == claims[c].row
        g == [op |-> o, attempt |-> attempt[o] + 1,
              token |-> issued + 1, caps |-> claims[c].caps]
    IN  /\ claims[c].pc = "claim"
        /\ UNCHANGED <<request, cancel, window, events>>
        /\ \/ /\ Claimable(o)
              /\ attempt[o] < MaxAttempts
              /\ status' = [status EXCEPT ![o] = "running"]
              /\ attempt' = [attempt EXCEPT ![o] = attempt[o] + 1]
              /\ token' = [token EXCEPT ![o] = issued + 1]
              /\ live' = live \cup {o}
              /\ issued' = issued + 1
              /\ grants' = grants \cup {g}
              /\ ClaimAnswer(c, g)
           \/ /\ ~Claimable(o)
              /\ ClaimAnswer(c, None)
              /\ UNCHANGED <<status, attempt, token, live, grants, issued>>

(* The answer leaves the handler.                                          *)
ClaimReturn(c) ==
    /\ claims[c].pc = "done"
    /\ claims' = [claims EXCEPT ![c] = IdleClaim]
    /\ UNCHANGED <<table, events, grants, issued>>

-----------------------------------------------------------------------------
(* Work under a lease *)

(* Mutant: an event is accepted under any lease of a running operation.    *)
HoldsAny(o, a, tok) == status[o] = "running"

Holds(o, a, tok) == status[o] = "running" /\ attempt[o] = a /\ token[o] = tok

(* RenewNodeOperationLease succeeds.  It moves the expiry of a live lease  *)
(* further away, which leaves the lease live.                              *)
RenewNodeOperationLease(o, a, tok) == Holds(o, a, tok) /\ o \in live

EventsOf(o, a) == {e \in events : e.op = o /\ e.attempt = a}

SequencesOf(o, a) == {e.sequence : e \in EventsOf(o, a)}

LastSequence(o, a) ==
    IF SequencesOf(o, a) = {} THEN 0
    ELSE CHOOSE m \in SequencesOf(o, a) : \A s \in SequencesOf(o, a) : s <= m

(* An event with this attempt and sequence is stored: RecordNodeOperation- *)
(* Event acknowledges the very same event and refuses any other.           *)
Recorded(e) == e.sequence \in SequencesOf(e.op, e.attempt)
Replayed(e) == e \in events

(* Mutant: a sequence may be skipped.                                      *)
AcceptableAfterGap(e, tok) ==
    /\ ~Recorded(e)
    /\ Holds(e.op, e.attempt, tok)
    /\ e.status = "cancelled" => e.op \in cancel
    /\ e.sequence > LastSequence(e.op, e.attempt)
    /\ e.op \in live

Acceptable(e, tok) ==
    /\ ~Recorded(e)
    /\ Holds(e.op, e.attempt, tok)
    /\ e.status = "cancelled" => e.op \in cancel
    /\ e.sequence = LastSequence(e.op, e.attempt) + 1
    /\ e.op \in live

(* Mutant: a terminal event leaves the lease in the row.                   *)
RecordKeepingLease(e, tok) ==
    /\ Acceptable(e, tok)
    /\ e.sequence <= MaxSequence
    /\ events' = events \cup {e}
    /\ status' = [status EXCEPT ![e.op] = e.status]
    /\ UNCHANGED <<request, attempt, token, live, cancel, window, grants, issued, claims>>

(* A new event is appended and applied: a running event renews the lease,  *)
(* a terminal one ends the operation and clears the lease.                 *)
RecordNodeOperationEvent(e, tok) ==
    /\ Acceptable(e, tok)
    /\ e.sequence <= MaxSequence
    /\ events' = events \cup {e}
    /\ status' = [status EXCEPT ![e.op] = e.status]
    /\ token' = [token EXCEPT ![e.op] = IF e.status = "running" THEN tok ELSE NoToken]
    /\ live' = IF e.status = "running" THEN live ELSE live \ {e.op}
    /\ UNCHANGED <<request, attempt, cancel, window, grants, issued, claims>>

-----------------------------------------------------------------------------
(* Cancellation and time *)

RequestNodeOperationCancel(o) ==
    /\ Active(o)
    /\ cancel' = cancel \cup {o}
    /\ status' = [status EXCEPT ![o] = IF status[o] = "queued" THEN "cancelled"
                                                             ELSE status[o]]
    /\ UNCHANGED <<request, attempt, token, live, window, events, grants, issued, claims>>

(* Mutant: the queue deadline of a campaign cancels claimed work.          *)
CancelActive(o) ==
    /\ Active(o)
    /\ cancel' = cancel \cup {o}
    /\ status' = [status EXCEPT ![o] = "cancelled"]
    /\ UNCHANGED <<request, attempt, token, live, window, events, grants, issued, claims>>

CancelUnclaimedNodeOperation(o) ==
    /\ status[o] = "queued"
    /\ cancel' = cancel \cup {o}
    /\ status' = [status EXCEPT ![o] = "cancelled"]
    /\ UNCHANGED <<request, attempt, token, live, window, events, grants, issued, claims>>

(* The admin API's read of the active operation expires queued rows too.   *)
GetActiveNodeOperation(n) ==
    /\ ExpireQueuedNodeOperations(n)
    /\ UNCHANGED <<events, grants, issued, claims>>

LeaseExpires(o) ==
    /\ o \in live
    /\ live' = live \ {o}
    /\ UNCHANGED <<request, status, attempt, token, cancel, window,
                   events, grants, issued, claims>>

(* now reaches not_before, and then expires_at.                            *)
WindowMoves(o) ==
    /\ Exists(o)
    /\ \/ window[o] = "early" /\ window' = [window EXCEPT ![o] = "open"]
       \/ /\ window[o] = "open" /\ request[o].expires
          /\ window' = [window EXCEPT ![o] = "closed"]
    /\ UNCHANGED <<request, status, attempt, token, live, cancel,
                   events, grants, issued, claims>>

-----------------------------------------------------------------------------
Init ==
    /\ request = [o \in Ops |-> None]
    /\ status = [o \in Ops |-> "absent"]
    /\ attempt = [o \in Ops |-> 0]
    /\ token = [o \in Ops |-> NoToken]
    /\ live = {}
    /\ cancel = {}
    /\ window = [o \in Ops |-> "open"]
    /\ events = {}
    /\ grants = {}
    /\ issued = 0
    /\ claims = [c \in Claimers |-> IdleClaim]

Create ==
    \E o \in Ops, r \in Requests, w \in Windows : CreateNodeOperation(o, r, w)

(* A claim presents no lease, or any lease handed out before.              *)
BeginClaim ==
    \E c \in Claimers, caps \in CapabilitySets :
        \/ \E n \in Nodes : ClaimBegin(c, n, None, NoToken, caps)
        \/ \E g \in grants : ClaimBegin(c, request[g.op].node, g.op, g.token, caps)

(* An event is sent under any lease handed out before, however old.        *)
Record ==
    \E g \in grants, s \in 1..MaxSequence, st \in EventStatuses, x \in Contents :
        RecordNodeOperationEvent(
            [op |-> g.op, attempt |-> g.attempt, sequence |-> s,
             status |-> st, content |-> x], g.token)

Next ==
    \/ Create
    \/ BeginClaim
    \/ \E c \in Claimers : ClaimRead(c)
    \/ \E c \in Claimers : ClaimResume(c)
    \/ \E c \in Claimers : ClaimFresh(c)
    \/ \E c \in Claimers : ClaimReturn(c)
    \/ Record
    \/ \E o \in Ops : RequestNodeOperationCancel(o)
    \/ \E o \in Ops : CancelUnclaimedNodeOperation(o)
    \/ \E n \in Nodes : GetActiveNodeOperation(n)
    \/ \E o \in Ops : LeaseExpires(o)
    \/ \E o \in Ops : WindowMoves(o)

Spec == Init /\ [][Next]_vars

-----------------------------------------------------------------------------
(* Properties *)

TypeOK ==
    /\ request \in [Ops -> Requests \cup {None}]
    /\ status \in [Ops -> ActiveStatuses \cup TerminalStatuses \cup {"absent"}]
    /\ attempt \in [Ops -> Nat]
    /\ token \in [Ops -> Nat]
    /\ live \subseteq Ops
    /\ cancel \subseteq Ops
    /\ window \in [Ops -> Windows]
    /\ events \subseteq EventRows
    /\ grants \subseteq Grants
    /\ issued \in Nat
    /\ claims \in [Claimers -> Claims]

(* A node has at most one operation that has not ended, whatever the       *)
(* interleaving of creations, claims, cancellations and expiry.            *)
OneActivePerNode ==
    \A o, p \in Ops :
        Active(o) /\ Active(p) /\ request[o].node = request[p].node => o = p

(* An operation is running exactly while a lease token is stored for it,   *)
(* that token was handed out for the current attempt, and no other         *)
(* attempt or operation was ever given the same token: an agent holding an *)
(* older lease cannot be mistaken for the holder.                          *)
LeaseHolderUnique ==
    \A o \in Ops :
        /\ status[o] = "running" <=> token[o] # NoToken
        /\ status[o] = "running" =>
              \E g \in grants : /\ g.op = o
                                /\ g.token = token[o]
                                /\ g.attempt = attempt[o]
        /\ \A g \in grants : token[o] = g.token =>
              g.op = o /\ g.attempt = attempt[o]

(* The events of an attempt are numbered 1, 2, ..., n without a gap, so    *)
(* the history the UI derives progress from has no holes even when         *)
(* reports are retried, duplicated or delayed past a new attempt.          *)
HistoryContiguous ==
    \A o \in Ops, a \in 1..MaxAttempts :
        \E n \in 0..MaxSequence : SequencesOf(o, a) = 1..n

(* A terminal event is the last thing recorded for its operation: it       *)
(* belongs to the last attempt, no event follows it, and the operation     *)
(* keeps the status it announced.  A late report of an earlier attempt can *)
(* neither end the operation nor add to its history.                       *)
TerminalEventFinal ==
    \A e \in events : e.status # "running" =>
        /\ status[e.op] = e.status
        /\ attempt[e.op] = e.attempt
        /\ \A f \in EventsOf(e.op, e.attempt) : f.sequence <= e.sequence

(* An operation that was handed to an agent ends only by an event that     *)
(* agent reported: expiry and the queue deadline of a campaign             *)
(* (CancelUnclaimedNodeOperation) never end work that was claimed, even    *)
(* when they race with the claim.                                          *)
ClaimedEndsByEvent ==
    \A o \in Ops : Terminal(o) /\ attempt[o] > 0 =>
        \E e \in events : e.op = o /\ e.attempt = attempt[o]
                                  /\ e.status = status[o]

(* An operation is handed only to an agent that advertised every           *)
(* capability its kind requires, although the capabilities are checked     *)
(* against a row read in an earlier statement than the one that claims it. *)
CapabilitiesHonoured ==
    \A g \in grants : hasCapabilities(g.caps, request[g.op].kind)

(* A retry always points at an operation of the same node that has ended.  *)
RetryOfEnded ==
    \A o \in Ops : Exists(o) /\ request[o].retryOf # None =>
        Terminal(request[o].retryOf) /\ request[request[o].retryOf].node = request[o].node

(* The store implements the slot discipline of OperationLifecycle.         *)
Lifecycle == INSTANCE OperationLifecycle WITH
    slot    <- [n \in Nodes |-> ActiveOps(n)],
    starts  <- [o \in Ops |-> attempt[o]],
    outcome <- [o \in Ops |-> IF Terminal(o) THEN status[o] ELSE "none"]

ImplementsLifecycle == Lifecycle!LifecycleSpec
=============================================================================
