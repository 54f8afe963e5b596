-------------------------- MODULE ConnectionTelemetry --------------------------
(***************************************************************************)
(* Connection telemetry of one node.  sing-box pushes NEW, UPDATE and      *)
(* CLOSED events over its daemon stream; the agent's collector folds them  *)
(* into one cumulative snapshot per connection (agent/connections.go), the *)
(* agent ships the snapshots in numbered reports staged in its state file  *)
(* before they are sent, and the server merges them into                   *)
(* connection_events (server/db/connection_events.go).  An accepted report *)
(* makes the stream the node's source of network events for an interval of *)
(* time; the journal is the source outside the intervals.                  *)
(*                                                                         *)
(* The two directions of a connection's bytes are one number, its other    *)
(* dimensions are its identity, and coverage keeps the bytes, the resets   *)
(* and the drops.                                                          *)
(***************************************************************************)
EXTENDS Integers, FiniteSets, SequencesExt

CONSTANTS Conns,          \* connection identities, 1..n; an identity is used once
          MaxBytes,       \* bound: bytes one connection carries
          MaxTime,        \* bound: the clock, which moves between closes
          RingSize,       \* sing-box's ring of closed connections
          AccountedLimit, \* maxAccountedCloseIDs
          MaxTracked,     \* maxTrackedConnections
          MaxBuckets,     \* maxPendingConnectionBuckets
          MaxChanges,     \* bound: changes of the node's telemetry row
          MaxFaults,      \* bound: drops, crashes, restarts and lost messages
          None

\* The accounted set outlives the ring even when a replay names the ring's
\* connections in another order than they closed in: 2048 against 1000.
ASSUME TelemetryAssumptions ==
  /\ IsFiniteSet(Conns) /\ Conns = 1..Cardinality(Conns)
  /\ {MaxBytes, MaxTime, RingSize, MaxTracked, MaxBuckets, MaxChanges, MaxFaults} \subseteq Nat
  /\ RingSize # 0
  /\ AccountedLimit \in Nat /\ AccountedLimit >= 2 * RingSize - 1

VARIABLES now,         \* the time of the last close: only closes are told apart by it
          conn,        \* sing-box: connection |-> [st, total, sent, closedAt]
          ring,        \* sing-box: closed connections a subscription replays, oldest first
          linked,      \* the collector's subscription is up
          collector,   \* the running collector, or None
          disk,        \* the secret of the api service in the installed config, or None
          saved,       \* the state file: [sequence, high, pending]
          pc, draft,   \* ReportConnections: its step and the report it built
          telemetry,   \* the node_connection_telemetry row: [enabled, secret], or None
          rows,        \* connection_events
          reports,     \* sequences of connection_reports
          covered,     \* bytes_observed summed over connection_reports
          sources,     \* the open network_event_source_intervals
          gap,         \* history: something the collector cannot make up for has happened
          changes, faults

singbox == <<conn, ring>>
agent == <<linked, collector, disk, saved, pc, draft>>
server == <<telemetry, rows, reports, covered, sources>>
vars == <<now, singbox, agent, server, gap, changes, faults>>

Change == changes < MaxChanges /\ changes' = changes + 1
Fault == faults < MaxFaults /\ faults' = faults + 1

\* A missing row and a disabled one are the same.
NodeConnectionTelemetryEnabled == telemetry # None /\ telemetry.enabled

larger(a, b) == IF a > b THEN a ELSE b

\* A snapshot of nothing; a snapshot of a connection has opened = 1.
Nothing == [opened |-> 0, closed |-> 0, bytes |-> 0]

Merge(b, other) ==
  [opened |-> larger(b.opened, other.opened), closed |-> larger(b.closed, other.closed),
   bytes |-> larger(b.bytes, other.bytes)]

----------------------------------------------------------------------------
(* What the variables hold *)

Connections == [st : {"none", "open", "closed", "gone"},
                total : 0..MaxBytes, sent : 0..MaxBytes, closedAt : 0..MaxTime]
Snapshots == [opened : {0, 1}, closed : {0, 1}, bytes : Nat]
Collectors == [secret : Nat, subscribed : BOOLEAN,
               live : [Conns -> Nat \cup {None}], accounted : Seq(Conns),
               buckets : [Conns -> Snapshots],
               startup : Nat, high : Nat, bytes : Nat, resets : Nat, dropped : Nat]
Drafts == [bytes : Nat, buckets : [Conns -> Snapshots]]
Reports == [sequence : Nat, bytes : Nat, buckets : [Conns -> Snapshots]]
TelemetryRows == [enabled : BOOLEAN, secret : Nat]

ASSUME NoneIsNothing == None \notin Nat \cup Collectors \cup Drafts \cup Reports \cup TelemetryRows

----------------------------------------------------------------------------
(* The collector *)

newConnectionCollector(secret, high) ==
  [secret |-> secret, subscribed |-> FALSE,
   live |-> [c \in Conns |-> None], accounted |-> <<>>,
   buckets |-> [c \in Conns |-> Nothing],
   startup |-> high, high |-> high,
   bytes |-> 0, resets |-> 0, dropped |-> 0]

Tracked(k) == {c \in Conns : k.live[c] # None}
Bucketed(buckets) == {c \in Conns : buckets[c] # Nothing}

\* The tracked connection c now stands at `sum`, `bytes` more than recorded.
record(k, c, sum, bytes, opened, closed) ==
  IF bytes = 0 /\ opened = 0 /\ closed = 0 THEN k
  ELSE IF k.buckets[c] = Nothing /\ Cardinality(Bucketed(k.buckets)) >= MaxBuckets
  THEN [k EXCEPT !.dropped = @ + 1]
  ELSE [k EXCEPT !.buckets[c] = Merge(@, [opened |-> 1, closed |-> closed, bytes |-> sum]),
                 !.bytes = @ + bytes]

add(accounted, c) ==
  IF Contains(accounted, c) THEN accounted
  ELSE LET grown == Append(accounted, c)
       IN  IF Len(grown) > AccountedLimit THEN Tail(grown) ELSE grown

closeTracked(k, c, sum, bytes, opened, closedAt) ==
  [record(k, c, sum, bytes, opened, 1) EXCEPT
     !.live[c] = None, !.accounted = add(@, c), !.high = larger(@, closedAt)]

\* Totals never go back: what is known of a connection, and what that adds.
advance(known, total) == [sum |-> larger(known, total), bytes |-> larger(known, total) - known]

\* NEW is also how a subscription replays its initial state; closedAt = 0 means open.
\* Mutant: a replayed connection is added to what is known of it.
applyNewTwice(k, c, total, closedAt) ==
  IF k.live[c] # None
  THEN IF closedAt # 0 THEN closeTracked(k, c, k.live[c] + total, total, 0, closedAt)
       ELSE record([k EXCEPT !.live[c] = @ + total], c, k.live[c] + total, total, 0, 0)
  ELSE IF closedAt # 0
  THEN IF Contains(k.accounted, c) \/ closedAt <= k.startup THEN k
       ELSE closeTracked(k, c, total, total, 1, closedAt)
  ELSE IF Cardinality(Tracked(k)) >= MaxTracked THEN [k EXCEPT !.dropped = @ + 1]
  ELSE record([k EXCEPT !.live[c] = total], c, total, total, 1, 0)

applyNew(k, c, total, closedAt) ==
  IF k.live[c] # None
  THEN LET to == advance(k.live[c], total)
       IN  IF closedAt # 0 THEN closeTracked(k, c, to.sum, to.bytes, 0, closedAt)
           ELSE record([k EXCEPT !.live[c] = to.sum], c, to.sum, to.bytes, 0, 0)
  ELSE IF closedAt # 0
  THEN IF Contains(k.accounted, c) \/ closedAt <= k.startup THEN k
       ELSE closeTracked(k, c, total, total, 1, closedAt)
  ELSE IF Cardinality(Tracked(k)) >= MaxTracked THEN [k EXCEPT !.dropped = @ + 1]
  ELSE record([k EXCEPT !.live[c] = total], c, total, total, 1, 0)

applyUpdate(k, c, delta) ==
  IF k.live[c] = None THEN k
  ELSE record([k EXCEPT !.live[c] = @ + delta], c, k.live[c] + delta, delta, 0, 0)

applyClosed(k, c, total, closedAt) ==
  IF k.live[c] # None
  THEN LET to == advance(k.live[c], total)
       IN  closeTracked(k, c, to.sum, to.bytes, 0, closedAt)
  ELSE IF Contains(k.accounted, c) THEN k
  ELSE closeTracked(k, c, total, total, 1, closedAt)

\* What a replay of `mentioned` does not name is gone.
sweepStale(k, mentioned) ==
  [k EXCEPT !.live = [c \in Conns |-> IF c \in mentioned THEN @[c] ELSE None]]

\* The NEW events of a batch with the reset flag, one for each connection of
\* `mentioned`: the collector after the first i identities have been looked at.
replay(k, mentioned) ==
  LET after[i \in 0..Cardinality(Conns)] ==
        IF i = 0 THEN k
        ELSE IF i \in mentioned THEN applyNew(after[i - 1], i, conn[i].total, conn[i].closedAt)
        ELSE after[i - 1]
  IN  after

\* The reset: the full state of sing-box, then the sweep.
applyReset(k) ==
  LET mentioned == {c \in Conns : conn[c].st = "open" \/ Contains(ring, c)}
      begun == [k EXCEPT !.resets = @ + (IF k.subscribed THEN 1 ELSE 0), !.subscribed = TRUE]
  IN  sweepStale(replay(begun, mentioned)[Cardinality(Conns)], mentioned)

Overflowed(k) == k.dropped > 0

----------------------------------------------------------------------------
(* sing-box and its stream *)

\* An event reaches the collector, or the subscriber's full buffer drops it.
Deliver(k, loses) ==
  \/ /\ collector' = IF linked THEN k ELSE collector
     /\ gap' = (gap \/ (linked /\ Overflowed(k)))
     /\ UNCHANGED faults
  \/ linked /\ Fault /\ gap' = (gap \/ loses) /\ UNCHANGED collector

Open(c) ==
  /\ disk # None
  /\ conn[c].st = "none"
  /\ conn' = [conn EXCEPT ![c].st = "open"]
  /\ Deliver(IF linked THEN applyNew(collector, c, 0, 0) ELSE None, FALSE)
  /\ UNCHANGED <<now, ring, linked, disk, saved, pc, draft, server, changes>>

Traffic(c) ==
  /\ conn[c].st = "open" /\ conn[c].total < MaxBytes
  /\ conn' = [conn EXCEPT ![c].total = @ + 1]
  /\ UNCHANGED <<now, ring, agent, server, gap, changes, faults>>

\* The tick of the stream: what the connection carried since its last event.
Update(c) ==
  /\ linked /\ conn[c].st = "open" /\ conn[c].sent < conn[c].total
  /\ conn' = [conn EXCEPT ![c].sent = conn[c].total]
  /\ Deliver(applyUpdate(collector, c, conn[c].total - conn[c].sent), FALSE)
  /\ UNCHANGED <<now, ring, linked, disk, saved, pc, draft, server, changes>>

Close(c) ==
  /\ conn[c].st = "open"
  /\ now' \in {larger(now, 1), now + 1} /\ now' <= MaxTime
  /\ conn' = [conn EXCEPT ![c].st = "closed", ![c].closedAt = now', ![c].sent = conn[c].total]
  /\ LET grown == Append(ring, c)
     IN  ring' = IF Len(grown) > RingSize THEN Tail(grown) ELSE grown
  /\ Deliver(IF linked THEN applyClosed(collector, c, conn[c].total, now') ELSE None, TRUE)
  /\ UNCHANGED <<linked, disk, saved, pc, draft, server, changes>>

\* consume: the initial state is the first batch of a subscription.
Subscribe ==
  /\ collector # None /\ ~linked /\ collector.secret = disk
  /\ linked' = TRUE
  /\ conn' = [c \in Conns |-> [conn[c] EXCEPT !.sent = conn[c].total]]
  /\ collector' = applyReset(collector)
  /\ gap' = (gap \/ Overflowed(collector')
                 \/ \E c \in Conns : conn[c].st = "closed" /\ ~Contains(ring, c)
                                     /\ ~Contains(collector.accounted, c))
  /\ UNCHANGED <<now, ring, disk, saved, pc, draft, server, changes, faults>>

Disconnect ==
  /\ linked /\ Fault
  /\ linked' = FALSE
  /\ UNCHANGED <<now, singbox, collector, disk, saved, pc, draft, server, gap, changes>>

\* sing-box starts anew: its connections die without a close, its ring is empty.
Restarted ==
  /\ conn' = [c \in Conns |-> IF conn[c].st = "open" THEN [conn[c] EXCEPT !.st = "gone", !.sent = conn[c].total] ELSE conn[c]]
  /\ ring' = <<>>
  /\ linked' = FALSE
  /\ gap' = TRUE

SingBoxRestarts ==
  /\ disk # None /\ Fault
  /\ Restarted
  /\ UNCHANGED <<now, collector, disk, saved, pc, draft, server, changes>>

----------------------------------------------------------------------------
(* The agent *)

\* The service the renderer puts into the node's config.
connectionTelemetryService == IF NodeConnectionTelemetryEnabled THEN telemetry.secret ELSE None

\* The poll installs the published config; sing-box is restarted with it.
ApplyConfig ==
  /\ pc = "idle" /\ disk # connectionTelemetryService
  /\ disk' = connectionTelemetryService
  /\ Restarted
  /\ UNCHANGED <<now, collector, saved, pc, draft, server, changes, faults>>

reconcileConnectionCollector ==
  /\ pc = "idle"
  /\ IF collector = None THEN disk # None ELSE collector.secret # disk
  /\ collector' = IF disk = None THEN None ELSE newConnectionCollector(disk, saved.high)
  /\ linked' = FALSE
  /\ gap' = (gap \/ collector # None)
  /\ UNCHANGED <<now, singbox, disk, saved, pc, draft, server, changes, faults>>

\* ReportConnections: a staged report goes first.
ReportBegin ==
  /\ pc = "idle"
  /\ pc' = IF saved.pending # None THEN "resend" ELSE "collect"
  /\ saved.pending = None => collector # None
  /\ UNCHANGED <<now, singbox, linked, collector, disk, saved, draft, server, gap, changes, faults>>

Drained(k) == Bucketed(k.buckets) = {} /\ k.bytes = 0 /\ k.resets = 0 /\ k.dropped = 0

Drain ==
  /\ pc = "collect" /\ collector # None
  /\ draft' = IF Drained(collector) THEN None
              ELSE [bytes |-> collector.bytes, buckets |-> collector.buckets]
  /\ collector' = [collector EXCEPT !.buckets = [c \in Conns |-> Nothing],
                                    !.bytes = 0, !.resets = 0, !.dropped = 0]
  /\ pc' = "drained"
  /\ UNCHANGED <<now, singbox, linked, disk, saved, server, gap, changes, faults>>

\* The rest of buildConnectionReport, after Drain has let go of the lock.
\* Mutant: the report repeats the sequence of the one before.
buildConnectionReportSameSequence(d) ==
  [sequence |-> larger(saved.sequence, 1), high |-> larger(saved.high, collector.high),
   pending |-> [sequence |-> larger(saved.sequence, 1), bytes |-> d.bytes, buckets |-> d.buckets]]

buildConnectionReport(d) ==
  [sequence |-> saved.sequence + 1, high |-> larger(saved.high, collector.high),
   pending |-> [sequence |-> saved.sequence + 1, bytes |-> d.bytes, buckets |-> d.buckets]]

\* ... and the report is staged before it is sent.
StageReport ==
  /\ pc = "drained"
  /\ saved' = IF draft = None THEN [saved EXCEPT !.high = larger(@, collector.high)]
              ELSE buildConnectionReport(draft)
  /\ pc' = IF draft = None THEN "idle" ELSE "send"
  /\ draft' = None
  /\ UNCHANGED <<now, singbox, linked, collector, disk, server, gap, changes, faults>>

NothingToCollect ==
  /\ pc = "collect" /\ collector = None
  /\ pc' = "idle"
  /\ UNCHANGED <<now, singbox, linked, collector, disk, saved, draft, server, gap, changes, faults>>

\* The POST does not get through.
RequestLost ==
  /\ pc \in {"resend", "send"} /\ Fault
  /\ pc' = "idle"
  /\ UNCHANGED <<now, singbox, linked, collector, disk, saved, draft, server, gap, changes>>

stopConnectionCollector == collector' = None /\ linked' = FALSE

\* What only the process knows is lost with it.
Crash ==
  /\ Fault
  /\ stopConnectionCollector
  /\ pc' = "idle" /\ draft' = None
  /\ gap' = TRUE
  /\ UNCHANGED <<now, singbox, disk, saved, server, changes>>

\* A shutdown stages the last window, unless an earlier report holds the slot.
flushConnectionsToState ==
  /\ pc = "idle" /\ collector # None /\ Fault
  /\ saved' = IF Drained(collector) THEN [saved EXCEPT !.high = larger(@, collector.high)]
              ELSE LET built == buildConnectionReport([bytes |-> collector.bytes, buckets |-> collector.buckets])
                   IN  IF saved.pending = None THEN built
                       ELSE [built EXCEPT !.pending = saved.pending]
  /\ stopConnectionCollector
  /\ gap' = TRUE
  /\ UNCHANGED <<now, singbox, disk, pc, draft, server, changes>>

----------------------------------------------------------------------------
(* The server *)

\* The triggers on node_connection_telemetry.
NetworkSourceDisabled == sources' = 0

UpsertNodeConnectionTelemetry(on, secret) ==
  /\ telemetry' = [enabled |-> on, secret |-> secret]
  /\ IF NodeConnectionTelemetryEnabled /\ ~on THEN NetworkSourceDisabled ELSE UNCHANGED sources

\* The first call makes a secret, later ones keep it.
SetNodeConnectionTelemetry(on) ==
  /\ Change
  /\ UpsertNodeConnectionTelemetry(on, IF telemetry = None THEN changes + 1 ELSE telemetry.secret)
  /\ UNCHANGED <<now, singbox, agent, rows, reports, covered, gap, faults>>

RotateNodeConnectionTelemetrySecret ==
  /\ telemetry # None /\ Change
  /\ UpsertNodeConnectionTelemetry(telemetry.enabled, changes + 1)
  /\ UNCHANGED <<now, singbox, agent, rows, reports, covered, gap, faults>>

DeleteNodeConnectionTelemetryRow == telemetry' = None /\ NetworkSourceDisabled

DeleteNodeConnectionTelemetry ==
  /\ telemetry # None /\ Change
  /\ DeleteNodeConnectionTelemetryRow
  /\ UNCHANGED <<now, singbox, agent, rows, reports, covered, gap, faults>>

\* nodeConnectionEventsHandler looks the activation up before it records.
AdmitReport ==
  /\ pc \in {"resend", "send"}
  /\ pc' = IF ~NodeConnectionTelemetryEnabled THEN "idle"
           ELSE IF pc = "resend" THEN "readmitted" ELSE "admitted"
  /\ UNCHANGED <<now, singbox, linked, collector, disk, saved, draft, server, gap, changes, faults>>

\* Mutant: the interval is opened whatever the row says by now.
ActivateNetworkStreamSourceAnyway == sources' = IF sources = 0 THEN 1 ELSE sources

ActivateNetworkStreamSource == sources' = IF NodeConnectionTelemetryEnabled /\ sources = 0 THEN sources + 1 ELSE sources

UpsertConnectionEvents(buckets) == rows' = [c \in Conns |-> Merge(rows[c], buckets[c])]

GetConnectionReportBySequence(sequence) == sequence \in reports
CreateConnectionReport(r) ==
  /\ reports' = reports \cup {r.sequence}
  /\ covered' = covered + r.bytes

\* Mutant: a replayed report is recorded again.
RecordConnectionReportAgain(r) ==
  /\ CreateConnectionReport(r)
  /\ ActivateNetworkStreamSource
  /\ UpsertConnectionEvents(r.buckets)

RecordConnectionReport(r) ==
  IF GetConnectionReportBySequence(r.sequence) THEN UNCHANGED <<rows, reports, covered, sources>>
  ELSE /\ CreateConnectionReport(r)
       /\ ActivateNetworkStreamSource
       /\ UpsertConnectionEvents(r.buckets)

\* The report is recorded and the answer clears the slot, or is lost.
RecordReport ==
  /\ pc \in {"readmitted", "admitted"}
  /\ RecordConnectionReport(saved.pending)
  /\ \/ /\ saved' = [saved EXCEPT !.pending = None]
        /\ pc' = IF pc = "readmitted" THEN "collect" ELSE "idle"
        /\ UNCHANGED faults
     \/ Fault /\ pc' = "idle" /\ UNCHANGED saved
  /\ UNCHANGED <<now, singbox, linked, collector, disk, draft, telemetry, gap, changes>>

----------------------------------------------------------------------------
\* An agent that has just started on a node that is opted in.
Init ==
  /\ now = 0
  /\ conn = [c \in Conns |-> [st |-> "none", total |-> 0, sent |-> 0, closedAt |-> 0]]
  /\ ring = <<>>
  /\ linked = FALSE /\ collector = None /\ disk = 0
  /\ saved = [sequence |-> 0, high |-> 0, pending |-> None]
  /\ pc = "idle" /\ draft = None
  /\ telemetry = [enabled |-> TRUE, secret |-> 0]
  /\ rows = [c \in Conns |-> Nothing]
  /\ reports = {} /\ covered = 0 /\ sources = 0
  /\ gap = FALSE /\ changes = 0 /\ faults = 0

Cycle == ReportBegin \/ Drain \/ StageReport \/ NothingToCollect \/ AdmitReport \/ RecordReport

Next ==
  \/ Subscribe \/ Disconnect \/ SingBoxRestarts
  \/ \E c \in Conns : Open(c) \/ Traffic(c) \/ Update(c) \/ Close(c)
  \/ ApplyConfig \/ reconcileConnectionCollector \/ Cycle
  \/ RequestLost \/ Crash \/ flushConnectionsToState
  \/ \E on \in BOOLEAN : SetNodeConnectionTelemetry(on)
  \/ RotateNodeConnectionTelemetrySecret \/ DeleteNodeConnectionTelemetry

\* The poll runs for ever and the collector resubscribes; a daemon that is up
\* answers.  Nothing is assumed of clients, operators or the clock.
Fairness == WF_vars(Cycle) /\ WF_vars(Subscribe) /\ WF_vars(ApplyConfig)
            /\ WF_vars(reconcileConnectionCollector)

Spec == Init /\ [][Next]_vars /\ Fairness

----------------------------------------------------------------------------
(* Properties *)

\* The state is of the shape the code keeps it in, the collector's maps stay
\* within their caps, and the slot holds a report of a sequence handed out, as
\* every recorded report has one.
TelemetryTypeOK ==
  /\ now \in 0..MaxTime
  /\ conn \in [Conns -> Connections] /\ \A c \in Conns : conn[c].sent <= conn[c].total
  /\ ring \in Seq(Conns) /\ Len(ring) <= RingSize
  /\ linked \in BOOLEAN /\ (linked => collector # None)
  /\ collector \in Collectors \cup {None}
  /\ collector # None => /\ Cardinality(Tracked(collector)) <= MaxTracked
                         /\ Cardinality(Bucketed(collector.buckets)) <= MaxBuckets
                         /\ Len(collector.accounted) <= AccountedLimit
  /\ disk \in Nat \cup {None}
  /\ saved \in [sequence : Nat, high : Nat, pending : Reports \cup {None}]
  /\ saved.pending # None => saved.pending.sequence \in 1..saved.sequence
  /\ pc \in {"idle", "resend", "readmitted", "collect", "drained", "send", "admitted"}
  /\ pc \in {"resend", "readmitted", "send", "admitted"} => saved.pending # None
  /\ pc = "drained" => collector # None
  /\ draft \in Drafts \cup {None}
  /\ telemetry \in TelemetryRows \cup {None}
  /\ rows \in [Conns -> Snapshots]
  /\ reports \subseteq 1..saved.sequence /\ covered \in Nat /\ sources \in Nat
  /\ gap \in BOOLEAN /\ changes \in 0..MaxChanges /\ faults \in 0..MaxFaults

\* However often the stream replays, a row never claims bytes its connection has
\* not carried, nor a close that did not happen (trackedConnection.advance,
\* closedIDRing, the MAX of UpsertConnectionEvent).
NeverOvercounts ==
  \A c \in Conns : rows[c].bytes <= conn[c].total /\ (rows[c].closed = 1 => conn[c].st = "closed")

\* Where the final totals of c may be on their way to the server.
Carriers == {rows} \cup (IF saved.pending # None THEN {saved.pending.buckets} ELSE {})
            \cup (IF draft # None THEN {draft.buckets} ELSE {})
            \cup (IF collector # None THEN {collector.buckets} ELSE {})

\* A close the collector has accounted for, and will therefore refuse to hear of
\* again, is on its way to the server with the connection's final totals, through
\* retries, lost answers and reconnections, unless the collector ran into its caps.
AccountedIsKept ==
  (collector # None /\ ~gap) =>
    \A c \in ToSet(collector.accounted) :
      \E b \in Carriers : b[c].closed = 1 /\ b[c].bytes = conn[c].total

\* The sum of f over the connections.
SumOf(f) ==
  LET upto[i \in 0..Cardinality(Conns)] == IF i = 0 THEN 0 ELSE upto[i - 1] + f[i]
  IN  upto[Cardinality(Conns)]

TotalBytes == SumOf([c \in Conns |-> conn[c].total])

\* Bytes observed, as the coverage counters of the reports add them up, count no
\* byte twice while one collector runs: not on a replay of the stream, not on a
\* retry of a report whose answer was lost.
CoverageCountsOnce ==
  ~gap => covered
          + (IF saved.pending # None /\ saved.pending.sequence \notin reports THEN saved.pending.bytes ELSE 0)
          + (IF draft # None THEN draft.bytes ELSE 0)
          + (IF collector # None THEN collector.bytes ELSE 0) <= TotalBytes

\* The stream is the source of network events in at most one open interval, and
\* in none while telemetry is off, though a report may be recorded after the row
\* that admitted it was switched off.
OneSource ==
  /\ sources <= 1
  /\ (telemetry = None \/ ~telemetry.enabled) => sources = 0

\* Connections whose close the server has not heard of, though nothing was lost.
Outstanding ==
  {c \in Conns : conn[c].st = "closed" /\ ~gap /\ telemetry # None /\ telemetry.enabled
                 /\ ~(rows[c].closed = 1 /\ rows[c].bytes = conn[c].total)}

\* Every close reaches the server with the final totals: lost requests, lost
\* answers and broken subscriptions only delay it.
TotalsArrive == []<>(Outstanding = {})

\* "startupCloseHighWaterMs is the closedAt of the last close this node reported
\* before the agent restarted" (agent/connections.go): a close at or below the
\* durable mark is with the server or staged.  A cap, a slot occupied at
\* shutdown and a close in the millisecond of the mark break it.
HighWaterIsReported ==
  \A c \in Conns : (conn[c].st = "closed" /\ Contains(ring, c) /\ conn[c].closedAt <= saved.high /\ collector = None) =>
      \E b \in Carriers : b[c].closed = 1
================================================================================
