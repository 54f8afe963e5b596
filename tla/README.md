# BoxFleet in TLA+

BoxFleet manages a fleet of sing-box proxy nodes. A server (`cmd/boxfleet-server`,
SQLite) stores nodes, users, proxies, configurations, telemetry and *operations*; an
agent on every node (`cmd/boxfleet-agent`) polls it over HTTP, applies configurations,
reports traffic, logs and connections, and carries out operations, its own update among
them. This directory holds TLA+ models of the parts of that program in which order,
failure and concurrency decide whether it is correct, the TLC configurations that
check them, and TLAPS proofs.

All paths below are relative to the repository.

## Inventory

| Component | State | Operations | Hard part | What makes it correct |
|---|---|---|---|---|
| Operation store (`internal/server/db/node_operations.go`, `queries/node_operations.sql`) | `node_operations`, `node_operation_events` | create, claim/resume, renew, record event, request cancel, cancel unclaimed, expire | a claim is four statements, not a transaction; leases outlive their holders; reports are retried | one active operation per node; unambiguous leases; gapless histories closed by one terminal event |
| Operations loop (`internal/agent/operations.go`, `internal/server/api/node_operations.go`) | `operation-state.json`: assignment, last sequence, one-event outbox, checkpoint; goroutine and lease monitor | claim, adopt, flush, execute, renew, report | crashes between file writes, lost answers, cancellation and lease loss racing the executor | agent and server agree about events; nothing is done for an ended operation; every operation ends |
| Agent self-update (`updater.go`, `update_guard.go`, `service_files.go`) | executable link, guard binary, guard file, service files, snapshot, checkpoint | download, switch, restart, guard, confirm, migrate, roll back | several files, no transaction, two programs, the service manager in between | a bad version is replaced; a rollback is complete; a success stays |
| Sing-box update (`updater.go` `updateSingBox`) | sing-box link, checkpoint, service | switch, restart, verify, roll back | crash after the switch, uncertain restarts | a resumed step still knows what to roll back to |
| Traffic accounting (`agent.go` `ReportTraffic`, `internal/server/db/traffic.go`) | `agent-state.json`: counters, sequence, staged report; `traffic_reports`, ledger | sample, stage, send, record | replays, crashes, counters that restart, a second writer of the file | no byte billed twice; none lost while sing-box runs |
| Claim long poll (`node_operation_notifier.go`) | channels per node | subscribe, notify, time out | a creation between claim and subscription | no missed wake-up |
| Update campaigns (`update_campaigns.go`, `node_update_campaigns.go`) | campaign, members, batches | release, reconcile, pause, resume, cancel | server stop between creating and attaching an operation; reconciliations in parallel | canary first, at most two at a time, nothing released after a failure |
| Configuration (`config_versions.go`, `agent.go` `once`) | published versions, applied hash, config file | publish, fetch, apply, roll back, report | failure after the file was replaced; disabled nodes | what is reported as applied is what runs |
| Connection telemetry (`connections.go`, `connection_events.go`) | collector window, outbox, server sequence | delta, close, flush, record | replay after reconnection, restart | a connection is counted once |
| Log shipping (`agent.go`, `openrc_logs.go`, `log_events.go`) | cursors in `agent-state.json` | read, batch, post, save cursor | shares the state file; batches half sent | no line lost or counted twice |
| Nodes, tokens, proxy registry (`nodes.go`, `node_tokens.go`, `proxies.go`) | rows, name aliases, token hashes, latest heartbeats | create, enrol, re-enrol, rename, disable, delete, restore, authenticate | handlers read in one statement and write in another; names come back after a deletion | a reference keeps its meaning; a deleted node's agent is cut off |
| Access control (`paths.go`, `path_groups.go`, `proxy_credentials.go`, `deletion.go`, `pathresolve`, `render`) | endpoints, paths, groups, grants, accesses, credentials, bindings | grant, revoke, select, issue, rotate, edit, delete, restore, render | cascades over a graph of paths; two renderers that read different tables | permission has one source; a revoked secret stays dead; what a client is given is admitted |
| Mihomo profiles, series, catalogue, UI, installer | none of their own | pure reads or one-shot I/O | - | - |

How they interact: the admin API and the campaign controller *create* operations and
notify the long poll; the agent *claims* them, renews its lease from a monitor goroutine
and *reports* events; an update of the agent ends the agent's process in the middle of
its operation, the service manager runs the guard and then the new agent, whose first
successful poll cycle confirms the update and lets the operations loop resume. The poll
goroutine and the operations goroutine share one process and its files and exclude each
other by `maintenanceMu` where they remember to take it.

The access, registry and configuration parts meet in the renderer: what the store of access
control holds for a node is what `RenderNodeConfig` makes its configuration, which the
publishing handlers turn into a version, and which the poll of the node's agent installs.

`PROJECT.json` lists every component, modelled or not, and every hazard with its line.

## Modules

| Module | Models |
|---|---|
| `OperationLifecycle` | abstract specification: one slot per node, an operation enters, is started any number of times, and leaves once with an outcome |
| `NodeOperations` | the operation store; implements `OperationLifecycle` |
| `OperationProtocol` | one agent's operations loop, outbox and lease monitor, composed with the store (EXTENDS `NodeOperations`; `ProtocolUsesStore` checks that every step is one the store allows) |
| `AgentUpdate` | the agent's own update: operation, guard, service files, service manager |
| `TrafficAccounting` | sampling, staging, sending and recording of traffic, with log collection writing the same file |
| `AccessStore`, `AccessControl` | users, proxies, endpoints, paths, groups, grants, credentials and bindings: the statements, and the database functions and handlers that compose them |
| `FleetRegistry` | nodes, aliases, tokens, heartbeats and proxies with their listeners |
| `UpdateCampaign` | bulk updates: batches, controller, resume and cancel, over operations reduced to what a campaign sees of them |
| `ConfigCycle` | publishing a configuration, the agent's poll that installs it, and the sing-box update beside it |
| `ConnectionTelemetry` | the stream of connection events, the collector, reports and their recording |
| `OperationProtocolProofs`, `AccessControlProofs`, `TrafficAccountingProofs`, `AgentUpdateProofs`, `FleetRegistryProofs`, `UpdateCampaignProofs`, `ConfigCycleProofs`, `ConnectionTelemetryProofs` | theorems about the module named; the first holds those about `NodeOperations` too |
| `MC*` | constants for TLC, symmetry sets |

### NodeOperations

A column of `node_operations` is a function over operation identifiers (`request`,
`status`, `attempt`, `token`), or a set of rows (`live`: the lease has not run out;
`cancel`: cancellation requested). One statement or transaction is one action.
`ClaimNodeOperation` is not a transaction, so a claim in flight is a record in `claims`
and goes through `ClaimBegin` (expire), `ClaimRead` (read the active row and check
capabilities), `ClaimResume` (the holder extends its lease) and `ClaimFresh`
(conditional update with a new token). `grants` remembers every lease ever handed out:
any of them may report (`Record`) or renew at any time, which covers delayed, repeated
and reordered requests. Time occurs only in comparisons with now, so the model keeps the
outcome (`live`, `window`) and lets it change at any moment (`LeaseExpires`,
`WindowMoves`). Event texts are model values; an exact replay is one that is equal.

### OperationProtocol

`local` is `operation-state.json`, `agent` the goroutine with its program counter, the
operation's context and the monitor, `sent` the reports on the wire, which may reach the
server late, `installed` what the executor has completed. Every write of the file and
every request is a step, a crash may come after each. The executor's own work is one
step (`Work`), which for a sing-box update leaves a checkpoint; `FinishWork`,
`FinalRenewal` and `TerminalStatus` follow `runClaimedOperation` in deciding what is
reported. The agent's own update is excluded here (`ProtocolKinds`) and has its module.

### AgentUpdate

The variables are the files (`link`, `guardBin`, `guard`, `units`, `backup`,
`checkpoint`), what the service manager has loaded, and three programs: guard, main
goroutine (`main`) and operations goroutine (`ops`). Each file is replaced atomically
(renameio), so an action writes one file. `HeartbeatThen` .. `ConfirmRemoves` are
`ConfirmAgentUpdateGuard`, `Sync*`/`Undo*` are `syncServiceUnits`, `Guard*`/`Restore*`
are `RunAgentGuard`, `Find*` .. `Report` are `updateAgent` and the end of
`runClaimedOperation`. A context cancelled by the monitor is `Interrupt`, at any moment.
A version is a model value that is also the contents of the templates embedded in it; `Broken` versions answer
`version` correctly and exit before their first heartbeat. A `LegacyGuard` restores the
link and no service files, as releases before service migration did. A failed write of
the operation state ends the process and is covered by `Crash`. The status `cancelled`
is `failed` here. The history variables `origin`, `leftover` and `strayed` record the
service files when the guard was written, whether a snapshot of an older update was
still there, and whether an operation ended while the link and the running process
differed.

### TrafficAccounting

`counter` is what sing-box reports, `carried` what it carried over all its processes,
`file` is `agent-state.json`, `poll` the copy `ReportTraffic` works on, `logs` the copy
`logs.collect` works on (it takes no lock), `wire` the reports under way, `recorded` the
unique pairs of boot id and sequence, `billed` the ledger before multipliers.

### AccessStore and AccessControl

A store is one record with a field per table. In `AccessStore` a statement of
`internal/server/store/sqlc` is an operator that reads a store or returns the next one; in
`AccessControl` a function of `internal/server/db` is an operator from a store to
`[ok, s]`, built from the statements the way the function is. `Tx` gives back the old
store when a transaction fails (`withTx`, `atomic`). A handler that is one transaction, or
a single write after its reads, is one step (`Request`); one that makes several leaves a record of what it
read and has still to do in `pending` (`FirstPart`, `NextPart`), where another request may
overtake it and where its client may go away (`Abandon`). Database functions that are no
transactions are taken apart in the same way. `CreatePath` validates (`ValidateNewPath`) and
inserts later (`InsertNewPath`), where only the keys of the table protect it
(`InsertableBySchema`); `SetProxyDirectPublication` writes its flag (`Publish`), reads what to
hide and to publish (`ListManaged`), hides one path after the other (`HideManaged`) and
ensures an endpoint and a path for each host (`EnsureManagedEndpoint`, `EnsureManagedPath`).
What is still one step is a function's reads with the one write that follows them:
`EnsureEndpoint`, `BindUserToNode`, `UpdatePath` and the like, called outside a transaction.
A group change is a preview and
a later application that presents the previewed state (`preview`). `ForUser` is
`pathresolve.ForUser` with its early returns and its cache: a hop that an earlier access has
resolved counts against no depth (`resolve`), so the result depends on the order in which the accesses
are listed, and properties are stated for every order (`Listings`). `RenderNodeConfig`,
`RenderMihomoProxyProvider`, `ConnectionInfoForUser` and `NodeInfoForUser` say which
(user, proxy, secret) a configuration admits and which entries a client gets; the text
around them is left out. A secret is the number of secrets minted for its row, so "fresh"
is "larger". The managed path of a (proxy, host) has a fixed identifier and name; two
publications at once, which may insert it twice in the code, end with the refusal of the second
here.
`user_path_group_grants` is left out: both operations that write it answer 410 and
migration 035 emptied it.

### FleetRegistry

One variable per table. A handler that reads and writes in different statements
leaves what it read in `requests`; `Continue` are the later statements. A read that finds
more than one row takes any of them, as the SQL does. A reference is an identifier, a name or
an alias (`NodeRefs`, `ProxyRefs`); `TokenOwners` follows the three with the conditions of
the statement, which looks at `deleted_at` for a name only. Tokens are identifiers, their hashes
are not modelled. Listeners are an address, a transport and settings, compared as
`validateProxyListenerTx` compares them. `latest` remembers which node's agent sent the
heartbeat stored for a node.

### UpdateCampaign

`campaign` and `members` are the rows, `ctl` what the holder of the controller's mutex is
doing: each statement of a reconciliation (`RefreshMember`, `RefreshDeletedMember` and
`TimeoutMember` read and cancel, `WriteMember` writes the member from what they read; `Decide`,
`DispatchMember`, `AttachMember`), of a resume (`ResumeRetry`, `ResumeReplace`,
`ResumeEnd`) and of a cancellation (`CancelMember`) is a step; a crash drops `ctl`. A pass
goes through the members in the order of their positions: `ctl.todo` is the set it has
still to visit and `Turn` lets it visit the one with the lowest position. An
operation is named by its idempotency key and keeps status, whether it was claimed, and
whether it is overdue. Ten minutes after the last change of the campaign's state is one
moment (`CampaignAges`): the controller's timeout and the operations' expiry are taken to
coincide. The up to four iterations of one pass are passes of their own, with the mutex
free in between, which allows more interleavings than the code does.

### ConfigCycle

The server is `want` (what the renderer would make of the database), the versions, the
status row, `disabled` and a draft per publishing handler, which renders in one step and
publishes in a later one. The node is its files, the service with the configuration it was
started with, a pending job of the service manager and the link of the binary. `cycle` is
`once` with its early returns, `update` the steps of `updateSingBox`; both run under
`maintenanceMu` (`LockFree`). A configuration is its content; `Rejected` ones fail
`sing-box check`, `Fatal` ones pass it and do not run, and a `Broken` binary passes every
check and does not run. A restart ends up, down or uncertain; after an uncertain one the
manager's job may still run (`PendingJobRuns`), as systemd's does; a stop takes place or fails,
and a failed stop of a disabled node makes the update roll back and stop again; OpenRC's `rc-service`
that is killed with its job is not covered.

### ConnectionTelemetry

`conn` and `ring` are sing-box's side of the stream, `collector` the agent's maps under
their caps, `saved` the state file, `pc` and `draft` the program of `ReportConnections`,
`rows`, `reports`, `covered` and `sources` the server's tables. Each event of the stream is
an action that `applyNew`, `applyUpdate`, `applyClosed` or `applyReset` handles. An open
interval is counted in `sources`, its instants are not modelled. `gap` records that
something happened the collector cannot make up for (a cap, a drop, a restart), the
condition under which completeness is not promised.

## Runs

| Run | Instance | Shows |
|---|---|---|
| `operation_leases` | 1 operation, 2 concurrent claims, agents with old and new capabilities, 2 attempts, 2 events | leases are unambiguous, terminal events final, claimed work ends only by a report |
| `protocol_safety` | 1 operation of two kinds, 2 claims, 2 faults, cancellation | outbox agreement, no work after the end, successes are real, refinement of the store |
| `protocol_progress` | 2 operations of one node, 2 claims, 3 attempts, 1 fault, fair | one active operation per node, refinement of `OperationLifecycle`, every queued operation ends |
| `cancel_dropped` | 1 operation, no fault, fair | violated: a cancelled operation ends (Findings) |
| `traffic_ledger` | 1 counter, 2 bytes, 1 sing-box exit, 2 boot ids, losses of the state file, log collection, fair | accounting and eventual billing |
| `agent_updates` | 3 versions (one broken), 2 updates, 2 faults, both kinds of guard, fair | see below |
| `access_control` | 2 nodes with a proxy each, 3 hosts, 3 direct and 2 custom paths, 1 user, 1 group; 3 requests, one of them in flight at a time, from an empty fleet and from one in use | permissions, credentials, the path graph and both renderers agree |
| `fleet_registry` | 2 nodes, 4 tokens, 2 proxies with one listener, 2 node and 3 proxy names; 4 requests, 2 in flight; symmetric in requests, unused tokens and unused proxy names | references survive renames; deleting a node cuts off every token there was |
| `late_token` | as `fleet_registry` | violated: no token of a deleted node authenticates (Findings) |
| `update_campaigns` | a canary and a batch of 2, 2 resumes, 1 retry per member, 1 fault, fair | batches in order, one update per node, success means updated, the campaign comes to rest |
| `config_cycle` | 4 contents (two good, one rejected, one fatal), 2 publishers, a broken binary, 3 changes, 2 faults, fair | outages need a fault, reports are true, configurations and pauses arrive |
| `connection_telemetry` | 2 connections of 1 byte, caps of 1, 1 change of the row, 1 fault, fair | totals arrive, nothing is counted twice, one source of network events |

Why the bounds are enough. Two claims in flight are what a race needs; a third only
repeats one of their positions, and the proofs of the store hold for any number.
Two attempts make every earlier-attempt report possible, and the sequence bound admits
a progress and a terminal event. In the protocol, `MaxAttempts` and `MaxSequence` are
larger than what `MaxFaults` faults can use up, so they never stop a run. Two faults
cover a failure during the recovery from a failure. For the update, two operations are
needed to see what the first leaves for the second; three versions let the second go to
the first's, to another or to a broken one; the guard's three starts are the code's own
constant. For traffic, two bytes allow one before and one after any event.

For access control, a violation needs a state in use, a change, and a change that undoes
or overtakes it; the second initial state of `MCAccessControl` is a fleet in use, so
the three requests all go into the interesting part. Two proxies on two nodes let a chain
cross nodes; three hosts let a node lose one of its two. `MaxDialerPathDepth` is 2 instead of the
code's 3, so that a chain longer than the limit fits into two custom paths and a direct one and the cache
of `ForUser` can let it through. One request in flight, overtaken by whole
ones, is what the handlers' two-part writes can meet. In the registry two requests in flight of four are a
race with its set-up and its consequence. A canary and one batch of two has every case of
`batchNumber` and of the rule "nothing is released after a failure"; two resumes are one for the retry of the canary and one for
that of the batch, and the one fault is the crash, deletion or cancellation that may meet either. Two faults let a
configuration crash during the recovery from a crash. Telemetry caps of one make every
cap be reached by the second connection. `AccountedLimit >= 2 * RingSize - 1` is an
assumption of the module, which the code's 2048 against the daemon's 1000 satisfies. The
comment at `connections.go:66-69` argues from "larger than the ring", which would not be
enough: a replay that names the ring's connections in another order than they closed in
leaves the accounted set in that order, and the next close then evicts one the ring still
replays (with a ring and a set of two, TLC finds `CoverageCountsOnce` violated in eleven
steps; with a set of three it holds).

`CHECK_DEADLOCK FALSE` is set where the system may stop: in the store, access control and the registry
when the bounds are used up, in a campaign that has come to rest, and in telemetry
when every connection has been reported.

What `agent_updates` shows: `GuardIsHealthy` (a broken version never becomes the guard),
`RollbackRestores` (a recorded rollback has restored the link and both service files, and they
are loaded, wherever a crash came), `SucceededStays` (a reported success is not undone
later), `BrokenIsReplacedUnlessStrayed` (a broken version that is started is replaced) and
`UpdateEnds`. All but `GuardIsHealthy` are stated for histories in which no operation
ended with a link other than the running version (`strayed`), `RollbackRestores` and
`SucceededStays` also for updates that did not begin beside an older snapshot
(`leftover`). Without these conditions they fail (Findings).

What the exceptions of the other runs are. `AppliedWasInstalled` and `ConfigConverges` except
`StaleBelief`, the state two crashes can leave behind (Findings). `ReferencesSurvive` excepts
an update that was overtaken by a rename, a deletion and a restoration of its proxy
(`Overtaken`; Findings). `DeletionCutsOff` excepts tokens inserted after the deletion and presented
with the node's identifier (`late_token`; Findings). `CampaignComesToRest` excepts a campaign that comes to be
held up by an operation that was asked to stop while it ran (`HeldUp`), which `cancel_dropped`
shows an agent may leave so. `CoverageCountsOnce` and
`TotalsArrive` are stated while no `gap` has happened. `SucceededMeansUpdated` excepts skipped
members, which is how the code counts them.

### Fairness

* Store: none, only safety is checked.
* Protocol: weak fairness of the agent's steps (the service manager restarts it:
  `Restart=always`, no start limit), of the server's handling of a claim and of reports
  on the wire (they are retried with back-off for ever), of a renewal that was sent, and
  of the running out of a lease nobody renews (the clock). Faults, cancellation and
  creation are not fair.
* Updates: weak fairness of the guard and the main goroutine, and of the operations
  goroutine; strong fairness of a successful heartbeat (it is tried every poll interval;
  a node that never reaches its server can prove nothing) and of taking
  `maintenanceMu`, which is free between two cycles and which Go hands to a starving
  waiter. Crashes, failures, interruptions and the guard's deadline are not fair.
* Access control and registry: none, only safety is checked.
* Campaigns: weak fairness of whoever holds the mutex, controller or handler (a ticker runs the
  controller for ever, and a server that stopped starts again), of the clock, and of the end of
  claimed operations whose cancellation is not requested. The last is what
  `protocol_progress` shows of an agent that lives; with a cancellation it would be refuted by
  `cancel_dropped`, so nothing is assumed. A node that dies after its claim keeps its campaign running, as nothing in the code
  ends it. Claims, retries, faults and administrators are not fair.
* Configuration: strong fairness of fetching and of the update's steps, which take turns at
  `maintenanceMu` (tried every poll interval, and Go hands a mutex to a starving waiter), weak
  fairness of the cycle that holds it and of the service manager's jobs. Nobody is obliged to
  publish, pause or update.
* Telemetry: weak fairness of the reporting cycle, of resubscribing, of applying the
  configuration and of reconciling the collector, all of which the poll loop or a
  back-off loop retries for ever. Clients, operators and losses are not fair.
* Traffic: weak fairness of beginning a cycle and of giving up (every request has a
  timeout); strong fairness of the steps that need the network or sing-box to answer.

## Proofs

Every theorem holds for all values of the constants that satisfy the named assumptions:
any sets of nodes, operations, names, versions, configurations or connections and any
values of the bounds. An invariant was checked by TLC on the instance of its run before
it was proved, and none of the properties is inductive as it stands; what had to be added
is the argument for it.

`OperationProtocolProofs` about the store alone, from `KindsAssumption`, `NoneAssumption` and `BoundsAssumption`:

* `TypeCorrect` from `TypeInv`: `TypeOK`, the shape of a claim at each of its
  statements, and that an existing row has its request.
* `OneActive`, `RetrySound`: with `StepShape`, which says that only a creation makes an
  operation active or sets a request.
* `LeaseHolder`: `AttemptInv` ties status, attempt and stored
  token together and bounds tokens by `issued`; `GrantInv` says that grants were issued
  for past or current attempts and that a token determines its grant.
* `Contiguous`, `TerminalFinal`, `EndsByEvent`: inductive only together and with the
  lease invariant (`HistoryInv`): that a late report belongs to the current attempt
  follows from the token, and that it is the next in line from contiguity.
* `Capabilities`: `ClaimsChecked` adds that a claim past its read has checked the row it
  is going to claim; a row's kind never changes.
* `StoreImplementsLifecycle`: initial states and steps under the refinement mapping, with
  `OneActivePerNode` and the lease invariant.

and about agent, network and store together, from `ProtocolAssumption`, `ProtocolKinds` and
`NoneIsNoRecord` besides those of the store:

* `ProtocolRefinesStore`: every step of agent, network and server is a step of the store or
  leaves its tables alone, so the store's theorems hold of the whole. `SafeInv` adds that the
  agent works, reports and claims only under leases that were handed out.
* `OutboxAndHistoryAgree`, `NoLateWork`, `SuccessWasInstalled`, `StateReplacedAfterEnd` from
  `ProtocolInv` together with the store's lease and history invariants (`Ground`): what is on
  the wire is the pending event or already stored (`OutboxOK`); a claim that finds another row
  means that the agent's operation has ended, and an answer is the attempt it has or one
  nobody has reported of (`ClaimOK`); work begins only after a running event was
  stored (`StageOK`); success is only ever reported of completed work (`InstalledOK`).

`TrafficAccountingProofs`, from
`BillableAssumption`, `TrafficBounds` and `NoneIsNoRecord`: `TrafficTypeCorrect`,
`NeverBilledTwice`, `NothingLostWhileRunning`. The
invariant `TrafficInv` adds that the copy a poll works on is the file (`PollInv`), that
recorded sequences do not exceed the file's and a report on the wire is either recorded
or the staged one (`KeyInv`), that ledger, outbox and next sample never exceed what was
carried (`LedgerInv`), and that until sing-box exits they add up exactly (`ExactInv`).
All of this holds under `Undisturbed` (log collection never ran, the file was never
lost), the condition inside the properties.

`AgentUpdateProofs`, from `VersionsAssumption`, `LegacyAssumption`, `UpdateBounds` and
`NoneAssumption`: `UpdateTypeCorrect`, `GuardNeverBroken`, `SuccessStays`,
`RollbackIsComplete`. `UpdateInv` says that the operation installs only between two cycles of
the poll (`ProcOK`), that operations come one after the other (`SequenceOK`), that what the
operation found out stays true while it works (`OperationOK`), what the main goroutine knows of
the guard file at each step (`MainOK`), and, in regular histories, what the service files, their
snapshot and the loaded definitions are while an update is pending and while none is
(`FilesOK`). The guard is healthy because it is refreshed from the link of a candidate that runs.

`FleetRegistryProofs`, from `RegistryConstants`: `FleetTypeCorrect`, `DeletedCutOff`,
`ReferencesKept`, `DisabledNodesStay`. `FleetInv` adds that an alias refers to a live row
(`ReferencesOK`) and that what a request in flight remembers exists (`RequestsOK`); rows are never
removed, only marked. `DeletedCutOff` is the action property `DeletionCutsOff`: an alias never outlives
its node and a name is followed to a live one, which leaves the identifier, and a deletion
revokes every token there is, so what an identifier of a deleted node admits was inserted later. The proof of `ReferencesKept` is what showed the exception `Overtaken`.

`UpdateCampaignProofs`, from `CampaignConstants`: `BatchesReleasedInOrder`,
`NoSecondUpdate`, `SuccessIsReal`. `CampaignInv` ties the rows to what the holder of the mutex is
doing (`PassOK`), says that each operation of a node was lost before the next was created
(`OneByOne`), that besides the attached operation there is at most the one a crashed dispatch or
resume left behind (`MemberOK`), and that earlier batches are over and later ones untouched
(`BatchOK`).

`ConfigCycleProofs`, from `ConfigAssumptions`: `ConfigTypeCorrect`, `NoOutageWithoutFault`,
`AppliedIsInstalled`. `ConfigInv` says that the poll and the update exclude each other
(`LockOK`), that exactly the target is published (`VersionsOK`), that the file is the fetched one
from its installation to the report (`InstalledOK`), and, as long as nothing has failed, that there is
a file and a binary to go back to that sing-box runs, and that it is down only on the way back
to them (`CalmOK`).

`ConnectionTelemetryProofs`, from `TelemetryAssumptions` and `NoneIsNothing`:
`TelemetryTypeCorrect` (the caps of the collector's maps included), `TotalsNeverOvercount`,
`SourceFollowsSwitch`, `CoverageIsCountedOnce`, `AccountedClosesAreKept`. `TelemetryInv` says of every place totals travel through (collector,
drained window, staged report, rows) that they are within the connection's (`Within`), and of the
collector that what it tracks is at most what the stream has told, whether or not the event
reached it (`Fits`); one lemma per event shows that `Fits` is kept. A subscription replays any
number of events at once: `ReplayFits` is an induction over them, by the least
counterexample (`LeastNumber`), after `ReplayUnfolds` has shown that the recursive definition of
`replay` is met by a function. The last two theorems need `CoverageInv`: the bytes counted
are at most the sum over the connections of what the collector has seen of each (`Seen`: the
total it tracks of a live one, all of one that has closed and was accounted or has left the ring).
Each event raises both sides alike, which needs that a connection is never
accounted twice, so that no accounted one is evicted while the ring can still replay it.
`Outlives` is the inductive form of that: the distance of an accounted ring
member from the end of the accounted set, plus the number of ring members not yet accounted, is
at most its distance from the end of the ring plus `RingSize - 1`. A close moves both ends, a
replay in any order pays for each place it takes with a member that was not accounted, and
`AccountedLimit >= 2 * RingSize - 1` (with `RingSize # 0`) keeps the distance inside the set.
Sums over connections that differ in one place are compared by induction over identities
(`SumUnfolds` and the lemmas after it).

`AccessControlProofs`, from `AccessStoreAssumption` (the tables are finite, a host belongs to one
node, a node lists at least one host and a proxy has a managed path for each of them) and
`AccessControlAssumption` (what operators may write fits the columns, and `None` is no row):
`AccessHasItsSource`, `NoCredentialOfTheRetired`, `DiallingEnds`, `EntriesAreAdmitted`, and the
action properties `SecretsStayDead` and `NothingIsLeftOver`. The invariant of the store is `Sound`:

* rows have their types, a path dials through a path that is there and comes back to itself
  through none, and its endpoint exists (`Wired`, in `StoreOK`);
* accesses and direct grants agree (`Balanced`), and an access leads to a path (`Rooted`);
* a user or a proxy that is absent counts as much as a deleted one: neither holds a credential
  (`NoStray`), without which creating a row could revive one;
* every node has a selected host (`HostsOK`).

`AccessInv` adds what a request between two writes may still write (`Waits`). It remembers
ids and rows that fit their columns, nothing about the store, so an overtaken request finds
any sound store: a row validated earlier is inserted with a new id that nobody dials through, so the keys of the
table alone keep the graph wired (`RowSpares`), and hiding paths takes nobody's permission (`HidingSpares`).
What a profile contains is followed along the list of accesses: the cache
always holds whole chains of usable hops (`ResolvedHops`), whatever order they came in. Each database function leads from a sound store to one, with the two action
properties (`Advances`), and is followed statement by statement along relations between stores that
compose. The functions loop over sets with `FoldSet` and an operator as argument. No lemma can
quantify over that operator, so the bodies of the loops are the cases of one operator, `Body`, and
what each loop keeps those of another, `Keeps`; `LoopKeeps` and `CountKeeps` are then proved once, by
the least counterexample over the size of the subset dealt with. The chain of a path (`Hops`) is
what `|PathIds|` rounds reach: `HopsClosed` shows by counting that this many rounds close it,
`HopsLeast` that it is the least closed set, and from the two `WriteWires` shows that a row whose own
chain was walked closes no circle for any other path. `Settled`, that a user has no credential
nobody needs, is what `disableUnusedProxyCredentials` establishes for one user at a time and no
later pass of the loop disturbs for the users before.

These theorems state facts that no run lists, because the proof says more than
the small instance would: `RetrySound` (`RetryOfEnded`), `Contiguous` (`HistoryContiguous`),
`Capabilities` (`CapabilitiesHonoured`), `StateReplacedAfterEnd` (`ReplacedOnlyIfEnded`),
`DisabledNodesStay` (`HeartbeatNeverReenables`), `AccountedClosesAreKept` (`AccountedIsKept`), and the type invariants `UpdateTypeOK`,
`FleetTypeOK`, `ConfigTypeOK` and `TelemetryTypeOK`.

Only model-checked are the eight liveness properties (`QueuedEnds`, `EventuallyBilled`, `UpdateEnds`,
`BrokenIsReplacedUnlessStrayed`, `CampaignComesToRest`, `ConfigConverges`, `PauseTakesEffect`,
`TotalsArrive`): TLAPS has no practical support for fairness. Every safety property a run checks is
the statement of a theorem.

`AccessTypeOK`, `CampaignTypeOK` and `ProtocolTypeOK` are stated in their modules, hold on
the instances of the runs, and are not part of a run (`ProtocolTypeOK` and what `CampaignTypeOK`
says of the rows are parts of the invariants proved).

## Findings

`cancel_dropped`: a cancellation that interrupts the delivery of a progress event makes
the agent drop the terminal event (the outbox holds one) and forget the operation,
which stays `running`. The status model of `docs/node-operations.md:69` has no such end.

`late_token`: `IssueNodeToken` reads the node and inserts the token in a later statement
(`node_tokens.go:39-62`), and the statements that look up a token accept a node by its identifier without
looking at `deleted_at` (`node_tokens.sql.go:57`, `:113`). A token inserted after the deletion's
revocation stays active and authenticates with the identifier as `X-BoxFleet-Node`
(`router.go:373-398`), though `docs/architecture.md:160` says "Decommission also revokes tokens,
cutting off the daemon" and the comment at `nodes.go:596-598` that the deletion and the revocation
commit together for this. The handlers go on with the deleted node's name, which another node
may have by then. That no other token gets through is `DeletionCutsOff`.

### Disagreements with a property and a configuration

Each of these is a property stated in its module that TLC finds violated with the
configuration named, without being one of the runs of `PROJECT.json`:

| Configuration (module) | Property | Code | Says otherwise |
|---|---|---|---|
| `CommittedFailed` (`MCOperationProtocol`) | `CommittedNotFailed` | an error of the lease monitor is taken over before `finalLeaseError` can protect a committed result (`operations.go:155`) | the comment at `operations.go:212-215` |
| `TrafficFreshState` (`MCTrafficAccounting`) | `BilledWhatWasCarried` | a fresh state bills the whole counter (`agent.go:764`) | `docs/architecture.md:85-86`: it establishes a baseline |
| `TrafficLogsRace` (`MCTrafficAccounting`) | `SettledAccounts` | `logs.collect` writes `agent-state.json` without `maintenanceMu` (`operations.go:244`) | the comment at `connections.go:861-864` |
| `UpdateStranded` (`MCAgentUpdate`) | `BrokenIsReplaced` | a cancellation after the link was switched replaces the demand to restart (`operations.go:150`); a further update takes the unconfirmed candidate as its rollback target | `docs/node-operations.md:122-124` |
| `UpdateLeftover` (`MCAgentUpdate`) | `RollbackAlwaysRestores` | a snapshot that survived the confirmation of its update is restored by the rollback of the next one (`service_files.go:120`) | `docs/deployment.md:162-165` |
| `StaleRename` (`MCFleetRegistry`) | `ReferencesAlwaysSurvive` | an update of a proxy renames from the name it read before its transaction (`proxies.go:216`, `:278`); after a rename, a deletion (which drops the aliases) and a restoration the name the proxy goes by is lost without an alias | `docs/db-schema.md:50`: "Canonical node/proxy renames retain aliases so old references resolve" |
| `ListenerClash` (`MCFleetRegistry`) | `ListenersDisjoint` | a rename of the node between `CreateProxy`'s read and its transaction makes the listener check look at no proxy (`proxies.go:359-369`) | the comment at `proxies.go:356-358` |
| `SubscriptionCollision` (`MCAccessControl`) | `SubscriptionRenders` | two granted paths may publish one name: neither the grant of direct paths with a credential (`paths.go:858`) nor re-enabling a granted path (`paths.go:462`) compares names, and then the whole subscription fails and later revocations are refused | `pathresolve/resolve.go:121-124`: such a path is omitted "rather than taking down the user's entire subscription" |
| `DeletionUnannounced` (`MCAccessControl`) | `DeletionIsAnnounced` | a deletion retires the dependents of every retired resource, its preview looks at the one to delete (`deletion.go`, `ResourceDeletionImpact`) | `docs/db-schema.md:46` |
| `StartedSkipped` (`MCUpdateCampaign`) | `NeverSkipsStarted` | after a stop between creating and attaching an operation, and ten minutes, the member is skipped while its operation runs (`update_campaigns.go:171-172`) | the comment at `update_campaigns.go:107-108` |
| `AppliedElsewhere` (`MCConfigCycle`) | `AppliedIsRunning` | two crashes and a republished target leave sing-box running one configuration with another reported as applied (`agent.go:456-465`) | `docs/architecture.md:66-69` |

Also violated, with the constants of the run of their module, as an INVARIANT instead of
the run's properties: in `FleetRegistry`, `ProxyReferencesUnambiguous` (a restored proxy
takes a name back that has become another's alias, against `docs/db-schema.md:50`) and `HeartbeatIsOwn`
(`docs/db-schema.md:38`: a heartbeat of a deleted node's agent that was authorised before
is stored for a new node of the same name); in `UpdateCampaign`, `PausedCanResume`
(a stop after the retries of a resume and before its end leaves
the campaign paused without a failed member, against `docs/node-operations.md:133-134`); in `ConfigCycle`,
`FailedUpdateRestores` (a crash or an uncertain restart leaves the candidate linked,
`updater.go:302`, `:326`, against `docs/node-operations.md:116`) and `LastGoodKept`
(`docs/architecture.md:71`); in `ConnectionTelemetry`, `HighWaterIsReported` (a cap, a
slot that is occupied at shutdown, or a close in the same millisecond leaves a close at or
below the mark unreported, and the mark keeps it from being reported after the restart).

### Met while modelling, without a run of their own

Operations, traffic and the agent's update:

* A running operation with a requested cancellation whose lease has run out can never be
  claimed again (`queries/node_operations.sql:88`); nothing else ends it. This is the
  second way to violate `CancelledEnds` and needs one crash.
* When the answer to a re-claim is lost the next claim presents a stale token, is refused
  with 409, and the checkpoint is deleted (`operations.go:89`): a committed step is then
  repeated.
* A counter that restarted and has passed its last value is not recognised as a new epoch
  (`agent.go:766`), so bytes are lost.
* On the very first start a poll and a `logs.collect` may each create a state with its own
  boot id; the first counters are then billed under both.
* The guard rolls back at the third start, that is after two failed ones
  (`update_guard.go:111-114`), and looks at its deadline only when the service starts.
* A confirmed agent update is reported as failed or cancelled when the context ends
  during the `agent_confirmed` event (`updater.go:159`).
* Service files synchronised at start outside an update have no snapshot; if the process
  dies before the reload, the next start sees nothing to do and does not reload.

Access control and registry:

* Editing a path in the middle of a chain may make the chain longer than
  `MaxDialerPathDepth`, since only the path's own chain is measured (`docs/db-schema.md:80-81`
  says at most three). `resolve` returns a cached tail before it checks the depth
  (`resolve.go:46-48`), so such a chain is in the profile or not depending on which
  path was granted first; its hops are usable either way.
* `CreatePath` inserts a path that was validated before its proxy was deleted: the new path is
  enabled on a retired proxy. It has no access and the resolver omits it.
* Two publications of one proxy at once may create two managed paths of one host: both
  find none, and no key forbids it.
* A granted path that is disabled does not keep its credentials. Disabling it leaves them alone, but
  the next revocation or deletion that concerns the user counts only accesses to enabled paths as
  needing a credential (`paths.go:877-930`, `ListActivePathAccessesByUserID`), and re-enabling the path does
  not bring them back. `docs/db-schema.md:92-93` ("stays enabled until its final referencing
  Path is revoked") can be read otherwise; `LastConsumerDisables` states what the code does.
* `RestoreProxy` on a deleted node commits and then answers with an error.
* `CreateProxy` may insert a proxy on a node that was deleted after it was read; a host may be
  removed while a request that needs it is under way.
* The preview of a deletion walks `required` paths more widely than the deletion does, so it may
  announce too much as well.
* Changing the method of a Shadowsocks proxy may change the key length while the stored credentials
  stay; Hysteria2 proxies can be created and have neither credentials nor a renderer.
  (Formats of secrets are not modelled.)
* Two re-enrolments in parallel leave two active tokens.
* `CreateNode` checks the name outside its insert; enrolment inserts a node as `active` and
  makes it `pending` afterwards; a PATCH without a status writes back the status it read.
  `RenameNode` and `RenameProxy` have no callers.

Campaigns, configuration and telemetry:

* A stop between creating a retry and replacing the member's operation makes every later
  resume fail (idempotency conflict); a stop in the middle of a cancellation leaves the
  operations of the remaining members active.
* A stop after a fatal configuration was written leaves it on disk; a fatal target is
  installed and rolled back again at every poll; of two handlers the one that rendered first may
  publish last; a late apply result overwrites `pending`.
* A rotation of the telemetry secret reads `enabled` and writes it back later, so one
  racing a disable enables telemetry again. A report refused with 403 stays staged. Coverage counts bytes
  again after the collector was restarted, and a reconciliation with changed options discards a window.
* An interval of the stream starts at the report's window start, which may lie before
  telemetry was enabled again (`docs/connection-telemetry.md`: disabling "ends the interval
  and resumes journal visibility").

## Not modelled

The components with status `not_modelled` in `PROJECT.json`:

* The claim long poll and its notifier: a wake-up decides only when a claim is
  made, and `OperationProtocol` claims at any moment.
* Log shipping: cursors over text; that it rewrites the agent's state file is part of
  `TrafficAccounting`.
* Mihomo profile text, time series, service catalogue, update catalogue, installer, web UI: pure
  reads, text, or one-shot I/O.

Left out of the modelled parts: sizes and limits of texts, HTTP and JSON encoding, pruning of
release and download directories, sub-second order of timestamps that are compared as text,
billing multipliers, quotas and formats of secrets, a missing guard binary
(`ensureAgentGuardBinary`; the installer writes one), OpenRC, whose supervisor may restart the
agent without running the guard; of telemetry, the legacy additive aggregates, retention,
attribution to users, the observed and orphaned counters, connections whose dimensions cannot be
normalised (`newTracked`; its comment says sing-box produces none) and the instants of source intervals.

## Plan

What is left:

1. The parts listed above as not modelled, the claim long poll and the log shipping first.
2. `AccessTypeOK` as a theorem: `StoreOK` has the columns the properties read, the publication
   flags, bindings, groups and host states would join it.
