-------------------------- MODULE TrafficAccounting -------------------------
(***************************************************************************)
(* Per-user traffic accounting: sing-box counts bytes, ReportTraffic       *)
(* (internal/agent/agent.go) turns counters into deltas and stages them in *)
(* agent-state.json, and RecordTrafficReport (internal/server/db/          *)
(* traffic.go) adds each report to the ledger once, by boot id and         *)
(* sequence.                                                               *)
(*                                                                         *)
(* ReportTraffic runs only under maintenanceMu (poll cycle, update flush,  *)
(* stop of a disabled node), so one `poll' at a time works on its own copy *)
(* of the state file.  The logs.collect operation (`logs') loads and saves *)
(* the same file without that lock.                                        *)
(***************************************************************************)
EXTENDS Naturals

CONSTANTS
    Stats,         \* the per-user counters of sing-box
    Billable,      \* those whose auth name belongs to a credential
    None,
    MaxCarried,    \* bound: bytes carried per counter
    BootIds,       \* the boot ids (UUIDs) of agent states
    MaxExits,      \* bound: exits of sing-box
    LogsCollect,   \* whether logs.collect operations run
    StateLoss      \* whether agent-state.json may disappear

ASSUME BillableAssumption == Billable \subseteq Stats
ASSUME TrafficBounds == MaxCarried \in Nat /\ MaxExits \in Nat

VARIABLES
    counter,   \* counter[s]: the value sing-box reports
    carried,   \* carried[s]: bytes sing-box carried, over all its processes
    unread,    \* unread[s]: the part of carried since the agent last sampled
    exits,     \* exits of sing-box
    file,      \* agent-state.json, None when it does not exist
    poll,      \* ReportTraffic: its program counter and its copy of the state
    logs,      \* logs.collect: its copy of the state, None when not running
    wire,      \* reports on their way to the server
    recorded,  \* the (boot id, sequence) pairs of traffic_reports
    billed,    \* billed[s]: sum of raw_bytes_delta in the ledger
    collected, \* a logs.collect has run (history)
    lost       \* agent-state.json has disappeared once (history)

trafficVars == <<counter, carried, unread, exits, file, poll,
                 logs, wire, recorded, billed, collected, lost>>

singBox == <<counter, carried, unread, exits>>
server == <<recorded, billed>>
history == <<collected, lost>>

-----------------------------------------------------------------------------
Reports == [boot : BootIds, seq : Nat, delta : [Stats -> Nat]]

States == [boot : BootIds, seq : Nat, last : [Stats -> Nat], pending : Reports \cup {None}]

ASSUME NoneIsNoRecord == None \notin States /\ None \notin Reports

Zero == [s \in Stats |-> 0]

Key(r) == <<r.boot, r.seq>>

(* LoadState: a missing file yields an empty state under a new boot id,    *)
(* which is not saved yet.                                                 *)
UsedBoots ==
    {k[1] : k \in recorded} \cup {r.boot : r \in wire}
        \cup {c.boot : c \in {file, poll.state, logs} \ {None}}

FreshState(b) == [boot |-> b, seq |-> 0, last |-> Zero, pending |-> None]

LoadState ==
    IF file # None THEN {file} ELSE {FreshState(b) : b \in BootIds \ UsedBoots}

Idle == [pc |-> "idle", state |-> None]

Return == poll' = Idle

(* SaveState, then go on at pc with the same copy.                         *)
SaveAndGoto(pc, copy) == file' = copy /\ poll' = [pc |-> pc, state |-> copy]
SaveAndReturn(copy) == file' = copy /\ Return

-----------------------------------------------------------------------------
(* ReportTraffic *)

(* Mutant: the staged report is forgotten without being sent again.        *)
BeginForgetting ==
    /\ poll.pc = "idle"
    /\ \E copy \in LoadState :
        poll' = [pc |-> "sample", state |-> [copy EXCEPT !.pending = None]]
    /\ UNCHANGED <<singBox, file, logs, wire, server, history>>

(* A report staged earlier is sent again before anything else.             *)
Begin ==
    /\ poll.pc = "idle"
    /\ \E copy \in LoadState :
        /\ IF copy.pending = None
           THEN poll' = [pc |-> "sample", state |-> copy] /\ UNCHANGED wire
           ELSE /\ poll' = [pc |-> "resend", state |-> copy]
                /\ wire' = wire \cup {copy.pending}
    /\ UNCHANGED <<singBox, file, logs, server, history>>

Sent(copy) ==
    [boot |-> copy.boot, seq |-> copy.seq, last |-> copy.last, pending |-> None]

(* 200: the server has a report with this boot id and sequence.            *)
Acknowledged(copy) == Key(copy.pending) \in recorded

ResendAcknowledged ==
    /\ poll.pc = "resend"
    /\ Acknowledged(poll.state)
    /\ SaveAndGoto("sample", Sent(poll.state))
    /\ UNCHANGED <<singBox, logs, wire, server, history>>

(* Mutant: a counter that went back is not recognised.                     *)
DeltaWithoutEpoch(last, s) == counter[s] - last[s]

(* Bytes since the last sample; a counter that went back started anew.     *)
Delta(last, s) ==
    IF counter[s] >= last[s] THEN counter[s] - last[s] ELSE counter[s]

Deltas(last) == [s \in Stats |-> Delta(last, s)]

(* The answer of the counter query: sing-box creates a user's counter with *)
(* the first connection, so one that is zero may be missing (external).    *)
Listings == {l \in SUBSET Stats : \A s \in Stats \ l : counter[s] = 0}

Sampled(last, l) == [s \in Stats |-> IF s \in l THEN counter[s] ELSE last[s]]

(* Counters are read and remembered; deltas, if any, are staged under the  *)
(* next sequence before they are sent.                                     *)
SampleNothing ==
    /\ poll.pc = "sample"
    /\ Deltas(poll.state.last) = Zero
    /\ \E l \in Listings :
        SaveAndReturn([boot |-> poll.state.boot, seq |-> poll.state.seq,
                       last |-> Sampled(poll.state.last, l),
                       pending |-> poll.state.pending])
    /\ unread' = Zero
    /\ UNCHANGED <<counter, carried, exits, logs, wire, server, history>>

(* Mutant: the sequence is not advanced.                                   *)
StagedSameSequence(copy, l) ==
    [boot |-> copy.boot, seq |-> copy.seq, last |-> Sampled(copy.last, l),
     pending |-> [boot |-> copy.boot, seq |-> copy.seq, delta |-> Deltas(copy.last)]]

Staged(copy, l) ==
    [boot |-> copy.boot, seq |-> copy.seq + 1, last |-> Sampled(copy.last, l),
     pending |-> [boot |-> copy.boot, seq |-> copy.seq + 1, delta |-> Deltas(copy.last)]]

SampleAndStage ==
    /\ poll.pc = "sample"
    /\ Deltas(poll.state.last) # Zero
    /\ \E l \in Listings :
        /\ SaveAndGoto("post", Staged(poll.state, l))
        /\ wire' = wire \cup {Staged(poll.state, l).pending}
    /\ unread' = Zero
    /\ UNCHANGED <<counter, carried, exits, logs, server, history>>

PostAcknowledged ==
    /\ poll.pc = "post"
    /\ Acknowledged(poll.state)
    /\ SaveAndReturn(Sent(poll.state))
    /\ UNCHANGED <<singBox, logs, wire, server, history>>

(* The request or the counter query fails; the staged report stays.        *)
PollFails ==
    /\ poll.pc # "idle"
    /\ Return
    /\ UNCHANGED <<singBox, file, logs, wire, server, history>>

-----------------------------------------------------------------------------
(* Mutant: a replay is added to the ledger again.                          *)
RecordEveryReport(r) ==
    /\ wire' = wire \ {r}
    /\ recorded' = recorded \cup {Key(r)}
    /\ billed' = [s \in Stats |-> IF s \in Billable THEN billed[s] + r.delta[s]
                                                    ELSE billed[s]]
    /\ UNCHANGED <<singBox, file, poll, logs, history>>

(* RecordTrafficReport: a pair that is known is acknowledged and ignored;  *)
(* deltas of unknown auth names are skipped.                               *)
RecordTrafficReport(r) ==
    /\ wire' = wire \ {r}
    /\ IF Key(r) \in recorded
       THEN UNCHANGED server
       ELSE /\ recorded' = recorded \cup {Key(r)}
            /\ billed' = [s \in Stats |-> IF s \in Billable THEN billed[s] + r.delta[s]
                                                            ELSE billed[s]]
    /\ UNCHANGED <<singBox, file, poll, logs, history>>

-----------------------------------------------------------------------------
(* logs.collect, in the operations goroutine: ReportLogs and ReportSystem- *)
(* Logs load the file, post log lines, and save the copy with a new cursor *)
(* after every batch.                                                      *)
LogsBegin ==
    /\ LogsCollect
    /\ logs = None
    /\ \E copy \in LoadState : logs' = copy
    /\ collected' = TRUE
    /\ UNCHANGED <<singBox, file, poll, wire, server, lost>>

LogsSave ==
    /\ logs # None
    /\ file' = logs
    /\ UNCHANGED <<singBox, poll, logs, wire, server, history>>

LogsEnd ==
    /\ logs # None
    /\ logs' = None
    /\ UNCHANGED <<singBox, file, poll, wire, server, history>>

-----------------------------------------------------------------------------
(* Environment *)

Carry(s) ==
    /\ carried[s] < MaxCarried
    /\ counter' = [counter EXCEPT ![s] = counter[s] + 1]
    /\ carried' = [carried EXCEPT ![s] = carried[s] + 1]
    /\ unread' = [unread EXCEPT ![s] = unread[s] + 1]
    /\ UNCHANGED <<exits, file, poll, logs, wire, server, history>>

(* sing-box exits and is started again: its counters begin at zero.        *)
SingBoxExits ==
    /\ exits < MaxExits
    /\ exits' = exits + 1
    /\ counter' = Zero
    /\ unread' = Zero
    /\ UNCHANGED <<carried, file, poll, logs, wire, server, history>>

(* A request is lost before it reaches the server.                         *)
RequestLost(r) ==
    /\ wire' = wire \ {r}
    /\ UNCHANGED <<singBox, file, poll, logs, server, history>>

(* The agent process dies and is started again.                            *)
AgentCrash ==
    /\ poll # Idle \/ logs # None
    /\ Return
    /\ logs' = None
    /\ UNCHANGED <<singBox, file, wire, server, history>>

(* agent-state.json disappears while the agent is not running (bound: a    *)
(* boot id is left).                                                       *)
LoseState ==
    /\ StateLoss
    /\ BootIds \ UsedBoots # {}
    /\ poll = Idle /\ logs = None
    /\ file # None
    /\ file' = None
    /\ lost' = TRUE
    /\ UNCHANGED <<singBox, poll, logs, wire, server, collected>>

TrafficInit ==
    /\ counter = Zero /\ carried = Zero /\ unread = Zero
    /\ exits = 0
    /\ file = None
    /\ poll = Idle
    /\ logs = None
    /\ wire = {}
    /\ recorded = {}
    /\ billed = Zero
    /\ collected = FALSE /\ lost = FALSE

TrafficNext ==
    \/ Begin
    \/ ResendAcknowledged
    \/ SampleNothing
    \/ SampleAndStage
    \/ PostAcknowledged
    \/ PollFails
    \/ \E r \in wire : RecordTrafficReport(r)
    \/ \E r \in wire : RequestLost(r)
    \/ LogsBegin
    \/ LogsSave
    \/ LogsEnd
    \/ \E s \in Stats : Carry(s)
    \/ SingBoxExits
    \/ AgentCrash
    \/ LoseState

TrafficSpec == TrafficInit /\ [][TrafficNext]_trafficVars

(* The poll loop runs forever and a request ends by its timeout; a step    *)
(* that is possible again and again (a request that gets through, a        *)
(* counter query that answers) is taken in the end.  Crashes, exits, lost  *)
(* requests and traffic are not fair.                                      *)
TrafficFairness ==
    /\ WF_trafficVars(Begin)
    /\ WF_trafficVars(PollFails)
    /\ SF_trafficVars(ResendAcknowledged)
    /\ SF_trafficVars(SampleNothing)
    /\ SF_trafficVars(SampleAndStage)
    /\ SF_trafficVars(PostAcknowledged)
    /\ SF_trafficVars(\E r \in wire : RecordTrafficReport(r))

FairTrafficSpec == TrafficSpec /\ TrafficFairness

-----------------------------------------------------------------------------
(* Properties *)

TrafficTypeOK ==
    /\ counter \in [Stats -> Nat] /\ carried \in [Stats -> Nat]
    /\ unread \in [Stats -> Nat]
    /\ exits \in Nat
    /\ file \in States \cup {None}
    /\ poll \in [pc : {"idle", "resend", "sample", "post"}, state : States \cup {None}]
    /\ logs \in States \cup {None}
    /\ wire \subseteq Reports
    /\ recorded \subseteq BootIds \X Nat
    /\ billed \in [Stats -> Nat]
    /\ collected \in BOOLEAN /\ lost \in BOOLEAN

(* The poll was the only writer of agent-state.json and found it again.    *)
Undisturbed == ~collected /\ ~lost

(* No user is billed for more than sing-box carried.                       *)
BilledWhatWasCarried == \A s \in Stats : billed[s] <= carried[s]

(* No byte is billed twice, whatever is retried, replayed, delayed or      *)
(* interrupted, as long as the poll's state file is left alone.            *)
NeverOverBilled == Undisturbed => BilledWhatWasCarried

(* Bytes of the staged report that the ledger does not have yet.           *)
InOutbox(s) ==
    IF file = None THEN 0
    ELSE IF file.pending = None THEN 0
    ELSE IF Key(file.pending) \in recorded THEN 0
    ELSE file.pending.delta[s]

(* While sing-box keeps running no byte of a billable counter is lost,     *)
(* through failed requests, lost answers and crashes of the agent at any   *)
(* point: it is in the ledger, in the staged report or still unread.       *)
AccountedWhileRunning ==
    Undisturbed /\ exits = 0 =>
        \A s \in Billable : carried[s] = billed[s] + InOutbox(s) + unread[s]

(* Bytes that the next sample would stage.                                 *)
Recoverable(s) == IF file = None THEN counter[s] ELSE Delta(file.last, s)

(* When nothing is in progress and nothing is on the wire, every byte is   *)
(* in the ledger, in the staged report or in the next sample: the poll     *)
(* cycle and the other writers of agent-state.json do not overwrite each   *)
(* other's updates (the comment in flushConnectionsToState).               *)
SettledAccounts ==
    poll = Idle /\ logs = None /\ wire = {} /\ exits = 0 =>
        \A s \in Billable : carried[s] <= billed[s] + InOutbox(s) + Recoverable(s)

(* Losing agent-state.json never loses a byte: the fresh state makes the   *)
(* next sample cover everything that was not billed.                       *)
LossForgetsNothing == ~collected => SettledAccounts

(* Every byte carried is eventually billed if sing-box keeps running and   *)
(* log collection does not interfere.                                      *)
EventuallyBilled ==
    \A s \in Billable : \A n \in 1..MaxCarried :
        (carried[s] >= n) ~> (billed[s] >= n \/ exits > 0 \/ collected)
=============================================================================
