----------------------- MODULE TrafficAccountingProofs ----------------------
(***************************************************************************)
(* TrafficAccounting for every set of counters: no byte is billed twice,   *)
(* and none is lost while sing-box runs, as long as nobody else writes     *)
(* agent-state.json and the file is kept.                                  *)
(*                                                                         *)
(* The ledger, the outbox and the next sample together never exceed what   *)
(* sing-box carried.  That is inductive once it is known that the copy a   *)
(* poll works on is the file, that sequences only grow, and that a report  *)
(* on the wire that the server does not have is the staged one.            *)
(***************************************************************************)
EXTENDS TrafficAccounting, TLAPS

(* A poll under way has a copy of the state.                               *)
TypeInv == TrafficTypeOK /\ (poll.pc # "idle" => poll.state # None)

(* The poll's copy is the file, or a new state when there is no file.      *)
PollInv ==
    /\ logs = None
    /\ poll.pc = "idle" => poll.state = None
    /\ poll.pc # "idle" /\ file # None => poll.state = file
    /\ poll.pc # "idle" /\ file = None =>
          poll.pc = "sample" /\ poll.state.seq = 0 /\ poll.state.last = Zero
    /\ poll.pc = "sample" => poll.state.pending = None
    /\ poll.pc \in {"resend", "post"} => poll.state.pending # None

(* Sequences recorded, staged and on the wire are those of the one file.   *)
KeyInv ==
    /\ \A k \in recorded : file # None /\ k[1] = file.boot /\ k[2] <= file.seq
    /\ file # None => (file.pending # None => Key(file.pending) = <<file.boot, file.seq>>)
    /\ \A r \in wire : file # None /\ (Key(r) \in recorded \/ r = file.pending)

(* What the durable state says was sampled.                                *)
Last(s) == IF file = None THEN 0 ELSE file.last[s]

NextSample(s) == IF counter[s] >= Last(s) THEN counter[s] - Last(s) ELSE counter[s]

LedgerInv == \A s \in Stats : billed[s] + InOutbox(s) + NextSample(s) <= carried[s]

(* Until sing-box exits: exact accounts.                                   *)
ExactInv ==
    exits = 0 =>
        \A s \in Stats :
            /\ carried[s] = counter[s]
            /\ counter[s] = Last(s) + unread[s]
            /\ s \in Billable => billed[s] + InOutbox(s) = Last(s)

Accounts == PollInv /\ KeyInv /\ LedgerInv /\ ExactInv

TrafficInv == TypeInv /\ (Undisturbed => Accounts)

-----------------------------------------------------------------------------
(* The initial state satisfies the invariant.                              *)
LEMMA TrafficInitInv == TrafficInit => TrafficInv
<1> SUFFICES ASSUME TrafficInit PROVE TrafficInv
  OBVIOUS
<1> USE BillableAssumption, NoneIsNoRecord DEF TrafficInit, Zero, Idle
<1>1. TypeInv
  BY DEF TypeInv, TrafficTypeOK
<1>2. PollInv /\ KeyInv
  BY DEF PollInv, KeyInv
<1>3. LedgerInv /\ ExactInv
  BY DEF LedgerInv, ExactInv, InOutbox, Last, NextSample
<1> QED BY <1>1, <1>2, <1>3 DEF TrafficInv, Accounts

(* A state that LoadState may return is a state.                           *)
LEMMA LoadedTyped ==
  ASSUME TrafficTypeOK, NEW copy \in LoadState
  PROVE  copy \in States
  BY NoneIsNoRecord DEF TrafficTypeOK, LoadState, FreshState, States, Zero

(* Every step, those of log collection and the loss of the file included,  *)
(* keeps the types.                                                        *)
LEMMA TrafficTypeStep ==
  ASSUME TypeInv, [TrafficNext]_trafficVars
  PROVE  TypeInv'
<1> USE NoneIsNoRecord
<1> USE DEF TypeInv, TrafficTypeOK, singBox, server, history, Idle, Return
<1>1. CASE Begin
  BY <1>1, LoadedTyped DEF Begin, States
<1>2. CASE ResendAcknowledged
  BY <1>2 DEF ResendAcknowledged, SaveAndGoto, Sent, States
<1>3. CASE SampleNothing
  BY <1>3 DEF SampleNothing, SaveAndReturn, Sampled, States, Zero
<1>4. CASE SampleAndStage
  <2> DEFINE c == poll.state
  <2>1. PICK l \in Listings :
            /\ SaveAndGoto("post", Staged(c, l))
            /\ wire' = wire \cup {Staged(c, l).pending}
    BY <1>4 DEF SampleAndStage
  <2>2. c \in States
    BY <1>4 DEF SampleAndStage
  <2>3. Sampled(c.last, l) \in [Stats -> Nat] /\ Deltas(c.last) \in [Stats -> Nat]
    BY <2>2 DEF Sampled, Deltas, Delta, States
  <2>4. Staged(c, l) \in States /\ Staged(c, l).pending \in Reports
    BY <2>2, <2>3 DEF Staged, States, Reports
  <2> QED BY <1>4, <2>1, <2>4 DEF SampleAndStage, SaveAndGoto, Zero
<1>5. CASE PostAcknowledged
  BY <1>5 DEF PostAcknowledged, SaveAndReturn, Sent, States
<1>6. CASE PollFails
  BY <1>6 DEF PollFails
<1>7. ASSUME NEW r \in wire, RecordTrafficReport(r) PROVE TypeInv'
  BY <1>7 DEF RecordTrafficReport, Reports, Key
<1>8. ASSUME NEW r \in wire, RequestLost(r) PROVE TypeInv'
  BY <1>8 DEF RequestLost
<1>9. CASE LogsBegin
  BY <1>9, LoadedTyped DEF LogsBegin
<1>10. CASE LogsSave \/ LogsEnd \/ AgentCrash
  BY <1>10 DEF LogsSave, LogsEnd, AgentCrash
<1>14. CASE LoseState
  BY <1>14 DEF LoseState
<1>11. ASSUME NEW s \in Stats, Carry(s) PROVE TypeInv'
  BY <1>11 DEF Carry
<1>12. CASE SingBoxExits
  BY <1>12 DEF SingBoxExits, Zero
<1>13. CASE UNCHANGED trafficVars
  BY <1>13 DEF trafficVars
<1> QED
  BY <1>1, <1>2, <1>3, <1>4, <1>5, <1>6, <1>7, <1>8, <1>9, <1>10, <1>11, <1>12, <1>13, <1>14
  DEF TrafficNext

(* Every step of the poll, of the server and of sing-box keeps the         *)
(* accounts.                                                               *)
LEMMA AccountsStep ==
  ASSUME TypeInv, Accounts, Undisturbed', [TrafficNext]_trafficVars
  PROVE  Accounts'
<1> USE BillableAssumption, NoneIsNoRecord
<1> USE DEF TypeInv, TrafficTypeOK, Accounts, States, Reports, singBox, server, history, Idle, Return
<1>1. CASE Begin
  <2>1. PICK copy \in LoadState :
            IF copy.pending = None
            THEN poll' = [pc |-> "sample", state |-> copy] /\ UNCHANGED wire
            ELSE /\ poll' = [pc |-> "resend", state |-> copy]
                 /\ wire' = wire \cup {copy.pending}
    BY <1>1 DEF Begin
  <2>2. copy \in States /\ (file # None => copy = file)
        /\ (file = None => copy.seq = 0 /\ copy.last = Zero /\ copy.pending = None)
    BY DEF LoadState, FreshState, Zero
  <2>3. UNCHANGED <<counter, carried, unread, exits, file, logs, recorded, billed>>
        /\ poll.pc = "idle"
    BY <1>1 DEF Begin
  <2>5. PollInv'
    BY <2>1, <2>2, <2>3 DEF PollInv
  <2>6. KeyInv'
    BY <2>1, <2>2, <2>3 DEF KeyInv, Key
  <2>7. LedgerInv' /\ ExactInv'
    BY <2>3 DEF LedgerInv, ExactInv, InOutbox, NextSample, Last, Key
  <2> QED BY <2>5, <2>6, <2>7
<1>2. CASE ResendAcknowledged
  <2>1. poll.pc = "resend" /\ poll.state = file /\ file # None /\ file \in States
        /\ file.pending # None /\ Key(file.pending) \in recorded
    BY <1>2 DEF ResendAcknowledged, Acknowledged, PollInv
  <2>2. file' = Sent(file) /\ poll' = [pc |-> "sample", state |-> Sent(file)]
        /\ UNCHANGED <<counter, carried, unread, exits, logs, wire, recorded, billed>>
    BY <1>2, <2>1 DEF ResendAcknowledged, SaveAndGoto, SaveAndReturn
  <2>3. file' \in States /\ file' # None /\ file'.boot = file.boot /\ file'.seq = file.seq
        /\ file'.last = file.last /\ file'.pending = None
    BY <2>1, <2>2 DEF Sent
  <2>4. PollInv'
    BY <2>1, <2>2, <2>3 DEF PollInv
  <2>5. KeyInv'
    BY <2>1, <2>2, <2>3 DEF KeyInv
  <2>6. LedgerInv' /\ ExactInv'
    BY <2>1, <2>2, <2>3 DEF LedgerInv, ExactInv, InOutbox, NextSample, Last
  <2> QED BY <2>4, <2>5, <2>6
<1>3. CASE SampleNothing
  <2> DEFINE c == poll.state
  <2>1. PICK l \in Listings :
            SaveAndReturn([boot |-> c.boot, seq |-> c.seq, last |-> Sampled(c.last, l),
                           pending |-> c.pending])
    BY <1>3 DEF SampleNothing
  <2>2. /\ c \in States /\ c.pending = None /\ (file # None => file = c)
        /\ (file = None => c.seq = 0 /\ c.last = Zero)
        /\ \A s \in Stats : Delta(c.last, s) = 0
        /\ poll' = Idle /\ unread' = Zero
        /\ UNCHANGED <<counter, carried, exits, logs, wire, recorded, billed>>
    <3>1. Deltas(c.last) = Zero
      BY <1>3 DEF SampleNothing
    <3>2. \A s \in Stats : Deltas(c.last)[s] = 0
      BY <3>1 DEF Zero
    <3> QED BY <1>3, <2>1, <3>2 DEF SampleNothing, PollInv, Deltas, SaveAndReturn
  <2>3. /\ file' = [boot |-> c.boot, seq |-> c.seq, last |-> Sampled(c.last, l), pending |-> None]
    BY <2>1, <2>2 DEF SaveAndReturn
  <2>4. \A s \in Stats : Sampled(c.last, l)[s] = IF s \in l THEN counter[s] ELSE c.last[s]
    BY DEF Sampled
  <2>5. Sampled(c.last, l) \in [Stats -> Nat]
    BY <2>2 DEF Sampled
  <2>6. file' \in States /\ file' # None /\ file'.boot = c.boot /\ file'.seq = c.seq
        /\ file'.last = Sampled(c.last, l) /\ file'.pending = None
    BY <2>2, <2>3, <2>5
  <2>7. PollInv'
    BY <2>2, <2>6 DEF PollInv, Zero
  <2>8. KeyInv'
    BY <2>2, <2>6 DEF KeyInv
  <2>9. \A s \in Stats : /\ s \notin l => counter[s] = 0
                        /\ Last(s) = c.last[s] /\ Last(s)' = Sampled(c.last, l)[s]
                        /\ InOutbox(s) = 0 /\ InOutbox(s)' = 0
                        /\ counter[s] \in Nat /\ c.last[s] \in Nat
    BY <2>2, <2>6 DEF Last, Zero, InOutbox, Listings
  <2>10. \A s \in Stats : NextSample(s) = 0 /\ NextSample(s)' = 0
    BY <2>2, <2>4, <2>9 DEF NextSample, Delta
  <2>11. LedgerInv'
    BY <2>2, <2>9, <2>10 DEF LedgerInv
  <2>12. ExactInv'
    <3> SUFFICES ASSUME exits = 0, NEW s \in Stats
                 PROVE  (/\ carried[s] = counter[s]
                         /\ counter[s] = Last(s) + unread[s]
                         /\ s \in Billable => billed[s] + InOutbox(s) = Last(s))'
      BY <2>2 DEF ExactInv
    <3>1. /\ carried[s] = counter[s] /\ counter[s] = Last(s) + unread[s]
          /\ s \in Billable => billed[s] + InOutbox(s) = Last(s)
      BY DEF ExactInv
    <3>2. unread'[s] = 0 /\ unread[s] \in Nat /\ Last(s) \in Nat
      BY <2>2, <2>9 DEF Zero
    <3>3. unread[s] = 0
      BY <2>9, <2>10, <3>1, <3>2 DEF NextSample
    <3>4. Last(s)' = Last(s)
      BY <2>4, <2>9, <3>1, <3>3
    <3> QED BY <2>2, <2>9, <3>1, <3>2, <3>3, <3>4
  <2> QED BY <2>7, <2>8, <2>11, <2>12
<1>4. CASE SampleAndStage
  <2> DEFINE c == poll.state
  <2> DEFINE p == [boot |-> c.boot, seq |-> c.seq + 1, delta |-> Deltas(c.last)]
  <2>1. PICK l \in Listings :
            /\ SaveAndGoto("post", Staged(c, l))
            /\ wire' = wire \cup {Staged(c, l).pending}
    BY <1>4 DEF SampleAndStage
  <2>2. /\ c \in States /\ c.pending = None /\ (file # None => file = c)
        /\ (file = None => c.seq = 0 /\ c.last = Zero)
        /\ unread' = Zero
        /\ UNCHANGED <<counter, carried, exits, logs, recorded, billed>>
    BY <1>4 DEF SampleAndStage, PollInv
  <2>3. Sampled(c.last, l) \in [Stats -> Nat] /\ Deltas(c.last) \in [Stats -> Nat]
    BY <2>2 DEF Sampled, Deltas, Delta
  <2>4. p \in Reports /\ p # None
    BY <2>2, <2>3
  <2>5. /\ file' = [boot |-> c.boot, seq |-> c.seq + 1, last |-> Sampled(c.last, l), pending |-> p]
        /\ poll' = [pc |-> "post", state |-> file'] /\ wire' = wire \cup {p}
    BY <2>1 DEF SaveAndGoto, Staged
  <2>6. file' \in States /\ file' # None /\ file'.boot = c.boot /\ file'.seq = c.seq + 1
        /\ file'.last = Sampled(c.last, l) /\ file'.pending = p
    BY <2>2, <2>3, <2>4, <2>5
  <2>8. PollInv'
    BY <2>2, <2>4, <2>5, <2>6 DEF PollInv
  <2>9. Key(p) = <<c.boot, c.seq + 1>> /\ Key(p) \notin recorded
    BY <2>2 DEF Key, KeyInv
  <2>10. KeyInv'
    BY <2>2, <2>4, <2>5, <2>6, <2>9 DEF KeyInv, Key
  <2>11. ASSUME NEW s \in Stats
         PROVE  /\ counter[s] \in Nat /\ c.last[s] \in Nat /\ billed[s] \in Nat /\ carried[s] \in Nat
                /\ Last(s) = c.last[s]
                /\ Last(s)' = IF s \in l THEN counter[s] ELSE c.last[s]
                /\ s \notin l => counter[s] = 0
    <3>1. counter[s] \in Nat /\ c.last[s] \in Nat /\ billed[s] \in Nat /\ carried[s] \in Nat
      BY <2>2
    <3>2. Last(s) = c.last[s]
      BY <2>2 DEF Last, Zero
    <3>3. Last(s)' = IF s \in l THEN counter[s] ELSE c.last[s]
      BY <2>6 DEF Last, Sampled
    <3>4. s \notin l => counter[s] = 0
      BY DEF Listings
    <3> QED BY <3>1, <3>2, <3>3, <3>4
  <2>12. ASSUME NEW s \in Stats
         PROVE  /\ InOutbox(s) = 0 /\ InOutbox(s)' = NextSample(s)
                /\ NextSample(s)' = 0 /\ NextSample(s) \in Nat
    <3>1. InOutbox(s) = 0
      BY <2>2 DEF InOutbox
    <3>2. p.delta[s] = Delta(c.last, s)
      BY DEF Deltas
    <3>3. InOutbox(s)' = Delta(c.last, s)
      BY <2>2, <2>4, <2>6, <2>9, <3>2 DEF InOutbox
    <3>4. Delta(c.last, s) = NextSample(s) /\ NextSample(s) \in Nat
      BY <2>11 DEF NextSample, Delta
    <3>5. NextSample(s)' = 0
      <4>1. CASE s \in l
        BY <2>2, <2>11, <4>1 DEF NextSample
      <4>2. CASE s \notin l
        BY <2>2, <2>11, <4>2 DEF NextSample
      <4> QED BY <4>1, <4>2
    <3> QED BY <3>1, <3>3, <3>4, <3>5
  <2>13. LedgerInv'
    <3> SUFFICES ASSUME NEW s \in Stats
                 PROVE  (billed[s] + InOutbox(s) + NextSample(s) <= carried[s])'
      BY DEF LedgerInv
    <3>1. billed[s] + InOutbox(s) + NextSample(s) <= carried[s]
      BY DEF LedgerInv
    <3> QED BY <2>2, <2>11, <2>12, <3>1
  <2>14. ExactInv'
    <3> SUFFICES ASSUME exits = 0, NEW s \in Stats
                 PROVE  (/\ carried[s] = counter[s]
                         /\ counter[s] = Last(s) + unread[s]
                         /\ s \in Billable => billed[s] + InOutbox(s) = Last(s))'
      BY <2>2 DEF ExactInv
    <3>1. /\ carried[s] = counter[s] /\ counter[s] = Last(s) + unread[s]
          /\ s \in Billable => billed[s] + InOutbox(s) = Last(s)
      BY DEF ExactInv
    <3>2. unread'[s] = 0 /\ unread[s] \in Nat
      BY <2>2 DEF Zero
    <3>3. Last(s)' = counter[s] /\ NextSample(s) = unread[s]
      BY <2>11, <3>1, <3>2 DEF NextSample
    <3> QED BY <2>2, <2>11, <2>12, <3>1, <3>2, <3>3
  <2> QED BY <2>8, <2>10, <2>13, <2>14
<1>5. CASE PostAcknowledged
  <2>1. poll.pc = "post" /\ poll.state = file /\ file # None /\ file \in States
        /\ file.pending # None /\ Key(file.pending) \in recorded
    BY <1>5 DEF PostAcknowledged, Acknowledged, PollInv
  <2>2. file' = Sent(file) /\ poll' = Idle
        /\ UNCHANGED <<counter, carried, unread, exits, logs, wire, recorded, billed>>
    BY <1>5, <2>1 DEF PostAcknowledged, SaveAndGoto, SaveAndReturn
  <2>3. file' \in States /\ file' # None /\ file'.boot = file.boot /\ file'.seq = file.seq
        /\ file'.last = file.last /\ file'.pending = None
    BY <2>1, <2>2 DEF Sent
  <2>4. PollInv'
    BY <2>1, <2>2, <2>3 DEF PollInv
  <2>5. KeyInv'
    BY <2>1, <2>2, <2>3 DEF KeyInv
  <2>6. LedgerInv' /\ ExactInv'
    BY <2>1, <2>2, <2>3 DEF LedgerInv, ExactInv, InOutbox, NextSample, Last
  <2> QED BY <2>4, <2>5, <2>6
<1>6. CASE PollFails
  BY <1>6 DEF PollFails, PollInv, KeyInv, LedgerInv, ExactInv, InOutbox, NextSample, Last, Key
<1>7. CASE \E r \in wire : RecordTrafficReport(r)
  <2>1. PICK r \in wire : RecordTrafficReport(r)
    BY <1>7
  <2>2. wire' = wire \ {r}
        /\ UNCHANGED <<counter, carried, unread, exits, file, poll, logs>>
    BY <2>1 DEF RecordTrafficReport
  <2>3. PollInv'
    BY <2>2 DEF PollInv
  <2>4. CASE Key(r) \in recorded
    <3>1. UNCHANGED <<recorded, billed>>
      BY <2>1, <2>4 DEF RecordTrafficReport
    <3>2. KeyInv'
      BY <2>2, <3>1 DEF KeyInv, Key
    <3>3. LedgerInv' /\ ExactInv'
      BY <2>2, <3>1 DEF LedgerInv, ExactInv, InOutbox, NextSample, Last, Key
    <3> QED BY <2>3, <3>2, <3>3
  <2>5. CASE Key(r) \notin recorded
    <3>1. /\ recorded' = recorded \cup {Key(r)}
          /\ billed' = [s \in Stats |-> IF s \in Billable THEN billed[s] + r.delta[s]
                                                          ELSE billed[s]]
      BY <2>1, <2>5 DEF RecordTrafficReport
    <3>2. r \in Reports /\ file # None /\ file \in States /\ r = file.pending
          /\ Key(r) = <<file.boot, file.seq>> /\ r # None
      BY <2>1, <2>5 DEF KeyInv
    <3>4. KeyInv'
      BY <2>2, <3>1, <3>2 DEF KeyInv, Key
    <3>5. \A s \in Stats : /\ InOutbox(s) = r.delta[s] /\ InOutbox(s)' = 0
                          /\ Last(s)' = Last(s) /\ NextSample(s)' = NextSample(s)
                          /\ billed[s] \in Nat /\ r.delta[s] \in Nat
                          /\ billed'[s] = IF s \in Billable THEN billed[s] + r.delta[s]
                                                             ELSE billed[s]
      BY <2>2, <2>5, <3>1, <3>2 DEF InOutbox, NextSample, Last
    <3>6. \A s \in Stats : NextSample(s) \in Nat
      BY DEF NextSample, Last
    <3>7. LedgerInv'
      BY <2>2, <3>5, <3>6 DEF LedgerInv
    <3>8. ExactInv'
      BY <2>2, <3>5 DEF ExactInv
    <3> QED BY <2>3, <3>4, <3>7, <3>8
  <2> QED BY <2>4, <2>5
<1>8. CASE \E r \in wire : RequestLost(r)
  <2>1. PICK r \in wire : RequestLost(r)
    BY <1>8
  <2>2. wire' = wire \ {r}
        /\ UNCHANGED <<counter, carried, unread, exits, file, poll, logs, recorded, billed>>
    BY <2>1 DEF RequestLost
  <2>3. PollInv' /\ KeyInv'
    BY <2>2 DEF PollInv, KeyInv, Key
  <2>4. LedgerInv' /\ ExactInv'
    BY <2>2 DEF LedgerInv, ExactInv, InOutbox, NextSample, Last, Key
  <2> QED BY <2>3, <2>4
<1>9. CASE \E s \in Stats : Carry(s)
  <2>1. PICK s \in Stats : Carry(s)
    BY <1>9
  <2>2. /\ counter' = [counter EXCEPT ![s] = counter[s] + 1]
        /\ carried' = [carried EXCEPT ![s] = carried[s] + 1]
        /\ unread' = [unread EXCEPT ![s] = unread[s] + 1]
        /\ UNCHANGED <<exits, file, poll, logs, wire, recorded, billed>>
    BY <2>1 DEF Carry
  <2>3. PollInv' /\ KeyInv'
    BY <2>2 DEF PollInv, KeyInv, Key
  <2>4. \A t \in Stats : /\ InOutbox(t)' = InOutbox(t) /\ Last(t)' = Last(t) /\ Last(t) \in Nat
                        /\ counter[t] \in Nat /\ carried[t] \in Nat /\ unread[t] \in Nat
                        /\ billed[t] \in Nat /\ InOutbox(t) \in Nat
    BY <2>2 DEF InOutbox, Last, Key
  <2>5. \A t \in Stats : NextSample(t)' <= NextSample(t) + (carried'[t] - carried[t])
                        /\ NextSample(t) \in Nat /\ NextSample(t)' \in Nat
                        /\ carried'[t] \in Nat
    BY <2>2, <2>4 DEF NextSample
  <2>6. LedgerInv'
    BY <2>2, <2>4, <2>5 DEF LedgerInv
  <2>7. ExactInv'
    BY <2>2, <2>4 DEF ExactInv
  <2> QED BY <2>3, <2>6, <2>7
<1>10. CASE SingBoxExits
  <2>1. /\ exits' = exits + 1 /\ counter' = Zero /\ unread' = Zero
        /\ UNCHANGED <<carried, file, poll, logs, wire, recorded, billed>>
    BY <1>10 DEF SingBoxExits
  <2>2. PollInv' /\ KeyInv'
    BY <2>1 DEF PollInv, KeyInv, Key, Zero
  <2>3. \A t \in Stats : /\ InOutbox(t)' = InOutbox(t) /\ Last(t)' = Last(t) /\ Last(t) \in Nat
                        /\ carried[t] \in Nat /\ billed[t] \in Nat /\ InOutbox(t) \in Nat
                        /\ counter'[t] = 0 /\ counter[t] \in Nat
    BY <2>1 DEF InOutbox, Last, Key, Zero
  <2>4. \A t \in Stats : NextSample(t)' = 0 /\ NextSample(t) \in Nat
    BY <2>3 DEF NextSample
  <2>5. LedgerInv'
    BY <2>1, <2>3, <2>4 DEF LedgerInv
  <2>6. ExactInv'
    BY <2>1 DEF ExactInv
  <2> QED BY <2>2, <2>5, <2>6
<1>11. CASE AgentCrash
  BY <1>11 DEF AgentCrash, PollInv, KeyInv, LedgerInv, ExactInv, InOutbox, NextSample, Last, Key
<1>12. CASE UNCHANGED trafficVars
  BY <1>12 DEF trafficVars, PollInv, KeyInv, LedgerInv, ExactInv, InOutbox, NextSample, Last, Key
<1>13. CASE LogsBegin \/ LogsSave \/ LogsEnd \/ LoseState
  BY <1>13 DEF LogsBegin, LogsSave, LogsEnd, LoseState, PollInv, Undisturbed
<1> QED
  BY <1>1, <1>2, <1>3, <1>4, <1>5, <1>6, <1>7, <1>8, <1>9, <1>10, <1>11, <1>12, <1>13
  DEF TrafficNext

-----------------------------------------------------------------------------
(* The invariant holds in every behaviour.                                 *)
LEMMA TrafficInductive == TrafficSpec => []TrafficInv
<1>1. TrafficInit => TrafficInv
  BY TrafficInitInv
<1>2. TrafficInv /\ [TrafficNext]_trafficVars => TrafficInv'
  <2> SUFFICES ASSUME TrafficInv, [TrafficNext]_trafficVars PROVE TrafficInv'
    OBVIOUS
  <2>1. TypeInv'
    BY TrafficTypeStep DEF TrafficInv
  <2>2. Undisturbed' => Undisturbed
    BY DEF Undisturbed, TrafficInv, TypeInv, TrafficTypeOK, TrafficNext, trafficVars, history,
           Begin, ResendAcknowledged, SampleNothing, SampleAndStage, PostAcknowledged,
           PollFails, RecordTrafficReport, RequestLost, LogsBegin, LogsSave, LogsEnd,
           Carry, SingBoxExits, AgentCrash, LoseState
  <2>3. Undisturbed' => Accounts'
    BY <2>2, AccountsStep DEF TrafficInv
  <2> QED BY <2>1, <2>3 DEF TrafficInv
<1> QED BY <1>1, <1>2, PTL DEF TrafficSpec

(* RecordTrafficReport never bills a user for more than sing-box carried,  *)
(* for any counters, any number of lost, repeated and delayed reports,     *)
(* crashes of the agent and exits of sing-box.                             *)
THEOREM NeverBilledTwice == TrafficSpec => []NeverOverBilled
<1>1. TrafficInv => NeverOverBilled
  <2> SUFFICES ASSUME TypeInv, Accounts, NEW s \in Stats
               PROVE  billed[s] <= carried[s]
    BY DEF NeverOverBilled, BilledWhatWasCarried, TrafficInv
  <2>1. InOutbox(s) \in Nat /\ NextSample(s) \in Nat
    BY DEF InOutbox, NextSample, Last, TypeInv, TrafficTypeOK, States, Reports
  <2> QED BY <2>1 DEF TypeInv, TrafficTypeOK, Accounts, LedgerInv
<1> QED BY <1>1, TrafficInductive, PTL

(* ReportTraffic loses no byte of a billable counter while sing-box runs.  *)
THEOREM NothingLostWhileRunning == TrafficSpec => []AccountedWhileRunning
<1>1. TrafficInv => AccountedWhileRunning
  <2> SUFFICES ASSUME TypeInv, Accounts, exits = 0, NEW s \in Billable
               PROVE  carried[s] = billed[s] + InOutbox(s) + unread[s]
    BY DEF AccountedWhileRunning, TrafficInv
  <2>1. s \in Stats
    BY BillableAssumption
  <2>2. /\ carried[s] = counter[s] /\ counter[s] = Last(s) + unread[s]
        /\ billed[s] + InOutbox(s) = Last(s)
    BY <2>1 DEF Accounts, ExactInv
  <2>3. unread[s] \in Nat /\ Last(s) \in Nat
    BY <2>1 DEF Last, TypeInv, TrafficTypeOK, States
  <2> QED BY <2>2, <2>3
<1> QED BY <1>1, TrafficInductive, PTL

(* Type correctness of the agent's state, the reports and the ledger.      *)
THEOREM TrafficTypeCorrect == TrafficSpec => []TrafficTypeOK
<1>1. TrafficInv => TrafficTypeOK
  BY DEF TrafficInv, TypeInv
<1> QED BY <1>1, TrafficInductive, PTL
=============================================================================
