----------------------- MODULE ConnectionTelemetryProofs -----------------------
(***************************************************************************)
(* What the connection telemetry of a node keeps for every number of       *)
(* connections and every value of its caps: the state stays of its shape   *)
(* and within its caps, no row claims more than its connection carried,    *)
(* the stream is the source only while it is enabled, coverage counts no   *)
(* byte twice and an accounted close is not lost.                          *)
(***************************************************************************)
EXTENDS ConnectionTelemetry, FiniteSetTheorems, WellFoundedInduction, TLAPS

----------------------------------------------------------------------------
(* The inductive invariant *)

\* The snapshots b claim nothing the connections cn have not carried or done.
Within(b, cn) ==
  /\ b \in [Conns -> Snapshots]
  /\ \A c \in Conns : b[c].bytes <= cn[c].total /\ (b[c].closed = 1 => cn[c].st = "closed")

\* The collector's maps are within their caps.
Capped(k) ==
  /\ Cardinality(Tracked(k)) <= MaxTracked
  /\ Cardinality(Bucketed(k.buckets)) <= MaxBuckets
  /\ Len(k.accounted) <= AccountedLimit

\* The collector k agrees with the connections cn: what it tracks is at most what
\* the stream has told, whether or not the event reached it.
Fits(k, cn) ==
  /\ k \in Collectors
  /\ Capped(k)
  /\ Within(k.buckets, cn)
  /\ \A c \in Conns : k.live[c] # None => k.live[c] <= cn[c].sent

\* The connections: a close has a time, and only a close has.
ConnsOK(cn) ==
  /\ cn \in [Conns -> Connections]
  /\ \A c \in Conns : cn[c].sent <= cn[c].total /\ (cn[c].closedAt # 0 => cn[c].st = "closed")

SingBoxOK ==
  /\ now \in 0..MaxTime
  /\ ConnsOK(conn)
  /\ ring \in Seq(Conns) /\ Len(ring) <= RingSize

CollectorOK ==
  /\ linked \in BOOLEAN
  /\ linked => collector # None
  /\ collector # None => Fits(collector, conn)
  /\ disk \in Nat \cup {None}

\* A report that is staged, or about to be.
ReportsOK ==
  /\ saved \in [sequence : Nat, high : Nat, pending : Reports \cup {None}]
  /\ saved.pending # None => /\ saved.pending.sequence \in 1..saved.sequence
                             /\ Within(saved.pending.buckets, conn)
  /\ pc \in {"idle", "resend", "readmitted", "collect", "drained", "send", "admitted"}
  /\ pc \in {"resend", "readmitted", "send", "admitted"} => saved.pending # None
  /\ pc = "drained" => collector # None
  /\ draft \in Drafts \cup {None}
  /\ draft # None => Within(draft.buckets, conn)

ServerOK ==
  /\ telemetry \in TelemetryRows \cup {None}
  /\ Within(rows, conn)
  /\ reports \subseteq 1..saved.sequence
  /\ covered \in Nat
  /\ sources \in {0, 1}
  /\ ~NodeConnectionTelemetryEnabled => sources = 0

HistoryOK ==
  /\ gap \in BOOLEAN
  /\ changes \in 0..MaxChanges
  /\ faults \in 0..MaxFaults

TelemetryInv == SingBoxOK /\ CollectorOK /\ ReportsOK /\ ServerOK /\ HistoryOK

\* What connections do: carry more, be told of more, and stay closed.
Grown(cn, later) ==
  \A c \in Conns : /\ cn[c].total <= later[c].total
                   /\ cn[c].sent <= later[c].sent
                   /\ cn[c].st = "closed" => later[c].st = "closed"

----------------------------------------------------------------------------
(* The operators of the collector *)

LEMMA ConnsFinite == IsFiniteSet(Conns) /\ Cardinality(Conns) \in Nat
BY TelemetryAssumptions, FS_CardinalityType

LEMMA LargerFacts ==
  ASSUME NEW a \in Nat, NEW b \in Nat
  PROVE  larger(a, b) \in Nat /\ a <= larger(a, b) /\ b <= larger(a, b)
         /\ larger(a, b) \in {a, b}
BY DEF larger

LEMMA NothingWithin == ASSUME NEW cn, ConnsOK(cn) PROVE Within([c \in Conns |-> Nothing], cn)
<1>1. Nothing \in Snapshots /\ Nothing.bytes = 0 /\ Nothing.closed = 0
  BY DEF Nothing, Snapshots
<1>2. \A c \in Conns : 0 <= cn[c].total
  BY TelemetryAssumptions DEF ConnsOK, Connections
<1> HIDE DEF Nothing
<1> QED
  BY <1>1, <1>2 DEF Within

LEMMA MergeFacts ==
  ASSUME NEW a \in Snapshots, NEW b \in Snapshots
  PROVE  /\ Merge(a, b) \in Snapshots
         /\ Merge(a, b).bytes \in {a.bytes, b.bytes}
         /\ Merge(a, b).closed \in {a.closed, b.closed}
BY DEF Merge, Snapshots, larger

LEMMA MergeWithin ==
  ASSUME NEW a, NEW b, NEW cn, Within(a, cn), Within(b, cn)
  PROVE  Within([c \in Conns |-> Merge(a[c], b[c])], cn)
<1> DEFINE m == [c \in Conns |-> Merge(a[c], b[c])]
<1> SUFFICES ASSUME NEW c \in Conns
             PROVE  /\ m[c] \in Snapshots
                    /\ m[c].bytes <= cn[c].total
                    /\ m[c].closed = 1 => cn[c].st = "closed"
  BY DEF Within
<1>1. a[c] \in Snapshots /\ b[c] \in Snapshots
  BY DEF Within
<1>2. /\ m[c] \in Snapshots
      /\ m[c].bytes \in {a[c].bytes, b[c].bytes}
      /\ m[c].closed \in {a[c].closed, b[c].closed}
  BY <1>1, MergeFacts
<1> HIDE DEF m
<1> QED
  BY <1>2 DEF Within

\* Snapshots and collectors stay right when connections grow.
LEMMA WithinGrows ==
  ASSUME NEW b, NEW cn, NEW later, ConnsOK(cn), ConnsOK(later), Grown(cn, later), Within(b, cn)
  PROVE  Within(b, later)
<1> SUFFICES ASSUME NEW c \in Conns
             PROVE  b[c].bytes <= later[c].total /\ (b[c].closed = 1 => later[c].st = "closed")
  BY DEF Within
<1>1. b[c].bytes \in Nat
  BY DEF Within, Snapshots
<1>2. cn[c].total \in Nat /\ later[c].total \in Nat
  BY TelemetryAssumptions DEF ConnsOK, Connections
<1>3. b[c].bytes <= cn[c].total /\ (b[c].closed = 1 => cn[c].st = "closed")
  BY DEF Within
<1> QED
  BY <1>1, <1>2, <1>3 DEF Grown

LEMMA FitsGrows ==
  ASSUME NEW k, NEW cn, NEW later, ConnsOK(cn), ConnsOK(later), Grown(cn, later), Fits(k, cn)
  PROVE  Fits(k, later)
<1>1. Within(k.buckets, later)
  BY WithinGrows DEF Fits
<1>2. ASSUME NEW c \in Conns, k.live[c] # None
      PROVE  k.live[c] <= later[c].sent
  <2>1. k.live[c] \in Nat
    BY <1>2 DEF Fits, Collectors
  <2>2. cn[c].sent \in Nat /\ later[c].sent \in Nat
    BY TelemetryAssumptions DEF ConnsOK, Connections
  <2>3. k.live[c] <= cn[c].sent /\ cn[c].sent <= later[c].sent
    BY <1>2 DEF Fits, Grown
  <2> QED
    BY <2>1, <2>2, <2>3
<1> QED
  BY <1>1, <1>2 DEF Fits

LEMMA SmallerCap ==
  ASSUME NEW n \in Nat, NEW B \in SUBSET Conns, NEW A \in SUBSET B, Cardinality(B) <= n
  PROVE  Cardinality(A) <= n
<1>1. IsFiniteSet(B)
  BY ConnsFinite, FS_Subset
<1>2. IsFiniteSet(A) /\ Cardinality(A) <= Cardinality(B)
  BY <1>1, FS_Subset
<1> QED
  BY <1>1, <1>2, FS_CardinalityType

LEMMA OneMoreCap ==
  ASSUME NEW n \in Nat, NEW B \in SUBSET Conns, NEW c \in Conns, ~(Cardinality(B) >= n)
  PROVE  Cardinality(B \cup {c}) <= n
<1>1. IsFiniteSet(B)
  BY ConnsFinite, FS_Subset
<1> QED
  BY <1>1, FS_CardinalityType, FS_AddElement

LEMMA AddFacts ==
  ASSUME NEW accounted \in Seq(Conns), Len(accounted) <= AccountedLimit, NEW c \in Conns
  PROVE  add(accounted, c) \in Seq(Conns) /\ Len(add(accounted, c)) <= AccountedLimit
<1> DEFINE grown == Append(accounted, c)
<1>1. grown \in Seq(Conns) /\ Len(grown) = Len(accounted) + 1
  OBVIOUS
<1>2. Tail(grown) \in Seq(Conns) /\ Len(Tail(grown)) = Len(accounted)
  BY <1>1
<1>3. add(accounted, c) = IF Contains(accounted, c) THEN accounted
                          ELSE IF Len(grown) > AccountedLimit THEN Tail(grown) ELSE grown
  BY DEF add
<1> HIDE DEF grown
<1> QED
  BY <1>1, <1>2, <1>3, TelemetryAssumptions

\* A snapshot taken of c is within c.
LEMMA RecordFits ==
  ASSUME NEW cn, ConnsOK(cn), NEW k, Fits(k, cn), NEW c \in Conns,
         NEW sum \in Nat, sum <= cn[c].total, NEW bytes \in Nat, NEW opened \in {0, 1},
         NEW closed \in {0, 1}, closed = 1 => cn[c].st = "closed"
  PROVE  Fits(record(k, c, sum, bytes, opened, closed), cn)
<1> DEFINE snap == [opened |-> 1, closed |-> closed, bytes |-> sum]
           merged == [k.buckets EXCEPT ![c] = Merge(k.buckets[c], snap)]
           r == [k EXCEPT !.buckets = merged, !.bytes = @ + bytes]
           d == [k EXCEPT !.dropped = @ + 1]
<1>1. k \in Collectors /\ Capped(k) /\ Within(k.buckets, cn)
  BY DEF Fits
<1>2. \/ record(k, c, sum, bytes, opened, closed) = k
      \/ record(k, c, sum, bytes, opened, closed) = d
      \/ /\ record(k, c, sum, bytes, opened, closed) = r
         /\ ~(k.buckets[c] = Nothing /\ Cardinality(Bucketed(k.buckets)) >= MaxBuckets)
  <2>1. [k EXCEPT !.buckets[c] = Merge(@, snap), !.bytes = @ + bytes] = r
    BY <1>1 DEF Collectors
  <2> QED
    BY <2>1 DEF record
<1>3. Fits(d, cn)
  <2>1. /\ d \in Collectors /\ d.buckets = k.buckets /\ d.live = k.live
        /\ d.accounted = k.accounted
    BY <1>1, SMTT(60) DEF Collectors
  <2> HIDE DEF d
  <2> QED
    BY <2>1 DEF Fits, Capped, Tracked
<1>4. ASSUME ~(k.buckets[c] = Nothing /\ Cardinality(Bucketed(k.buckets)) >= MaxBuckets)
      PROVE  Fits(r, cn)
  <2>1. snap \in Snapshots /\ snap.bytes = sum /\ snap.closed = closed
    BY DEF Snapshots
  <2>2. k.buckets[c] \in Snapshots
    BY <1>1 DEF Within
  <2> HIDE DEF snap
  <2> DEFINE m == Merge(k.buckets[c], snap)
  <2>3. m \in Snapshots /\ m.bytes \in {k.buckets[c].bytes, sum} /\ m.closed \in {k.buckets[c].closed, closed}
    BY <2>1, <2>2, MergeFacts
  <2> HIDE DEF m
  <2>4. merged \in [Conns -> Snapshots] /\ \A x \in Conns : merged[x] = IF x = c THEN m ELSE k.buckets[x]
    BY <1>1, <2>3 DEF Within, m
  <2> HIDE DEF merged
  <2>5. Within(merged, cn)
    BY <1>1, <2>3, <2>4 DEF Within
  <2>6. /\ r \in Collectors /\ r.buckets = merged /\ r.live = k.live
        /\ r.accounted = k.accounted
    <3>1. k.bytes + bytes \in Nat
      BY <1>1 DEF Collectors
    <3> DEFINE total == k.bytes + bytes
    <3>2. r = [k EXCEPT !.buckets = merged, !.bytes = total]
      OBVIOUS
    <3> HIDE DEF r, total
    <3>3. total \in Nat
      BY <3>1 DEF total
    <3> QED
      BY <1>1, <2>4, <3>2, <3>3 DEF Collectors
  <2>7. Cardinality(Bucketed(merged)) <= MaxBuckets
    <3>1. Bucketed(merged) \subseteq Bucketed(k.buckets) \cup {c}
      BY <2>4 DEF Bucketed
    <3>2. Bucketed(k.buckets) \subseteq Conns /\ Cardinality(Bucketed(k.buckets)) <= MaxBuckets
      BY <1>1 DEF Bucketed, Capped
    <3>3. MaxBuckets \in Nat
      BY TelemetryAssumptions
    <3>4. CASE k.buckets[c] = Nothing
      <4>1. Cardinality(Bucketed(k.buckets) \cup {c}) <= MaxBuckets
        BY <1>4, <3>2, <3>3, <3>4, OneMoreCap
      <4> QED
        BY <3>1, <3>2, <3>3, <4>1, SmallerCap
    <3>5. CASE k.buckets[c] # Nothing
      <4>1. Bucketed(k.buckets) \cup {c} = Bucketed(k.buckets)
        BY <3>5 DEF Bucketed
      <4> QED
        BY <3>1, <3>2, <3>3, <4>1, SmallerCap
    <3> QED
      BY <3>4, <3>5
  <2> HIDE DEF r
  <2>8. Tracked(r) = Tracked(k)
    BY <2>6 DEF Tracked
  <2> QED
    BY <1>1, <2>5, <2>6, <2>7, <2>8 DEF Fits, Capped
<1> HIDE DEF r, d
<1> QED
  BY <1>2, <1>3, <1>4

\* Forgetting what is tracked keeps the collector right.
LEMMA ForgetFits ==
  ASSUME NEW cn, NEW k, Fits(k, cn), NEW kept \in [Conns -> Nat \cup {None}],
         \A c \in Conns : kept[c] \in {k.live[c], None},
         NEW accounted \in Seq(Conns), Len(accounted) <= AccountedLimit, NEW high \in Nat
  PROVE  Fits([k EXCEPT !.live = kept, !.accounted = accounted, !.high = high], cn)
<1> DEFINE f == [k EXCEPT !.live = kept, !.accounted = accounted, !.high = high]
<1>1. k \in Collectors /\ Capped(k) /\ Within(k.buckets, cn)
  BY DEF Fits
<1>2. /\ f \in Collectors /\ f.live = kept /\ f.accounted = accounted
      /\ f.buckets = k.buckets
  BY <1>1 DEF Collectors
<1> HIDE DEF f
<1>3. Tracked(f) \subseteq Tracked(k) /\ Tracked(k) \subseteq Conns
  BY <1>2 DEF Tracked
<1>4. MaxTracked \in Nat
  BY TelemetryAssumptions
<1>5. Cardinality(Tracked(f)) <= MaxTracked
  BY <1>1, <1>3, <1>4, SmallerCap DEF Capped
<1>6. Capped(f)
  BY <1>1, <1>2, <1>5 DEF Capped
<1>7. \A c \in Conns : f.live[c] # None => f.live[c] <= cn[c].sent
  BY <1>2 DEF Fits
<1> QED
  BY <1>1, <1>2, <1>6, <1>7 DEF Fits, f

\* Tracking c at what the stream has told keeps the collector right.
LEMMA TrackFits ==
  ASSUME NEW cn, NEW k, Fits(k, cn), NEW c \in Conns, NEW sum \in Nat, sum <= cn[c].sent,
         k.live[c] # None \/ ~(Cardinality(Tracked(k)) >= MaxTracked)
  PROVE  Fits([k EXCEPT !.live[c] = sum], cn)
<1> DEFINE lives == [k.live EXCEPT ![c] = sum]
           f == [k EXCEPT !.live = lives]
<1>1. k \in Collectors /\ Capped(k) /\ Within(k.buckets, cn)
  BY DEF Fits
<1>2. [k EXCEPT !.live[c] = sum] = f
  BY <1>1 DEF Collectors
<1>3. /\ lives \in [Conns -> Nat \cup {None}]
      /\ \A x \in Conns : lives[x] = IF x = c THEN sum ELSE k.live[x]
  BY <1>1 DEF Collectors
<1> HIDE DEF lives
<1>4. /\ f \in Collectors /\ f.live = lives /\ f.accounted = k.accounted
      /\ f.buckets = k.buckets
  BY <1>1, <1>3 DEF Collectors
<1> HIDE DEF f
<1>5. Tracked(f) \subseteq Tracked(k) \cup {c} /\ Tracked(k) \subseteq Conns
  BY <1>3, <1>4 DEF Tracked
<1>6. MaxTracked \in Nat
  BY TelemetryAssumptions
<1>7. Cardinality(Tracked(k) \cup {c}) <= MaxTracked
  <2>1. CASE k.live[c] # None
    <3>1. Tracked(k) \cup {c} = Tracked(k)
      BY <2>1 DEF Tracked
    <3> QED
      BY <1>1, <3>1 DEF Capped
  <2>2. CASE ~(Cardinality(Tracked(k)) >= MaxTracked)
    BY <1>5, <1>6, <2>2, OneMoreCap
  <2> QED
    BY <2>1, <2>2
<1>8. Cardinality(Tracked(f)) <= MaxTracked
  BY <1>5, <1>6, <1>7, SmallerCap
<1>9. Capped(f)
  BY <1>1, <1>4, <1>8 DEF Capped
<1>10. \A x \in Conns : f.live[x] # None => f.live[x] <= cn[x].sent
  BY <1>3, <1>4 DEF Fits
<1> QED
  BY <1>1, <1>2, <1>4, <1>9, <1>10 DEF Fits

LEMMA CloseFits ==
  ASSUME NEW cn, ConnsOK(cn), NEW k, Fits(k, cn), NEW c \in Conns,
         NEW sum \in Nat, sum <= cn[c].total, NEW bytes \in Nat, NEW opened \in {0, 1},
         cn[c].st = "closed", NEW closedAt \in Nat
  PROVE  Fits(closeTracked(k, c, sum, bytes, opened, closedAt), cn)
<1> DEFINE r == record(k, c, sum, bytes, opened, 1)
           kept == [r.live EXCEPT ![c] = None]
           acc == add(r.accounted, c)
           mark == larger(r.high, closedAt)
<1>1. Fits(r, cn)
  BY RecordFits
<1>2. r \in Collectors /\ Len(r.accounted) <= AccountedLimit
  BY <1>1 DEF Fits, Capped
<1>3. closeTracked(k, c, sum, bytes, opened, closedAt)
        = [r EXCEPT !.live = kept, !.accounted = acc, !.high = mark]
  <2>1. closeTracked(k, c, sum, bytes, opened, closedAt)
          = [r EXCEPT !.live[c] = None, !.accounted = add(@, c), !.high = larger(@, closedAt)]
    BY DEF closeTracked
  <2> HIDE DEF r
  <2> QED
    BY <1>2, <2>1 DEF Collectors
<1> HIDE DEF r
<1>4. r.live \in [Conns -> Nat \cup {None}] /\ r.accounted \in Seq(Conns) /\ r.high \in Nat
  BY <1>2 DEF Collectors
<1>5. kept \in [Conns -> Nat \cup {None}] /\ \A x \in Conns : kept[x] \in {r.live[x], None}
  BY <1>4
<1>6. acc \in Seq(Conns) /\ Len(acc) <= AccountedLimit
  BY <1>2, <1>4, AddFacts
<1>7. mark \in Nat
  BY <1>4, LargerFacts
<1> HIDE DEF kept, acc, mark
<1>8. Fits([r EXCEPT !.live = kept, !.accounted = acc, !.high = mark], cn)
  BY <1>1, <1>5, <1>6, <1>7, ForgetFits, Zenon
<1> QED
  BY <1>3, <1>8

LEMMA AdvanceFacts ==
  ASSUME NEW known \in Nat, NEW total \in Nat
  PROVE  /\ advance(known, total).sum \in Nat /\ advance(known, total).bytes \in Nat
         /\ advance(known, total).sum \in {known, total}
<1>1. larger(known, total) \in Nat /\ known <= larger(known, total)
      /\ larger(known, total) \in {known, total}
  BY LargerFacts
<1> QED
  BY <1>1 DEF advance

LEMMA DropFits == ASSUME NEW cn, NEW k, Fits(k, cn) PROVE Fits([k EXCEPT !.dropped = @ + 1], cn)
<1> DEFINE d == [k EXCEPT !.dropped = @ + 1]
<1>1. /\ d \in Collectors /\ d.buckets = k.buckets /\ d.live = k.live
      /\ d.accounted = k.accounted
  BY SMTT(60) DEF Fits, Collectors
<1> HIDE DEF d
<1>2. Fits(d, cn)
  BY <1>1 DEF Fits, Capped, Tracked
<1> QED
  BY <1>2 DEF d

\* The three events of the stream keep the collector right, whatever was lost or
\* replayed before them.
LEMMA ApplyNewFits ==
  ASSUME NEW cn, ConnsOK(cn), NEW k, Fits(k, cn), NEW c \in Conns,
         NEW total \in Nat, total <= cn[c].total, NEW closedAt \in Nat,
         closedAt # 0 => cn[c].st = "closed", closedAt = 0 => total <= cn[c].sent
  PROVE  Fits(applyNew(k, c, total, closedAt), cn)
<1>1. cn[c].sent \in Nat /\ cn[c].total \in Nat /\ cn[c].sent <= cn[c].total
  BY TelemetryAssumptions DEF ConnsOK, Connections
<1>2. CASE k.live[c] # None
  <2> DEFINE to == advance(k.live[c], total)
  <2>1. k.live[c] \in Nat /\ k.live[c] <= cn[c].sent
    BY <1>2 DEF Fits, Collectors
  <2>2. to.sum \in Nat /\ to.bytes \in Nat /\ to.sum \in {k.live[c], total}
    BY <2>1, AdvanceFacts
  <2>3. applyNew(k, c, total, closedAt)
          = IF closedAt # 0 THEN closeTracked(k, c, to.sum, to.bytes, 0, closedAt)
            ELSE record([k EXCEPT !.live[c] = to.sum], c, to.sum, to.bytes, 0, 0)
    BY <1>2 DEF applyNew
  <2> HIDE DEF to
  <2>4. to.sum <= cn[c].total
    BY <1>1, <2>1, <2>2
  <2>5. CASE closedAt # 0
    <3>1. Fits(closeTracked(k, c, to.sum, to.bytes, 0, closedAt), cn)
      BY <2>2, <2>4, <2>5, CloseFits
    <3> QED
      BY <2>3, <2>5, <3>1
  <2>6. CASE closedAt = 0
    <3> DEFINE tracked == [k EXCEPT !.live[c] = to.sum]
    <3>1. to.sum <= cn[c].sent
      BY <2>1, <2>2, <2>6
    <3>2. Fits(tracked, cn)
      BY <1>2, <2>2, <3>1, TrackFits
    <3> HIDE DEF tracked
    <3>3. Fits(record(tracked, c, to.sum, to.bytes, 0, 0), cn)
      BY <2>2, <2>4, <3>2, RecordFits
    <3> QED
      BY <2>3, <2>6, <3>3 DEF tracked
  <2> QED
    BY <2>5, <2>6
<1>3. CASE k.live[c] = None /\ closedAt # 0
  <2>1. Fits(closeTracked(k, c, total, total, 1, closedAt), cn)
    BY <1>3, CloseFits
  <2>2. applyNew(k, c, total, closedAt) \in {k, closeTracked(k, c, total, total, 1, closedAt)}
    BY <1>3 DEF applyNew
  <2> QED
    BY <2>1, <2>2
<1>4. CASE k.live[c] = None /\ closedAt = 0
  <2> DEFINE tracked == [k EXCEPT !.live[c] = total]
             dropping == [k EXCEPT !.dropped = @ + 1]
  <2>1. applyNew(k, c, total, closedAt)
          = IF Cardinality(Tracked(k)) >= MaxTracked THEN dropping
            ELSE record(tracked, c, total, total, 1, 0)
    BY <1>4 DEF applyNew
  <2>2. Fits(dropping, cn)
    BY DropFits
  <2>3. CASE ~(Cardinality(Tracked(k)) >= MaxTracked)
    <3>1. Fits(tracked, cn)
      BY <1>4, <2>3, TrackFits
    <3> HIDE DEF tracked
    <3>2. Fits(record(tracked, c, total, total, 1, 0), cn)
      BY <3>1, RecordFits
    <3> QED
      BY <2>1, <2>3, <3>2
  <2> HIDE DEF tracked, dropping
  <2> QED
    BY <2>1, <2>2, <2>3
<1> QED
  BY <1>2, <1>3, <1>4

LEMMA ApplyUpdateFits ==
  ASSUME NEW cn, ConnsOK(cn), NEW k, NEW c \in Conns, NEW delta \in Nat, Fits(k, cn),
         k.live[c] # None => k.live[c] + delta <= cn[c].sent
  PROVE  Fits(applyUpdate(k, c, delta), cn)
<1>1. CASE k.live[c] = None
  BY <1>1 DEF applyUpdate
<1>2. CASE k.live[c] # None
  <2> DEFINE sum == k.live[c] + delta
             tracked == [k EXCEPT !.live[c] = sum]
  <2>1. k.live[c] \in Nat
    BY <1>2 DEF Fits, Collectors
  <2>2. sum \in Nat /\ sum <= cn[c].sent
    BY <1>2, <2>1
  <2>3. cn[c].sent \in Nat /\ cn[c].total \in Nat /\ cn[c].sent <= cn[c].total
    BY TelemetryAssumptions DEF ConnsOK, Connections
  <2>4. applyUpdate(k, c, delta) = record(tracked, c, sum, delta, 0, 0)
    BY <1>2 DEF applyUpdate, Fits, Collectors
  <2> HIDE DEF sum
  <2>5. Fits(tracked, cn)
    BY <1>2, <2>2, TrackFits
  <2>6. sum <= cn[c].total
    BY <2>2, <2>3
  <2> HIDE DEF tracked
  <2> QED
    BY <2>2, <2>4, <2>5, <2>6, RecordFits
<1> QED
  BY <1>1, <1>2

LEMMA ApplyClosedFits ==
  ASSUME NEW cn, ConnsOK(cn), NEW k, Fits(k, cn), NEW c \in Conns,
         NEW total \in Nat, total <= cn[c].total, NEW closedAt \in Nat, cn[c].st = "closed"
  PROVE  Fits(applyClosed(k, c, total, closedAt), cn)
<1>1. cn[c].sent \in Nat /\ cn[c].total \in Nat /\ cn[c].sent <= cn[c].total
  BY TelemetryAssumptions DEF ConnsOK, Connections
<1>2. CASE k.live[c] # None
  <2> DEFINE to == advance(k.live[c], total)
  <2>1. k.live[c] \in Nat /\ k.live[c] <= cn[c].sent
    BY <1>2 DEF Fits, Collectors
  <2>2. to.sum \in Nat /\ to.bytes \in Nat /\ to.sum \in {k.live[c], total}
    BY <2>1, AdvanceFacts
  <2>3. applyClosed(k, c, total, closedAt) = closeTracked(k, c, to.sum, to.bytes, 0, closedAt)
    BY <1>2 DEF applyClosed
  <2> HIDE DEF to
  <2>4. to.sum <= cn[c].total
    BY <1>1, <2>1, <2>2
  <2> QED
    BY <2>2, <2>3, <2>4, CloseFits
<1>3. CASE k.live[c] = None
  <2>1. Fits(closeTracked(k, c, total, total, 1, closedAt), cn)
    BY CloseFits
  <2>2. applyClosed(k, c, total, closedAt) \in {k, closeTracked(k, c, total, total, 1, closedAt)}
    BY <1>3 DEF applyClosed
  <2> QED
    BY <2>1, <2>2
<1> QED
  BY <1>2, <1>3

LEMMA SweepFits ==
  ASSUME NEW cn, NEW k, Fits(k, cn), NEW mentioned
  PROVE  Fits(sweepStale(k, mentioned), cn)
<1> DEFINE kept == [c \in Conns |-> IF c \in mentioned THEN k.live[c] ELSE None]
<1>1. k \in Collectors /\ Len(k.accounted) <= AccountedLimit
  BY DEF Fits, Capped
<1>2. k.live \in [Conns -> Nat \cup {None}] /\ k.accounted \in Seq(Conns) /\ k.high \in Nat
  BY <1>1 DEF Collectors
<1>3. kept \in [Conns -> Nat \cup {None}] /\ \A c \in Conns : kept[c] \in {k.live[c], None}
  BY <1>2
<1>4. sweepStale(k, mentioned) = [k EXCEPT !.live = kept]
  BY DEF sweepStale
<1> HIDE DEF kept
<1>5. [k EXCEPT !.live = kept] = [k EXCEPT !.live = kept, !.accounted = k.accounted, !.high = k.high]
  BY <1>1 DEF Collectors
<1>6. Fits([k EXCEPT !.live = kept, !.accounted = k.accounted, !.high = k.high], cn)
  BY <1>1, <1>2, <1>3, ForgetFits, Zenon
<1> QED
  BY <1>4, <1>5, <1>6

----------------------------------------------------------------------------
(* The replay of a subscription, by induction over the identities *)

LEMMA LeastNumber ==
  ASSUME NEW T \in SUBSET Nat, T # {}
  PROVE  \E x \in T : \A y \in T : x <= y
<1>1. PICK x \in T : \A y \in T : ~(<<y, x>> \in OpToRel(<, Nat))
  BY NatLessThanWellFounded, WFMin
<1>2. \A y \in T : ~(y < x)
  BY <1>1 DEF OpToRel
<1> QED
  BY <1>2

\* The recursive definition of replay defines a function: a function that meets
\* its equation up to n is extended to n + 1.
LEMMA ReplayUnfolds ==
  ASSUME NEW k, NEW mentioned
  PROVE  \A i \in 0..Cardinality(Conns) :
           replay(k, mentioned)[i] =
             IF i = 0 THEN k
             ELSE IF i \in mentioned
             THEN applyNew(replay(k, mentioned)[i - 1], i, conn[i].total, conn[i].closedAt)
             ELSE replay(k, mentioned)[i - 1]
<1> DEFINE step(r, i) == IF i \in mentioned THEN applyNew(r, i, conn[i].total, conn[i].closedAt) ELSE r
           Upto(n, g) == g = [i \in 0..n |-> IF i = 0 THEN k ELSE step(g[i - 1], i)]
           N == Cardinality(Conns)
<1>1. replay(k, mentioned) = CHOOSE g : Upto(N, g)
  BY DEF replay
<1> HIDE DEF step
<1>2. \A n \in Nat : \E g : Upto(n, g)
  <2> SUFFICES ASSUME NEW m \in Nat, ~\E g : Upto(m, g) PROVE FALSE
    OBVIOUS
  <2> DEFINE T == {n \in Nat : ~\E g : Upto(n, g)}
  <2>1. PICK n \in T : \A y \in T : n <= y
    <3>1. T \in SUBSET Nat /\ T # {}
      OBVIOUS
    <3> HIDE DEF T
    <3> QED
      BY <3>1, LeastNumber
  <2>2. n # 0
    <3>1. Upto(0, [i \in 0..0 |-> k])
      OBVIOUS
    <3> QED
      BY <3>1
  <2>3. PICK g : Upto(n - 1, g)
    <3>1. n \in Nat
      OBVIOUS
    <3>2. n - 1 \in Nat /\ n - 1 \notin T
      <4> HIDE DEF T
      <4> QED
        BY <2>1, <2>2, <3>1
    <3> HIDE DEF Upto
    <3> QED
      BY <3>2
  <2> DEFINE h == [i \in 0..n |-> IF i = n THEN step(g[n - 1], n) ELSE g[i]]
  <2>4. \A i \in 0..n : h[i] = IF i = 0 THEN k ELSE step(h[i - 1], i)
    <3> SUFFICES ASSUME NEW i \in 0..n PROVE h[i] = IF i = 0 THEN k ELSE step(h[i - 1], i)
      OBVIOUS
    <3>1. CASE i = n
      <4>1. h[n - 1] = g[n - 1]
        BY <2>2
      <4> QED
        BY <2>2, <3>1, <4>1
    <3>2. CASE i # n
      <4>1. i \in 0..(n - 1) /\ h[i] = g[i]
        BY <3>2
      <4>2. g[i] = IF i = 0 THEN k ELSE step(g[i - 1], i)
        BY <2>3, <4>1
      <4>3. i # 0 => h[i - 1] = g[i - 1]
        BY <4>1
      <4> QED
        BY <4>1, <4>2, <4>3
    <3> QED
      BY <3>1, <3>2
  <2>5. Upto(n, h)
    BY <2>4
  <2> QED
    BY <2>1, <2>5
<1>3. Upto(N, replay(k, mentioned))
  <2>1. \E g : Upto(N, g)
    BY <1>2, ConnsFinite
  <2> HIDE DEF Upto
  <2> QED
    BY <1>1, <2>1
<1>4. \A i \in 0..N : replay(k, mentioned)[i] = IF i = 0 THEN k ELSE step(replay(k, mentioned)[i - 1], i)
  BY <1>3
<1> QED
  BY <1>4 DEF step

\* A replay of the whole state keeps the collector right: by induction, after
\* each of its events.
LEMMA ReplayFits ==
  ASSUME NEW cn, ConnsOK(cn), ConnsOK(conn),
         \A c \in Conns : cn[c].total = conn[c].total /\ cn[c].st = conn[c].st
                          /\ cn[c].sent = conn[c].total,
         NEW k, Fits(k, cn), NEW mentioned
  PROVE  Fits(replay(k, mentioned)[Cardinality(Conns)], cn)
<1> DEFINE N == Cardinality(Conns)
           at(i) == replay(k, mentioned)[i]
           T == {i \in 0..N : ~Fits(at(i), cn)}
<1>1. N \in Nat /\ Conns = 1..N
  BY ConnsFinite, TelemetryAssumptions
<1>2. \A i \in 0..N : at(i) = IF i = 0 THEN k
                              ELSE IF i \in mentioned
                              THEN applyNew(at(i - 1), i, conn[i].total, conn[i].closedAt)
                              ELSE at(i - 1)
  BY ReplayUnfolds
<1> HIDE DEF at, N
<1>3. SUFFICES ASSUME T # {} PROVE FALSE
  <2>1. N \in 0..N
    BY <1>1
  <2> QED
    BY <2>1 DEF at, N
<1>4. PICK i \in T : \A j \in T : i <= j
  <2>1. T \in SUBSET Nat
    BY <1>1
  <2> HIDE DEF T
  <2> QED
    BY <1>3, <2>1, LeastNumber
<1>5. i # 0
  <2>1. at(0) = k
    <3>1. 0 \in 0..N
      BY <1>1
    <3> QED
      BY <1>2, <3>1, Zenon
  <2> QED
    BY <2>1
<1>6. i - 1 \in 0..N /\ i \in Conns /\ i \in 0..N
  BY <1>1, <1>5
<1>7. Fits(at(i - 1), cn)
  <2>1. i - 1 \notin T
    <3> HIDE DEF T
    <3> QED
      BY <1>1, <1>4, <1>6
  <2> QED
    BY <1>6, <2>1
<1>8. Fits(applyNew(at(i - 1), i, conn[i].total, conn[i].closedAt), cn)
  <2>1. /\ conn[i].total \in Nat /\ conn[i].closedAt \in Nat
        /\ conn[i].closedAt # 0 => conn[i].st = "closed"
    BY <1>6, TelemetryAssumptions, SMTT(60) DEF ConnsOK, Connections
  <2>2. conn[i].total <= cn[i].total /\ conn[i].total <= cn[i].sent
    BY <1>6, <2>1
  <2> QED
    BY <1>6, <1>7, <2>1, <2>2, ApplyNewFits
<1>9. Fits(at(i), cn)
  BY <1>2, <1>5, <1>6, <1>7, <1>8
<1> QED
  BY <1>4, <1>9

LEMMA ResetFits ==
  ASSUME NEW cn, ConnsOK(cn), ConnsOK(conn),
         \A c \in Conns : cn[c].total = conn[c].total /\ cn[c].st = conn[c].st
                          /\ cn[c].sent = conn[c].total,
         NEW k, Fits(k, cn)
  PROVE  Fits(applyReset(k), cn)
<1> DEFINE begun == [k EXCEPT !.resets = @ + (IF k.subscribed THEN 1 ELSE 0), !.subscribed = TRUE]
           mentioned == {c \in Conns : conn[c].st = "open" \/ Contains(ring, c)}
<1>1. /\ begun \in Collectors /\ begun.buckets = k.buckets /\ begun.live = k.live
      /\ begun.accounted = k.accounted
  <2>1. k \in Collectors
    BY DEF Fits
  <2> DEFINE n == k.resets + (IF k.subscribed THEN 1 ELSE 0)
  <2>2. n \in Nat
    BY <2>1 DEF Collectors
  <2>3. begun = [k EXCEPT !.resets = n, !.subscribed = TRUE]
    OBVIOUS
  <2> HIDE DEF n, begun
  <2> QED
    BY <2>1, <2>2, <2>3 DEF Collectors
<1>2. applyReset(k) = sweepStale(replay(begun, mentioned)[Cardinality(Conns)], mentioned)
  BY DEF applyReset
<1> HIDE DEF begun, mentioned
<1>3. Fits(begun, cn)
  BY <1>1 DEF Fits, Capped, Tracked
<1> QED
  BY <1>2, <1>3, ReplayFits, SweepFits

----------------------------------------------------------------------------
(* The steps *)

LEMMA FaultCounted == ASSUME HistoryOK, Fault PROVE faults' \in 0..MaxFaults
BY TelemetryAssumptions DEF HistoryOK, Fault

LEMMA ChangeCounted == ASSUME HistoryOK, Change PROVE changes' \in 0..MaxChanges /\ changes + 1 \in Nat
BY TelemetryAssumptions DEF HistoryOK, Change

\* A collector that fits is one.
LEMMA FitsIsSome == ASSUME NEW k, NEW cn, Fits(k, cn) PROVE k # None
BY NoneIsNothing DEF Fits

\* What reports hold and the server has recorded outlives every growth of the
\* connections.
LEMMA ReportsGrow ==
  ASSUME TelemetryInv, ConnsOK(conn'), Grown(conn, conn'),
         UNCHANGED <<saved, pc, draft, server>>, collector # None => collector' # None
  PROVE  ReportsOK' /\ ServerOK'
<1>1. ConnsOK(conn)
  BY DEF TelemetryInv, SingBoxOK
<1>2. UNCHANGED <<saved, pc, draft>> /\ UNCHANGED <<telemetry, rows, reports, covered, sources>>
  BY DEF server
<1>3. saved.pending # None => Within(saved.pending.buckets, conn')
  BY <1>1, WithinGrows DEF TelemetryInv, ReportsOK
<1>4. draft # None => Within(draft.buckets, conn')
  BY <1>1, WithinGrows DEF TelemetryInv, ReportsOK
<1>5. Within(rows, conn')
  BY <1>1, WithinGrows DEF TelemetryInv, ServerOK
<1>6. ReportsOK'
  <2>1. pc' = "drained" => collector' # None
    BY <1>2 DEF TelemetryInv, ReportsOK
  <2> QED
    BY <1>2, <1>3, <1>4, <2>1 DEF TelemetryInv, ReportsOK
<1>7. ServerOK'
  <2>1. NodeConnectionTelemetryEnabled' = NodeConnectionTelemetryEnabled
    BY <1>2 DEF NodeConnectionTelemetryEnabled
  <2>2. Within(rows', conn')
    BY <1>2, <1>5
  <2> QED
    BY <1>2, <2>1, <2>2 DEF TelemetryInv, ServerOK
<1> QED
  BY <1>6, <1>7

\* A step that leaves the connections alone changes nothing about them.
LEMMA SingBoxStill ==
  ASSUME SingBoxOK, UNCHANGED <<now, singbox>>
  PROVE  SingBoxOK' /\ conn' = conn
BY DEF SingBoxOK, singbox, ConnsOK

\* An event that is delivered or dropped leaves the collector right.
LEMMA DeliverOK ==
  ASSUME TelemetryInv, ConnsOK(conn'), Grown(conn, conn'), NEW k, linked => Fits(k, conn'),
         NEW loses, Deliver(k, loses), UNCHANGED <<linked, disk>>
  PROVE  /\ CollectorOK'
         /\ collector # None => collector' # None
         /\ gap' \in BOOLEAN /\ faults' \in 0..MaxFaults
<1>1. collector # None => Fits(collector, conn')
  BY FitsGrows DEF TelemetryInv, SingBoxOK, CollectorOK
<1>2. linked \in BOOLEAN /\ (linked => collector # None) /\ disk \in Nat \cup {None}
  BY DEF TelemetryInv, CollectorOK
<1>3. collector' = collector \/ (linked /\ collector' = k)
  BY <1>2 DEF Deliver
<1>4. collector' # None => Fits(collector', conn')
  BY <1>1, <1>3
<1>5. collector # None => collector' # None
  BY <1>3, FitsIsSome
<1>6. gap' \in BOOLEAN
  BY DEF Deliver
<1>7. faults' \in 0..MaxFaults
  BY FaultCounted DEF Deliver, TelemetryInv, HistoryOK
<1>8. CollectorOK'
  BY <1>2, <1>4, <1>5 DEF CollectorOK
<1> QED
  BY <1>5, <1>6, <1>7, <1>8

LEMMA OpenKeeps ==
  ASSUME TelemetryInv, NEW c \in Conns, Open(c) PROVE TelemetryInv'
<1> DEFINE cn == [conn EXCEPT ![c].st = "open"]
<1>1. ConnsOK(conn) /\ conn \in [Conns -> Connections] /\ conn[c].st = "none"
  BY DEF TelemetryInv, SingBoxOK, ConnsOK, Open
<1>2. /\ cn \in [Conns -> Connections]
      /\ \A x \in Conns : /\ cn[x].total = conn[x].total /\ cn[x].sent = conn[x].sent
                          /\ cn[x].closedAt = conn[x].closedAt
                          /\ cn[x].st = IF x = c THEN "open" ELSE conn[x].st
  BY <1>1 DEF Connections
<1>3. conn' = cn
  BY DEF Open
<1> HIDE DEF cn
<1>4. ConnsOK(conn')
  BY <1>1, <1>2, <1>3 DEF ConnsOK
<1>5. Grown(conn, conn')
  <2>1. \A x \in Conns : conn[x].total \in Nat /\ conn[x].sent \in Nat
    BY <1>1, TelemetryAssumptions, SMTT(60) DEF Connections
  <2> QED
    BY <1>1, <1>2, <1>3, <2>1 DEF Grown
<1>6. linked => Fits(IF linked THEN applyNew(collector, c, 0, 0) ELSE None, conn')
  <2> SUFFICES ASSUME linked PROVE Fits(applyNew(collector, c, 0, 0), conn')
    OBVIOUS
  <2>1. Fits(collector, conn')
    BY <1>1, <1>4, <1>5, FitsGrows DEF TelemetryInv, CollectorOK
  <2>2. 0 <= conn'[c].total /\ 0 <= conn'[c].sent
    BY <1>4, TelemetryAssumptions DEF ConnsOK, Connections
  <2> QED
    BY <1>4, <2>1, <2>2, ApplyNewFits
<1>7. /\ CollectorOK' /\ (collector # None => collector' # None)
      /\ gap' \in BOOLEAN /\ faults' \in 0..MaxFaults
  BY <1>4, <1>5, <1>6, DeliverOK DEF Open
<1>8. ReportsOK' /\ ServerOK'
  BY <1>4, <1>5, <1>7, ReportsGrow DEF Open
<1>9. SingBoxOK' /\ HistoryOK'
  BY <1>4, <1>7 DEF Open, TelemetryInv, SingBoxOK, HistoryOK
<1> QED
  BY <1>7, <1>8, <1>9 DEF TelemetryInv

LEMMA TrafficKeeps ==
  ASSUME TelemetryInv, NEW c \in Conns, Traffic(c) PROVE TelemetryInv'
<1> DEFINE cn == [conn EXCEPT ![c].total = @ + 1]
<1>1. ConnsOK(conn) /\ conn \in [Conns -> Connections] /\ conn[c].total < MaxBytes
  BY DEF TelemetryInv, SingBoxOK, ConnsOK, Traffic
<1>2. \A x \in Conns : conn[x].total \in 0..MaxBytes /\ conn[x].sent \in 0..MaxBytes
  BY <1>1 DEF Connections
<1>3. conn[c].total + 1 \in 0..MaxBytes
  BY <1>1, <1>2, TelemetryAssumptions
<1>4. /\ cn \in [Conns -> Connections]
      /\ \A x \in Conns : /\ cn[x].total = IF x = c THEN conn[c].total + 1 ELSE conn[x].total
                          /\ cn[x].sent = conn[x].sent
                          /\ cn[x].closedAt = conn[x].closedAt
                          /\ cn[x].st = conn[x].st
  <2> DEFINE t == conn[c].total + 1
  <2>1. cn = [conn EXCEPT ![c].total = t]
    OBVIOUS
  <2> HIDE DEF t, cn
  <2>2. t \in 0..MaxBytes
    BY <1>3 DEF t
  <2>3. /\ cn \in [Conns -> Connections]
        /\ \A x \in Conns : /\ cn[x].total = IF x = c THEN t ELSE conn[x].total
                            /\ cn[x].sent = conn[x].sent
                            /\ cn[x].closedAt = conn[x].closedAt
                            /\ cn[x].st = conn[x].st
    BY <1>1, <2>1, <2>2 DEF Connections
  <2> QED
    BY <2>3 DEF t
<1>5. conn' = cn
  BY DEF Traffic
<1> HIDE DEF cn
<1>6. ASSUME NEW x \in Conns
      PROVE  /\ conn[x].sent \in Int /\ conn'[x].sent = conn[x].sent
             /\ conn[x].total \in Int /\ conn'[x].total \in Int /\ conn[x].total <= conn'[x].total
             /\ conn'[x].closedAt = conn[x].closedAt /\ conn'[x].st = conn[x].st
  <2>1. /\ conn'[x].total = IF x = c THEN conn[c].total + 1 ELSE conn[x].total
        /\ conn'[x].sent = conn[x].sent
        /\ conn'[x].closedAt = conn[x].closedAt /\ conn'[x].st = conn[x].st
    BY <1>4, <1>5
  <2>2. conn[x].total \in Int /\ conn[x].sent \in Int
    BY <1>2
  <2> QED
    BY <2>1, <2>2
<1>7. ConnsOK(conn') /\ Grown(conn, conn')
  <2>1. conn' \in [Conns -> Connections]
    BY <1>4, <1>5
  <2>2. ASSUME NEW x \in Conns
        PROVE  conn'[x].sent <= conn'[x].total /\ (conn'[x].closedAt # 0 => conn'[x].st = "closed")
    <3>1. conn[x].sent <= conn[x].total /\ (conn[x].closedAt # 0 => conn[x].st = "closed")
      BY <1>1 DEF ConnsOK
    <3> QED
      BY <1>6, <3>1
  <2>3. Grown(conn, conn')
    <3>1. \A x \in Conns : conn[x].sent <= conn'[x].sent
      BY <1>6
    <3> QED
      BY <1>6, <3>1 DEF Grown
  <2> QED
    BY <2>1, <2>2, <2>3 DEF ConnsOK
<1>8. UNCHANGED <<linked, collector, disk, saved, pc, draft, server>>
  BY DEF Traffic, agent
<1>9. CollectorOK'
  BY <1>1, <1>7, <1>8, FitsGrows DEF TelemetryInv, CollectorOK
<1>10. ReportsOK' /\ ServerOK'
  BY <1>7, <1>8, ReportsGrow
<1>11. SingBoxOK' /\ HistoryOK'
  BY <1>7 DEF Traffic, TelemetryInv, SingBoxOK, HistoryOK
<1> QED
  BY <1>9, <1>10, <1>11 DEF TelemetryInv

LEMMA UpdateKeeps ==
  ASSUME TelemetryInv, NEW c \in Conns, Update(c) PROVE TelemetryInv'
<1> DEFINE cn == [conn EXCEPT ![c].sent = conn[c].total]
           delta == conn[c].total - conn[c].sent
<1>1. ConnsOK(conn) /\ conn \in [Conns -> Connections]
  BY DEF TelemetryInv, SingBoxOK, ConnsOK
<1>2. \A x \in Conns : /\ conn[x].total \in Nat /\ conn[x].sent \in Nat
                       /\ conn[x].sent <= conn[x].total
  BY <1>1, TelemetryAssumptions DEF Connections, ConnsOK
<1>3. /\ cn \in [Conns -> Connections]
      /\ \A x \in Conns : /\ cn[x].total = conn[x].total
                          /\ cn[x].sent = IF x = c THEN conn[c].total ELSE conn[x].sent
                          /\ cn[x].closedAt = conn[x].closedAt
                          /\ cn[x].st = conn[x].st
  BY <1>1 DEF Connections
<1>4. conn' = cn
  BY DEF Update
<1> HIDE DEF cn
<1>5. ConnsOK(conn')
  BY <1>1, <1>2, <1>3, <1>4 DEF ConnsOK
<1>6. Grown(conn, conn')
  BY <1>2, <1>3, <1>4 DEF Grown
<1>7. linked /\ Fits(collector, conn)
  BY DEF Update, TelemetryInv, CollectorOK
<1>8. Fits(applyUpdate(collector, c, delta), conn')
  <2>1. Fits(collector, conn')
    BY <1>1, <1>5, <1>6, <1>7, FitsGrows
  <2>2. delta \in Nat
    BY <1>2
  <2>3. collector.live[c] # None => collector.live[c] + delta <= conn'[c].sent
    <3> SUFFICES ASSUME collector.live[c] # None PROVE collector.live[c] + delta <= conn'[c].sent
      OBVIOUS
    <3>1. collector.live[c] \in Nat /\ collector.live[c] <= conn[c].sent
      BY <1>7 DEF Fits, Collectors
    <3> QED
      BY <1>2, <1>3, <1>4, <3>1
  <2> HIDE DEF delta
  <2> QED
    BY <1>5, <2>1, <2>2, <2>3, ApplyUpdateFits
<1>9. Deliver(applyUpdate(collector, c, delta), FALSE) /\ UNCHANGED <<linked, disk>>
  BY DEF Update
<1> HIDE DEF delta
<1>10. /\ CollectorOK' /\ (collector # None => collector' # None)
       /\ gap' \in BOOLEAN /\ faults' \in 0..MaxFaults
  BY <1>5, <1>6, <1>8, <1>9, DeliverOK
<1>11. ReportsOK' /\ ServerOK'
  BY <1>5, <1>6, <1>10, ReportsGrow DEF Update
<1>12. SingBoxOK' /\ HistoryOK'
  BY <1>5, <1>10 DEF Update, TelemetryInv, SingBoxOK, HistoryOK
<1> QED
  BY <1>10, <1>11, <1>12 DEF TelemetryInv

LEMMA CloseKeeps ==
  ASSUME TelemetryInv, NEW c \in Conns, Close(c) PROVE TelemetryInv'
<1> DEFINE cn == [conn EXCEPT ![c].st = "closed", ![c].closedAt = now', ![c].sent = conn[c].total]
           grown == Append(ring, c)
<1>1. ConnsOK(conn) /\ conn \in [Conns -> Connections] /\ ring \in Seq(Conns) /\ Len(ring) <= RingSize
  BY DEF TelemetryInv, SingBoxOK, ConnsOK
<1>2. \A x \in Conns : /\ conn[x].total \in Nat /\ conn[x].sent \in Nat
                       /\ conn[x].sent <= conn[x].total
  BY <1>1, TelemetryAssumptions DEF Connections, ConnsOK
<1>3. now' \in 0..MaxTime
  BY TelemetryAssumptions DEF Close, larger, TelemetryInv, SingBoxOK
<1>4. /\ cn \in [Conns -> Connections]
      /\ \A x \in Conns : /\ cn[x].total = conn[x].total
                          /\ cn[x].sent = IF x = c THEN conn[c].total ELSE conn[x].sent
                          /\ cn[x].closedAt = IF x = c THEN now' ELSE conn[x].closedAt
                          /\ cn[x].st = IF x = c THEN "closed" ELSE conn[x].st
  BY <1>1, <1>3 DEF Connections
<1>5. conn' = cn
  BY DEF Close
<1> HIDE DEF cn
<1>6. ConnsOK(conn')
  BY <1>1, <1>2, <1>4, <1>5 DEF ConnsOK
<1>7. Grown(conn, conn')
  BY <1>2, <1>4, <1>5 DEF Grown
<1>8. ring' \in Seq(Conns) /\ Len(ring') <= RingSize
  <2>1. grown \in Seq(Conns) /\ Len(grown) = Len(ring) + 1
    BY <1>1
  <2>2. Tail(grown) \in Seq(Conns) /\ Len(Tail(grown)) = Len(ring)
    BY <1>1, <2>1
  <2>3. ring' = IF Len(grown) > RingSize THEN Tail(grown) ELSE grown
    BY DEF Close
  <2> HIDE DEF grown
  <2> QED
    BY <1>1, <2>1, <2>2, <2>3, TelemetryAssumptions
<1>9. linked => Fits(IF linked THEN applyClosed(collector, c, conn[c].total, now') ELSE None, conn')
  <2> SUFFICES ASSUME linked PROVE Fits(applyClosed(collector, c, conn[c].total, now'), conn')
    OBVIOUS
  <2>1. Fits(collector, conn')
    BY <1>1, <1>6, <1>7, FitsGrows DEF TelemetryInv, CollectorOK
  <2>2. conn[c].total <= conn'[c].total /\ conn'[c].st = "closed"
    BY <1>2, <1>4, <1>5
  <2>3. conn[c].total \in Nat /\ now' \in Nat
    BY <1>2, <1>3
  <2> QED
    BY <1>6, <2>1, <2>2, <2>3, ApplyClosedFits
<1>10. Deliver(IF linked THEN applyClosed(collector, c, conn[c].total, now') ELSE None, TRUE)
       /\ UNCHANGED <<linked, disk>>
  BY DEF Close
<1>11. /\ CollectorOK' /\ (collector # None => collector' # None)
       /\ gap' \in BOOLEAN /\ faults' \in 0..MaxFaults
  BY <1>6, <1>7, <1>9, <1>10, DeliverOK
<1>12. ReportsOK' /\ ServerOK'
  BY <1>6, <1>7, <1>11, ReportsGrow DEF Close
<1>13. SingBoxOK' /\ HistoryOK'
  BY <1>3, <1>6, <1>8, <1>11 DEF Close, TelemetryInv, SingBoxOK, HistoryOK
<1> QED
  BY <1>11, <1>12, <1>13 DEF TelemetryInv

LEMMA SubscribeKeeps == ASSUME TelemetryInv, Subscribe PROVE TelemetryInv'
<1> DEFINE cn == [c \in Conns |-> [conn[c] EXCEPT !.sent = conn[c].total]]
<1>1. ConnsOK(conn) /\ conn \in [Conns -> Connections]
  BY DEF TelemetryInv, SingBoxOK, ConnsOK
<1>2. \A x \in Conns : /\ conn[x].total \in Nat /\ conn[x].sent \in Nat
                       /\ conn[x].sent <= conn[x].total
  BY <1>1, TelemetryAssumptions DEF Connections, ConnsOK
<1>3. /\ cn \in [Conns -> Connections]
      /\ \A x \in Conns : /\ cn[x].total = conn[x].total /\ cn[x].sent = conn[x].total
                          /\ cn[x].closedAt = conn[x].closedAt
                          /\ cn[x].st = conn[x].st
  BY <1>1 DEF Connections
<1>4. conn' = cn
  BY DEF Subscribe
<1> HIDE DEF cn
<1>5. ConnsOK(conn')
  BY <1>1, <1>2, <1>3, <1>4 DEF ConnsOK
<1>6. Grown(conn, conn')
  BY <1>2, <1>3, <1>4 DEF Grown
<1>7. Fits(collector, conn')
  BY <1>1, <1>5, <1>6, FitsGrows DEF Subscribe, TelemetryInv, CollectorOK
<1>8. Fits(applyReset(collector), conn')
  <2>1. \A c \in Conns : conn'[c].total = conn[c].total /\ conn'[c].st = conn[c].st
                         /\ conn'[c].sent = conn[c].total
    BY <1>3, <1>4
  <2> QED
    BY <1>1, <1>5, <1>7, <2>1, ResetFits
<1>9. Fits(collector', conn') /\ collector' # None
  BY <1>8, FitsIsSome DEF Subscribe
<1>10. CollectorOK'
  BY <1>9 DEF Subscribe, TelemetryInv, CollectorOK
<1>11. ReportsOK' /\ ServerOK'
  BY <1>5, <1>6, <1>9, ReportsGrow DEF Subscribe
<1>12. gap' \in BOOLEAN
  BY DEF Subscribe
<1>13. SingBoxOK' /\ HistoryOK'
  BY <1>5, <1>12 DEF Subscribe, TelemetryInv, SingBoxOK, HistoryOK
<1> QED
  BY <1>10, <1>11, <1>13 DEF TelemetryInv

\* A restart of sing-box ends connections but takes nothing back.
LEMMA RestartedGrows ==
  ASSUME TelemetryInv, Restarted
  PROVE  ConnsOK(conn') /\ Grown(conn, conn')
<1> DEFINE cn == [c \in Conns |-> IF conn[c].st = "open"
                                  THEN [conn[c] EXCEPT !.st = "gone", !.sent = conn[c].total]
                                  ELSE conn[c]]
<1>1. ConnsOK(conn) /\ conn \in [Conns -> Connections]
  BY DEF TelemetryInv, SingBoxOK, ConnsOK
<1>2. \A x \in Conns : /\ conn[x].total \in Nat /\ conn[x].sent \in Nat
                       /\ conn[x].sent <= conn[x].total
  BY <1>1, TelemetryAssumptions DEF Connections, ConnsOK
<1>3. /\ cn \in [Conns -> Connections]
      /\ \A x \in Conns : /\ cn[x].total = conn[x].total
                          /\ cn[x].sent = IF conn[x].st = "open" THEN conn[x].total ELSE conn[x].sent
                          /\ cn[x].closedAt = conn[x].closedAt
                          /\ cn[x].st = IF conn[x].st = "open" THEN "gone" ELSE conn[x].st
  BY <1>1 DEF Connections
<1>4. conn' = cn
  BY DEF Restarted
<1> HIDE DEF cn
<1>5. ConnsOK(conn')
  BY <1>1, <1>2, <1>3, <1>4 DEF ConnsOK
<1>6. Grown(conn, conn')
  BY <1>2, <1>3, <1>4 DEF Grown
<1> QED
  BY <1>5, <1>6

LEMMA RestartKeeps ==
  ASSUME TelemetryInv, SingBoxRestarts \/ ApplyConfig
  PROVE  TelemetryInv'
<1>1. Restarted /\ UNCHANGED <<now, collector, saved, pc, draft, server, changes>>
  BY DEF SingBoxRestarts, ApplyConfig
<1>2. ConnsOK(conn') /\ Grown(conn, conn')
  BY <1>1, RestartedGrows
<1>3. disk' \in Nat \cup {None}
  BY DEF SingBoxRestarts, ApplyConfig, connectionTelemetryService, NodeConnectionTelemetryEnabled,
         TelemetryInv, CollectorOK, ServerOK, TelemetryRows
<1>4. collector # None => Fits(collector, conn')
  BY <1>2, FitsGrows DEF TelemetryInv, SingBoxOK, CollectorOK
<1>5. CollectorOK'
  BY <1>1, <1>3, <1>4 DEF Restarted, CollectorOK
<1>6. ReportsOK' /\ ServerOK'
  BY <1>1, <1>2, ReportsGrow
<1>7. faults' \in 0..MaxFaults
  BY FaultCounted DEF SingBoxRestarts, ApplyConfig, TelemetryInv, HistoryOK
<1>8. ring' \in Seq(Conns) /\ Len(ring') <= RingSize
  <2>1. ring' = << >> /\ RingSize \in Nat
    BY <1>1, TelemetryAssumptions DEF Restarted
  <2> QED
    BY <2>1
<1>9. SingBoxOK'
  BY <1>1, <1>2, <1>8 DEF TelemetryInv, SingBoxOK
<1>10. HistoryOK'
  BY <1>1, <1>7 DEF Restarted, TelemetryInv, HistoryOK
<1> QED
  BY <1>5, <1>6, <1>9, <1>10 DEF TelemetryInv

LEMMA DisconnectKeeps == ASSUME TelemetryInv, Disconnect PROVE TelemetryInv'
<1>1. SingBoxOK' /\ conn' = conn
  BY SingBoxStill DEF Disconnect, TelemetryInv
<1>2. UNCHANGED <<collector, disk, saved, pc, draft, server>> /\ linked' = FALSE
  BY DEF Disconnect
<1>3. ConnsOK(conn') /\ Grown(conn, conn')
  BY <1>1, TelemetryAssumptions, SMTT(60) DEF SingBoxOK, ConnsOK, Connections, Grown
<1>4. CollectorOK'
  BY <1>1, <1>2 DEF TelemetryInv, CollectorOK
<1>5. ReportsOK' /\ ServerOK'
  BY <1>2, <1>3, ReportsGrow
<1>6. HistoryOK'
  BY FaultCounted DEF Disconnect, TelemetryInv, HistoryOK
<1> QED
  BY <1>1, <1>4, <1>5, <1>6 DEF TelemetryInv

\* The steps of the agent: the connections stand still.
LEMMA CollectorStill ==
  ASSUME CollectorOK, UNCHANGED <<linked, collector, disk, conn>> PROVE CollectorOK'
BY DEF CollectorOK

LEMMA ServerStill ==
  ASSUME ServerOK, saved.sequence \in Nat, saved'.sequence \in Nat, saved.sequence <= saved'.sequence,
         UNCHANGED <<server, conn>>
  PROVE  ServerOK'
<1>1. UNCHANGED <<telemetry, rows, reports, covered, sources>>
  BY DEF server
<1>2. NodeConnectionTelemetryEnabled' = NodeConnectionTelemetryEnabled
  BY <1>1 DEF NodeConnectionTelemetryEnabled
<1>3. reports' \subseteq 1..saved'.sequence
  BY <1>1 DEF ServerOK
<1>4. Within(rows', conn')
  BY <1>1 DEF ServerOK
<1> QED
  BY <1>1, <1>2, <1>3, <1>4 DEF ServerOK

\* A fresh collector fits whatever there is.
LEMMA NewFits ==
  ASSUME NEW cn, ConnsOK(cn), NEW secret \in Nat, NEW high \in Nat
  PROVE  Fits(newConnectionCollector(secret, high), cn)
<1> DEFINE k == newConnectionCollector(secret, high)
           empty == [c \in Conns |-> Nothing]
<1>1. Within(empty, cn) /\ empty \in [Conns -> Snapshots]
  BY NothingWithin DEF Within
<1>2. k = [secret |-> secret, subscribed |-> FALSE,
           live |-> [c \in Conns |-> None], accounted |-> <<>>, buckets |-> empty,
           startup |-> high, high |-> high, bytes |-> 0, resets |-> 0, dropped |-> 0]
  BY DEF newConnectionCollector
<1>3. Bucketed(empty) = {}
  BY DEF Bucketed
<1> HIDE DEF empty, k
<1>4. <<>> \in Seq(Conns) /\ Len(<<>>) = 0
  OBVIOUS
<1>5. /\ k \in Collectors /\ k.live = [c \in Conns |-> None] /\ k.buckets = empty
      /\ k.accounted = <<>>
  BY <1>1, <1>2, <1>4 DEF Collectors
<1>6. Tracked(k) = {}
  BY <1>5 DEF Tracked
<1>7. Capped(k)
  <2>1. Cardinality(Tracked(k)) = 0 /\ Cardinality(Bucketed(k.buckets)) = 0
    BY <1>3, <1>5, <1>6, FS_EmptySet
  <2>2. Len(k.accounted) = 0
    BY <1>4, <1>5
  <2>3. MaxTracked \in Nat /\ MaxBuckets \in Nat /\ AccountedLimit \in Nat
    BY TelemetryAssumptions
  <2> QED
    BY <2>1, <2>2, <2>3 DEF Capped
<1> QED
  BY <1>1, <1>5, <1>7 DEF Fits, k

LEMMA ReconcileKeeps == ASSUME TelemetryInv, reconcileConnectionCollector PROVE TelemetryInv'
<1>1. SingBoxOK' /\ conn' = conn /\ ConnsOK(conn)
  BY SingBoxStill DEF reconcileConnectionCollector, TelemetryInv, SingBoxOK
<1>2. UNCHANGED <<disk, saved, pc, draft, server, changes, faults>> /\ linked' = FALSE /\ pc = "idle"
  BY DEF reconcileConnectionCollector
<1>3. collector' # None => Fits(collector', conn)
  <2>1. CASE disk = None
    BY <2>1 DEF reconcileConnectionCollector
  <2>2. CASE disk # None
    <3>1. disk \in Nat /\ saved.high \in Nat
      BY <2>2 DEF TelemetryInv, CollectorOK, ReportsOK
    <3>2. Fits(newConnectionCollector(disk, saved.high), conn)
      BY <1>1, <3>1, NewFits
    <3>3. collector' = newConnectionCollector(disk, saved.high)
      BY <2>2 DEF reconcileConnectionCollector
    <3> QED
      BY <3>2, <3>3
  <2> QED
    BY <2>1, <2>2
<1>4. CollectorOK'
  BY <1>1, <1>2, <1>3 DEF TelemetryInv, CollectorOK
<1>5. ReportsOK'
  BY <1>1, <1>2 DEF TelemetryInv, ReportsOK
<1>6. ServerOK'
  BY <1>1, <1>2, ServerStill DEF TelemetryInv, ReportsOK
<1>7. gap' \in BOOLEAN
  BY DEF reconcileConnectionCollector
<1>8. HistoryOK'
  BY <1>2, <1>7 DEF TelemetryInv, HistoryOK
<1> QED
  BY <1>1, <1>4, <1>5, <1>6, <1>8 DEF TelemetryInv

\* The steps of ReportConnections that only move it on.
LEMMA MoveKeeps ==
  ASSUME TelemetryInv, ReportBegin \/ NothingToCollect \/ RequestLost \/ AdmitReport
  PROVE  TelemetryInv'
<1>1. UNCHANGED <<now, singbox, linked, collector, disk, saved, draft, server, gap, changes>>
  BY DEF ReportBegin, NothingToCollect, RequestLost, AdmitReport
<1>2. SingBoxOK' /\ conn' = conn
  BY <1>1, SingBoxStill DEF TelemetryInv
<1>3. CollectorOK'
  BY <1>1, <1>2, CollectorStill DEF TelemetryInv
<1>4. ServerOK'
  BY <1>1, <1>2, ServerStill DEF TelemetryInv, ReportsOK
<1>5. /\ pc' \in {"idle", "resend", "readmitted", "collect", "drained", "send", "admitted"}
      /\ pc' \in {"resend", "readmitted", "send", "admitted"} => saved.pending # None
      /\ pc' # "drained"
  BY DEF ReportBegin, NothingToCollect, RequestLost, AdmitReport, TelemetryInv, ReportsOK
<1>6. ReportsOK'
  BY <1>1, <1>2, <1>5 DEF TelemetryInv, ReportsOK
<1>7. faults' \in 0..MaxFaults
  BY FaultCounted DEF ReportBegin, NothingToCollect, RequestLost, AdmitReport, TelemetryInv, HistoryOK
<1>8. HistoryOK'
  BY <1>1, <1>7 DEF TelemetryInv, HistoryOK
<1> QED
  BY <1>2, <1>3, <1>4, <1>6, <1>8 DEF TelemetryInv

LEMMA DrainKeeps == ASSUME TelemetryInv, Drain PROVE TelemetryInv'
<1> DEFINE empty == [c \in Conns |-> Nothing]
           k == [collector EXCEPT !.buckets = empty, !.bytes = 0, !.resets = 0, !.dropped = 0]
           d == [bytes |-> collector.bytes, buckets |-> collector.buckets]
<1>1. SingBoxOK' /\ conn' = conn /\ ConnsOK(conn)
  BY SingBoxStill DEF Drain, TelemetryInv, SingBoxOK
<1>2. UNCHANGED <<linked, disk, saved, server, gap, changes, faults>> /\ pc' = "drained"
  BY DEF Drain
<1>3. Fits(collector, conn) /\ collector \in Collectors /\ Capped(collector) /\ Within(collector.buckets, conn)
  BY DEF Drain, TelemetryInv, CollectorOK, Fits
<1>4. Within(empty, conn) /\ empty \in [Conns -> Snapshots] /\ Bucketed(empty) = {}
  BY <1>1, NothingWithin DEF Within, Bucketed
<1>5. collector' = k /\ (draft' = None \/ draft' = d)
  BY DEF Drain
<1> HIDE DEF empty
<1>6. /\ k \in Collectors /\ k.buckets = empty /\ k.live = collector.live
      /\ k.accounted = collector.accounted
  BY <1>3, <1>4 DEF Collectors
<1> HIDE DEF k
<1>7. Capped(k)
  <2>1. Tracked(k) = Tracked(collector)
    BY <1>6 DEF Tracked
  <2>2. Cardinality(Bucketed(k.buckets)) = 0 /\ MaxBuckets \in Nat
    BY <1>4, <1>6, FS_EmptySet, TelemetryAssumptions
  <2> QED
    BY <1>3, <1>6, <2>1, <2>2 DEF Capped
<1>8. Fits(k, conn)
  BY <1>3, <1>4, <1>6, <1>7 DEF Fits
<1>9. CollectorOK'
  BY <1>1, <1>2, <1>5, <1>8, FitsIsSome DEF TelemetryInv, CollectorOK
<1>10. d \in Drafts /\ d.buckets = collector.buckets
  BY <1>3 DEF Collectors, Drafts
<1> HIDE DEF d
<1>11. draft' \in Drafts \cup {None} /\ (draft' # None => Within(draft'.buckets, conn'))
  BY <1>1, <1>3, <1>5, <1>10
<1>12. collector' # None
  BY <1>5, <1>8, FitsIsSome
<1>13. ReportsOK'
  BY <1>1, <1>2, <1>11, <1>12 DEF TelemetryInv, ReportsOK
<1>14. ServerOK'
  BY <1>1, <1>2, ServerStill DEF TelemetryInv, ReportsOK
<1>15. HistoryOK'
  BY <1>2 DEF TelemetryInv, HistoryOK
<1> QED
  BY <1>1, <1>9, <1>13, <1>14, <1>15 DEF TelemetryInv

\* What a report is built of is what it holds.
LEMMA BuiltReport ==
  ASSUME TelemetryInv, NEW d \in Drafts, Within(d.buckets, conn), collector # None
  PROVE  LET built == buildConnectionReport(d)
         IN  /\ built \in [sequence : Nat, high : Nat, pending : Reports \cup {None}]
             /\ built.sequence = saved.sequence + 1
             /\ built.pending \in Reports
             /\ built.pending.sequence \in 1..built.sequence
             /\ Within(built.pending.buckets, conn)
<1> DEFINE r == [sequence |-> saved.sequence + 1, bytes |-> d.bytes, buckets |-> d.buckets]
           mark == larger(saved.high, collector.high)
<1>1. saved.sequence \in Nat /\ saved.high \in Nat
  BY DEF TelemetryInv, ReportsOK
<1>2. collector.high \in Nat
  BY DEF TelemetryInv, CollectorOK, Fits, Collectors
<1>3. mark \in Nat
  BY <1>1, <1>2, LargerFacts
<1>4. r \in Reports /\ r.sequence = saved.sequence + 1 /\ r.buckets = d.buckets
  BY <1>1 DEF Drafts, Reports
<1>5. buildConnectionReport(d) = [sequence |-> saved.sequence + 1, high |-> mark, pending |-> r]
  BY DEF buildConnectionReport
<1> HIDE DEF r, mark
<1> QED
  BY <1>1, <1>3, <1>4, <1>5

LEMMA MarkedState ==
  ASSUME TelemetryInv, collector # None
  PROVE  LET marked == [saved EXCEPT !.high = larger(@, collector.high)]
         IN  /\ marked \in [sequence : Nat, high : Nat, pending : Reports \cup {None}]
             /\ marked.sequence = saved.sequence /\ marked.pending = saved.pending
<1>1. saved.high \in Nat
  BY DEF TelemetryInv, ReportsOK
<1>2. collector.high \in Nat
  BY DEF TelemetryInv, CollectorOK, Fits, Collectors
<1>3. larger(saved.high, collector.high) \in Nat
  BY <1>1, <1>2, LargerFacts
<1> QED
  BY <1>3 DEF TelemetryInv, ReportsOK

LEMMA StageKeeps == ASSUME TelemetryInv, StageReport PROVE TelemetryInv'
<1>1. SingBoxOK' /\ conn' = conn
  BY SingBoxStill DEF StageReport, TelemetryInv
<1>2. UNCHANGED <<linked, collector, disk, server, gap, changes, faults>> /\ draft' = None /\ pc = "drained"
  BY DEF StageReport
<1>3. collector # None
  BY <1>2 DEF TelemetryInv, ReportsOK
<1>4. CollectorOK'
  BY <1>1, <1>2, CollectorStill DEF TelemetryInv
<1>5. /\ saved' \in [sequence : Nat, high : Nat, pending : Reports \cup {None}]
      /\ saved'.pending # None => /\ saved'.pending.sequence \in 1..saved'.sequence
                                  /\ Within(saved'.pending.buckets, conn)
      /\ pc' = "idle" \/ (pc' = "send" /\ saved'.pending # None)
      /\ saved.sequence \in Nat /\ saved.sequence <= saved'.sequence
  <2>1. saved.sequence \in Nat
    BY DEF TelemetryInv, ReportsOK
  <2>2. CASE draft = None
    <3>1. saved' = [saved EXCEPT !.high = larger(@, collector.high)] /\ pc' = "idle"
      BY <2>2 DEF StageReport
    <3>2. /\ saved' \in [sequence : Nat, high : Nat, pending : Reports \cup {None}]
          /\ saved'.sequence = saved.sequence /\ saved'.pending = saved.pending
      BY <1>3, <3>1, MarkedState
    <3> QED
      BY <2>1, <3>1, <3>2 DEF TelemetryInv, ReportsOK
  <2>3. CASE draft # None
    <3>1. saved' = buildConnectionReport(draft) /\ pc' = "send"
      BY <2>3 DEF StageReport
    <3>2. draft \in Drafts /\ Within(draft.buckets, conn)
      BY <2>3 DEF TelemetryInv, ReportsOK
    <3>3. /\ saved' \in [sequence : Nat, high : Nat, pending : Reports \cup {None}]
          /\ saved'.sequence = saved.sequence + 1
          /\ saved'.pending \in Reports
          /\ saved'.pending.sequence \in 1..saved'.sequence
          /\ Within(saved'.pending.buckets, conn)
      BY <1>3, <3>1, <3>2, BuiltReport
    <3>4. saved'.pending # None
      BY <3>3, NoneIsNothing
    <3> QED
      BY <2>1, <3>1, <3>3, <3>4
  <2> QED
    BY <2>2, <2>3
<1>6. ReportsOK'
  BY <1>1, <1>2, <1>5 DEF ReportsOK
<1>7. ServerOK'
  BY <1>1, <1>2, <1>5, ServerStill DEF TelemetryInv
<1>8. HistoryOK'
  BY <1>2 DEF TelemetryInv, HistoryOK
<1> QED
  BY <1>1, <1>4, <1>6, <1>7, <1>8 DEF TelemetryInv

LEMMA CrashKeeps == ASSUME TelemetryInv, Crash PROVE TelemetryInv'
<1>1. SingBoxOK' /\ conn' = conn
  BY SingBoxStill DEF Crash, TelemetryInv
<1>2. /\ collector' = None /\ linked' = FALSE /\ pc' = "idle" /\ draft' = None /\ gap' = TRUE
      /\ UNCHANGED <<disk, saved, server, changes>>
  BY DEF Crash, stopConnectionCollector
<1>3. CollectorOK'
  BY <1>2 DEF TelemetryInv, CollectorOK
<1>4. ReportsOK'
  BY <1>1, <1>2 DEF TelemetryInv, ReportsOK
<1>5. ServerOK'
  BY <1>1, <1>2, ServerStill DEF TelemetryInv, ReportsOK
<1>6. HistoryOK'
  BY <1>2, FaultCounted DEF Crash, TelemetryInv, HistoryOK
<1> QED
  BY <1>1, <1>3, <1>4, <1>5, <1>6 DEF TelemetryInv

LEMMA FlushKeeps == ASSUME TelemetryInv, flushConnectionsToState PROVE TelemetryInv'
<1> DEFINE d == [bytes |-> collector.bytes, buckets |-> collector.buckets]
<1>1. SingBoxOK' /\ conn' = conn
  BY SingBoxStill DEF flushConnectionsToState, TelemetryInv
<1>2. /\ collector' = None /\ linked' = FALSE /\ pc = "idle" /\ gap' = TRUE
      /\ UNCHANGED <<disk, pc, draft, server, changes>> /\ collector # None
  BY DEF flushConnectionsToState, stopConnectionCollector
<1>3. CollectorOK'
  BY <1>2 DEF TelemetryInv, CollectorOK
<1>4. collector \in Collectors /\ Within(collector.buckets, conn)
  BY <1>2 DEF TelemetryInv, CollectorOK, Fits
<1>5. d \in Drafts /\ d.buckets = collector.buckets
  BY <1>4 DEF Collectors, Drafts
<1>6. /\ saved' \in [sequence : Nat, high : Nat, pending : Reports \cup {None}]
      /\ saved'.pending # None => /\ saved'.pending.sequence \in 1..saved'.sequence
                                  /\ Within(saved'.pending.buckets, conn)
      /\ saved.sequence \in Nat /\ saved.sequence <= saved'.sequence
  <2>1. /\ saved.sequence \in Nat /\ saved.pending \in Reports \cup {None}
        /\ saved.pending # None => /\ saved.pending.sequence \in 1..saved.sequence
                                   /\ Within(saved.pending.buckets, conn)
    BY DEF TelemetryInv, ReportsOK
  <2>2. CASE Drained(collector)
    <3>1. saved' = [saved EXCEPT !.high = larger(@, collector.high)]
      BY <2>2 DEF flushConnectionsToState
    <3>2. /\ saved' \in [sequence : Nat, high : Nat, pending : Reports \cup {None}]
          /\ saved'.sequence = saved.sequence /\ saved'.pending = saved.pending
      BY <1>2, <3>1, MarkedState
    <3> QED
      BY <2>1, <3>2
  <2>3. CASE ~Drained(collector)
    <3> DEFINE built == buildConnectionReport(d)
    <3>1. saved' = IF saved.pending = None THEN built ELSE [built EXCEPT !.pending = saved.pending]
      BY <2>3 DEF flushConnectionsToState
    <3> HIDE DEF d
    <3>2. /\ built \in [sequence : Nat, high : Nat, pending : Reports \cup {None}]
          /\ built.sequence = saved.sequence + 1
          /\ built.pending.sequence \in 1..built.sequence
          /\ Within(built.pending.buckets, conn)
      BY <1>2, <1>4, <1>5, BuiltReport
    <3> HIDE DEF built
    <3>3. CASE saved.pending = None
      BY <2>1, <3>1, <3>2, <3>3
    <3>4. CASE saved.pending # None
      <4>1. /\ saved' \in [sequence : Nat, high : Nat, pending : Reports \cup {None}]
            /\ saved'.sequence = saved.sequence + 1 /\ saved'.pending = saved.pending
        BY <2>1, <3>1, <3>2, <3>4
      <4> QED
        BY <2>1, <4>1
    <3> QED
      BY <3>3, <3>4
  <2> QED
    BY <2>2, <2>3
<1>7. ReportsOK'
  BY <1>1, <1>2, <1>6 DEF TelemetryInv, ReportsOK
<1>8. ServerOK'
  BY <1>1, <1>2, <1>6, ServerStill DEF TelemetryInv
<1>9. HistoryOK'
  BY <1>2, FaultCounted DEF flushConnectionsToState, TelemetryInv, HistoryOK
<1> QED
  BY <1>1, <1>3, <1>7, <1>8, <1>9 DEF TelemetryInv

\* The steps of the server.
LEMMA RecordReportKeeps == ASSUME TelemetryInv, RecordReport PROVE TelemetryInv'
<1> DEFINE r == saved.pending
<1>1. SingBoxOK' /\ conn' = conn
  BY SingBoxStill DEF RecordReport, TelemetryInv
<1>2. UNCHANGED <<linked, collector, disk, draft, telemetry, gap, changes>> /\ pc \in {"readmitted", "admitted"}
  BY DEF RecordReport
<1>3. CollectorOK'
  BY <1>1, <1>2, CollectorStill DEF TelemetryInv
<1>4. /\ saved.sequence \in Nat /\ r \in Reports /\ r.sequence \in 1..saved.sequence
      /\ Within(r.buckets, conn)
  BY <1>2 DEF TelemetryInv, ReportsOK
<1>5. /\ saved' \in [sequence : Nat, high : Nat, pending : Reports \cup {None}]
      /\ saved'.sequence = saved.sequence
      /\ saved'.pending = saved.pending \/ saved'.pending = None
      /\ saved'.pending = None => pc' \in {"idle", "collect"}
      /\ pc' \in {"idle", "collect"}
  <2>1. saved \in [sequence : Nat, high : Nat, pending : Reports \cup {None}]
    BY DEF TelemetryInv, ReportsOK
  <2>2. (saved' = [saved EXCEPT !.pending = None] \/ saved' = saved) /\ pc' \in {"idle", "collect"}
    BY DEF RecordReport
  <2> QED
    BY <2>1, <2>2
<1>6. ReportsOK'
  BY <1>1, <1>2, <1>5 DEF TelemetryInv, ReportsOK
<1>7. ServerOK'
  <2>1. NodeConnectionTelemetryEnabled' = NodeConnectionTelemetryEnabled
    BY <1>2 DEF NodeConnectionTelemetryEnabled
  <2>2. RecordConnectionReport(r)
    BY DEF RecordReport
  <2> HIDE DEF r
  <2>3. CASE GetConnectionReportBySequence(r.sequence)
    <3>1. UNCHANGED <<rows, reports, covered, sources>>
      BY <2>2, <2>3 DEF RecordConnectionReport
    <3>2. Within(rows', conn')
      BY <1>1, <3>1 DEF TelemetryInv, ServerOK
    <3> QED
      BY <1>1, <1>2, <1>5, <2>1, <3>1, <3>2 DEF TelemetryInv, ServerOK
  <2>4. CASE ~GetConnectionReportBySequence(r.sequence)
    <3>1. /\ reports' = reports \cup {r.sequence} /\ covered' = covered + r.bytes
          /\ sources' = IF NodeConnectionTelemetryEnabled /\ sources = 0 THEN sources + 1 ELSE sources
          /\ rows' = [c \in Conns |-> Merge(rows[c], r.buckets[c])]
      BY <2>2, <2>4 DEF RecordConnectionReport, CreateConnectionReport, ActivateNetworkStreamSource,
                        UpsertConnectionEvents
    <3>2. Within(rows', conn')
      BY <1>1, <1>4, <3>1, MergeWithin DEF TelemetryInv, ServerOK
    <3>3. covered' \in Nat
      BY <1>4, <3>1 DEF TelemetryInv, ServerOK, Reports
    <3>4. reports' \subseteq 1..saved'.sequence
      BY <1>4, <1>5, <3>1 DEF TelemetryInv, ServerOK
    <3>5. sources' \in {0, 1} /\ (~NodeConnectionTelemetryEnabled => sources' = 0)
      BY <3>1 DEF TelemetryInv, ServerOK
    <3> QED
      BY <1>2, <2>1, <3>2, <3>3, <3>4, <3>5 DEF TelemetryInv, ServerOK
  <2> QED
    BY <2>3, <2>4
<1>8. HistoryOK'
  BY <1>2, FaultCounted DEF RecordReport, TelemetryInv, HistoryOK
<1> QED
  BY <1>1, <1>3, <1>6, <1>7, <1>8 DEF TelemetryInv

\* A change of the activation row: the triggers close the interval with it.
LEMMA OperatorKeeps ==
  ASSUME TelemetryInv,
         \/ \E on \in BOOLEAN : SetNodeConnectionTelemetry(on)
         \/ RotateNodeConnectionTelemetrySecret
         \/ DeleteNodeConnectionTelemetry
  PROVE  TelemetryInv'
<1>1. Change /\ UNCHANGED <<now, singbox, agent, rows, reports, covered, gap, faults>>
  BY DEF SetNodeConnectionTelemetry, RotateNodeConnectionTelemetrySecret, DeleteNodeConnectionTelemetry
<1>2. SingBoxOK' /\ conn' = conn
  BY <1>1, SingBoxStill DEF TelemetryInv
<1>3. UNCHANGED <<linked, collector, disk, saved, pc, draft>>
  BY <1>1 DEF agent
<1>4. CollectorOK'
  BY <1>2, <1>3, CollectorStill DEF TelemetryInv
<1>5. ReportsOK'
  BY <1>2, <1>3 DEF TelemetryInv, ReportsOK
<1>6. changes + 1 \in Nat /\ changes' \in 0..MaxChanges
  BY <1>1, ChangeCounted DEF TelemetryInv
<1>7. /\ telemetry' \in TelemetryRows \cup {None}
      /\ sources' \in {0, 1}
      /\ ~NodeConnectionTelemetryEnabled' => sources' = 0
  <2>1. /\ telemetry \in TelemetryRows \cup {None} /\ sources \in {0, 1}
        /\ ~NodeConnectionTelemetryEnabled => sources = 0
    BY DEF TelemetryInv, ServerOK
  <2>2. ASSUME NEW on \in BOOLEAN, NEW secret \in Nat, UpsertNodeConnectionTelemetry(on, secret)
        PROVE  /\ telemetry' \in TelemetryRows \cup {None} /\ sources' \in {0, 1}
               /\ ~NodeConnectionTelemetryEnabled' => sources' = 0
    <3>1. telemetry' = [enabled |-> on, secret |-> secret]
      BY <2>2 DEF UpsertNodeConnectionTelemetry
    <3>2. telemetry' \in TelemetryRows /\ telemetry'.enabled = on
      BY <3>1 DEF TelemetryRows
    <3>3. NodeConnectionTelemetryEnabled' <=> on
      BY <3>2, NoneIsNothing DEF NodeConnectionTelemetryEnabled
    <3>4. IF NodeConnectionTelemetryEnabled /\ ~on THEN sources' = 0 ELSE sources' = sources
      BY <2>2 DEF UpsertNodeConnectionTelemetry, NetworkSourceDisabled
    <3> QED
      BY <2>1, <3>2, <3>3, <3>4
  <2>3. ASSUME NEW on \in BOOLEAN, SetNodeConnectionTelemetry(on)
        PROVE  \E secret \in Nat : UpsertNodeConnectionTelemetry(on, secret)
    <3>1. (IF telemetry = None THEN changes + 1 ELSE telemetry.secret) \in Nat
      BY <1>6, <2>1 DEF TelemetryRows
    <3> QED
      BY <2>3, <3>1 DEF SetNodeConnectionTelemetry
  <2>4. ASSUME RotateNodeConnectionTelemetrySecret
        PROVE  telemetry.enabled \in BOOLEAN /\ UpsertNodeConnectionTelemetry(telemetry.enabled, changes + 1)
    BY <2>1, <2>4 DEF RotateNodeConnectionTelemetrySecret, TelemetryRows
  <2>5. ASSUME DeleteNodeConnectionTelemetry
        PROVE  /\ telemetry' \in TelemetryRows \cup {None} /\ sources' \in {0, 1}
               /\ ~NodeConnectionTelemetryEnabled' => sources' = 0
    BY <2>5 DEF DeleteNodeConnectionTelemetry, DeleteNodeConnectionTelemetryRow, NetworkSourceDisabled
  <2> QED
    BY <1>6, <2>2, <2>3, <2>4, <2>5
<1>8. ServerOK'
  <2>1. Within(rows', conn')
    BY <1>1, <1>2 DEF TelemetryInv, ServerOK
  <2> QED
    BY <1>1, <1>3, <1>7, <2>1 DEF TelemetryInv, ServerOK
<1>9. HistoryOK'
  BY <1>1, <1>6 DEF TelemetryInv, HistoryOK
<1> QED
  BY <1>2, <1>4, <1>5, <1>8, <1>9 DEF TelemetryInv

----------------------------------------------------------------------------
(* The theorems *)

LEMMA InitKeeps == Init => TelemetryInv
<1> SUFFICES ASSUME Init PROVE TelemetryInv
  OBVIOUS
<1>1. ConnsOK(conn)
  BY TelemetryAssumptions DEF Init, ConnsOK, Connections
<1>2. SingBoxOK
  <2>1. ring = << >> /\ RingSize \in Nat /\ now = 0 /\ MaxTime \in Nat
    BY TelemetryAssumptions DEF Init
  <2> QED
    BY <1>1, <2>1 DEF SingBoxOK
<1>3. CollectorOK
  BY DEF Init, CollectorOK
<1>4. ReportsOK
  <2>1. saved \in [sequence : Nat, high : Nat, pending : Reports \cup {None}] /\ saved.pending = None
    BY DEF Init
  <2> QED
    BY <2>1 DEF Init, ReportsOK
<1>5. ServerOK
  <2>1. telemetry \in TelemetryRows
    BY DEF Init, TelemetryRows
  <2>2. Within(rows, conn)
    BY <1>1, NothingWithin DEF Init
  <2> QED
    BY <2>1, <2>2 DEF Init, ServerOK
<1>6. HistoryOK
  <2>1. gap \in BOOLEAN
    BY DEF Init
  <2>2. changes \in 0..MaxChanges /\ faults \in 0..MaxFaults
    BY TelemetryAssumptions DEF Init
  <2> QED
    BY <2>1, <2>2 DEF HistoryOK
<1> QED
  BY <1>2, <1>3, <1>4, <1>5, <1>6 DEF TelemetryInv

LEMMA StutterKeeps == ASSUME TelemetryInv, UNCHANGED vars PROVE TelemetryInv'
<1>1. UNCHANGED <<now, singbox, linked, collector, disk, saved, pc, draft, server, gap, changes, faults>>
  BY DEF vars, agent
<1>2. SingBoxOK' /\ conn' = conn
  BY <1>1, SingBoxStill DEF TelemetryInv
<1>3. CollectorOK'
  BY <1>1, <1>2, CollectorStill DEF TelemetryInv
<1>4. ReportsOK'
  BY <1>1, <1>2 DEF TelemetryInv, ReportsOK
<1>5. ServerOK'
  BY <1>1, <1>2, ServerStill DEF TelemetryInv, ReportsOK
<1>6. HistoryOK'
  BY <1>1 DEF TelemetryInv, HistoryOK
<1> QED
  BY <1>2, <1>3, <1>4, <1>5, <1>6 DEF TelemetryInv

\* The invariant holds in every reachable state.
LEMMA TelemetryInvariance == Spec => []TelemetryInv
<1>1. TelemetryInv /\ [Next]_vars => TelemetryInv'
  <2> SUFFICES ASSUME TelemetryInv, [Next]_vars PROVE TelemetryInv'
    OBVIOUS
  <2>1. CASE Subscribe
    BY <2>1, SubscribeKeeps
  <2>2. CASE Disconnect
    BY <2>2, DisconnectKeeps
  <2>3. CASE SingBoxRestarts \/ ApplyConfig
    BY <2>3, RestartKeeps
  <2>4. ASSUME NEW c \in Conns, Open(c) \/ Traffic(c) \/ Update(c) \/ Close(c)
        PROVE  TelemetryInv'
    BY <2>4, OpenKeeps, TrafficKeeps, UpdateKeeps, CloseKeeps
  <2>5. CASE reconcileConnectionCollector
    BY <2>5, ReconcileKeeps
  <2>6. CASE Cycle
    BY <2>6, MoveKeeps, DrainKeeps, StageKeeps, RecordReportKeeps DEF Cycle
  <2>7. CASE RequestLost
    BY <2>7, MoveKeeps
  <2>8. CASE Crash
    BY <2>8, CrashKeeps
  <2>9. CASE flushConnectionsToState
    BY <2>9, FlushKeeps
  <2>10. CASE \/ \E on \in BOOLEAN : SetNodeConnectionTelemetry(on)
              \/ RotateNodeConnectionTelemetrySecret
              \/ DeleteNodeConnectionTelemetry
    BY <2>10, OperatorKeeps
  <2>11. CASE UNCHANGED vars
    BY <2>11, StutterKeeps
  <2> QED
    BY <2>1, <2>2, <2>3, <2>4, <2>5, <2>6, <2>7, <2>8, <2>9, <2>10, <2>11 DEF Next
<1> QED
  BY <1>1, InitKeeps, PTL DEF Spec

\* The agent's collector never grows past maxTrackedConnections,
\* maxPendingConnectionBuckets and maxAccountedCloseIDs, a staged report has a
\* sequence handed out, and so has every report the server has recorded.
THEOREM TelemetryTypeCorrect == Spec => []TelemetryTypeOK
<1>1. TelemetryInv => TelemetryTypeOK
  <2> SUFFICES ASSUME TelemetryInv PROVE TelemetryTypeOK
    OBVIOUS
  <2>1. conn \in [Conns -> Connections] /\ \A c \in Conns : conn[c].sent <= conn[c].total
    BY DEF TelemetryInv, SingBoxOK, ConnsOK
  <2>2. /\ collector \in Collectors \cup {None}
        /\ collector # None => /\ Cardinality(Tracked(collector)) <= MaxTracked
                               /\ Cardinality(Bucketed(collector.buckets)) <= MaxBuckets
                               /\ Len(collector.accounted) <= AccountedLimit
    BY DEF TelemetryInv, CollectorOK, Fits, Capped
  <2>3. rows \in [Conns -> Snapshots] /\ sources \in Nat
    BY DEF TelemetryInv, ServerOK, Within
  <2> QED
    BY <2>1, <2>2, <2>3 DEF TelemetryTypeOK, TelemetryInv, SingBoxOK, CollectorOK, ReportsOK, ServerOK, HistoryOK
<1> QED
  BY <1>1, TelemetryInvariance, PTL

\* However often the stream replays, whatever is lost and whenever the agent or
\* sing-box restarts, a row of connection_events never claims bytes its
\* connection has not carried, nor a close that did not happen.
THEOREM TotalsNeverOvercount == Spec => []NeverOvercounts
<1>1. TelemetryInv => NeverOvercounts
  BY DEF TelemetryInv, ServerOK, Within, NeverOvercounts
<1> QED
  BY <1>1, TelemetryInvariance, PTL

\* At most one interval of the stream is open, and none while telemetry is off,
\* though a report admitted before may be recorded after.
THEOREM SourceFollowsSwitch == Spec => []OneSource
<1>1. TelemetryInv => OneSource
  BY DEF TelemetryInv, ServerOK, OneSource, NodeConnectionTelemetryEnabled
<1> QED
  BY <1>1, TelemetryInvariance, PTL


----------------------------------------------------------------------------
(* Sums over the connections, by induction over the identities *)

\* The recursive definition of SumOf defines a function.
LEMMA SumUnfolds ==
  ASSUME NEW f \in [Conns -> Nat]
  PROVE  \E s : /\ s \in [0..Cardinality(Conns) -> Nat] /\ SumOf(f) = s[Cardinality(Conns)]
                /\ s[0] = 0
                /\ \A i \in 1..Cardinality(Conns) : s[i] = s[i - 1] + f[i]
<1> DEFINE N == Cardinality(Conns)
           Upto(n, g) == g = [i \in 0..n |-> IF i = 0 THEN 0 ELSE g[i - 1] + f[i]]
<1>0. N \in Nat /\ Conns = 1..N
  BY ConnsFinite, TelemetryAssumptions
<1>1. SumOf(f) = (CHOOSE g : Upto(N, g))[N]
  BY DEF SumOf
<1>2. \A n \in Nat : \E g : Upto(n, g)
  <2> SUFFICES ASSUME NEW m \in Nat, ~\E g : Upto(m, g) PROVE FALSE
    OBVIOUS
  <2> DEFINE T == {n \in Nat : ~\E g : Upto(n, g)}
  <2>1. PICK n \in T : \A y \in T : n <= y
    <3>1. T \in SUBSET Nat /\ T # {}
      OBVIOUS
    <3> HIDE DEF T
    <3> QED
      BY <3>1, LeastNumber
  <2>2. n # 0
    <3>1. Upto(0, [i \in 0..0 |-> 0])
      OBVIOUS
    <3> QED
      BY <3>1
  <2>3. PICK g : Upto(n - 1, g)
    <3>1. n \in Nat
      OBVIOUS
    <3>2. n - 1 \in Nat /\ n - 1 \notin T
      <4> HIDE DEF T
      <4> QED
        BY <2>1, <2>2, <3>1
    <3> HIDE DEF Upto
    <3> QED
      BY <3>2
  <2> DEFINE last == g[n - 1] + f[n]
             h == [i \in 0..n |-> IF i = n THEN last ELSE g[i]]
  <2>4. \A i \in 0..n : h[i] = IF i = 0 THEN 0 ELSE h[i - 1] + f[i]
    <3> SUFFICES ASSUME NEW i \in 0..n PROVE h[i] = IF i = 0 THEN 0 ELSE h[i - 1] + f[i]
      OBVIOUS
    <3>1. CASE i = n
      <4>1. h[n - 1] = g[n - 1] /\ h[n] = last
        BY <2>2
      <4> HIDE DEF h
      <4> QED
        BY <2>2, <3>1, <4>1
    <3>2. CASE i # n
      <4>1. i \in 0..(n - 1) /\ h[i] = g[i]
        BY <3>2
      <4>2. g[i] = IF i = 0 THEN 0 ELSE g[i - 1] + f[i]
        BY <2>3, <4>1
      <4>3. i # 0 => h[i - 1] = g[i - 1]
        BY <4>1
      <4> QED
        BY <4>1, <4>2, <4>3
    <3> QED
      BY <3>1, <3>2
  <2>5. Upto(n, h)
    BY <2>4
  <2> QED
    BY <2>1, <2>5
<1> DEFINE s == CHOOSE g : Upto(N, g)
<1>3. Upto(N, s)
  <2>1. \E g : Upto(N, g)
    BY <1>0, <1>2
  <2> HIDE DEF Upto
  <2> QED
    BY <2>1
<1> HIDE DEF s
<1>4. s[0] = 0 /\ \A i \in 1..N : s[i] = s[i - 1] + f[i]
  <2>1. s = [i \in 0..N |-> IF i = 0 THEN 0 ELSE s[i - 1] + f[i]]
    BY <1>3
  <2>2. \A i \in 0..N : s[i] = IF i = 0 THEN 0 ELSE s[i - 1] + f[i]
    BY <2>1
  <2> QED
    BY <1>0, <2>2
<1>5. \A i \in 0..N : s[i] \in Nat
  <2> DEFINE T == {i \in 0..N : s[i] \notin Nat}
  <2> SUFFICES ASSUME T # {} PROVE FALSE
    OBVIOUS
  <2>1. PICK i \in T : \A j \in T : i <= j
    <3>1. T \in SUBSET Nat
      BY <1>0
    <3> HIDE DEF T
    <3> QED
      BY <3>1, LeastNumber
  <2>2. i # 0
    BY <1>4
  <2>3. i \in 1..N /\ i - 1 \in 0..N
    BY <1>0, <2>2
  <2>4. i - 1 \notin T
    <3> HIDE DEF T
    <3> QED
      BY <1>0, <2>1, <2>3
  <2>5. s[i - 1] \in Nat /\ f[i] \in Nat
    BY <1>0, <2>3, <2>4
  <2> QED
    BY <1>4, <2>3, <2>5
<1>6. s \in [0..N -> Nat]
  <2>1. s = [i \in 0..N |-> s[i]]
    BY <1>3
  <2> QED
    BY <1>5, <2>1
<1>7. SumOf(f) = s[N]
  BY <1>1 DEF s
<1> QED
  BY <1>4, <1>6, <1>7

\* A function that is nowhere smaller, and b larger at c, has a sum b larger.
LEMMA SumGrows ==
  ASSUME NEW f \in [Conns -> Nat], NEW g \in [Conns -> Nat], NEW c \in Nat, NEW b \in Nat,
         c \notin Conns => b = 0,
         \A x \in Conns : f[x] + (IF x = c THEN b ELSE 0) <= g[x]
  PROVE  SumOf(f) \in Nat /\ SumOf(g) \in Nat /\ SumOf(f) + b <= SumOf(g)
<1> DEFINE N == Cardinality(Conns)
<1>0. N \in Nat /\ Conns = 1..N
  BY ConnsFinite, TelemetryAssumptions
<1>1. PICK s : s \in [0..N -> Nat] /\ SumOf(f) = s[N] /\ s[0] = 0 /\ \A i \in 1..N : s[i] = s[i - 1] + f[i]
  BY SumUnfolds, ZenonT(60)
<1>2. PICK t : t \in [0..N -> Nat] /\ SumOf(g) = t[N] /\ t[0] = 0 /\ \A i \in 1..N : t[i] = t[i - 1] + g[i]
  BY SumUnfolds
<1> HIDE DEF N
<1> DEFINE T == {i \in 0..N : ~(s[i] + (IF c \in 1..i THEN b ELSE 0) <= t[i])}
<1>3. T = {}
  <2> SUFFICES ASSUME T # {} PROVE FALSE
    OBVIOUS
  <2>1. PICK i \in T : \A j \in T : i <= j
    <3>1. T \in SUBSET Nat
      BY <1>0
    <3> HIDE DEF T
    <3> QED
      BY <3>1, LeastNumber
  <2>2. i # 0
    <3>1. ~(c \in 1..0)
      OBVIOUS
    <3> QED
      BY <1>1, <1>2, <3>1
  <2>3. i \in 1..N /\ i - 1 \in 0..N
    BY <1>0, <2>2
  <2>4. i - 1 \notin T
    <3> HIDE DEF T
    <3> QED
      BY <1>0, <2>1, <2>3
  <2>5. s[i - 1] + (IF c \in 1..(i - 1) THEN b ELSE 0) <= t[i - 1]
    BY <2>3, <2>4
  <2>6. f[i] + (IF i = c THEN b ELSE 0) <= g[i] /\ f[i] \in Nat /\ g[i] \in Nat
    BY <1>0, <2>3
  <2>7. s[i] = s[i - 1] + f[i] /\ t[i] = t[i - 1] + g[i] /\ s[i - 1] \in Nat /\ t[i - 1] \in Nat
    BY <1>1, <1>2, <2>3
  <2>8. (c \in 1..i) <=> (c \in 1..(i - 1) \/ i = c)
    BY <1>0, <2>3
  <2>9. ~(c \in 1..(i - 1) /\ i = c)
    BY <1>0, <2>3
  <2>10. s[i] + (IF c \in 1..i THEN b ELSE 0) <= t[i]
    <3>1. CASE i = c
      BY <2>5, <2>6, <2>7, <2>8, <2>9, <3>1
    <3>2. CASE i # c /\ c \in 1..(i - 1)
      BY <2>5, <2>6, <2>7, <2>8, <3>2
    <3>3. CASE i # c /\ ~(c \in 1..(i - 1))
      BY <2>5, <2>6, <2>7, <2>8, <3>3
    <3> QED
      BY <3>1, <3>2, <3>3
  <2> QED
    BY <2>1, <2>10
<1>4. s[N] + (IF c \in 1..N THEN b ELSE 0) <= t[N]
  BY <1>0, <1>3, SMTT(60)
<1>5. s[N] \in Nat /\ t[N] \in Nat
  BY <1>0, <1>1, <1>2
<1> QED
  BY <1>0, <1>1, <1>2, <1>4, <1>5

----------------------------------------------------------------------------
(* The accounted set outlives the ring *)

\* The connections of the ring the collector has not accounted for.
Unaccounted(acc, rg) == {c \in Conns : Contains(rg, c) /\ ~Contains(acc, c)}

\* A connection of the ring that is accounted for at a distance from the end of
\* the accounted set is near enough to the end of the ring to leave it first:
\* each of the two distances grows with a close, and a replay adds at most the
\* ring to the first.
Outlives(acc, rg) ==
  \A p \in 1..Len(acc), q \in 1..Len(rg) :
    acc[p] = rg[q] => (Len(acc) - p) + Cardinality(Unaccounted(acc, rg)) <= (Len(rg) - q) + (RingSize - 1)

LEMMA SizesFacts ==
  /\ RingSize \in Nat /\ RingSize >= 1 /\ AccountedLimit \in Nat
  /\ AccountedLimit >= 2 * RingSize - 1 /\ AccountedLimit >= 1
BY TelemetryAssumptions

LEMMA UnaccountedFacts ==
  ASSUME NEW acc, NEW rg \in Seq(Conns)
  PROVE  /\ IsFiniteSet(Unaccounted(acc, rg))
         /\ Cardinality(Unaccounted(acc, rg)) \in Nat
         /\ Cardinality(Unaccounted(acc, rg)) <= Len(rg)
<1> DEFINE R == {c \in Conns : Contains(rg, c)}
           f == [i \in 1..Len(rg) |-> rg[i]]
<1>1. f \in Surjection(1..Len(rg), R)
  <2>1. \A i \in 1..Len(rg) : rg[i] \in R
    BY DEF Contains
  <2>2. \A c \in R : \E i \in 1..Len(rg) : rg[i] = c
    BY DEF Contains
  <2> HIDE DEF R
  <2> QED
    BY <2>1, <2>2 DEF Surjection
<1>2. IsFiniteSet(1..Len(rg)) /\ Cardinality(1..Len(rg)) = Len(rg)
  <2>1. Len(rg) \in Nat
    OBVIOUS
  <2> QED
    BY <2>1, FS_Interval, SMTT(60)
<1> HIDE DEF f, R
<1>3. IsFiniteSet(R) /\ Cardinality(R) <= Len(rg)
  BY <1>1, <1>2, FS_Surjection
<1>4. Unaccounted(acc, rg) \in SUBSET R
  BY DEF R, Unaccounted
<1>5. /\ IsFiniteSet(Unaccounted(acc, rg))
      /\ Cardinality(Unaccounted(acc, rg)) <= Cardinality(R)
  BY <1>3, <1>4, FS_Subset
<1>6. Cardinality(Unaccounted(acc, rg)) \in Nat /\ Cardinality(R) \in Nat
  BY <1>3, <1>5, FS_CardinalityType
<1> QED
  BY <1>3, <1>5, <1>6

\* A sequence that is appended to and loses its head when it is over its limit.
LEMMA ShiftFacts ==
  ASSUME NEW s \in Seq(Conns), NEW c \in Conns, NEW o \in {0, 1}, NEW t,
         t = IF o = 1 THEN Tail(Append(s, c)) ELSE Append(s, c)
  PROVE  /\ t \in Seq(Conns) /\ Len(t) = Len(s) + 1 - o
         /\ \A p \in 1..Len(t) : t[p] = IF p + o = Len(s) + 1 THEN c ELSE s[p + o]
<1> DEFINE grown == Append(s, c)
<1>1. /\ grown \in Seq(Conns) /\ Len(grown) = Len(s) + 1 /\ Len(s) \in Nat
      /\ \A p \in 1..Len(grown) : grown[p] = IF p = Len(s) + 1 THEN c ELSE s[p]
  OBVIOUS
<1>2. /\ Tail(grown) \in Seq(Conns) /\ Len(Tail(grown)) = Len(s)
      /\ \A p \in 1..Len(Tail(grown)) : Tail(grown)[p] = grown[p + 1]
  BY <1>1
<1> HIDE DEF grown
<1>3. CASE o = 1
  <2>1. t = Tail(grown)
    BY <1>3 DEF grown
  <2> QED
    BY <1>1, <1>2, <1>3, <2>1
<1>4. CASE o = 0
  <2>1. t = grown
    BY <1>4 DEF grown
  <2> QED
    BY <1>1, <1>4, <2>1
<1> QED
  BY <1>3, <1>4

\* Accounting for a connection of the ring pushes none of the ring out.
LEMMA AddOutlives ==
  ASSUME NEW acc \in Seq(Conns), Len(acc) <= AccountedLimit,
         NEW rg \in Seq(Conns), Len(rg) <= RingSize, Outlives(acc, rg),
         NEW c \in Conns, Contains(rg, c)
  PROVE  /\ Outlives(add(acc, c), rg)
         /\ Contains(add(acc, c), c)
         /\ \A x \in Conns : Contains(acc, x) /\ Contains(rg, x) => Contains(add(acc, c), x)
         /\ \A x \in Conns : Contains(add(acc, c), x) => Contains(acc, x) \/ x = c
<1>1. CASE Contains(acc, c)
  <2>1. add(acc, c) = acc
    BY <1>1 DEF add
  <2> QED
    BY <1>1, <2>1
<1>2. CASE ~Contains(acc, c)
  <2> DEFINE L == Len(acc)
             new == add(acc, c)
             o == IF L + 1 > AccountedLimit THEN 1 ELSE 0
             W == Unaccounted(acc, rg)
  <2>0. L \in Nat /\ Len(rg) \in Nat /\ o \in {0, 1} /\ L <= AccountedLimit
    OBVIOUS
  <2>1. new = IF o = 1 THEN Tail(Append(acc, c)) ELSE Append(acc, c)
    <3>1. Len(Append(acc, c)) = L + 1
      OBVIOUS
    <3> QED
      BY <1>2, <3>1 DEF add
  <2>2. /\ new \in Seq(Conns) /\ Len(new) = L + 1 - o
        /\ \A p \in 1..Len(new) : new[p] = IF p + o = L + 1 THEN c ELSE acc[p + o]
    <3> HIDE DEF new, o
    <3> QED
      BY <2>0, <2>1, ShiftFacts
  <2>3. c \in W /\ IsFiniteSet(W) /\ Cardinality(W) \in Nat /\ Cardinality(W) <= Len(rg)
    BY <1>2, UnaccountedFacts DEF Unaccounted
  <2>4. Cardinality(W \ {c}) = Cardinality(W) - 1 /\ Cardinality(W) >= 1
    <3>1. Cardinality(W \ {c}) = Cardinality(W) - 1 /\ IsFiniteSet(W \ {c})
      BY <2>3, FS_RemoveElement
    <3>2. Cardinality(W \ {c}) \in Nat
      BY <3>1, FS_CardinalityType
    <3> HIDE DEF W
    <3> QED
      BY <2>3, <3>1, <3>2
  <2>5. o = 1 => L = AccountedLimit /\ L >= 1
    BY <2>0, SizesFacts
  <2>6. ASSUME o = 1, NEW q \in 1..Len(rg), acc[1] = rg[q] PROVE FALSE
    <3>1. 1 \in 1..Len(acc) /\ L = AccountedLimit
      BY <2>0, <2>5, <2>6
    <3>2. (Len(acc) - 1) + Cardinality(W) <= (Len(rg) - q) + (RingSize - 1)
      BY <2>6, <3>1 DEF Outlives
    <3> HIDE DEF W
    <3> QED
      BY <2>0, <2>4, <2>3, <3>1, <3>2, SizesFacts
  <2> HIDE DEF o, new
  <2>7. Contains(new, c)
    <3>1. L + 1 - o \in 1..Len(new) /\ (L + 1 - o) + o = L + 1
      BY <2>0, <2>2, <2>5
    <3> QED
      BY <2>2, <3>1 DEF Contains
  <2>8. \A x \in Conns : Contains(new, x) => Contains(acc, x) \/ x = c
    <3> SUFFICES ASSUME NEW x \in Conns, Contains(new, x), x # c PROVE Contains(acc, x)
      OBVIOUS
    <3>1. PICK p \in 1..Len(new) : new[p] = x
      BY DEF Contains
    <3>2. p + o # L + 1 /\ acc[p + o] = x
      BY <2>2, <3>1
    <3>3. p + o \in 1..L
      BY <2>0, <2>2, <3>1, <3>2
    <3> QED
      BY <3>2, <3>3 DEF Contains
  <2>9. \A x \in Conns : Contains(acc, x) /\ Contains(rg, x) => Contains(new, x)
    <3> SUFFICES ASSUME NEW x \in Conns, Contains(acc, x), Contains(rg, x) PROVE Contains(new, x)
      OBVIOUS
    <3>1. PICK p \in 1..L : acc[p] = x
      BY DEF Contains
    <3>2. PICK q \in 1..Len(rg) : rg[q] = x
      BY DEF Contains
    <3>3. ~(o = 1 /\ p = 1)
      BY <2>6, <3>1, <3>2
    <3>4. p - o \in 1..Len(new) /\ (p - o) + o = p /\ p # L + 1
      BY <2>0, <2>2, <3>1, <3>3
    <3>5. new[p - o] = x
      BY <2>2, <3>1, <3>4
    <3> QED
      BY <3>4, <3>5 DEF Contains
  <2>10. Unaccounted(new, rg) = W \ {c}
    BY <1>2, <2>7, <2>8, <2>9 DEF Unaccounted
  <2>11. Outlives(new, rg)
    <3> SUFFICES ASSUME NEW p \in 1..Len(new), NEW q \in 1..Len(rg), new[p] = rg[q]
                 PROVE  (Len(new) - p) + (Cardinality(W) - 1) <= (Len(rg) - q) + (RingSize - 1)
      BY <2>4, <2>10 DEF Outlives
    <3> HIDE DEF W
    <3>1. CASE p + o = L + 1
      BY <2>0, <2>2, <2>3, <3>1, SizesFacts
    <3>2. CASE p + o # L + 1
      <4>1. p + o \in 1..L /\ acc[p + o] = rg[q]
        BY <2>0, <2>2, <3>2
      <4>2. (L - (p + o)) + Cardinality(W) <= (Len(rg) - q) + (RingSize - 1)
        BY <4>1 DEF Outlives, W
      <4> QED
        BY <2>0, <2>2, <2>3, <4>1, <4>2, SizesFacts
    <3> QED
      BY <3>1, <3>2
  <2> QED
    BY <2>7, <2>8, <2>9, <2>11 DEF new
<1> QED
  BY <1>1, <1>2

\* A close moves the ring on, whether or not the collector hears of it.
LEMMA RingOutlives ==
  ASSUME NEW acc \in Seq(Conns), NEW rg \in Seq(Conns), Len(rg) <= RingSize, Outlives(acc, rg),
         NEW c \in Conns, ~Contains(acc, c), NEW new,
         new = IF Len(Append(rg, c)) > RingSize THEN Tail(Append(rg, c)) ELSE Append(rg, c)
  PROVE  /\ Outlives(acc, new)
         /\ new \in Seq(Conns) /\ Len(new) <= RingSize
         /\ Contains(new, c)
         /\ \A x \in Conns : Contains(new, x) => Contains(rg, x) \/ x = c
<1> DEFINE L == Len(rg)
           o == IF L + 1 > RingSize THEN 1 ELSE 0
           W == Unaccounted(acc, rg)
<1>0. L \in Nat /\ o \in {0, 1} /\ L <= RingSize /\ Len(acc) \in Nat
  OBVIOUS
<1>1. new = IF o = 1 THEN Tail(Append(rg, c)) ELSE Append(rg, c)
  <2>1. Len(Append(rg, c)) = L + 1
    OBVIOUS
  <2> QED
    BY <2>1
<1>2. o = 1 => L = RingSize /\ L >= 1
  BY <1>0, SizesFacts
<1>3. o = 0 => L + 1 <= RingSize
  BY <1>0, SizesFacts
<1>4. /\ new \in Seq(Conns) /\ Len(new) = L + 1 - o
      /\ \A p \in 1..Len(new) : new[p] = IF p + o = L + 1 THEN c ELSE rg[p + o]
  <2> HIDE DEF o
  <2> QED
    BY <1>0, <1>1, ShiftFacts, SMTT(60)
<1> HIDE DEF o
<1>5. Len(new) <= RingSize
  BY <1>0, <1>2, <1>3, <1>4, SizesFacts
<1>6. Contains(new, c)
  <2>1. L + 1 - o \in 1..Len(new) /\ (L + 1 - o) + o = L + 1
    BY <1>0, <1>2, <1>4
  <2> QED
    BY <1>4, <2>1 DEF Contains
<1>7. \A x \in Conns : Contains(new, x) => Contains(rg, x) \/ x = c
  <2> SUFFICES ASSUME NEW x \in Conns, Contains(new, x), x # c PROVE Contains(rg, x)
    OBVIOUS
  <2>1. PICK p \in 1..Len(new) : new[p] = x
    BY DEF Contains
  <2>2. p + o # L + 1 /\ rg[p + o] = x
    BY <1>4, <2>1
  <2>3. p + o \in 1..L
    BY <1>0, <1>4, <2>1, <2>2
  <2> QED
    BY <2>2, <2>3 DEF Contains
<1>8. Cardinality(Unaccounted(acc, new)) <= Cardinality(W) + 1
      /\ Cardinality(Unaccounted(acc, new)) \in Nat /\ Cardinality(W) \in Nat
  <2>1. Unaccounted(acc, new) \in SUBSET (W \cup {c})
    BY <1>7 DEF Unaccounted
  <2>2. IsFiniteSet(W) /\ Cardinality(W) \in Nat
    BY UnaccountedFacts
  <2>3. IsFiniteSet(W \cup {c}) /\ Cardinality(W \cup {c}) <= Cardinality(W) + 1
    <3> HIDE DEF W
    <3>1. /\ IsFiniteSet(W \cup {c})
          /\ Cardinality(W \cup {c}) = IF c \in W THEN Cardinality(W) ELSE Cardinality(W) + 1
      BY <2>2, FS_AddElement
    <3> QED
      BY <2>2, <3>1
  <2>4. Cardinality(W \cup {c}) \in Nat
    BY <2>3, FS_CardinalityType
  <2>5. Cardinality(Unaccounted(acc, new)) <= Cardinality(W \cup {c})
    BY <2>1, <2>3, FS_Subset
  <2>6. Cardinality(Unaccounted(acc, new)) \in Nat
    BY <1>4, UnaccountedFacts
  <2> HIDE DEF W
  <2> QED
    BY <2>2, <2>3, <2>4, <2>5, <2>6
<1>9. Outlives(acc, new)
  <2> SUFFICES ASSUME NEW p \in 1..Len(acc), NEW q \in 1..Len(new), acc[p] = new[q]
               PROVE  (Len(acc) - p) + Cardinality(Unaccounted(acc, new)) <= (Len(new) - q) + (RingSize - 1)
    BY DEF Outlives
  <2>1. q + o # L + 1
    BY <1>4 DEF Contains
  <2>2. q + o \in 1..L /\ acc[p] = rg[q + o]
    BY <1>0, <1>4, <2>1, SMTT(60)
  <2>3. (Len(acc) - p) + Cardinality(W) <= (L - (q + o)) + (RingSize - 1)
    BY <2>2 DEF Outlives
  <2> HIDE DEF W
  <2> QED
    BY <1>0, <1>4, <1>8, <2>2, <2>3, SizesFacts, SMTT(60)
<1> QED
  BY <1>4, <1>5, <1>6, <1>7, <1>9

----------------------------------------------------------------------------
(* What an event of the stream does to the counters *)

\* What the collector has counted of each connection at most: what it tracks, or
\* the whole of one that has ended, unless it has yet to hear of it.
Seen(k, cn, rg) ==
  [c \in Conns |->
     IF k.live[c] # None THEN k.live[c]
     ELSE IF cn[c].st # "open" /\ (Contains(k.accounted, c) \/ ~Contains(rg, c)) THEN cn[c].total
     ELSE 0]

Known(k, c) == IF k.live[c] = None THEN 0 ELSE k.live[c]

\* Nothing is forgotten: neither a byte nor a drop nor a snapshot.
Steady(k, k1) ==
  /\ k1.startup = k.startup
  /\ k.bytes <= k1.bytes /\ k.dropped <= k1.dropped
  /\ \A x \in Conns : /\ k.buckets[x].closed <= k1.buckets[x].closed
                      /\ k.buckets[x].bytes <= k1.buckets[x].bytes

\* The three outcomes of an event of c: nothing is counted, c is tracked at more
\* than before, or c is accounted for.
Quiet(k, k1) == k1.live = k.live /\ k1.accounted = k.accounted /\ k1.bytes = k.bytes

Tracks(k, k1, c) ==
  /\ k1.live[c] \in Nat
  /\ \A x \in Conns : x # c => k1.live[x] = k.live[x]
  /\ k1.accounted = k.accounted
  /\ k1.bytes + Known(k, c) <= k.bytes + k1.live[c]

Shuts(k, k1, c, total) ==
  /\ k1.live[c] = None
  /\ \A x \in Conns : x # c => k1.live[x] = k.live[x]
  /\ k1.accounted = add(k.accounted, c)
  /\ k1.bytes + Known(k, c) <= k.bytes + total
  /\ k1.dropped = 0 => k1.buckets[c].closed = 1 /\ total <= k1.buckets[c].bytes

LEMMA MergeGrows ==
  ASSUME NEW a \in Snapshots, NEW b \in Snapshots
  PROVE  LET m == Merge(a, b)
         IN  /\ a.closed <= m.closed /\ b.closed <= m.closed
             /\ a.bytes <= m.bytes /\ b.bytes <= m.bytes
             /\ b.closed = 1 => m.closed = 1
BY DEF Merge, Snapshots, larger

LEMMA SteadySame ==
  ASSUME NEW k \in Collectors, NEW k1, k1.startup = k.startup, k1.dropped = k.dropped,
         k1.bytes = k.bytes, k1.buckets = k.buckets
  PROVE  Steady(k, k1)
<1>1. k.dropped \in Nat /\ k.bytes \in Nat /\ \A x \in Conns : k.buckets[x].closed \in Nat /\ k.buckets[x].bytes \in Nat
  BY SMTT(60) DEF Collectors, Snapshots
<1> QED
  BY <1>1 DEF Steady

LEMMA SteadyTransitive ==
  ASSUME NEW a \in Collectors, NEW b \in Collectors, NEW k \in Collectors, Steady(a, b), Steady(b, k)
  PROVE  Steady(a, k)
<1>1. /\ a.dropped \in Nat /\ b.dropped \in Nat /\ k.dropped \in Nat
      /\ a.bytes \in Nat /\ b.bytes \in Nat /\ k.bytes \in Nat
  BY DEF Collectors
<1>2. ASSUME NEW x \in Conns
      PROVE  a.buckets[x].closed <= k.buckets[x].closed /\ a.buckets[x].bytes <= k.buckets[x].bytes
  <2>1. a.buckets[x] \in Snapshots /\ b.buckets[x] \in Snapshots /\ k.buckets[x] \in Snapshots
    BY DEF Collectors
  <2>2. /\ a.buckets[x].closed \in Nat /\ b.buckets[x].closed \in Nat /\ k.buckets[x].closed \in Nat
        /\ a.buckets[x].bytes \in Nat /\ b.buckets[x].bytes \in Nat /\ k.buckets[x].bytes \in Nat
    BY <2>1 DEF Snapshots
  <2>3. /\ a.buckets[x].closed <= b.buckets[x].closed /\ a.buckets[x].bytes <= b.buckets[x].bytes
        /\ b.buckets[x].closed <= k.buckets[x].closed /\ b.buckets[x].bytes <= k.buckets[x].bytes
    BY DEF Steady
  <2> QED
    BY <2>2, <2>3
<1>3. k.startup = a.startup /\ a.dropped <= k.dropped /\ a.bytes <= k.bytes
  BY <1>1 DEF Steady
<1> QED
  BY <1>2, <1>3 DEF Steady

LEMMA RecordEffect ==
  ASSUME NEW k \in Collectors, NEW c \in Conns, NEW sum \in Nat, NEW bytes \in Nat,
         NEW opened, NEW closed \in {0, 1},
         NEW done, done = record(k, c, sum, bytes, opened, closed)
  PROVE  /\ done \in Collectors
         /\ Steady(k, done)
         /\ done.live = k.live /\ done.accounted = k.accounted
         /\ done.bytes <= k.bytes + bytes
         /\ closed = 1 /\ done.dropped = 0 => done.buckets[c].closed = 1 /\ sum <= done.buckets[c].bytes
<1> DEFINE snap == [opened |-> 1, closed |-> closed, bytes |-> sum]
           m == Merge(k.buckets[c], snap)
           merged == [k.buckets EXCEPT ![c] = m]
           total == k.bytes + bytes
           r == [k EXCEPT !.buckets = merged, !.bytes = total]
           more == k.dropped + 1
           d == [k EXCEPT !.dropped = more]
<1>1. /\ done = k /\ closed = 0
      \/ done = d
      \/ done = r
  <2>1. [k EXCEPT !.buckets[c] = Merge(@, snap), !.bytes = @ + bytes] = r
    BY DEF Collectors
  <2> QED
    BY <2>1 DEF record
<1>2. /\ snap \in Snapshots /\ snap.closed = closed /\ snap.bytes = sum /\ k.buckets[c] \in Snapshots
      /\ total \in Nat /\ k.bytes \in Nat /\ k.bytes <= total /\ more \in Nat /\ more # 0
      /\ k.dropped \in Nat /\ k.dropped <= more
  BY SMTT(60) DEF Collectors, Snapshots
<1> HIDE DEF snap, total, more
<1>3. m \in Snapshots
  BY <1>2, MergeFacts
<1>4. /\ k.buckets[c].closed <= m.closed /\ k.buckets[c].bytes <= m.bytes /\ sum <= m.bytes
      /\ closed = 1 => m.closed = 1
  BY <1>2, MergeGrows
<1> HIDE DEF m
<1>5. merged \in [Conns -> Snapshots] /\ \A x \in Conns : merged[x] = IF x = c THEN m ELSE k.buckets[x]
  BY <1>3 DEF Collectors
<1> HIDE DEF merged
<1>6. /\ r \in Collectors /\ r.buckets = merged /\ r.bytes = total /\ r.live = k.live
      /\ r.accounted = k.accounted /\ r.startup = k.startup /\ r.dropped = k.dropped
  BY <1>2, <1>5 DEF Collectors
<1>7. /\ d \in Collectors /\ d.buckets = k.buckets /\ d.bytes = k.bytes /\ d.live = k.live
      /\ d.accounted = k.accounted /\ d.startup = k.startup /\ d.dropped = more
  BY <1>2 DEF Collectors
<1> HIDE DEF r, d
<1>8. \A x \in Conns : k.buckets[x].closed \in Nat /\ k.buckets[x].bytes \in Nat
  BY DEF Collectors, Snapshots
<1>9. Steady(k, k) /\ Steady(k, d)
  BY <1>2, <1>7, <1>8 DEF Steady
<1>10. Steady(k, r)
  BY <1>2, <1>4, <1>5, <1>6, <1>8 DEF Steady
<1>11. total = k.bytes + bytes
  BY DEF total
<1>12. CASE done = k /\ closed = 0
  BY <1>2, <1>9, <1>11, <1>12
<1>13. CASE done = d
  BY <1>2, <1>7, <1>9, <1>11, <1>13
<1>14. CASE done = r
  BY <1>2, <1>4, <1>5, <1>6, <1>10, <1>11, <1>14
<1> QED
  BY <1>1, <1>12, <1>13, <1>14

\* Tracking c at `sum`, which is `bytes` more than what was known of it.
LEMMA TrackEffect ==
  ASSUME NEW k \in Collectors, NEW c \in Conns, NEW sum \in Nat, NEW bytes \in Nat,
         NEW opened \in {0, 1}, Known(k, c) + bytes = sum, Known(k, c) \in Nat
  PROVE  LET k1 == record([k EXCEPT !.live[c] = sum], c, sum, bytes, opened, 0)
         IN  Steady(k, k1) /\ Tracks(k, k1, c)
<1> DEFINE lives == [k.live EXCEPT ![c] = sum]
           f == [k EXCEPT !.live = lives]
           k1 == record(f, c, sum, bytes, opened, 0)
<1>1. [k EXCEPT !.live[c] = sum] = f
  BY DEF Collectors
<1>2. /\ lives \in [Conns -> Nat \cup {None}] /\ lives[c] = sum
      /\ \A x \in Conns : x # c => lives[x] = k.live[x]
  BY DEF Collectors
<1> HIDE DEF lives
<1>3. /\ f \in Collectors /\ f.live = lives /\ f.accounted = k.accounted /\ f.bytes = k.bytes
      /\ f.startup = k.startup /\ f.dropped = k.dropped /\ f.buckets = k.buckets
  BY <1>2 DEF Collectors
<1> HIDE DEF f
<1>4. /\ k1 \in Collectors /\ Steady(f, k1) /\ k1.live = lives /\ k1.accounted = k.accounted
      /\ k1.bytes <= k.bytes + bytes
  <2>1. 0 \in {0, 1}
    OBVIOUS
  <2>2. /\ k1 \in Collectors /\ Steady(f, k1) /\ k1.live = f.live /\ k1.accounted = f.accounted
        /\ k1.bytes <= f.bytes + bytes
    BY <1>3, <2>1, RecordEffect
  <2> QED
    BY <1>3, <2>2
<1> HIDE DEF k1
<1>5. Steady(k, k1)
  BY <1>3, <1>4, SteadySame, SteadyTransitive
<1>6. k1.bytes + Known(k, c) <= k.bytes + sum
  <2>1. k1.bytes \in Nat /\ k.bytes \in Nat
    BY <1>4 DEF Collectors
  <2> QED
    BY <1>4, <2>1
<1>7. Tracks(k, k1, c)
  BY <1>2, <1>4, <1>6 DEF Tracks
<1> QED
  BY <1>1, <1>5, <1>7 DEF k1

LEMMA ShutEffect ==
  ASSUME NEW k \in Collectors, NEW c \in Conns, NEW sum \in Nat, NEW bytes \in Nat,
         NEW opened \in {0, 1}, Known(k, c) + bytes = sum, Known(k, c) \in Nat, NEW closedAt
  PROVE  LET k1 == closeTracked(k, c, sum, bytes, opened, closedAt)
         IN  Steady(k, k1) /\ Shuts(k, k1, c, sum)
<1> DEFINE r == record(k, c, sum, bytes, opened, 1)
           kept == [r.live EXCEPT ![c] = None]
           acc == add(r.accounted, c)
           mark == larger(r.high, closedAt)
           k1 == [r EXCEPT !.live = kept, !.accounted = acc, !.high = mark]
<1>1. /\ r \in Collectors /\ Steady(k, r) /\ r.live = k.live /\ r.accounted = k.accounted
      /\ r.bytes <= k.bytes + bytes
      /\ r.dropped = 0 => r.buckets[c].closed = 1 /\ sum <= r.buckets[c].bytes
  <2>1. 1 \in {0, 1}
    OBVIOUS
  <2> QED
    BY <2>1, RecordEffect
<1>2. closeTracked(k, c, sum, bytes, opened, closedAt) = k1
  <2>1. closeTracked(k, c, sum, bytes, opened, closedAt)
          = [r EXCEPT !.live[c] = None, !.accounted = add(@, c), !.high = larger(@, closedAt)]
    BY DEF closeTracked
  <2> HIDE DEF r
  <2> QED
    BY <1>1, <2>1 DEF Collectors
<1> HIDE DEF r
<1>3. kept[c] = None /\ \A x \in Conns : x # c => kept[x] = k.live[x]
  BY <1>1 DEF Collectors
<1> HIDE DEF kept, mark
<1>4. /\ k1.live = kept /\ k1.accounted = acc /\ k1.bytes = r.bytes /\ k1.startup = r.startup
      /\ k1.dropped = r.dropped /\ k1.buckets = r.buckets
  BY <1>1 DEF Collectors
<1> HIDE DEF k1
<1>5. Steady(k, k1)
  BY <1>1, <1>4 DEF Steady
<1>6. k1.bytes + Known(k, c) <= k.bytes + sum
  <2>1. r.bytes \in Nat /\ k.bytes \in Nat
    BY <1>1 DEF Collectors
  <2> QED
    BY <1>1, <1>4, <2>1
<1>7. Shuts(k, k1, c, sum)
  BY <1>1, <1>3, <1>4, <1>6 DEF Shuts
<1> QED
  BY <1>2, <1>5, <1>7

LEMMA DropEffect ==
  ASSUME NEW k \in Collectors
  PROVE  LET k1 == [k EXCEPT !.dropped = @ + 1] IN Steady(k, k1) /\ Quiet(k, k1)
<1> DEFINE more == k.dropped + 1
           k1 == [k EXCEPT !.dropped = more]
<1>1. more \in Nat /\ k.dropped <= more /\ k.bytes \in Nat
  BY DEF Collectors
<1> HIDE DEF more
<1>2. /\ k1.live = k.live /\ k1.accounted = k.accounted /\ k1.bytes = k.bytes
      /\ k1.startup = k.startup /\ k1.dropped = more /\ k1.buckets = k.buckets
  BY DEF Collectors
<1> HIDE DEF k1
<1>3. \A x \in Conns : k.buckets[x].closed \in Nat /\ k.buckets[x].bytes \in Nat
  <2>1. \A x \in Conns : k.buckets[x] \in Snapshots
    BY DEF Collectors
  <2> QED
    BY <2>1 DEF Snapshots
<1>4. Steady(k, k1) /\ Quiet(k, k1)
  BY <1>1, <1>2, <1>3 DEF Steady, Quiet
<1> QED
  BY <1>4 DEF k1, more

\* What totals add to what is known.
LEMMA AdvanceEffect ==
  ASSUME NEW k \in Collectors, NEW c \in Conns, k.live[c] # None, NEW total \in Nat
  PROVE  LET to == advance(k.live[c], total)
         IN  /\ to.sum \in Nat /\ to.bytes \in Nat /\ Known(k, c) + to.bytes = to.sum
             /\ Known(k, c) \in Nat
             /\ k.live[c] <= total => to.sum = total
<1>1. k.live[c] \in Nat
  BY DEF Collectors
<1>2. larger(k.live[c], total) \in Nat /\ k.live[c] <= larger(k.live[c], total)
  BY <1>1, LargerFacts
<1>3. k.live[c] <= total => larger(k.live[c], total) = total
  BY <1>1 DEF larger
<1> QED
  BY <1>1, <1>2, <1>3 DEF advance, Known

LEMMA ApplyNewEffect ==
  ASSUME NEW k \in Collectors, NEW c \in Conns, NEW total \in Nat, NEW closedAt \in Nat,
         k.live[c] # None => k.live[c] <= total
  PROVE  LET k1 == applyNew(k, c, total, closedAt)
         IN  /\ Steady(k, k1)
             /\ closedAt = 0 => Quiet(k, k1) \/ Tracks(k, k1, c)
             /\ closedAt # 0 =>
                  \/ Quiet(k, k1) /\ (Contains(k.accounted, c) \/ closedAt <= k.startup)
                  \/ Shuts(k, k1, c, total) /\ (k.live[c] # None \/ ~Contains(k.accounted, c))
<1> DEFINE k1 == applyNew(k, c, total, closedAt)
<1>0. 0 \in {0, 1} /\ 1 \in {0, 1}
  OBVIOUS
<1>1. CASE k.live[c] # None
  <2> DEFINE to == advance(k.live[c], total)
  <2>1. /\ to.sum \in Nat /\ to.bytes \in Nat /\ Known(k, c) + to.bytes = to.sum
        /\ Known(k, c) \in Nat /\ to.sum = total
    BY <1>1, AdvanceEffect
  <2>2. k1 = IF closedAt # 0 THEN closeTracked(k, c, to.sum, to.bytes, 0, closedAt)
             ELSE record([k EXCEPT !.live[c] = to.sum], c, to.sum, to.bytes, 0, 0)
    BY <1>1 DEF applyNew
  <2> HIDE DEF to, k1
  <2>3. CASE closedAt # 0
    <3>1. Steady(k, k1) /\ Shuts(k, k1, c, to.sum)
      BY <1>0, <2>1, <2>2, <2>3, ShutEffect
    <3> QED
      BY <1>1, <2>1, <2>3, <3>1 DEF k1
  <2>4. CASE closedAt = 0
    <3>1. Steady(k, k1) /\ Tracks(k, k1, c)
      BY <1>0, <2>1, <2>2, <2>4, TrackEffect
    <3> QED
      BY <2>4, <3>1 DEF k1
  <2> QED
    BY <2>3, <2>4
<1>2. CASE k.live[c] = None
  <2>1. Known(k, c) = 0 /\ Known(k, c) \in Nat /\ Known(k, c) + total = total
    BY <1>2 DEF Known
  <2>2. CASE closedAt # 0
    <3>1. k1 = IF Contains(k.accounted, c) \/ closedAt <= k.startup THEN k
               ELSE closeTracked(k, c, total, total, 1, closedAt)
      BY <1>2, <2>2 DEF applyNew
    <3> HIDE DEF k1
    <3>2. CASE Contains(k.accounted, c) \/ closedAt <= k.startup
      <4>1. Steady(k, k1) /\ Quiet(k, k1)
        BY <3>1, <3>2, SteadySame DEF Quiet
      <4> QED
        BY <2>2, <3>2, <4>1 DEF k1
    <3>3. CASE ~(Contains(k.accounted, c) \/ closedAt <= k.startup)
      <4>1. Steady(k, k1) /\ Shuts(k, k1, c, total)
        BY <1>0, <2>1, <3>1, <3>3, ShutEffect
      <4> QED
        BY <2>2, <3>3, <4>1 DEF k1
    <3> QED
      BY <3>2, <3>3
  <2>3. CASE closedAt = 0
    <3>1. k1 = IF Cardinality(Tracked(k)) >= MaxTracked THEN [k EXCEPT !.dropped = @ + 1]
               ELSE record([k EXCEPT !.live[c] = total], c, total, total, 1, 0)
      BY <1>2, <2>3 DEF applyNew
    <3> HIDE DEF k1
    <3>2. CASE Cardinality(Tracked(k)) >= MaxTracked
      <4>1. Steady(k, k1) /\ Quiet(k, k1)
        BY <3>1, <3>2, DropEffect
      <4> QED
        BY <2>3, <4>1 DEF k1
    <3>3. CASE ~(Cardinality(Tracked(k)) >= MaxTracked)
      <4>1. Steady(k, k1) /\ Tracks(k, k1, c)
        BY <1>0, <2>1, <3>1, <3>3, TrackEffect
      <4> QED
        BY <2>3, <4>1 DEF k1
    <3> QED
      BY <3>2, <3>3
  <2> QED
    BY <2>2, <2>3
<1> QED
  BY <1>1, <1>2

LEMMA ApplyUpdateEffect ==
  ASSUME NEW k \in Collectors, NEW c \in Conns, NEW delta \in Nat
  PROVE  LET k1 == applyUpdate(k, c, delta)
         IN  Steady(k, k1) /\ (Quiet(k, k1) \/ (k.live[c] # None /\ Tracks(k, k1, c)))
<1> DEFINE k1 == applyUpdate(k, c, delta)
<1>1. CASE k.live[c] = None
  <2>1. k1 = k
    BY <1>1 DEF applyUpdate
  <2> HIDE DEF k1
  <2>2. Steady(k, k1) /\ Quiet(k, k1)
    BY <2>1, SteadySame DEF Quiet
  <2> QED
    BY <2>2 DEF k1
<1>2. CASE k.live[c] # None
  <2> DEFINE sum == k.live[c] + delta
  <2>1. k.live[c] \in Nat /\ sum \in Nat /\ Known(k, c) + delta = sum /\ Known(k, c) \in Nat
    BY <1>2 DEF Collectors, Known
  <2>2. k1 = record([k EXCEPT !.live[c] = sum], c, sum, delta, 0, 0)
    BY <1>2 DEF applyUpdate, Collectors
  <2> HIDE DEF k1, sum
  <2>3. 0 \in {0, 1}
    OBVIOUS
  <2>4. Steady(k, k1) /\ Tracks(k, k1, c)
    BY <2>1, <2>2, <2>3, TrackEffect
  <2> QED
    BY <1>2, <2>4 DEF k1
<1> QED
  BY <1>1, <1>2

LEMMA ApplyClosedEffect ==
  ASSUME NEW k \in Collectors, NEW c \in Conns, NEW total \in Nat, NEW closedAt \in Nat,
         k.live[c] # None => k.live[c] <= total
  PROVE  LET k1 == applyClosed(k, c, total, closedAt)
         IN  /\ Steady(k, k1)
             /\ \/ Quiet(k, k1) /\ Contains(k.accounted, c)
                \/ Shuts(k, k1, c, total) /\ (k.live[c] # None \/ ~Contains(k.accounted, c))
<1> DEFINE k1 == applyClosed(k, c, total, closedAt)
<1>0. 0 \in {0, 1} /\ 1 \in {0, 1}
  OBVIOUS
<1>1. CASE k.live[c] # None
  <2> DEFINE to == advance(k.live[c], total)
  <2>1. /\ to.sum \in Nat /\ to.bytes \in Nat /\ Known(k, c) + to.bytes = to.sum
        /\ Known(k, c) \in Nat /\ to.sum = total
    BY <1>1, AdvanceEffect
  <2>2. k1 = closeTracked(k, c, to.sum, to.bytes, 0, closedAt)
    BY <1>1 DEF applyClosed
  <2> HIDE DEF to, k1
  <2>3. Steady(k, k1) /\ Shuts(k, k1, c, to.sum)
    BY <1>0, <2>1, <2>2, ShutEffect
  <2> QED
    BY <1>1, <2>1, <2>3 DEF k1
<1>2. CASE k.live[c] = None
  <2>1. Known(k, c) = 0 /\ Known(k, c) \in Nat /\ Known(k, c) + total = total
    BY <1>2 DEF Known
  <2>2. k1 = IF Contains(k.accounted, c) THEN k ELSE closeTracked(k, c, total, total, 1, closedAt)
    BY <1>2 DEF applyClosed
  <2> HIDE DEF k1
  <2>3. CASE Contains(k.accounted, c)
    <3>1. Steady(k, k1) /\ Quiet(k, k1)
      BY <2>2, <2>3, SteadySame DEF Quiet
    <3> QED
      BY <2>3, <3>1 DEF k1
  <2>4. CASE ~Contains(k.accounted, c)
    <3>1. Steady(k, k1) /\ Shuts(k, k1, c, total)
      BY <1>0, <2>1, <2>2, <2>4, ShutEffect
    <3> QED
      BY <2>4, <3>1 DEF k1
  <2> QED
    BY <2>3, <2>4
<1> QED
  BY <1>1, <1>2

----------------------------------------------------------------------------
(* The collector between two states of the stream *)

\* A collector that has been the only one: it knows of no mark, what it has
\* accounted for is closed, and its accounted set outlives the ring.
Kept(k, cn, rg) ==
  /\ k.startup = 0
  /\ \A x \in Conns : Contains(k.accounted, x) => cn[x].st = "closed"
  /\ Outlives(k.accounted, rg)

\* The final totals of x are in the collector's buckets.
Caught(k, x, cn) == k.buckets[x].closed = 1 /\ cn[x].total <= k.buckets[x].bytes

\* From k to k1 no more is counted than has been seen in between, nothing of the
\* ring is forgotten, and what is newly accounted for is in the buckets.
Hears(k, k1, cn, rg) ==
  /\ Steady(k, k1)
  /\ k1.bytes + SumOf(Seen(k, cn, rg)) <= k.bytes + SumOf(Seen(k1, cn, rg))
  /\ \A x \in Conns : Contains(k.accounted, x) /\ Contains(rg, x) => Contains(k1.accounted, x)
  /\ \A x \in Conns : Contains(k1.accounted, x) =>
                        Contains(k.accounted, x) \/ k1.dropped # 0 \/ Caught(k1, x, cn)

LEMMA CountsType ==
  ASSUME NEW cn, ConnsOK(cn), NEW k \in Collectors
  PROVE  \A x \in Conns : cn[x].total \in Nat /\ k.live[x] \in Nat \cup {None}
BY TelemetryAssumptions, SMTT(60) DEF ConnsOK, Connections, Collectors

LEMMA SeenType ==
  ASSUME NEW cn, ConnsOK(cn), NEW k \in Collectors, NEW rg
  PROVE  Seen(k, cn, rg) \in [Conns -> Nat]
<1>1. \A x \in Conns : cn[x].total \in Nat /\ k.live[x] \in Nat \cup {None}
  BY CountsType
<1> QED
  BY <1>1 DEF Seen

\* A function that is nowhere smaller has no smaller sum.
LEMMA SumMonotone ==
  ASSUME NEW f \in [Conns -> Nat], NEW g \in [Conns -> Nat], \A x \in Conns : f[x] <= g[x]
  PROVE  SumOf(f) \in Nat /\ SumOf(g) \in Nat /\ SumOf(f) <= SumOf(g)
<1>1. 0 \in Nat /\ 0 \notin Conns
  BY TelemetryAssumptions, ConnsFinite
<1>2. \A x \in Conns : f[x] + (IF x = 0 THEN 0 ELSE 0) <= g[x]
  <2>1. \A x \in Conns : f[x] \in Nat /\ (IF x = 0 THEN 0 ELSE 0) = 0
    OBVIOUS
  <2> QED
    BY <2>1
<1>3. SumOf(f) \in Nat /\ SumOf(g) \in Nat /\ SumOf(f) + 0 <= SumOf(g)
  BY <1>1, <1>2, SumGrows
<1> QED
  BY <1>3

LEMMA HearsNothing ==
  ASSUME NEW cn, ConnsOK(cn), NEW k \in Collectors, NEW rg
  PROVE  Hears(k, k, cn, rg)
<1>1. SumOf(Seen(k, cn, rg)) \in Nat
  BY SeenType, SumMonotone DEF Seen
<1>2. k.bytes \in Nat /\ Steady(k, k)
  BY SteadySame DEF Collectors
<1> QED
  BY <1>1, <1>2 DEF Hears

LEMMA HearsTransitive ==
  ASSUME NEW cn, ConnsOK(cn), NEW rg, NEW a \in Collectors, NEW b \in Collectors, NEW k \in Collectors,
         Hears(a, b, cn, rg), Hears(b, k, cn, rg)
  PROVE  Hears(a, k, cn, rg)
<1>1. Steady(a, k)
  BY SteadyTransitive DEF Hears
<1>2. k.bytes + SumOf(Seen(a, cn, rg)) <= a.bytes + SumOf(Seen(k, cn, rg))
  <2> DEFINE sa == SumOf(Seen(a, cn, rg))
             sb == SumOf(Seen(b, cn, rg))
             sk == SumOf(Seen(k, cn, rg))
  <2>1. sa \in Nat /\ sb \in Nat /\ sk \in Nat
    <3>1. ASSUME NEW f \in [Conns -> Nat] PROVE SumOf(f) \in Nat
      <4>1. \A x \in Conns : f[x] <= f[x]
        OBVIOUS
      <4> QED
        BY <4>1, SumMonotone
    <3> QED
      BY <3>1, SeenType
  <2>2. a.bytes \in Nat /\ b.bytes \in Nat /\ k.bytes \in Nat
    BY DEF Collectors
  <2>3. b.bytes + sa <= a.bytes + sb /\ k.bytes + sb <= b.bytes + sk
    BY DEF Hears
  <2> HIDE DEF sa, sb, sk
  <2>4. k.bytes + sa <= a.bytes + sk
    BY <2>1, <2>2, <2>3
  <2> QED
    BY <2>4 DEF sa, sk
<1>3. \A x \in Conns : Contains(a.accounted, x) /\ Contains(rg, x) => Contains(k.accounted, x)
  BY DEF Hears
<1>4. ASSUME NEW x \in Conns, Contains(k.accounted, x), ~Contains(a.accounted, x), k.dropped = 0
      PROVE  Caught(k, x, cn)
  <2>1. CASE ~Contains(b.accounted, x)
    BY <1>4, <2>1 DEF Hears
  <2>2. CASE Contains(b.accounted, x)
    <3>1. b.dropped = 0
      BY <1>4, SMTT(60) DEF Hears, Steady, Collectors
    <3>2. Caught(b, x, cn)
      BY <1>4, <2>2, <3>1 DEF Hears
    <3>3. b.buckets[x] \in Snapshots /\ k.buckets[x] \in Snapshots /\ cn[x].total \in Nat
      BY TelemetryAssumptions DEF Collectors, ConnsOK, Connections
    <3>4. b.buckets[x].closed <= k.buckets[x].closed /\ b.buckets[x].bytes <= k.buckets[x].bytes
      BY DEF Hears, Steady
    <3> QED
      BY <3>2, <3>3, <3>4 DEF Caught, Snapshots
  <2> QED
    BY <2>1, <2>2
<1> QED
  BY <1>1, <1>2, <1>3, <1>4 DEF Hears

\* One event: what it counts is what is seen more of its connection.
LEMMA EventHears ==
  ASSUME NEW cn, ConnsOK(cn), NEW k, Fits(k, cn), NEW k1, Fits(k1, cn), NEW rg \in Seq(Conns),
         Len(rg) <= RingSize, Kept(k, cn, rg), NEW c \in Conns, Steady(k, k1),
         \/ Quiet(k, k1)
         \/ Tracks(k, k1, c) /\ (k.live[c] # None \/ cn[c].st = "open")
         \/ /\ Shuts(k, k1, c, cn[c].total) /\ cn[c].st = "closed" /\ Contains(rg, c)
            /\ k.live[c] # None \/ ~Contains(k.accounted, c)
  PROVE  /\ Hears(k, k1, cn, rg)
         /\ Kept(k1, cn, rg)
         /\ Shuts(k, k1, c, cn[c].total) /\ Contains(rg, c) => Contains(k1.accounted, c)
<1> DEFINE shut == /\ Shuts(k, k1, c, cn[c].total) /\ cn[c].st = "closed" /\ Contains(rg, c)
                   /\ k.live[c] # None \/ ~Contains(k.accounted, c)
           f == Seen(k, cn, rg)
           g == Seen(k1, cn, rg)
           b == k1.bytes - k.bytes
<1>1. /\ k \in Collectors /\ k1 \in Collectors /\ k.accounted \in Seq(Conns)
      /\ Len(k.accounted) <= AccountedLimit
  BY DEF Fits, Capped, Collectors
<1>2. k.bytes \in Nat /\ k1.bytes \in Nat /\ k.bytes <= k1.bytes /\ cn[c].total \in Nat
  BY <1>1, TelemetryAssumptions DEF Collectors, Steady, ConnsOK, Connections
<1>3. ASSUME Contains(rg, c)
      PROVE  /\ Outlives(add(k.accounted, c), rg)
             /\ Contains(add(k.accounted, c), c)
             /\ \A x \in Conns : Contains(k.accounted, x) /\ Contains(rg, x) => Contains(add(k.accounted, c), x)
             /\ \A x \in Conns : Contains(add(k.accounted, c), x) => Contains(k.accounted, x) \/ x = c
  BY <1>1, <1>3, AddOutlives DEF Kept
<1>4. CASE shut
  <2>0. k1.accounted = add(k.accounted, c) /\ k1.live[c] = None /\ k1.startup = 0
    BY <1>4 DEF Shuts, Steady, Kept
  <2>1. Kept(k1, cn, rg) /\ Contains(k1.accounted, c)
    BY <1>3, <1>4, <2>0 DEF Kept
  <2>2. \A x \in Conns : x # c => f[x] <= g[x]
    <3> SUFFICES ASSUME NEW x \in Conns, x # c PROVE f[x] <= g[x]
      OBVIOUS
    <3>0. k.live[x] \in Nat \cup {None} /\ cn[x].total \in Nat
      BY <1>1, CountsType
    <3>1. k1.live[x] = k.live[x] /\ k.live[x] \in Nat \cup {None} /\ cn[x].total \in Nat
      BY <1>4, <3>0 DEF Shuts
    <3>2. /\ Contains(k.accounted, x) /\ Contains(rg, x) => Contains(k1.accounted, x)
      BY <1>3, <1>4, <2>0
    <3> QED
      BY <3>1, <3>2 DEF Seen
  <2>3. f[c] = Known(k, c) /\ g[c] = cn[c].total
    <3>1. f[c] = Known(k, c)
      BY <1>4 DEF Seen, Known
    <3>2. g[c] = cn[c].total
      BY <1>4, <2>0, <2>1 DEF Seen
    <3> QED
      BY <3>1, <3>2
  <2>4. f[c] + b <= g[c]
    <3>1. k1.bytes + Known(k, c) <= k.bytes + cn[c].total
      BY <1>4 DEF Shuts
    <3>2. Known(k, c) \in Nat
      BY <1>1 DEF Known, Collectors
    <3> QED
      BY <1>2, <2>3, <3>1, <3>2
  <2>5. \A x \in Conns : Contains(k1.accounted, x) =>
                           Contains(k.accounted, x) \/ k1.dropped # 0 \/ Caught(k1, x, cn)
    <3>1. k1.dropped # 0 \/ Caught(k1, c, cn)
      BY <1>4 DEF Shuts, Caught
    <3> QED
      BY <1>3, <1>4, <2>0, <3>1
  <2>6. \A x \in Conns : Contains(k.accounted, x) /\ Contains(rg, x) => Contains(k1.accounted, x)
    BY <1>3, <1>4, <2>0
  <2>7. k1.bytes + SumOf(f) <= k.bytes + SumOf(g)
    <3>1. f \in [Conns -> Nat] /\ g \in [Conns -> Nat]
      BY <1>1, SeenType
    <3>2. b \in Nat /\ c \in Nat
      <4>1. b \in Nat
        BY <1>2
      <4> HIDE DEF b
      <4>2. c \in Nat
        BY TelemetryAssumptions, ConnsFinite
      <4> QED
        BY <4>1, <4>2
    <3> HIDE DEF f, g
    <3>3. \A x \in Conns : f[x] + (IF x = c THEN b ELSE 0) <= g[x]
      BY <2>2, <2>4, <3>1, <3>2
    <3>4. SumOf(f) \in Nat /\ SumOf(g) \in Nat /\ SumOf(f) + b <= SumOf(g)
      <4> HIDE DEF b
      <4> QED
        BY <3>1, <3>2, <3>3, SumGrows
    <3> QED
      BY <1>2, <3>4
  <2> QED
    BY <2>1, <2>5, <2>6, <2>7 DEF Hears
<1>5. CASE k1.accounted = k.accounted
           /\ (Quiet(k, k1) \/ (Tracks(k, k1, c) /\ (k.live[c] # None \/ cn[c].st = "open")))
  <2>1. Kept(k1, cn, rg)
    BY <1>5 DEF Kept, Steady
  <2>2. \A x \in Conns : x # c => f[x] <= g[x]
    <3> SUFFICES ASSUME NEW x \in Conns, x # c PROVE f[x] <= g[x]
      OBVIOUS
    <3>0. k.live[x] \in Nat \cup {None} /\ cn[x].total \in Nat
      BY <1>1, CountsType
    <3>1. k1.live[x] = k.live[x] /\ k.live[x] \in Nat \cup {None} /\ cn[x].total \in Nat
      BY <1>5, <3>0 DEF Quiet, Tracks
    <3> QED
      BY <1>5, <3>1 DEF Seen
  <2>3. f[c] + b <= g[c]
    <3>0. f \in [Conns -> Nat] /\ g \in [Conns -> Nat]
      BY <1>1, SeenType
    <3>1. CASE Quiet(k, k1)
      <4>1. f[c] = g[c]
        BY <3>1 DEF Seen, Quiet
      <4>2. b = 0
        BY <1>2, <3>1 DEF Quiet
      <4> HIDE DEF f, g, b
      <4> QED
        BY <3>0, <4>1, <4>2
    <3>2. CASE Tracks(k, k1, c) /\ (k.live[c] # None \/ cn[c].st = "open")
      <4>1. f[c] = Known(k, c)
        BY <3>2 DEF Seen, Known
      <4>2. g[c] = k1.live[c] /\ k1.live[c] \in Nat
        BY <3>2, NoneIsNothing DEF Seen, Tracks
      <4>3. k1.bytes + Known(k, c) <= k.bytes + k1.live[c]
        BY <3>2 DEF Tracks
      <4>4. Known(k, c) \in Nat
        BY <1>1 DEF Known, Collectors
      <4> QED
        BY <1>2, <4>1, <4>2, <4>3, <4>4
    <3> QED
      BY <1>5, <3>1, <3>2
  <2>4. k1.bytes + SumOf(f) <= k.bytes + SumOf(g)
    <3>1. f \in [Conns -> Nat] /\ g \in [Conns -> Nat]
      BY <1>1, SeenType
    <3>2. b \in Nat /\ c \in Nat
      <4>1. b \in Nat
        BY <1>2
      <4> HIDE DEF b
      <4>2. c \in Nat
        BY TelemetryAssumptions, ConnsFinite
      <4> QED
        BY <4>1, <4>2
    <3> HIDE DEF f, g
    <3>3. \A x \in Conns : f[x] + (IF x = c THEN b ELSE 0) <= g[x]
      BY <2>2, <2>3, <3>1, <3>2
    <3>4. SumOf(f) \in Nat /\ SumOf(g) \in Nat /\ SumOf(f) + b <= SumOf(g)
      <4> HIDE DEF b
      <4> QED
        BY <3>1, <3>2, <3>3, SumGrows
    <3> QED
      BY <1>2, <3>4
  <2>5. Hears(k, k1, cn, rg)
    BY <1>5, <2>4 DEF Hears
  <2>6. Shuts(k, k1, c, cn[c].total) /\ Contains(rg, c) => Contains(k1.accounted, c)
    BY <1>3 DEF Shuts
  <2> QED
    BY <2>1, <2>5, <2>6
<1> QED
  <2>1. Quiet(k, k1) \/ Tracks(k, k1, c) => k1.accounted = k.accounted
    BY DEF Quiet, Tracks
  <2> QED
    BY <1>4, <1>5, <2>1

\* The replay of a subscription: each of its events is heard, and the ring is
\* accounted for at its end.
LEMMA ReplayHears ==
  ASSUME NEW cn, ConnsOK(cn), ConnsOK(conn),
         \A c \in Conns : /\ cn[c].total = conn[c].total /\ cn[c].st = conn[c].st
                          /\ cn[c].sent = conn[c].total /\ cn[c].closedAt = conn[c].closedAt,
         NEW k, Fits(k, cn), ring \in Seq(Conns), Len(ring) <= RingSize, Kept(k, cn, ring),
         \A c \in Conns : Contains(ring, c) => conn[c].st = "closed" /\ conn[c].closedAt # 0,
         NEW mentioned, mentioned = {c \in Conns : conn[c].st = "open" \/ Contains(ring, c)},
         NEW k1, k1 = replay(k, mentioned)[Cardinality(Conns)]
  PROVE  /\ Fits(k1, cn) /\ Kept(k1, cn, ring) /\ Hears(k, k1, cn, ring)
         /\ \A c \in Conns : Contains(ring, c) => Contains(k1.accounted, c)
<1> DEFINE N == Cardinality(Conns)
           at(i) == replay(k, mentioned)[i]
           Right(i) == /\ Fits(at(i), cn) /\ Kept(at(i), cn, ring) /\ Hears(k, at(i), cn, ring)
                       /\ \A c \in 1..i : Contains(ring, c) => Contains(at(i).accounted, c)
           T == {i \in 0..N : ~Right(i)}
<1>1. N \in Nat /\ Conns = 1..N
  BY ConnsFinite, TelemetryAssumptions
<1>2. \A i \in 0..N : at(i) = IF i = 0 THEN k
                              ELSE IF i \in mentioned
                              THEN applyNew(at(i - 1), i, conn[i].total, conn[i].closedAt)
                              ELSE at(i - 1)
  BY ReplayUnfolds
<1>3. k1 = at(N)
  OBVIOUS
<1> HIDE DEF at, N
<1>4. SUFFICES ASSUME T # {} PROVE FALSE
  <2>1. N \in 0..N
    BY <1>1
  <2>2. T = {} => Right(N)
    BY <2>1
  <2> HIDE DEF T
  <2> QED
    BY <1>1, <1>3, <2>2
<1>5. PICK i \in T : \A j \in T : i <= j
  <2>1. T \in SUBSET Nat
    BY <1>1
  <2> HIDE DEF T
  <2> QED
    BY <1>4, <2>1, LeastNumber
<1>6. i # 0
  <2>1. at(0) = k
    <3>1. 0 \in 0..N
      BY <1>1
    <3> QED
      BY <1>2, <3>1, Zenon
  <2>2. Hears(k, k, cn, ring)
    BY HearsNothing DEF Fits
  <2>3. \A c \in 1..0 : FALSE
    OBVIOUS
  <2>4. Right(0)
    BY <2>1, <2>2, <2>3
  <2> HIDE DEF Right
  <2> QED
    BY <2>4
<1>7. i - 1 \in 0..N /\ i \in Conns /\ i \in 0..N
  BY <1>1, <1>6
<1>8. Right(i - 1)
  <2>1. i - 1 \notin T
    <3> HIDE DEF T
    <3> QED
      BY <1>1, <1>5, <1>7
  <2> HIDE DEF Right
  <2> QED
    BY <1>7, <2>1
<1> DEFINE before == at(i - 1)
           after == at(i)
<1>9. /\ Fits(before, cn) /\ Kept(before, cn, ring) /\ Hears(k, before, cn, ring)
      /\ \A c \in 1..(i - 1) : Contains(ring, c) => Contains(before.accounted, c)
  BY <1>8
<1>10. after = IF i \in mentioned THEN applyNew(before, i, conn[i].total, conn[i].closedAt) ELSE before
  BY <1>2, <1>6, <1>7
<1>11. k \in Collectors /\ before \in Collectors
  BY <1>9 DEF Fits
<1>12. CASE i \notin mentioned
  <2>1. after = before /\ ~Contains(ring, i)
    BY <1>7, <1>10, <1>12
  <2>2. \A c \in 1..i : Contains(ring, c) => Contains(after.accounted, c)
    <3>1. \A c \in 1..i : c = i \/ c \in 1..(i - 1)
      BY <1>1, <1>7
    <3> HIDE DEF after, before
    <3> QED
      BY <1>9, <2>1, <3>1
  <2>3. Right(i)
    <3>1. at(i) = at(i - 1)
      BY <2>1
    <3> QED
      BY <1>9, <2>2, <3>1
  <2> HIDE DEF Right
  <2> QED
    BY <2>3
<1>13. CASE i \in mentioned
  <2>1. /\ conn[i].total \in Nat /\ conn[i].closedAt \in Nat
        /\ conn[i].closedAt # 0 => conn[i].st = "closed"
    BY <1>7, TelemetryAssumptions DEF ConnsOK, Connections
  <2>2. /\ cn[i].total = conn[i].total /\ cn[i].st = conn[i].st /\ cn[i].sent = conn[i].total
        /\ conn[i].total <= cn[i].total /\ conn[i].total <= cn[i].sent
    BY <1>7, <2>1
  <2>3. after = applyNew(before, i, conn[i].total, conn[i].closedAt)
    BY <1>10, <1>13
  <2> HIDE DEF before, after
  <2>4. Fits(after, cn)
    BY <1>7, <1>9, <2>1, <2>2, <2>3, ApplyNewFits
  <2>5. before.live[i] # None => before.live[i] <= conn[i].total
    BY <1>7, <1>9, <2>2 DEF Fits
  <2>6. /\ Steady(before, after)
        /\ conn[i].closedAt = 0 => Quiet(before, after) \/ Tracks(before, after, i)
        /\ conn[i].closedAt # 0 =>
             \/ Quiet(before, after) /\ (Contains(before.accounted, i) \/ conn[i].closedAt <= before.startup)
             \/ Shuts(before, after, i, conn[i].total) /\ (before.live[i] # None \/ ~Contains(before.accounted, i))
    BY <1>7, <1>11, <2>1, <2>3, <2>5, ApplyNewEffect
  <2>7. before.startup = 0
    BY <1>9 DEF Kept
  <2>8. \/ conn[i].closedAt = 0 /\ conn[i].st = "open" /\ ~Contains(ring, i)
        \/ conn[i].closedAt # 0 /\ conn[i].st = "closed" /\ Contains(ring, i)
    BY <1>7, <1>13, <2>1
  <2>9. \/ Quiet(before, after)
        \/ Tracks(before, after, i) /\ (before.live[i] # None \/ cn[i].st = "open")
        \/ /\ Shuts(before, after, i, cn[i].total) /\ cn[i].st = "closed" /\ Contains(ring, i)
           /\ before.live[i] # None \/ ~Contains(before.accounted, i)
    BY <2>2, <2>6, <2>8
  <2>10. /\ Hears(before, after, cn, ring) /\ Kept(after, cn, ring)
         /\ Shuts(before, after, i, cn[i].total) /\ Contains(ring, i) => Contains(after.accounted, i)
    BY <1>7, <1>9, <2>4, <2>6, <2>9, EventHears
  <2>11. Hears(k, after, cn, ring)
    <3>1. after \in Collectors
      BY <2>4 DEF Fits
    <3> QED
      BY <1>9, <1>11, <2>10, <3>1, HearsTransitive
  <2>12. Contains(ring, i) => Contains(after.accounted, i)
    <3> SUFFICES ASSUME Contains(ring, i) PROVE Contains(after.accounted, i)
      OBVIOUS
    <3>1. conn[i].closedAt # 0 /\ ~(conn[i].closedAt <= before.startup)
      BY <2>1, <2>7, <2>8
    <3> QED
      BY <2>2, <2>6, <2>10, <3>1 DEF Quiet
  <2>13. \A c \in 1..i : Contains(ring, c) => Contains(after.accounted, c)
    <3> SUFFICES ASSUME NEW c \in 1..i, Contains(ring, c) PROVE Contains(after.accounted, c)
      OBVIOUS
    <3>1. CASE c = i
      BY <2>12, <3>1
    <3>2. CASE c # i
      <4>1. c \in 1..(i - 1) /\ c \in Conns
        BY <1>1, <1>7, <3>2
      <4> QED
        BY <1>9, <2>10, <4>1 DEF Hears
    <3> QED
      BY <3>1, <3>2
  <2>14. Right(i)
    BY <2>4, <2>10, <2>11, <2>13 DEF after
  <2> HIDE DEF Right
  <2> QED
    BY <2>14
<1> QED
  BY <1>12, <1>13

\* A step that changes nothing but what is tracked, and lets nothing seen go.
LEMMA HearsSame ==
  ASSUME NEW cn, ConnsOK(cn), NEW rg, NEW k \in Collectors, NEW k1 \in Collectors,
         k1.startup = k.startup, k1.dropped = k.dropped, k1.bytes = k.bytes,
         k1.buckets = k.buckets, k1.accounted = k.accounted,
         \A x \in Conns : Seen(k, cn, rg)[x] <= Seen(k1, cn, rg)[x]
  PROVE  Hears(k, k1, cn, rg)
<1>1. Steady(k, k1)
  BY SteadySame
<1>2. /\ SumOf(Seen(k, cn, rg)) \in Nat /\ SumOf(Seen(k1, cn, rg)) \in Nat
      /\ SumOf(Seen(k, cn, rg)) <= SumOf(Seen(k1, cn, rg))
  BY SeenType, SumMonotone
<1>3. k.bytes \in Nat
  BY DEF Collectors
<1>4. k1.bytes + SumOf(Seen(k, cn, rg)) <= k.bytes + SumOf(Seen(k1, cn, rg))
  BY <1>2, <1>3
<1> QED
  BY <1>1, <1>4 DEF Hears

\* A reset: what the sweep lets go of has ended and left the ring.
LEMMA ResetHears ==
  ASSUME NEW cn, ConnsOK(cn), ConnsOK(conn),
         \A c \in Conns : /\ cn[c].total = conn[c].total /\ cn[c].st = conn[c].st
                          /\ cn[c].sent = conn[c].total /\ cn[c].closedAt = conn[c].closedAt,
         NEW k, Fits(k, cn), ring \in Seq(Conns), Len(ring) <= RingSize, Kept(k, cn, ring),
         \A c \in Conns : Contains(ring, c) => conn[c].st = "closed" /\ conn[c].closedAt # 0,
         NEW k1, k1 = applyReset(k)
  PROVE  /\ Kept(k1, cn, ring) /\ Hears(k, k1, cn, ring)
         /\ \A c \in Conns : Contains(ring, c) => Contains(k1.accounted, c)
<1> DEFINE mentioned == {c \in Conns : conn[c].st = "open" \/ Contains(ring, c)}
           n == k.resets + (IF k.subscribed THEN 1 ELSE 0)
           begun == [k EXCEPT !.resets = n, !.subscribed = TRUE]
           k2 == replay(begun, mentioned)[Cardinality(Conns)]
           kept == [c \in Conns |-> IF c \in mentioned THEN k2.live[c] ELSE None]
<1>1. k \in Collectors
  BY DEF Fits
<1>2. k1 = sweepStale(k2, mentioned)
  BY DEF applyReset
<1>3. n \in Nat
  BY <1>1 DEF Collectors
<1> HIDE DEF n
<1>4. /\ begun \in Collectors /\ begun.buckets = k.buckets /\ begun.live = k.live
      /\ begun.accounted = k.accounted /\ begun.startup = k.startup /\ begun.bytes = k.bytes
      /\ begun.dropped = k.dropped
  BY <1>1, <1>3 DEF Collectors
<1> HIDE DEF begun
<1>5. Fits(begun, cn) /\ Kept(begun, cn, ring)
  BY <1>4 DEF Fits, Capped, Tracked, Kept
<1>6. Hears(k, begun, cn, ring)
  <2>1. Seen(begun, cn, ring) = Seen(k, cn, ring)
    BY <1>4 DEF Seen
  <2>2. Seen(k, cn, ring) \in [Conns -> Nat]
    BY <1>1, SeenType
  <2>3. \A x \in Conns : Seen(k, cn, ring)[x] <= Seen(begun, cn, ring)[x]
    BY <2>1, <2>2
  <2> QED
    BY <1>1, <1>4, <2>3, HearsSame
<1>7. /\ Fits(k2, cn) /\ Kept(k2, cn, ring) /\ Hears(begun, k2, cn, ring)
      /\ \A c \in Conns : Contains(ring, c) => Contains(k2.accounted, c)
  <2> HIDE DEF k2
  <2> QED
    BY <1>5, ReplayHears DEF k2
<1> HIDE DEF k2
<1>8. k2 \in Collectors /\ k1 = [k2 EXCEPT !.live = kept]
  BY <1>2, <1>7 DEF sweepStale, Fits
<1>9. /\ kept \in [Conns -> Nat \cup {None}]
      /\ \A x \in Conns : kept[x] = IF x \in mentioned THEN k2.live[x] ELSE None
  BY <1>8 DEF Collectors
<1> HIDE DEF kept
<1>10. /\ k1 \in Collectors /\ k1.live = kept /\ k1.buckets = k2.buckets /\ k1.accounted = k2.accounted
       /\ k1.startup = k2.startup /\ k1.bytes = k2.bytes /\ k1.dropped = k2.dropped
  BY <1>8, <1>9 DEF Collectors
<1>11. \A x \in Conns : Seen(k2, cn, ring)[x] <= Seen(k1, cn, ring)[x]
  <2> SUFFICES ASSUME NEW x \in Conns PROVE Seen(k2, cn, ring)[x] <= Seen(k1, cn, ring)[x]
    OBVIOUS
  <2>1. cn[x].total \in Nat /\ k2.live[x] \in Nat \cup {None}
    BY <1>8, CountsType
  <2>2. CASE x \in mentioned
    <3>1. Seen(k2, cn, ring)[x] = Seen(k1, cn, ring)[x]
      BY <1>9, <1>10, <2>2 DEF Seen
    <3>2. Seen(k1, cn, ring)[x] \in Nat
      BY <1>10, SeenType
    <3> QED
      BY <3>1, <3>2
  <2>3. CASE x \notin mentioned
    <3>1. cn[x].st # "open" /\ ~Contains(ring, x)
      BY <2>3
    <3>2. Seen(k1, cn, ring)[x] = cn[x].total
      BY <1>9, <1>10, <2>3, <3>1 DEF Seen
    <3>3. k2.live[x] # None => k2.live[x] <= cn[x].total
      <4>1. cn[x].sent \in Nat /\ cn[x].sent <= cn[x].total
        BY TelemetryAssumptions DEF ConnsOK, Connections
      <4>2. k2.live[x] # None => k2.live[x] <= cn[x].sent
        BY <1>7 DEF Fits
      <4> QED
        BY <2>1, <4>1, <4>2
    <3>4. Seen(k2, cn, ring)[x] = IF k2.live[x] # None THEN k2.live[x] ELSE cn[x].total
      BY <3>1 DEF Seen
    <3> QED
      BY <2>1, <3>2, <3>3, <3>4
  <2> QED
    BY <2>2, <2>3
<1>12. Hears(k2, k1, cn, ring)
  BY <1>8, <1>10, <1>11, HearsSame
<1>13. Hears(k, k1, cn, ring)
  <2>1. Hears(k, k2, cn, ring)
    BY <1>1, <1>4, <1>6, <1>7, <1>8, HearsTransitive
  <2> QED
    BY <1>1, <1>8, <1>10, <1>12, <2>1, HearsTransitive
<1>14. Kept(k1, cn, ring)
  BY <1>7, <1>10 DEF Kept
<1> QED
  BY <1>7, <1>10, <1>13, <1>14

----------------------------------------------------------------------------
(* What has been counted, as an invariant *)

\* The ring holds closed connections; one that was never opened carried nothing.
RingOK ==
  \A c \in Conns : /\ Contains(ring, c) => conn[c].st = "closed" /\ conn[c].closedAt # 0
                   /\ conn[c].st = "none" => conn[c].total = 0

\* One report is on its way at a time, and the server has all of a recorded one.
SlotOK ==
  /\ pc # "drained" => draft = None
  /\ pc \in {"collect", "drained"} => saved.pending = None
  /\ (saved.pending # None /\ saved.pending.sequence \in reports) =>
       \A c \in Conns : /\ saved.pending.buckets[c].closed <= rows[c].closed
                        /\ saved.pending.buckets[c].bytes <= rows[c].bytes

\* The bytes that have left the collector.
Reported ==
  covered + (IF saved.pending # None /\ saved.pending.sequence \notin reports THEN saved.pending.bytes ELSE 0)
          + (IF draft # None THEN draft.bytes ELSE 0)

\* The final totals of c are in the snapshots b.
Full(b, c) == b[c].closed = 1 /\ b[c].bytes = conn[c].total

Carried(c) ==
  \/ Full(rows, c)
  \/ saved.pending # None /\ Full(saved.pending.buckets, c)
  \/ draft # None /\ Full(draft.buckets, c)
  \/ collector # None /\ Full(collector.buckets, c)

\* Before the first collector nothing is counted.
Untouched ==
  /\ saved.high = 0 /\ covered = 0
  /\ saved.pending = None /\ draft = None

Counted ==
  /\ Kept(collector, conn, ring)
  /\ linked => Unaccounted(collector.accounted, ring) = {}
  /\ Reported + collector.bytes <= SumOf(Seen(collector, conn, ring))
  /\ \A c \in Conns : Contains(collector.accounted, c) => Carried(c)

CoverageInv ==
  /\ RingOK
  /\ SlotOK
  /\ ~gap => IF collector = None THEN Untouched ELSE Counted

----------------------------------------------------------------------------
(* The steps of the stream *)

LEMMA ReportedType == ASSUME TelemetryInv PROVE Reported \in Nat
<1>1. covered \in Nat
  BY DEF TelemetryInv, ServerOK
<1>2. saved.pending # None => saved.pending.bytes \in Nat
  BY DEF TelemetryInv, ReportsOK, Reports
<1>3. draft # None => draft.bytes \in Nat
  BY DEF TelemetryInv, ReportsOK, Drafts
<1> QED
  BY <1>1, <1>2, <1>3 DEF Reported

\* Growing connections and a ring that moves on let nothing seen go.
LEMMA SeenMoves ==
  ASSUME NEW cn, ConnsOK(cn), NEW cn1, ConnsOK(cn1), NEW rg, NEW rg1, NEW k \in Collectors,
         \A x \in Conns : cn[x].st # "open" /\ cn[x].total # 0 =>
                            cn1[x].st # "open" /\ cn1[x].total = cn[x].total,
         \A x \in Conns : cn[x].st # "open" /\ Contains(rg1, x) => Contains(rg, x)
  PROVE  /\ SumOf(Seen(k, cn, rg)) \in Nat /\ SumOf(Seen(k, cn1, rg1)) \in Nat
         /\ SumOf(Seen(k, cn, rg)) <= SumOf(Seen(k, cn1, rg1))
<1>1. Seen(k, cn, rg) \in [Conns -> Nat] /\ Seen(k, cn1, rg1) \in [Conns -> Nat]
  BY SeenType
<1>2. ASSUME NEW x \in Conns PROVE Seen(k, cn, rg)[x] <= Seen(k, cn1, rg1)[x]
  <2>1. cn[x].total \in Nat /\ cn1[x].total \in Nat /\ k.live[x] \in Nat \cup {None}
    BY CountsType
  <2> QED
    BY <2>1 DEF Seen
<1> QED
  BY <1>1, <1>2, SumMonotone

\* What a step of the stream hears of is counted once and carried on.
LEMMA StreamCounts ==
  ASSUME TelemetryInv, TelemetryInv', Counted, collector # None, collector' # None,
         UNCHANGED <<saved, draft, rows, reports, covered>>,
         \A x \in Conns : conn[x].st = "closed" => conn'[x].total = conn[x].total,
         SumOf(Seen(collector, conn, ring)) <= SumOf(Seen(collector, conn', ring')),
         Hears(collector, collector', conn', ring'),
         collector' = collector \/ collector'.dropped = 0
  PROVE  /\ (Reported + collector.bytes <= SumOf(Seen(collector, conn, ring)))'
         /\ (\A c \in Conns : Contains(collector.accounted, c) => Carried(c))'
<1> DEFINE s0 == SumOf(Seen(collector, conn, ring))
           s1 == SumOf(Seen(collector, conn', ring'))
           s2 == SumOf(Seen(collector', conn', ring'))
<1>1. collector \in Collectors /\ collector' \in Collectors /\ ConnsOK(conn) /\ ConnsOK(conn')
  BY DEF TelemetryInv, CollectorOK, Fits, SingBoxOK
<1>2. Reported' = Reported /\ Reported \in Nat
  BY ReportedType DEF Reported
<1>3. s0 \in Nat /\ s1 \in Nat /\ s2 \in Nat
  <2>1. ASSUME NEW f \in [Conns -> Nat] PROVE SumOf(f) \in Nat
    <3>1. \A x \in Conns : f[x] <= f[x]
      OBVIOUS
    <3> QED
      BY <3>1, SumMonotone
  <2> QED
    BY <1>1, <2>1, SeenType
<1>4. collector.bytes \in Nat /\ collector'.bytes \in Nat
  BY <1>1 DEF Collectors
<1>5. /\ Reported + collector.bytes <= s0 /\ s0 <= s1
      /\ collector'.bytes + s1 <= collector.bytes + s2
  BY DEF Counted, Hears
<1>6. (Reported + collector.bytes <= SumOf(Seen(collector, conn, ring)))'
  <2>1. Reported + collector'.bytes <= s2
    <3> HIDE DEF s0, s1, s2
    <3> QED
      BY <1>2, <1>3, <1>4, <1>5
  <2> QED
    BY <1>2, <2>1
<1>7. ASSUME NEW c \in Conns, Contains(collector'.accounted, c) PROVE Carried(c)'
  <2>0. collector'.buckets[c] \in Snapshots /\ collector.buckets[c] \in Snapshots
    BY <1>1 DEF Collectors
  <2>1. collector'.buckets[c].bytes <= conn'[c].total /\ conn'[c].total \in Nat
    BY <1>1, TelemetryAssumptions DEF TelemetryInv, CollectorOK, Fits, Within, ConnsOK, Connections
  <2>2. CASE Contains(collector.accounted, c)
    <3>1. Carried(c) /\ conn'[c].total = conn[c].total
      BY <2>2 DEF Counted, Kept
    <3>2. CASE Full(collector.buckets, c)
      <4>1. collector.buckets[c].closed <= collector'.buckets[c].closed
            /\ collector.buckets[c].bytes <= collector'.buckets[c].bytes
        BY DEF Hears, Steady
      <4>2. collector'.buckets[c].closed = 1 /\ collector'.buckets[c].bytes = conn'[c].total
        BY <2>0, <2>1, <3>1, <3>2, <4>1 DEF Full, Snapshots
      <4> QED
        BY <4>2 DEF Carried, Full
    <3>3. CASE ~Full(collector.buckets, c)
      BY <3>1, <3>3 DEF Carried, Full
    <3> QED
      BY <3>2, <3>3
  <2>3. CASE ~Contains(collector.accounted, c)
    <3>1. Caught(collector', c, conn')
      BY <1>7, <2>3 DEF Hears
    <3>2. collector'.buckets[c].closed = 1 /\ collector'.buckets[c].bytes = conn'[c].total
      BY <2>0, <2>1, <3>1 DEF Caught, Snapshots
    <3> QED
      BY <3>2 DEF Carried, Full
  <2> QED
    BY <2>2, <2>3
<1> QED
  BY <1>6, <1>7

\* An event that is dropped, or of which nobody hears.
LEMMA UnheardCounts ==
  ASSUME TelemetryInv, TelemetryInv', CoverageInv, ~gap, UNCHANGED <<saved, draft, rows, reports, covered>>,
         collector' = collector, linked' => linked, ring' = ring,
         \A x \in Conns : conn[x].st = "closed" => conn'[x].st = "closed" /\ conn'[x].total = conn[x].total,
         \A x \in Conns : conn[x].st # "open" /\ conn[x].total # 0 =>
                            conn'[x].st # "open" /\ conn'[x].total = conn[x].total
  PROVE  IF collector' = None THEN Untouched' ELSE Counted'
<1>1. CASE collector = None
  BY <1>1 DEF CoverageInv, Untouched
<1>2. CASE collector # None
  <2>1. Counted
    BY <1>2 DEF CoverageInv
  <2>2. ConnsOK(conn) /\ ConnsOK(conn') /\ collector \in Collectors
    BY <1>2 DEF TelemetryInv, SingBoxOK, CollectorOK, Fits
  <2>3. SumOf(Seen(collector, conn, ring)) <= SumOf(Seen(collector, conn', ring'))
    BY <2>2, SeenMoves
  <2>4. Hears(collector, collector', conn', ring')
    BY <2>2, HearsNothing
  <2>5. /\ (Reported + collector.bytes <= SumOf(Seen(collector, conn, ring)))'
        /\ (\A c \in Conns : Contains(collector.accounted, c) => Carried(c))'
    BY <1>2, <2>1, <2>3, <2>4, StreamCounts
  <2>6. Kept(collector, conn, ring)'
    BY <2>1 DEF Counted, Kept
  <2>7. (linked => Unaccounted(collector.accounted, ring) = {})'
    BY <2>1 DEF Counted
  <2> QED
    BY <1>2, <2>5, <2>6, <2>7 DEF Counted
<1> QED
  BY <1>1, <1>2

\* An event that reaches the collector.
LEMMA HeardCounts ==
  ASSUME TelemetryInv, TelemetryInv', CoverageInv, ~gap, linked, linked' = linked,
         UNCHANGED <<saved, draft, rows, reports, covered>>,
         ring' \in Seq(Conns), Len(ring') <= RingSize,
         \A x \in Conns : conn[x].st = "closed" => conn'[x].st = "closed" /\ conn'[x].total = conn[x].total,
         \A x \in Conns : conn[x].st # "open" /\ conn[x].total # 0 =>
                            conn'[x].st # "open" /\ conn'[x].total = conn[x].total,
         \A x \in Conns : conn[x].st # "open" /\ Contains(ring', x) => Contains(ring, x),
         NEW c \in Conns, \A x \in Conns : Contains(ring', x) => Contains(ring, x) \/ x = c,
         Fits(collector, conn'), Outlives(collector.accounted, ring'),
         collector'.dropped = 0, Steady(collector, collector'),
         \/ Quiet(collector, collector') /\ Contains(collector.accounted, c)
         \/ Quiet(collector, collector') /\ ~Contains(ring', c)
         \/ /\ Tracks(collector, collector', c) /\ ~Contains(ring', c)
            /\ collector.live[c] # None \/ conn'[c].st = "open"
         \/ /\ Shuts(collector, collector', c, conn'[c].total)
            /\ conn'[c].st = "closed" /\ Contains(ring', c)
            /\ collector.live[c] # None \/ ~Contains(collector.accounted, c)
  PROVE  collector' # None /\ Counted'
<1>1. /\ collector # None /\ collector' # None /\ collector \in Collectors /\ collector' \in Collectors
      /\ ConnsOK(conn) /\ ConnsOK(conn') /\ Fits(collector', conn') /\ Counted
  <2>1. collector # None /\ linked'
    BY DEF TelemetryInv, CollectorOK
  <2>2. collector' # None
    BY <2>1 DEF TelemetryInv, CollectorOK
  <2> QED
    BY <2>1, <2>2 DEF TelemetryInv, CollectorOK, SingBoxOK, Fits, CoverageInv
<1>2. Kept(collector, conn', ring')
  BY <1>1 DEF Counted, Kept
<1>3. /\ Hears(collector, collector', conn', ring') /\ Kept(collector', conn', ring')
      /\ Shuts(collector, collector', c, conn'[c].total) /\ Contains(ring', c) => Contains(collector'.accounted, c)
  BY <1>1, <1>2, EventHears
<1>4. SumOf(Seen(collector, conn, ring)) <= SumOf(Seen(collector, conn', ring'))
  BY <1>1, SeenMoves
<1>5. /\ (Reported + collector.bytes <= SumOf(Seen(collector, conn, ring)))'
      /\ (\A x \in Conns : Contains(collector.accounted, x) => Carried(x))'
  BY <1>1, <1>3, <1>4, StreamCounts
<1>6. Unaccounted(collector'.accounted, ring') = {}
  <2> SUFFICES ASSUME NEW x \in Conns, Contains(ring', x) PROVE Contains(collector'.accounted, x)
    BY DEF Unaccounted
  <2>1. CASE Contains(collector.accounted, x)
    BY <1>3, <2>1 DEF Hears
  <2>2. CASE ~Contains(collector.accounted, x)
    <3>1. ~Contains(ring, x)
      BY <1>1, <2>2 DEF Counted, Unaccounted
    <3>2. x = c
      BY <3>1
    <3>3. Shuts(collector, collector', c, conn'[c].total)
      BY <2>2, <3>2
    <3> QED
      BY <1>3, <3>2, <3>3
  <2> QED
    BY <2>1, <2>2
<1> QED
  BY <1>1, <1>3, <1>5, <1>6 DEF Counted

\* Deliver, read as the two lemmas above need it.
LEMMA Delivered ==
  ASSUME TelemetryInv, NEW k, NEW loses \in BOOLEAN, Deliver(k, loses), linked => k \in Collectors, ~gap'
  PROVE  /\ ~gap
         /\ \/ collector' = collector /\ (linked => ~loses)
            \/ linked /\ collector' = k /\ collector'.dropped = 0
<1>1. gap \in BOOLEAN /\ linked \in BOOLEAN
  BY DEF TelemetryInv, HistoryOK, CollectorOK
<1>2. CASE /\ collector' = IF linked THEN k ELSE collector
           /\ gap' = (gap \/ (linked /\ Overflowed(k)))
  <2>1. CASE linked
    <3>1. k.dropped \in Nat
      BY <2>1 DEF Collectors
    <3>2. ~gap /\ ~(k.dropped > 0)
      BY <1>1, <1>2, <2>1 DEF Overflowed
    <3> QED
      BY <1>2, <2>1, <3>1, <3>2
  <2>2. CASE ~linked
    BY <1>1, <1>2, <2>2
  <2> QED
    BY <2>1, <2>2
<1>3. CASE linked /\ gap' = (gap \/ loses) /\ collector' = collector
  BY <1>1, <1>3
<1> QED
  BY <1>2, <1>3 DEF Deliver

\* The report slot does not move with the stream.
LEMMA SlotStill ==
  ASSUME SlotOK, UNCHANGED <<pc, draft, saved, rows, reports>> PROVE SlotOK'
BY DEF SlotOK

LEMMA OpenCounts ==
  ASSUME TelemetryInv, TelemetryInv', CoverageInv, NEW c \in Conns, Open(c) PROVE CoverageInv'
<1> DEFINE cn == [conn EXCEPT ![c].st = "open"]
           k == IF linked THEN applyNew(collector, c, 0, 0) ELSE None
<1>1. conn \in [Conns -> Connections] /\ conn[c].st = "none" /\ conn[c].total = 0
  BY DEF TelemetryInv, SingBoxOK, ConnsOK, Open, CoverageInv, RingOK
<1>2. /\ conn' = cn /\ ring' = ring /\ linked' = linked /\ Deliver(k, FALSE)
      /\ UNCHANGED <<pc, saved, draft, rows, reports, covered>>
  BY DEF Open, server
<1>3. \A x \in Conns : /\ conn'[x].total = conn[x].total /\ conn'[x].sent = conn[x].sent
                       /\ conn'[x].closedAt = conn[x].closedAt
                       /\ conn'[x].st = IF x = c THEN "open" ELSE conn[x].st
  BY <1>1, <1>2 DEF Connections
<1> HIDE DEF cn
<1>4. RingOK'
  BY <1>1, <1>2, <1>3 DEF CoverageInv, RingOK
<1>5. SlotOK'
  BY <1>2, SlotStill DEF CoverageInv
<1>6. ASSUME ~gap' PROVE IF collector' = None THEN Untouched' ELSE Counted'
  <2>1. /\ \A x \in Conns : conn[x].st = "closed" => conn'[x].st = "closed" /\ conn'[x].total = conn[x].total
        /\ \A x \in Conns : conn[x].st # "open" /\ conn[x].total # 0 =>
                              conn'[x].st # "open" /\ conn'[x].total = conn[x].total
    BY <1>1, <1>3
  <2>2. linked => /\ Fits(collector, conn') /\ collector \in Collectors
                  /\ (collector.live[c] # None => collector.live[c] <= 0)
    <3> SUFFICES ASSUME linked
                 PROVE  /\ Fits(collector, conn') /\ collector \in Collectors
                        /\ (collector.live[c] # None => collector.live[c] <= 0)
      OBVIOUS
    <3>1. ConnsOK(conn) /\ ConnsOK(conn') /\ Fits(collector, conn)
      BY DEF TelemetryInv, SingBoxOK, CollectorOK
    <3>2. Grown(conn, conn')
      <4>1. \A x \in Conns : conn[x].total \in Nat /\ conn[x].sent \in Nat
        BY <1>1, TelemetryAssumptions, SMTT(60) DEF Connections
      <4> QED
        BY <1>1, <1>3, <4>1 DEF Grown
    <3>3. Fits(collector, conn') /\ collector \in Collectors
      BY <3>1, <3>2, FitsGrows DEF Fits
    <3>4. conn[c].sent \in Nat /\ conn[c].sent <= 0
      BY <1>1, <3>1, TelemetryAssumptions DEF ConnsOK, Connections
    <3>5. collector.live[c] # None => collector.live[c] \in Nat /\ collector.live[c] <= conn[c].sent
      BY <3>1 DEF Fits, Collectors
    <3> QED
      BY <3>3, <3>4, <3>5
  <2>3. linked => Fits(k, conn')
    <3> SUFFICES ASSUME linked PROVE Fits(applyNew(collector, c, 0, 0), conn')
      OBVIOUS
    <3>1. 0 <= conn'[c].total /\ 0 <= conn'[c].sent /\ ConnsOK(conn')
      BY TelemetryAssumptions, SMTT(60) DEF TelemetryInv, SingBoxOK, ConnsOK, Connections
    <3> QED
      BY <2>2, <3>1, ApplyNewFits
  <2>4. /\ ~gap
        /\ \/ collector' = collector
           \/ linked /\ collector' = k /\ collector'.dropped = 0
    <3>1. linked => k \in Collectors
      BY <2>3 DEF Fits
    <3> HIDE DEF k
    <3> QED
      BY <1>2, <1>6, <3>1, Delivered
  <2>5. CASE collector' = collector
    BY <1>2, <2>1, <2>4, <2>5, UnheardCounts
  <2>6. CASE linked /\ collector' = k /\ collector'.dropped = 0
    <3>1. Steady(collector, collector') /\ (Quiet(collector, collector') \/ Tracks(collector, collector', c))
      BY <2>2, <2>6, ApplyNewEffect
    <3>2. ring \in Seq(Conns) /\ Len(ring) <= RingSize
      BY DEF TelemetryInv, SingBoxOK
    <3>3. ~Contains(ring, c) /\ conn'[c].st = "open"
      BY <1>1, <1>3 DEF CoverageInv, RingOK
    <3>4. Outlives(collector.accounted, ring)
      BY <2>4, <2>6 DEF TelemetryInv, CollectorOK, CoverageInv, Counted, Kept
    <3> HIDE DEF k
    <3> QED
      BY <1>2, <2>1, <2>2, <2>4, <2>6, <3>1, <3>2, <3>3, <3>4, HeardCounts
  <2> QED
    BY <2>4, <2>5, <2>6
<1> QED
  BY <1>4, <1>5, <1>6 DEF CoverageInv

LEMMA TrafficCounts ==
  ASSUME TelemetryInv, TelemetryInv', CoverageInv, NEW c \in Conns, Traffic(c) PROVE CoverageInv'
<1> DEFINE t == conn[c].total + 1
           cn == [conn EXCEPT ![c].total = t]
<1>1. conn \in [Conns -> Connections] /\ conn[c].st = "open"
  BY DEF TelemetryInv, SingBoxOK, ConnsOK, Traffic
<1>2. /\ conn' = cn /\ UNCHANGED <<ring, linked, collector, pc, saved, draft, rows, reports, covered, gap>>
  BY DEF Traffic, server, agent
<1> HIDE DEF t
<1>3. \A x \in Conns : /\ x # c => conn'[x] = conn[x]
                       /\ conn'[x].closedAt = conn[x].closedAt /\ conn'[x].st = conn[x].st
  BY <1>1, <1>2 DEF Connections
<1> HIDE DEF cn
<1>4. RingOK'
  BY <1>1, <1>2, <1>3 DEF CoverageInv, RingOK
<1>5. SlotOK'
  BY <1>2, SlotStill DEF CoverageInv
<1>6. ASSUME ~gap' PROVE IF collector' = None THEN Untouched' ELSE Counted'
  BY <1>1, <1>2, <1>3, <1>6, UnheardCounts
<1> QED
  BY <1>4, <1>5, <1>6 DEF CoverageInv

LEMMA UpdateCounts ==
  ASSUME TelemetryInv, TelemetryInv', CoverageInv, NEW c \in Conns, Update(c) PROVE CoverageInv'
<1> DEFINE cn == [conn EXCEPT ![c].sent = conn[c].total]
           delta == conn[c].total - conn[c].sent
           k == applyUpdate(collector, c, delta)
<1>1. conn \in [Conns -> Connections] /\ conn[c].st = "open" /\ linked
  BY DEF TelemetryInv, SingBoxOK, ConnsOK, Update
<1>2. /\ conn' = cn /\ ring' = ring /\ linked' = linked /\ Deliver(k, FALSE)
      /\ UNCHANGED <<pc, saved, draft, rows, reports, covered>>
  BY DEF Update, server
<1>3. \A x \in Conns : /\ conn'[x].total = conn[x].total
                       /\ conn'[x].sent = IF x = c THEN conn[c].total ELSE conn[x].sent
                       /\ conn'[x].closedAt = conn[x].closedAt /\ conn'[x].st = conn[x].st
  BY <1>1, <1>2 DEF Connections
<1> HIDE DEF cn
<1>4. RingOK'
  BY <1>2, <1>3 DEF CoverageInv, RingOK
<1>5. SlotOK'
  BY <1>2, SlotStill DEF CoverageInv
<1>6. ASSUME ~gap' PROVE IF collector' = None THEN Untouched' ELSE Counted'
  <2>1. /\ \A x \in Conns : conn[x].st = "closed" => conn'[x].st = "closed" /\ conn'[x].total = conn[x].total
        /\ \A x \in Conns : conn[x].st # "open" /\ conn[x].total # 0 =>
                              conn'[x].st # "open" /\ conn'[x].total = conn[x].total
    BY <1>3
  <2>2. ConnsOK(conn) /\ ConnsOK(conn') /\ Fits(collector, conn) /\ collector \in Collectors
    BY <1>1 DEF TelemetryInv, SingBoxOK, CollectorOK, Fits
  <2>3. /\ \A x \in Conns : conn[x].total \in Nat /\ conn[x].sent \in Nat /\ conn[x].sent <= conn[x].total
        /\ delta \in Nat
    BY <2>2, TelemetryAssumptions, SMTT(60) DEF ConnsOK, Connections
  <2>4. Fits(collector, conn')
    <3>1. Grown(conn, conn')
      BY <1>3, <2>3 DEF Grown
    <3> QED
      BY <2>2, <3>1, FitsGrows
  <2>5. Fits(k, conn')
    <3>1. collector.live[c] # None => collector.live[c] + delta <= conn'[c].sent
      <4>1. collector.live[c] # None => collector.live[c] \in Nat /\ collector.live[c] <= conn[c].sent
        BY <2>2 DEF Fits, Collectors
      <4> QED
        BY <1>3, <2>3, <4>1
    <3> HIDE DEF delta
    <3> QED
      BY <2>2, <2>3, <2>4, <3>1, ApplyUpdateFits
  <2>6. /\ ~gap
        /\ \/ collector' = collector
           \/ linked /\ collector' = k /\ collector'.dropped = 0
    <3>1. linked => k \in Collectors
      BY <2>5 DEF Fits
    <3> HIDE DEF k
    <3> QED
      BY <1>2, <1>6, <3>1, Delivered
  <2>7. CASE collector' = collector
    BY <1>2, <2>1, <2>6, <2>7, UnheardCounts
  <2>8. CASE linked /\ collector' = k /\ collector'.dropped = 0
    <3>1. Steady(collector, collector')
          /\ (Quiet(collector, collector') \/ (collector.live[c] # None /\ Tracks(collector, collector', c)))
      <4> HIDE DEF delta
      <4> QED
        BY <2>2, <2>3, <2>8, ApplyUpdateEffect
    <3>2. ring \in Seq(Conns) /\ Len(ring) <= RingSize
      BY DEF TelemetryInv, SingBoxOK
    <3>3. ~Contains(ring, c)
      BY <1>1 DEF CoverageInv, RingOK
    <3>4. Outlives(collector.accounted, ring)
      BY <2>6, <2>8 DEF TelemetryInv, CollectorOK, CoverageInv, Counted, Kept
    <3> HIDE DEF k
    <3> QED
      BY <1>2, <2>1, <2>4, <2>6, <2>8, <3>1, <3>2, <3>3, <3>4, HeardCounts
  <2> QED
    BY <2>6, <2>7, <2>8
<1> QED
  BY <1>4, <1>5, <1>6 DEF CoverageInv

LEMMA CloseCounts ==
  ASSUME TelemetryInv, TelemetryInv', CoverageInv, NEW c \in Conns, Close(c) PROVE CoverageInv'
<1> DEFINE cn == [conn EXCEPT ![c].st = "closed", ![c].closedAt = now', ![c].sent = conn[c].total]
           k == IF linked THEN applyClosed(collector, c, conn[c].total, now') ELSE None
<1>1. conn \in [Conns -> Connections] /\ conn[c].st = "open" /\ ring \in Seq(Conns) /\ Len(ring) <= RingSize
  BY DEF TelemetryInv, SingBoxOK, ConnsOK, Close
<1>2. /\ conn' = cn /\ linked' = linked /\ Deliver(k, TRUE)
      /\ ring' = IF Len(Append(ring, c)) > RingSize THEN Tail(Append(ring, c)) ELSE Append(ring, c)
      /\ UNCHANGED <<pc, saved, draft, rows, reports, covered>>
  BY DEF Close, server
<1>3. now' \in Nat /\ now' # 0
  BY TelemetryAssumptions DEF Close, larger, TelemetryInv, SingBoxOK
<1>4. \A x \in Conns : /\ conn'[x].total = conn[x].total
                       /\ conn'[x].sent = IF x = c THEN conn[c].total ELSE conn[x].sent
                       /\ conn'[x].closedAt = IF x = c THEN now' ELSE conn[x].closedAt
                       /\ conn'[x].st = IF x = c THEN "closed" ELSE conn[x].st
  BY <1>1, <1>2 DEF Connections
<1> HIDE DEF cn
<1>5. /\ ring' \in Seq(Conns) /\ Len(ring') <= RingSize /\ Contains(ring', c)
      /\ \A x \in Conns : Contains(ring', x) => Contains(ring, x) \/ x = c
  <2>1. <<>> \in Seq(Conns) /\ ~Contains(<<>>, c) /\ Outlives(<<>>, ring)
    BY DEF Contains, Outlives
  <2> QED
    BY <1>1, <1>2, <2>1, RingOutlives, ZenonT(60)
<1>6. RingOK'
  BY <1>1, <1>3, <1>4, <1>5 DEF CoverageInv, RingOK
<1>7. SlotOK'
  BY <1>2, SlotStill DEF CoverageInv
<1>8. ASSUME ~gap' PROVE IF collector' = None THEN Untouched' ELSE Counted'
  <2>1. /\ \A x \in Conns : conn[x].st = "closed" => conn'[x].st = "closed" /\ conn'[x].total = conn[x].total
        /\ \A x \in Conns : conn[x].st # "open" /\ conn[x].total # 0 =>
                              conn'[x].st # "open" /\ conn'[x].total = conn[x].total
        /\ \A x \in Conns : conn[x].st # "open" /\ Contains(ring', x) => Contains(ring, x)
    BY <1>1, <1>4, <1>5
  <2>2. ConnsOK(conn) /\ ConnsOK(conn')
    BY DEF TelemetryInv, SingBoxOK
  <2>3. \A x \in Conns : conn[x].total \in Nat /\ conn[x].sent \in Nat /\ conn[x].sent <= conn[x].total
    BY <2>2, TelemetryAssumptions DEF ConnsOK, Connections
  <2>4. collector # None => Fits(collector, conn') /\ collector \in Collectors /\ collector.accounted \in Seq(Conns)
    <3>1. Grown(conn, conn')
      BY <1>1, <1>4, <2>3 DEF Grown
    <3> QED
      BY <2>2, <3>1, FitsGrows DEF TelemetryInv, CollectorOK, Fits, Collectors
  <2>5. linked => collector # None
    BY DEF TelemetryInv, CollectorOK
  <2>6. linked => Fits(k, conn')
    <3> SUFFICES ASSUME linked PROVE Fits(applyClosed(collector, c, conn[c].total, now'), conn')
      OBVIOUS
    <3>1. conn[c].total <= conn'[c].total /\ conn'[c].st = "closed" /\ conn[c].total \in Nat
      BY <1>4, <2>3
    <3> QED
      BY <1>3, <2>2, <2>4, <2>5, <3>1, ApplyClosedFits
  <2>7. /\ ~gap
        /\ \/ collector' = collector /\ ~linked
           \/ linked /\ collector' = k /\ collector'.dropped = 0
    <3>1. linked => k \in Collectors
      BY <2>6 DEF Fits
    <3>2. TRUE \in BOOLEAN
      OBVIOUS
    <3> HIDE DEF k
    <3> QED
      BY <1>2, <1>8, <3>1, <3>2, Delivered
  <2>8. collector # None => Counted /\ ~Contains(collector.accounted, c)
    BY <1>1, <2>7 DEF CoverageInv, Counted, Kept
  <2>9. collector # None => Outlives(collector.accounted, ring')
    <3> SUFFICES ASSUME collector # None PROVE Outlives(collector.accounted, ring')
      OBVIOUS
    <3>1. collector.accounted \in Seq(Conns) /\ Outlives(collector.accounted, ring)
          /\ ~Contains(collector.accounted, c)
      BY <2>4, <2>8 DEF Counted, Kept
    <3> QED
      BY <1>1, <1>2, <3>1, RingOutlives, ZenonT(60)
  <2>10. CASE collector = None
    <3>1. collector' = None
      BY <2>5, <2>7, <2>10
    <3> QED
      BY <1>2, <2>7, <2>10, <3>1 DEF CoverageInv, Untouched
  <2>11. CASE collector # None /\ collector' = collector /\ ~linked
    <3>1. SumOf(Seen(collector, conn, ring)) <= SumOf(Seen(collector, conn', ring'))
      BY <2>1, <2>2, <2>4, <2>11, SeenMoves
    <3>2. Hears(collector, collector', conn', ring')
      BY <2>2, <2>4, <2>11, HearsNothing
    <3>3. /\ (Reported + collector.bytes <= SumOf(Seen(collector, conn, ring)))'
          /\ (\A x \in Conns : Contains(collector.accounted, x) => Carried(x))'
      BY <1>2, <2>1, <2>8, <2>11, <3>1, <3>2, StreamCounts
    <3>4. Kept(collector, conn, ring)'
      BY <2>1, <2>8, <2>9, <2>11 DEF Counted, Kept
    <3>5. ~linked'
      BY <1>2, <2>11
    <3> QED
      BY <2>11, <3>3, <3>4, <3>5 DEF Counted
  <2>12. CASE linked /\ collector' = k /\ collector'.dropped = 0
    <3>1. collector.live[c] # None => collector.live[c] <= conn[c].total
      BY <1>4, <2>4, <2>5, <2>12 DEF Fits
    <3>2. Steady(collector, collector') /\ Shuts(collector, collector', c, conn[c].total)
      BY <1>3, <2>3, <2>4, <2>5, <2>8, <2>12, <3>1, ApplyClosedEffect
    <3>3. Shuts(collector, collector', c, conn'[c].total) /\ conn'[c].st = "closed"
      BY <1>4, <3>2
    <3>4. Fits(collector, conn') /\ Outlives(collector.accounted, ring') /\ ~Contains(collector.accounted, c)
      BY <2>4, <2>5, <2>8, <2>9, <2>12
    <3> HIDE DEF k
    <3>5. collector' # None /\ Counted'
      BY <1>2, <1>5, <2>1, <2>7, <2>12, <3>2, <3>3, <3>4, HeardCounts
    <3> QED
      BY <3>5
  <2> QED
    BY <2>5, <2>7, <2>10, <2>11, <2>12
<1> QED
  BY <1>6, <1>7, <1>8 DEF CoverageInv

LEMMA SubscribeCounts ==
  ASSUME TelemetryInv, TelemetryInv', CoverageInv, Subscribe PROVE CoverageInv'
<1> DEFINE cn == [c \in Conns |-> [conn[c] EXCEPT !.sent = conn[c].total]]
<1>1. conn \in [Conns -> Connections] /\ ring \in Seq(Conns) /\ Len(ring) <= RingSize
  BY DEF TelemetryInv, SingBoxOK, ConnsOK
<1>2. /\ conn' = cn /\ ring' = ring /\ collector' = applyReset(collector) /\ collector # None
      /\ UNCHANGED <<pc, saved, draft, rows, reports, covered>>
  BY DEF Subscribe, server
<1>3. \A x \in Conns : /\ conn'[x].total = conn[x].total /\ conn'[x].sent = conn[x].total
                       /\ conn'[x].closedAt = conn[x].closedAt /\ conn'[x].st = conn[x].st
  BY <1>1, <1>2 DEF Connections
<1> HIDE DEF cn
<1>4. RingOK'
  BY <1>2, <1>3 DEF CoverageInv, RingOK
<1>5. SlotOK'
  BY <1>2, SlotStill DEF CoverageInv
<1>6. linked'
  BY DEF Subscribe
<1>7. collector' # None
  BY <1>6 DEF TelemetryInv, CollectorOK
<1>8. ASSUME ~gap' PROVE Counted'
  <2>1. gap \in BOOLEAN /\ collector' \in Collectors
    BY <1>7 DEF TelemetryInv, HistoryOK, CollectorOK, Fits
  <2>2. ~gap /\ ~(collector'.dropped > 0)
    BY <1>8, <2>1 DEF Subscribe, Overflowed
  <2>3. collector'.dropped = 0
    BY <2>1, <2>2 DEF Collectors
  <2>4. Counted
    BY <1>2, <2>2 DEF CoverageInv
  <2>5. ConnsOK(conn) /\ ConnsOK(conn') /\ Fits(collector, conn) /\ collector \in Collectors
    BY <1>2 DEF TelemetryInv, SingBoxOK, CollectorOK, Fits
  <2>6. Fits(collector, conn')
    <3>1. \A x \in Conns : conn[x].total \in Nat /\ conn[x].sent \in Nat /\ conn[x].sent <= conn[x].total
      BY <2>5, TelemetryAssumptions DEF ConnsOK, Connections
    <3>2. Grown(conn, conn')
      BY <1>3, <3>1 DEF Grown
    <3> QED
      BY <2>5, <3>2, FitsGrows
  <2>7. Kept(collector, conn', ring)
    BY <1>3, <2>4 DEF Counted, Kept
  <2>8. \A c \in Conns : Contains(ring, c) => conn[c].st = "closed" /\ conn[c].closedAt # 0
    BY DEF CoverageInv, RingOK
  <2>9. /\ Kept(collector', conn', ring) /\ Hears(collector, collector', conn', ring)
        /\ \A c \in Conns : Contains(ring, c) => Contains(collector'.accounted, c)
    BY <1>1, <1>2, <1>3, <2>5, <2>6, <2>7, <2>8, ResetHears
  <2>10. SumOf(Seen(collector, conn, ring)) <= SumOf(Seen(collector, conn', ring'))
    BY <1>2, <1>3, <2>5, SeenMoves
  <2>11. /\ (Reported + collector.bytes <= SumOf(Seen(collector, conn, ring)))'
         /\ (\A x \in Conns : Contains(collector.accounted, x) => Carried(x))'
    BY <1>2, <1>3, <1>7, <2>3, <2>4, <2>9, <2>10, StreamCounts
  <2>12. Unaccounted(collector'.accounted, ring') = {}
    BY <1>2, <2>9 DEF Unaccounted
  <2> QED
    BY <1>2, <2>9, <2>11, <2>12 DEF Counted
<1> QED
  BY <1>4, <1>5, <1>7, <1>8 DEF CoverageInv

----------------------------------------------------------------------------
(* The steps of the agent and of the server *)

\* Bytes and snapshots that move on, from the collector to the server.
LEMMA BooksMove ==
  ASSUME TelemetryInv, TelemetryInv', CoverageInv, ~gap, collector # None, collector' # None,
         UNCHANGED <<conn, ring>>, linked' => linked,
         collector'.live = collector.live, collector'.accounted = collector.accounted,
         collector'.startup = collector.startup,
         Reported' + collector'.bytes <= Reported + collector.bytes,
         \A c \in Conns : Carried(c) => Carried(c)'
  PROVE  Counted'
<1>1. Counted /\ ConnsOK(conn) /\ collector \in Collectors /\ collector' \in Collectors
  BY DEF CoverageInv, TelemetryInv, SingBoxOK, CollectorOK, Fits
<1>2. Seen(collector', conn', ring') = Seen(collector, conn, ring)
  BY DEF Seen
<1>3. Reported \in Nat /\ Reported' \in Nat /\ collector.bytes \in Nat /\ collector'.bytes \in Nat
  <2>1. collector.bytes \in Nat /\ collector'.bytes \in Nat
    BY <1>1 DEF Collectors
  <2>2. covered' \in Nat
    BY DEF TelemetryInv, ServerOK
  <2>3. saved'.pending # None => saved'.pending.bytes \in Nat
    BY DEF TelemetryInv, ReportsOK, Reports
  <2>4. draft' # None => draft'.bytes \in Nat
    BY DEF TelemetryInv, ReportsOK, Drafts
  <2>5. Reported' \in Nat
    BY <2>2, <2>3, <2>4 DEF Reported
  <2> QED
    BY <2>1, <2>5, ReportedType
<1>4. SumOf(Seen(collector, conn, ring)) \in Nat
  <2>1. Seen(collector, conn, ring) \in [Conns -> Nat]
    BY <1>1, SeenType
  <2>2. \A x \in Conns : Seen(collector, conn, ring)[x] <= Seen(collector, conn, ring)[x]
    BY <2>1
  <2> QED
    BY <2>1, <2>2, SumMonotone
<1>5. Reported + collector.bytes <= SumOf(Seen(collector, conn, ring))
  BY <1>1 DEF Counted
<1>6. Reported' + collector'.bytes <= SumOf(Seen(collector, conn, ring))
  BY <1>3, <1>4, <1>5
<1>7. (Reported + collector.bytes <= SumOf(Seen(collector, conn, ring)))'
  BY <1>2, <1>6
<1>8. Kept(collector, conn, ring)'
  BY <1>1 DEF Counted, Kept
<1>9. (linked => Unaccounted(collector.accounted, ring) = {})'
  BY <1>1 DEF Counted
<1>10. (\A c \in Conns : Contains(collector.accounted, c) => Carried(c))'
  BY <1>1 DEF Counted
<1> QED
  BY <1>7, <1>8, <1>9, <1>10 DEF Counted

\* sing-box goes and takes its ring with it.
LEMMA RestartCounts ==
  ASSUME TelemetryInv, TelemetryInv', CoverageInv, SingBoxRestarts \/ ApplyConfig PROVE CoverageInv'
<1>1. Restarted /\ UNCHANGED <<pc, draft, saved, rows, reports>>
  BY DEF SingBoxRestarts, ApplyConfig, server
<1>2. gap' /\ ring' = <<>> /\ conn \in [Conns -> Connections]
      /\ \A x \in Conns : conn'[x].total = conn[x].total /\ (conn'[x].st = "none" => conn[x].st = "none")
  BY <1>1, ZenonT(60) DEF Restarted, TelemetryInv, SingBoxOK, ConnsOK, Connections
<1>3. \A x \in Conns : ~Contains(ring', x)
  BY <1>2 DEF Contains
<1>4. RingOK'
  BY <1>2, <1>3 DEF CoverageInv, RingOK
<1>5. SlotOK'
  BY <1>1, SlotStill DEF CoverageInv
<1> QED
  BY <1>2, <1>4, <1>5 DEF CoverageInv

LEMMA CrashCounts ==
  ASSUME TelemetryInv, TelemetryInv', CoverageInv, Crash PROVE CoverageInv'
<1>1. RingOK' /\ SlotOK'
  BY DEF Crash, CoverageInv, RingOK, SlotOK, singbox, server
<1> QED
  BY <1>1 DEF Crash, CoverageInv

\* A shutdown ends the collector: what it stages has a sequence of its own.
LEMMA FlushCounts ==
  ASSUME TelemetryInv, TelemetryInv', CoverageInv, flushConnectionsToState PROVE CoverageInv'
<1>1. /\ UNCHANGED <<conn, ring, pc, draft, rows, reports>> /\ pc = "idle" /\ gap'
      /\ saved' = IF Drained(collector) THEN [saved EXCEPT !.high = larger(@, collector.high)]
                  ELSE LET built == buildConnectionReport([bytes |-> collector.bytes, buckets |-> collector.buckets])
                       IN  IF saved.pending = None THEN built
                           ELSE [built EXCEPT !.pending = saved.pending]
  BY DEF flushConnectionsToState, singbox, server
<1>2. saved \in [sequence : Nat, high : Nat, pending : Reports \cup {None}] /\ reports \subseteq 1..saved.sequence
  BY DEF TelemetryInv, ReportsOK, ServerOK
<1>3. RingOK'
  BY <1>1 DEF CoverageInv, RingOK
<1>4. \/ saved'.pending = saved.pending
      \/ saved'.pending.sequence = saved.sequence + 1
  BY <1>1, <1>2 DEF buildConnectionReport
<1>5. saved.sequence + 1 \notin reports
  BY <1>2
<1>6. SlotOK'
  BY <1>1, <1>4, <1>5 DEF CoverageInv, SlotOK
<1> QED
  BY <1>1, <1>3, <1>6 DEF CoverageInv

\* The first collector starts with nothing; a later one is a gap.
LEMMA ReconcileCounts ==
  ASSUME TelemetryInv, TelemetryInv', CoverageInv, reconcileConnectionCollector PROVE CoverageInv'
<1>1. UNCHANGED <<conn, ring, pc, draft, saved, rows, reports, covered>>
  BY DEF reconcileConnectionCollector, singbox, server
<1>2. RingOK' /\ SlotOK'
  BY <1>1, SlotStill DEF CoverageInv, RingOK
<1>3. ASSUME ~gap' PROVE IF collector' = None THEN Untouched' ELSE Counted'
  <2>1. ~gap /\ collector = None /\ disk # None /\ linked' = FALSE
        /\ collector' = newConnectionCollector(disk, saved.high)
    BY <1>3 DEF reconcileConnectionCollector, TelemetryInv, HistoryOK
  <2>2. Untouched
    BY <2>1 DEF CoverageInv
  <2>3. collector'.startup = 0 /\ collector'.accounted = <<>> /\ collector'.bytes = 0
    BY <2>1, <2>2 DEF newConnectionCollector, Untouched
  <2>4. collector' # None
    <3>1. disk \in Nat /\ saved.high \in Nat
      BY <2>1 DEF TelemetryInv, CollectorOK, ReportsOK
    <3>2. Nothing \in Snapshots
      BY DEF Nothing, Snapshots
    <3>3. newConnectionCollector(disk, saved.high) \in Collectors
      <4> HIDE DEF Nothing
      <4> QED
        BY <3>1, <3>2 DEF newConnectionCollector, Collectors
    <3> QED
      BY <2>1, <3>3, NoneIsNothing
  <2>5. collector' \in Collectors /\ ConnsOK(conn')
    BY <2>4 DEF TelemetryInv, CollectorOK, Fits, SingBoxOK
  <2>6. Reported' = 0
    BY <1>1, <2>2 DEF Reported, Untouched
  <2>7. SumOf(Seen(collector', conn', ring')) \in Nat
    <3>1. Seen(collector', conn', ring') \in [Conns -> Nat]
      BY <2>5, SeenType
    <3>2. \A x \in Conns : Seen(collector', conn', ring')[x] <= Seen(collector', conn', ring')[x]
      BY <3>1
    <3> QED
      BY <3>1, <3>2, SumMonotone
  <2>8. (Reported + collector.bytes <= SumOf(Seen(collector, conn, ring)))'
    BY <2>3, <2>6, <2>7
  <2>9. \A x \in Conns : ~Contains(collector'.accounted, x)
    BY <2>3 DEF Contains
  <2>10. Kept(collector, conn, ring)'
    <3>1. Outlives(collector'.accounted, ring')
      BY <2>3 DEF Outlives
    <3> QED
      BY <2>3, <2>9, <3>1 DEF Kept
  <2> QED
    BY <2>1, <2>4, <2>8, <2>9, <2>10 DEF Counted
<1> QED
  BY <1>2, <1>3 DEF CoverageInv

\* Steps that move no bytes: of the cycle, of the operator and of the link.
LEMMA StillCounts ==
  ASSUME TelemetryInv, TelemetryInv', CoverageInv,
         UNCHANGED <<conn, ring, collector, saved, draft, rows, reports, covered, gap>>, linked' => linked,
         pc' = "drained" => pc = "drained", pc' = "collect" => pc = "collect" \/ saved.pending = None,
         pc = "drained" => pc' = "drained"
  PROVE  CoverageInv'
<1>1. RingOK'
  BY DEF CoverageInv, RingOK
<1>2. SlotOK'
  BY DEF CoverageInv, SlotOK
<1>3. ASSUME ~gap' PROVE IF collector' = None THEN Untouched' ELSE Counted'
  <2>1. ~gap
    BY <1>3
  <2> QED
    BY <2>1, UnheardCounts
<1> QED
  BY <1>1, <1>2, <1>3 DEF CoverageInv

LEMMA MoveCounts ==
  ASSUME TelemetryInv, TelemetryInv', CoverageInv,
         \/ Disconnect \/ ReportBegin \/ NothingToCollect \/ RequestLost \/ AdmitReport \/ UNCHANGED vars
         \/ \E on \in BOOLEAN : SetNodeConnectionTelemetry(on)
         \/ RotateNodeConnectionTelemetrySecret \/ DeleteNodeConnectionTelemetry
  PROVE  CoverageInv'
<1>1. CASE Disconnect
  BY <1>1, StillCounts DEF Disconnect, singbox, server
<1>2. CASE ReportBegin
  BY <1>2, StillCounts DEF ReportBegin, singbox, server
<1>3. CASE NothingToCollect
  BY <1>3, StillCounts DEF NothingToCollect, singbox, server
<1>4. CASE RequestLost
  BY <1>4, StillCounts DEF RequestLost, singbox, server
<1>5. CASE AdmitReport
  BY <1>5, StillCounts DEF AdmitReport, singbox, server
<1>6. CASE UNCHANGED vars
  BY <1>6, StillCounts DEF vars, singbox, agent, server
<1>7. CASE \/ \E on \in BOOLEAN : SetNodeConnectionTelemetry(on)
           \/ RotateNodeConnectionTelemetrySecret \/ DeleteNodeConnectionTelemetry
  <2>1. UNCHANGED <<singbox, agent, rows, reports, covered, gap>>
    BY <1>7 DEF SetNodeConnectionTelemetry, RotateNodeConnectionTelemetrySecret, DeleteNodeConnectionTelemetry
  <2> QED
    BY <2>1, StillCounts DEF singbox, agent
<1> QED
  BY <1>1, <1>2, <1>3, <1>4, <1>5, <1>6, <1>7

\* What is drained leaves the collector and is in the draft.
LEMMA DrainCounts ==
  ASSUME TelemetryInv, TelemetryInv', CoverageInv, Drain PROVE CoverageInv'
<1>1. /\ UNCHANGED <<conn, ring, linked, saved, rows, reports, covered, gap>>
      /\ pc = "collect" /\ pc' = "drained" /\ collector # None /\ draft = None /\ saved.pending = None
  BY DEF Drain, singbox, server, CoverageInv, SlotOK
<1>2. collector \in Collectors /\ collector' # None
  BY <1>1 DEF TelemetryInv, CollectorOK, Fits, ReportsOK
<1>3. /\ collector'.live = collector.live /\ collector'.accounted = collector.accounted
      /\ collector'.startup = collector.startup /\ collector'.bytes = 0
  BY <1>2 DEF Drain, Collectors
<1>4. RingOK' /\ SlotOK'
  BY <1>1 DEF CoverageInv, RingOK, SlotOK
<1>5. ASSUME ~gap' PROVE Counted'
  <2>1. ~gap /\ covered \in Nat /\ collector.bytes \in Nat
    BY <1>1, <1>2, <1>5 DEF TelemetryInv, ServerOK, Collectors
  <2>2. CASE Drained(collector)
    <3>1. draft' = None /\ collector.bytes = 0 /\ Bucketed(collector.buckets) = {}
      BY <2>2 DEF Drain, Drained
    <3>2. Reported' + collector'.bytes <= Reported + collector.bytes
      BY <1>1, <1>3, <2>1, <3>1 DEF Reported
    <3>3. ASSUME NEW c \in Conns, Carried(c) PROVE Carried(c)'
      <4>1. collector.buckets[c].closed = 0
        BY <3>1 DEF Bucketed, Nothing
      <4> QED
        BY <1>1, <3>3, <4>1 DEF Carried, Full
    <3> QED
      BY <1>1, <1>2, <1>3, <2>1, <3>2, <3>3, BooksMove
  <2>3. CASE ~Drained(collector)
    <3>1. draft' = [bytes |-> collector.bytes, buckets |-> collector.buckets]
      BY <2>3 DEF Drain
    <3>2. draft' # None
      <4>1. draft' \in Drafts
        BY <1>2, <3>1 DEF Drafts, Collectors
      <4> QED
        BY <4>1, NoneIsNothing
    <3>3. Reported' + collector'.bytes <= Reported + collector.bytes
      BY <1>1, <1>3, <2>1, <3>1, <3>2 DEF Reported
    <3>4. ASSUME NEW c \in Conns, Carried(c) PROVE Carried(c)'
      BY <1>1, <3>1, <3>2, <3>4 DEF Carried, Full
    <3> QED
      BY <1>1, <1>2, <1>3, <2>1, <3>3, <3>4, BooksMove
  <2> QED
    BY <2>2, <2>3
<1> QED
  BY <1>2, <1>4, <1>5 DEF CoverageInv

\* The draft takes the free slot under a sequence the server has not seen.
LEMMA StageCounts ==
  ASSUME TelemetryInv, TelemetryInv', CoverageInv, StageReport PROVE CoverageInv'
<1>1. /\ UNCHANGED <<conn, ring, linked, collector, rows, reports, covered, gap>>
      /\ pc = "drained" /\ pc' \in {"idle", "send"} /\ saved.pending = None /\ draft' = None
  BY DEF StageReport, singbox, server, CoverageInv, SlotOK
<1>2. collector # None /\ collector \in Collectors
  BY <1>1 DEF TelemetryInv, CollectorOK, Fits, ReportsOK
<1>3. saved \in [sequence : Nat, high : Nat, pending : Reports \cup {None}] /\ reports \subseteq 1..saved.sequence
  BY DEF TelemetryInv, ReportsOK, ServerOK
<1>4. saved.sequence + 1 \notin reports
  BY <1>3
<1>5. draft = None => saved'.pending = None
  BY <1>1, <1>3 DEF StageReport
<1>6. draft # None => saved'.pending = [sequence |-> saved.sequence + 1, bytes |-> draft.bytes, buckets |-> draft.buckets]
  BY DEF StageReport, buildConnectionReport
<1>7. draft # None => saved'.pending # None /\ draft.bytes \in Nat
  <2> SUFFICES ASSUME draft # None PROVE saved'.pending # None /\ draft.bytes \in Nat
    OBVIOUS
  <2>1. draft \in Drafts /\ saved.sequence + 1 \in Nat
    BY <1>3 DEF TelemetryInv, ReportsOK
  <2>2. saved'.pending \in Reports
    BY <1>6, <2>1 DEF Drafts, Reports
  <2> QED
    BY <2>1, <2>2, NoneIsNothing DEF Drafts
<1>8. RingOK'
  BY <1>1 DEF CoverageInv, RingOK
<1>9. SlotOK'
  BY <1>1, <1>4, <1>5, <1>6 DEF SlotOK
<1>10. ASSUME ~gap' PROVE Counted'
  <2>1. ~gap /\ covered \in Nat /\ collector.bytes \in Nat
    BY <1>1, <1>2, <1>10 DEF TelemetryInv, ServerOK, Collectors
  <2>2. Reported' = Reported
    BY <1>1, <1>4, <1>5, <1>6, <1>7, <2>1 DEF Reported
  <2>3. Reported' + collector'.bytes <= Reported + collector.bytes
    BY <1>1, <2>1, <2>2, ReportedType
  <2>4. ASSUME NEW c \in Conns, Carried(c) PROVE Carried(c)'
    BY <1>1, <1>6, <1>7, <2>4 DEF Carried, Full
  <2> QED
    BY <1>1, <1>2, <2>1, <2>3, <2>4, BooksMove
<1> QED
  BY <1>1, <1>2, <1>8, <1>9, <1>10 DEF CoverageInv

\* A report is recorded once, and the rows then have all of it.
LEMMA RecordReportCounts ==
  ASSUME TelemetryInv, TelemetryInv', CoverageInv, RecordReport PROVE CoverageInv'
<1> DEFINE r == saved.pending
<1>1. /\ UNCHANGED <<conn, ring, linked, collector, draft, gap>>
      /\ pc \in {"readmitted", "admitted"} /\ RecordConnectionReport(r)
      /\ \/ saved'.pending = None /\ pc' \in {"collect", "idle"}
         \/ saved' = saved /\ pc' = "idle"
  BY DEF RecordReport, singbox, TelemetryInv, ReportsOK
<1>2. r # None /\ r \in Reports /\ draft = None
  BY <1>1 DEF TelemetryInv, ReportsOK, CoverageInv, SlotOK
<1>3. /\ rows \in [Conns -> Snapshots] /\ r.buckets \in [Conns -> Snapshots]
      /\ rows' \in [Conns -> Snapshots] /\ r.bytes \in Nat /\ covered \in Nat
  BY <1>2 DEF TelemetryInv, ServerOK, Within, Reports
<1>4. r.sequence \in reports'
  BY <1>1 DEF RecordConnectionReport, GetConnectionReportBySequence, CreateConnectionReport
<1>5. /\ covered' = covered + (IF r.sequence \notin reports THEN r.bytes ELSE 0)
      /\ \A c \in Conns : /\ r.buckets[c].closed <= rows'[c].closed /\ r.buckets[c].bytes <= rows'[c].bytes
                          /\ rows[c].closed <= rows'[c].closed /\ rows[c].bytes <= rows'[c].bytes
  <2>1. CASE r.sequence \in reports
    <3>1. rows' = rows /\ covered' = covered
      BY <1>1, <2>1 DEF RecordConnectionReport, GetConnectionReportBySequence
    <3>2. \A c \in Conns : r.buckets[c].closed <= rows[c].closed /\ r.buckets[c].bytes <= rows[c].bytes
      BY <1>2, <2>1 DEF CoverageInv, SlotOK
    <3>3. \A c \in Conns : rows[c].closed <= rows[c].closed /\ rows[c].bytes <= rows[c].bytes
      BY <1>3 DEF Snapshots
    <3> QED
      BY <1>3, <2>1, <3>1, <3>2, <3>3
  <2>2. CASE r.sequence \notin reports
    <3>1. rows' = [c \in Conns |-> Merge(rows[c], r.buckets[c])] /\ covered' = covered + r.bytes
      BY <1>1, <2>2 DEF RecordConnectionReport, GetConnectionReportBySequence, UpsertConnectionEvents, CreateConnectionReport
    <3>2. ASSUME NEW c \in Conns
          PROVE  /\ r.buckets[c].closed <= rows'[c].closed /\ r.buckets[c].bytes <= rows'[c].bytes
                 /\ rows[c].closed <= rows'[c].closed /\ rows[c].bytes <= rows'[c].bytes
      <4>1. rows'[c] = Merge(rows[c], r.buckets[c])
        BY <3>1
      <4>2. rows[c] \in Snapshots /\ r.buckets[c] \in Snapshots
        BY <1>3
      <4> QED
        BY <4>1, <4>2, MergeGrows
    <3> QED
      BY <2>2, <3>1, <3>2
  <2> QED
    BY <2>1, <2>2
<1>6. RingOK'
  BY <1>1 DEF CoverageInv, RingOK
<1>7. SlotOK'
  BY <1>1, <1>2, <1>5 DEF SlotOK
<1>8. ASSUME ~gap' PROVE IF collector' = None THEN Untouched' ELSE Counted'
  <2>1. ~gap /\ collector # None
    BY <1>1, <1>2, <1>8 DEF CoverageInv, Untouched
  <2>2. Reported' = Reported /\ collector.bytes \in Nat
    <3>1. collector.bytes \in Nat
      BY <2>1 DEF TelemetryInv, CollectorOK, Fits, Collectors
    <3>2. Reported = covered + (IF r.sequence \notin reports THEN r.bytes ELSE 0)
      BY <1>2, <1>3 DEF Reported
    <3>3. covered' \in Nat /\ Reported' = covered'
      BY <1>1, <1>2, <1>3, <1>4, <1>5 DEF Reported
    <3> QED
      BY <1>5, <3>1, <3>2, <3>3
  <2>3. Reported' + collector'.bytes <= Reported + collector.bytes
    BY <1>1, <2>2, ReportedType
  <2>4. ASSUME NEW c \in Conns, Carried(c) PROVE Carried(c)'
    <3>1. rows'[c].closed \in {0, 1} /\ rows'[c].bytes \in Nat
          /\ rows'[c].bytes <= conn[c].total /\ conn[c].total \in Nat
      BY <1>1, <1>3, TelemetryAssumptions, SMTT(60) DEF TelemetryInv, ServerOK, SingBoxOK, ConnsOK, Connections, Within, Snapshots
    <3>2. CASE Full(rows, c)
      <4>1. rows'[c].closed = 1 /\ rows'[c].bytes = conn[c].total
        BY <1>5, <3>1, <3>2 DEF Full
      <4> QED
        BY <1>1, <4>1 DEF Carried, Full
    <3>3. CASE Full(r.buckets, c)
      <4>1. rows'[c].closed = 1 /\ rows'[c].bytes = conn[c].total
        BY <1>5, <3>1, <3>3 DEF Full
      <4> QED
        BY <1>1, <4>1 DEF Carried, Full
    <3>4. CASE Full(collector.buckets, c)
      BY <1>1, <2>1, <3>4 DEF Carried, Full
    <3> QED
      BY <1>2, <2>4, <3>2, <3>3, <3>4 DEF Carried
  <2>5. collector' = collector
    BY <1>1
  <2> QED
    BY <1>1, <2>1, <2>3, <2>4, <2>5, BooksMove
<1> QED
  BY <1>6, <1>7, <1>8 DEF CoverageInv

----------------------------------------------------------------------------
(* What is counted, in every reachable state *)

LEMMA CoverageInvariance == Spec => [](TelemetryInv /\ CoverageInv)
<1>1. Init => CoverageInv
  <2> SUFFICES ASSUME Init PROVE CoverageInv
    OBVIOUS
  <2>1. \A c \in Conns : ~Contains(ring, c) /\ conn[c].total = 0
    BY DEF Init, Contains
  <2>2. saved.high = 0 /\ saved.pending = None /\ collector = None /\ pc = "idle" /\ draft = None /\ covered = 0
    BY DEF Init
  <2> QED
    BY <2>1, <2>2 DEF CoverageInv, RingOK, SlotOK, Untouched
<1>2. TelemetryInv /\ TelemetryInv' /\ CoverageInv /\ [Next]_vars => CoverageInv'
  <2> SUFFICES ASSUME TelemetryInv, TelemetryInv', CoverageInv, [Next]_vars PROVE CoverageInv'
    OBVIOUS
  <2>1. CASE Subscribe
    BY <2>1, SubscribeCounts
  <2>2. CASE SingBoxRestarts \/ ApplyConfig
    BY <2>2, RestartCounts
  <2>3. ASSUME NEW c \in Conns, Open(c) \/ Traffic(c) \/ Update(c) \/ Close(c)
        PROVE  CoverageInv'
    BY <2>3, OpenCounts, TrafficCounts, UpdateCounts, CloseCounts
  <2>4. CASE reconcileConnectionCollector
    BY <2>4, ReconcileCounts
  <2>5. CASE Cycle
    BY <2>5, MoveCounts, DrainCounts, StageCounts, RecordReportCounts DEF Cycle
  <2>6. CASE Crash
    BY <2>6, CrashCounts
  <2>7. CASE flushConnectionsToState
    BY <2>7, FlushCounts
  <2>8. CASE \/ Disconnect \/ RequestLost \/ UNCHANGED vars
             \/ \E on \in BOOLEAN : SetNodeConnectionTelemetry(on)
             \/ RotateNodeConnectionTelemetrySecret
             \/ DeleteNodeConnectionTelemetry
    BY <2>8, MoveCounts
  <2> QED
    BY <2>1, <2>2, <2>3, <2>4, <2>5, <2>6, <2>7, <2>8 DEF Next
<1> QED
  BY <1>1, <1>2, TelemetryInvariance, PTL DEF Spec

\* While one collector runs, the bytes the coverage counters of the reports have
\* observed, with those still on their way, are never more than the connections
\* carried: a replay of the stream counts only what trackedConnection.advance adds,
\* closedIDRing refuses every close the ring of sing-box can still replay, and
\* RecordConnectionReport takes a sequence once.
THEOREM CoverageIsCountedOnce == Spec => []CoverageCountsOnce
<1>1. TelemetryInv /\ CoverageInv => CoverageCountsOnce
  <2> SUFFICES ASSUME TelemetryInv, CoverageInv, ~gap
               PROVE  Reported + (IF collector # None THEN collector.bytes ELSE 0) <= TotalBytes
    BY DEF CoverageCountsOnce, Reported
  <2> DEFINE totals == [c \in Conns |-> conn[c].total]
  <2>1. ConnsOK(conn) /\ totals \in [Conns -> Nat]
    BY TelemetryAssumptions, SMTT(60) DEF TelemetryInv, SingBoxOK, ConnsOK, Connections
  <2>2. TotalBytes = SumOf(totals)
    BY DEF TotalBytes
  <2>3. \A x \in Conns : totals[x] = conn[x].total
    OBVIOUS
  <2> HIDE DEF totals
  <2>4. CASE collector = None
    <3>1. Untouched
      BY <2>4 DEF CoverageInv
    <3>2. \A x \in Conns : totals[x] <= totals[x]
      BY <2>1
    <3>3. SumOf(totals) \in Nat
      BY <2>1, <3>2, SumMonotone
    <3> QED
      BY <2>2, <2>4, <3>1, <3>3 DEF Untouched, Reported
  <2>5. CASE collector # None
    <3>1. Counted /\ Fits(collector, conn) /\ collector \in Collectors
      BY <2>5 DEF CoverageInv, TelemetryInv, CollectorOK, Fits
    <3>2. Seen(collector, conn, ring) \in [Conns -> Nat]
      BY <2>1, <3>1, SeenType
    <3>3. ASSUME NEW x \in Conns PROVE Seen(collector, conn, ring)[x] <= totals[x]
      <4>1. conn[x].sent \in Nat /\ conn[x].sent <= conn[x].total /\ conn[x].total \in Nat
        BY <2>1, TelemetryAssumptions DEF ConnsOK, Connections
      <4>2. collector.live[x] # None => collector.live[x] \in Nat /\ collector.live[x] <= conn[x].sent
        BY <3>1 DEF Fits, Collectors
      <4>3. Seen(collector, conn, ring)[x] \in {collector.live[x], conn[x].total, 0}
            /\ (collector.live[x] = None => Seen(collector, conn, ring)[x] \in {conn[x].total, 0})
        BY DEF Seen
      <4> QED
        BY <2>3, <4>1, <4>2, <4>3
    <3>4. /\ SumOf(Seen(collector, conn, ring)) \in Nat /\ SumOf(totals) \in Nat
          /\ SumOf(Seen(collector, conn, ring)) <= SumOf(totals)
      BY <2>1, <3>2, <3>3, SumMonotone
    <3>5. Reported + collector.bytes <= SumOf(Seen(collector, conn, ring))
      BY <3>1 DEF Counted
    <3>6. Reported \in Nat /\ collector.bytes \in Nat
      BY <3>1, ReportedType DEF Collectors
    <3> QED
      BY <2>2, <2>5, <3>4, <3>5, <3>6
  <2> QED
    BY <2>4, <2>5
<1> QED
  BY <1>1, CoverageInvariance, PTL

\* A close the collector has accounted for, and refuses when the ring replays it,
\* is with the server or on its way there with the connection's final totals: in
\* the collector's buckets, in the report being built, in the staged slot of the
\* state file or in connection_events.
THEOREM AccountedClosesAreKept == Spec => []AccountedIsKept
<1>1. TelemetryInv /\ CoverageInv => AccountedIsKept
  <2> SUFFICES ASSUME TelemetryInv, CoverageInv, collector # None, ~gap,
                      NEW c \in ToSet(collector.accounted)
               PROVE  \E b \in Carriers : b[c].closed = 1 /\ b[c].bytes = conn[c].total
    BY DEF AccountedIsKept
  <2>1. Counted /\ collector.accounted \in Seq(Conns)
    BY DEF CoverageInv, TelemetryInv, CollectorOK, Fits, Collectors
  <2>2. c \in Conns /\ Contains(collector.accounted, c)
    BY <2>1 DEF ToSet, Contains
  <2>3. Carried(c)
    BY <2>1, <2>2 DEF Counted
  <2> QED
    BY <2>3 DEF Carried, Full, Carriers
<1> QED
  BY <1>1, CoverageInvariance, PTL
================================================================================
