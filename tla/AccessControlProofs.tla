-------------------------- MODULE AccessControlProofs --------------------------
(***************************************************************************)
(* Proofs about AccessControl for every fleet: any number of nodes,        *)
(* proxies, hosts, users, groups and paths, any number of requests in      *)
(* flight and any number of requests.                                      *)
(*                                                                         *)
(* Sound is what every store keeps between two transactions.  Each         *)
(* database function is shown to lead from a sound store to a sound store  *)
(* and to respect what a step may never do (Advances), whatever the store  *)
(* it finds: this is why requests may interleave between their             *)
(* transactions.  A function is followed statement by statement, along     *)
(* relations between stores that compose: Spares (accesses and grants      *)
(* stay), Widens (no access is lost) and Moves (rows and secrets are       *)
(* respected).                                                             *)
(*                                                                         *)
(* The functions loop over sets and lists.  The bodies of all loops are    *)
(* collected in one operator, Body, and what each loop keeps in another,   *)
(* Keeps, so that loops are reasoned about once, by induction over the     *)
(* size of the subset dealt with.                                          *)
(***************************************************************************)
EXTENDS AccessControl, FiniteSetTheorems, WellFoundedInduction, TLAPS

----------------------------------------------------------------------------
(* What a database function leaves as it was *)

Fields == {"node", "host", "proxy", "direct", "user", "endpoint", "path", "born",
           "access", "grant", "cred", "binding", "group"}
Creds == [state : {"none", "on", "off", "archived"}, secret : Nat]

\* Paths dial through paths that are there.
Linked(s) ==
  /\ s.path \in [PathIds -> PathRows \cup {None}]
  /\ \A q \in ListPaths(s) : s.path[q].dialer # None => s.path[s.path[q].dialer] # None

\* They have an endpoint and never dial through themselves.
Wired(s) ==
  /\ Linked(s)
  /\ s.endpoint \in [Proxies \X Hosts -> {"none", "on", "off"}]
  /\ \A q \in ListPaths(s) : /\ s.endpoint[EndpointOf(s, q)] # "none"
                             /\ s.path[q].dialer # None => q \notin Hops(s, s.path[q].dialer)

StoreOK(s) ==
  /\ s = [x \in Fields |-> s[x]]
  /\ s.node \in [Nodes -> {"active", "disabled", "deleted"}]
  /\ s.proxy \in [Proxies -> {"absent", "on", "off", "deleted"}]
  /\ s.user \in [Users -> {"absent", "active", "disabled", "deleted"}]
  /\ s.access \in [Users \X PathIds -> {"none", "live", "archived"}]
  /\ s.cred \in [Users \X Proxies -> Creds]
  /\ Wired(s)

\* Every access of s has its grant and every grant its access.
Balanced(s) == \A u \in Users, q \in PathIds : (s.access[<<u, q>>] = "live") <=> (<<u, q>> \in s.grant)

\* What cannot be used holds no credential: no proxy and no user that is absent
\* or retired.
NoStray(s) ==
  \A u \in Users, p \in Proxies :
    ~GetProxyByID(s, p) \/ ~GetProxyUser(s, u) => s.cred[<<u, p>>].state \in {"none", "archived"}

\* An access leads to a path that is there.
Rooted(s) == \A u \in Users, q \in PathIds : s.access[<<u, q>>] = "live" => s.path[q] # None

\* Secrets only grow, and a credential comes back with a fresh one.
Fresher(s, t) ==
  \A c \in Users \X Proxies :
    /\ t.cred[c].secret >= s.cred[c].secret
    /\ s.cred[c].state # "on" /\ t.cred[c].state = "on" => t.cred[c].secret > s.cred[c].secret

\* A credential is given only to a user and for a proxy that are there.
Issued(s, t) ==
  \A u \in Users, p \in Proxies :
    t.cred[<<u, p>>].state \in {"on", "off"} =>
      s.cred[<<u, p>>].state \in {"on", "off"} \/ (GetProxyUser(s, u) /\ GetProxyByID(s, p))

\* The rows of nodes, hosts, proxies and users stay, and credentials are kept right.
Moves(s, t) ==
  /\ StoreOK(t)
  /\ t.node = s.node /\ t.host = s.host /\ t.proxy = s.proxy /\ t.user = s.user
  /\ Fresher(s, t)
  /\ Issued(s, t)
  /\ Rooted(s) => Rooted(t)

\* Accesses and grants stay too.
Spares(s, t) == Moves(s, t) /\ t.access = s.access /\ t.grant = s.grant

\* No access is lost, and accesses and grants agree.
Widens(s, t) ==
  /\ Moves(s, t) /\ Balanced(t)
  /\ \A u \in Users, q \in PathIds : s.access[<<u, q>>] = "live" => t.access[<<u, q>>] = "live"

\* The user u has no credential for a proxy that no access of u needs.
Settled(s, u) ==
  \A p \in Proxies :
    s.cred[<<u, p>>].state = "on" /\ GetProxyByID(s, p) /\ GetProxyUser(s, u) =>
      p \in HopProxies(s, ListActivePathAccessesByUserID(s, u))

\* Nothing of Z dials out of it.
Closed(s, Z) == \A q \in Z : s.path[q].dialer # None => s.path[q].dialer \in Z

----------------------------------------------------------------------------
(* Loops *)

\* What one pass of a loop makes of the result r so far, for the element x.
Body(l, r, x) ==
  CASE l.kind = "hop" -> IF r.ok THEN EnsureHop(r.s, l.user, x) ELSE r
    [] l.kind = "direct" -> IF r.ok THEN GrantPathAccess(r.s, l.user, DirectPath[<<l.proxy, x>>]) ELSE r
    [] l.kind = "ensure" -> IF r.ok THEN EnsureDirectPathsForProxy(r.s, x) ELSE r
    [] l.kind = "regrant" ->
         IF ~r.ok THEN r
         ELSE IF HasManagedDirectGrantForProxyUser(r.s, x[1], x[2])
         THEN GrantDirectPathsForCredential(r.s, x[1], x[2]) ELSE Ok(r.s)
    [] l.kind = "extend" ->
         IF ~r.ok THEN r
         ELSE IF HopProxies(r.s, {x}) \cap l.blocked # {} THEN Fail(r.s)
         ELSE grantPathToUser(r.s, l.user, x)
    [] l.kind = "teardown" -> disableUnusedProxyCredentials(r, x)
    [] l.kind = "host" ->
         IF l.s.host[HostOrder[HomeNode[l.proxy]][x]] # "selected" THEN r
         ELSE IF r.ok THEN EnsureDirectPath(r.s, <<l.proxy, HostOrder[HomeNode[l.proxy]][x]>>) ELSE r
    [] l.kind \in {"dialers", "within"} -> r \cup ({l.s.path[q].dialer : q \in r} \ {None})
    [] l.kind = "upward" -> r \cup {q \in ListPaths(l.s) : l.s.path[q].dialer \in r}
    [] l.kind = "resolve" -> resolve(l.s, l.user, r, l.listing[x])

\* What holds of the result r of a loop that began in the store l.s, once the
\* elements of T, or of 1..T, have been dealt with.
Keeps(l, T, r) ==
  CASE l.kind \in {"hop", "ensure", "host"} -> Spares(l.s, r.s)
    [] l.kind \in {"direct", "regrant"} -> Widens(l.s, r.s)
    [] l.kind = "extend" ->
         /\ Moves(l.s, r.s)
         /\ r.s.grant = l.s.grant
         /\ r.ok => \A u \in Users, q \in PathIds :
                      r.s.access[<<u, q>>] = IF u = l.user /\ q \in T THEN "live" ELSE l.s.access[<<u, q>>]
    [] l.kind = "teardown" -> /\ Spares(l.s, r) /\ r.path = l.s.path /\ r.endpoint = l.s.endpoint
                              /\ \A u \in T : Settled(r, u)
    [] l.kind = "dialers" -> /\ r \subseteq ListPaths(l.s) /\ l.path \in r
                             /\ Closed(l.s, r) \/ Cardinality(r) >= T + 1
    [] l.kind = "within" -> r \subseteq l.set
    [] l.kind = "upward" -> r \subseteq ListPaths(l.s)
    [] l.kind = "resolve" -> r \subseteq ListPaths(l.s) /\ Closed(l.s, r) /\ \A q \in r : Usable(l.s, l.user, q)

Pick(T) == CHOOSE x \in T : TRUE

\* The results of the passes over the subsets of S.
Passes(l, S, base, g) ==
  g = [T \in SUBSET S |-> IF T = {} THEN base ELSE Body(l, g[T \ {Pick(T)}], Pick(T))]

\* The results of the first passes of a loop over 1..n.
Rounds(l, n, base, g) ==
  g = [i \in 0..n |-> IF i = 0 THEN base ELSE Body(l, g[i - 1], i)]

LEMMA LeastNumber ==
  ASSUME NEW T \in SUBSET Nat, T # {}
  PROVE  \E x \in T : \A y \in T : x <= y
<1>1. PICK x \in T : \A y \in T : ~(<<y, x>> \in OpToRel(<, Nat))
  BY NatLessThanWellFounded, WFMin
<1>2. \A y \in T : ~(y < x)
  BY <1>1 DEF OpToRel
<1> QED
  BY <1>2

\* A subset without one of its elements is smaller.
LEMMA Smaller ==
  ASSUME NEW S, IsFiniteSet(S), NEW T \in SUBSET S, NEW x \in T
  PROVE  /\ T \ {x} \in SUBSET S /\ IsFiniteSet(T) /\ Cardinality(T) \in Nat
         /\ Cardinality(T \ {x}) \in Nat /\ Cardinality(T) = Cardinality(T \ {x}) + 1
<1>1. IsFiniteSet(T)
  BY FS_Subset
<1>2. /\ IsFiniteSet(T \ {x}) /\ Cardinality(T) \in Nat /\ Cardinality(T \ {x}) \in Nat
      /\ Cardinality(T \ {x}) = Cardinality(T) - 1
  BY <1>1, FS_RemoveElement, FS_CardinalityType
<1> QED
  BY <1>1, <1>2

\* The passes define a function, by induction over the size of the subsets.
LEMMA PassesExist ==
  ASSUME NEW l, NEW S, IsFiniteSet(S), NEW base
  PROVE  \E g : Passes(l, S, base, g)
<1> DEFINE Small(n) == {T \in SUBSET S : Cardinality(T) <= n}
           Next1(g, T) == IF T = {} THEN base ELSE Body(l, g[T \ {Pick(T)}], Pick(T))
           Upto(n, g) == g = [T \in Small(n) |-> Next1(g, T)]
<1>1. ASSUME NEW T \in SUBSET S, T # {}
      PROVE  /\ Pick(T) \in T /\ T \ {Pick(T)} \in SUBSET S
             /\ Cardinality(T) \in Nat /\ Cardinality(T \ {Pick(T)}) \in Nat
             /\ Cardinality(T) = Cardinality(T \ {Pick(T)}) + 1
  <2>1. Pick(T) \in T
    BY <1>1 DEF Pick
  <2> QED
    BY <2>1, Smaller, ZenonT(60)
<1>2. \A n \in Nat : \E g : Upto(n, g)
  <2> SUFFICES ASSUME NEW m \in Nat, ~\E g : Upto(m, g) PROVE FALSE
    OBVIOUS
  <2> DEFINE C == {n \in Nat : ~\E g : Upto(n, g)}
  <2>1. PICK n \in C : \A y \in C : n <= y
    <3>1. C \in SUBSET Nat /\ C # {}
      OBVIOUS
    <3> HIDE DEF C
    <3> QED
      BY <3>1, LeastNumber
  <2>2. n \in Nat /\ ~\E g : Upto(n, g)
    OBVIOUS
  <2>3. CASE n = 0
    <3> DEFINE h == [T \in Small(0) |-> base]
    <3>1. ASSUME NEW T \in Small(0) PROVE T = {}
      <4> SUFFICES ASSUME T # {} PROVE FALSE
        OBVIOUS
      <4>1. Cardinality(T) \in Nat /\ Cardinality(T \ {Pick(T)}) \in Nat
            /\ Cardinality(T) = Cardinality(T \ {Pick(T)}) + 1 /\ Cardinality(T) <= 0
        BY <1>1, <3>1
      <4> QED
        BY <4>1
    <3>2. \A T \in Small(0) : h[T] = Next1(h, T)
      BY <3>1
    <3>3. Upto(0, h)
      BY <3>2
    <3> QED
      BY <2>2, <2>3, <3>3
  <2>4. CASE n # 0
    <3>1. PICK g : Upto(n - 1, g)
      <4>1. n - 1 \in Nat /\ n - 1 \notin C
        <5> HIDE DEF C
        <5> QED
          BY <2>1, <2>2, <2>4
      <4> HIDE DEF Upto
      <4> QED
        BY <4>1
    <3> DEFINE h == [T \in Small(n) |-> Next1(g, T)]
    <3>2. ASSUME NEW T \in Small(n) PROVE Next1(g, T) = Next1(h, T)
      <4>1. CASE T = {}
        BY <4>1
      <4>2. CASE T # {}
        <5> DEFINE D == T \ {Pick(T)}
        <5>1. D \in SUBSET S /\ Cardinality(D) \in Nat /\ Cardinality(D) <= n - 1 /\ Cardinality(D) <= n
          BY <1>1, <2>2, <3>2, <4>2
        <5>2. D \in Small(n - 1) /\ D \in Small(n)
          BY <5>1
        <5>3. g[D] = Next1(g, D) /\ h[D] = Next1(g, D)
          <6> HIDE DEF D, Small, Next1
          <6> QED
            BY <3>1, <5>2
        <5> QED
          BY <4>2, <5>3
      <4> QED
        BY <4>1, <4>2
    <3>3. Upto(n, h)
      <4> HIDE DEF Next1, Small
      <4> QED
        BY <3>2
    <3> QED
      BY <2>2, <3>3
  <2> QED
    BY <2>3, <2>4
<1>3. Cardinality(S) \in Nat /\ Small(Cardinality(S)) = SUBSET S
  <2>1. Cardinality(S) \in Nat
    BY FS_CardinalityType
  <2>2. \A T \in SUBSET S : Cardinality(T) <= Cardinality(S)
    BY FS_Subset
  <2> QED
    BY <2>1, <2>2
<1>4. PICK g : Upto(Cardinality(S), g)
  <2> HIDE DEF Upto
  <2> QED
    BY <1>2, <1>3
<1>5. Passes(l, S, base, g)
  <2> HIDE DEF Small
  <2> QED
    BY <1>3, <1>4 DEF Passes
<1> QED
  BY <1>5

\* A loop over a finite set keeps what each of its passes keeps.
LEMMA LoopKeeps ==
  ASSUME NEW l, NEW S, IsFiniteSet(S), NEW base, Keeps(l, {}, base), NEW g, Passes(l, S, base, g),
         \A T \in SUBSET S, x \in S : \A r : x \in T /\ Keeps(l, T \ {x}, r) => Keeps(l, T, Body(l, r, x))
  PROVE  Keeps(l, S, g[S])
<1>1. \A T \in SUBSET S : g[T] = IF T = {} THEN base ELSE Body(l, g[T \ {Pick(T)}], Pick(T))
  BY DEF Passes
<1>2. \A T \in SUBSET S : Keeps(l, T, g[T])
  <2> SUFFICES ASSUME NEW V \in SUBSET S, ~Keeps(l, V, g[V]) PROVE FALSE
    OBVIOUS
  <2> DEFINE C == {Cardinality(T) : T \in {U \in SUBSET S : ~Keeps(l, U, g[U])}}
  <2>1. C \in SUBSET Nat /\ C # {}
    <3>1. \A T \in SUBSET S : Cardinality(T) \in Nat
      BY FS_Subset, FS_CardinalityType
    <3> QED
      BY <3>1
  <2>2. PICK n \in C : \A y \in C : n <= y
    <3> HIDE DEF C
    <3> QED
      BY <2>1, LeastNumber
  <2>3. PICK T \in SUBSET S : ~Keeps(l, T, g[T]) /\ n = Cardinality(T)
    OBVIOUS
  <2>4. T # {}
    BY <1>1, <2>3
  <2> DEFINE x == Pick(T)
             D == T \ {x}
  <2>5. x \in T
    BY <2>4 DEF Pick
  <2>6. D \in SUBSET S /\ Cardinality(D) \in Nat /\ n = Cardinality(D) + 1
    BY <2>3, <2>5, Smaller
  <2>7. Keeps(l, D, g[D])
    <3>1. Cardinality(D) \notin C
      <4> HIDE DEF C, D
      <4> QED
        BY <2>2, <2>6
    <3> HIDE DEF D
    <3> QED
      BY <2>6, <3>1
  <2>8. g[T] = Body(l, g[D], x)
    BY <1>1, <2>4
  <2>9. Keeps(l, T, Body(l, g[D], x))
    <3> HIDE DEF x
    <3> QED
      BY <2>5, <2>7
  <2> QED
    BY <2>3, <2>8, <2>9
<1> QED
  BY <1>2

\* The same for a loop over 1..n.
LEMMA RoundsExist == ASSUME NEW l, NEW n \in Nat, NEW base PROVE \E g : Rounds(l, n, base, g)
<1> SUFFICES ASSUME ~\E g : Rounds(l, n, base, g) PROVE FALSE
  OBVIOUS
<1> DEFINE C == {k \in Nat : ~\E g : Rounds(l, k, base, g)}
<1>1. PICK k \in C : \A y \in C : k <= y
  <2>1. C \in SUBSET Nat /\ C # {}
    OBVIOUS
  <2> HIDE DEF C
  <2> QED
    BY <2>1, LeastNumber
<1>2. k \in Nat /\ ~\E g : Rounds(l, k, base, g)
  OBVIOUS
<1>3. k # 0
  <2>1. Rounds(l, 0, base, [i \in 0..0 |-> base])
    BY DEF Rounds
  <2> QED
    BY <1>2, <2>1
<1>4. PICK g : Rounds(l, k - 1, base, g)
  <2>1. k - 1 \in Nat /\ k - 1 \notin C
    <3> HIDE DEF C
    <3> QED
      BY <1>1, <1>2, <1>3
  <2> QED
    BY <2>1
<1> DEFINE Next1(f, i) == IF i = 0 THEN base ELSE Body(l, f[i - 1], i)
           h == [i \in 0..k |-> Next1(g, i)]
<1>5. \A i \in 0..(k - 1) : g[i] = Next1(g, i)
  BY <1>4 DEF Rounds
<1>6. ASSUME NEW i \in 0..k PROVE h[i] = Next1(h, i)
  <2>1. h[i] = Next1(g, i)
    OBVIOUS
  <2>2. i # 0 => g[i - 1] = h[i - 1]
    <3> SUFFICES ASSUME i # 0 PROVE g[i - 1] = h[i - 1]
      OBVIOUS
    <3>1. i - 1 \in 0..(k - 1) /\ i - 1 \in 0..k
      BY <1>2
    <3>2. g[i - 1] = Next1(g, i - 1) /\ h[i - 1] = Next1(g, i - 1)
      <4> HIDE DEF Next1
      <4> QED
        BY <1>5, <3>1
    <3> QED
      BY <3>2
  <2> HIDE DEF h
  <2> QED
    BY <2>1, <2>2
<1>7. Rounds(l, k, base, h)
  <2> HIDE DEF Next1
  <2>1. h = [i \in 0..k |-> Next1(h, i)]
    BY <1>6
  <2> QED
    BY <2>1 DEF Rounds, Next1
<1> QED
  BY <1>2, <1>7

LEMMA RoundsKeep ==
  ASSUME NEW l, NEW n \in Nat, NEW base, Keeps(l, 0, base), NEW g, Rounds(l, n, base, g),
         \A i \in 1..n : \A r : Keeps(l, i - 1, r) => Keeps(l, i, Body(l, r, i))
  PROVE  \A i \in 0..n : Keeps(l, i, g[i])
<1>1. \A i \in 0..n : g[i] = IF i = 0 THEN base ELSE Body(l, g[i - 1], i)
  BY DEF Rounds
<1> SUFFICES ASSUME NEW j \in 0..n, ~Keeps(l, j, g[j]) PROVE FALSE
  OBVIOUS
<1> DEFINE C == {i \in 0..n : ~Keeps(l, i, g[i])}
<1>2. C \in SUBSET Nat /\ C # {}
  OBVIOUS
<1>3. PICK k \in C : \A y \in C : k <= y
  <2> HIDE DEF C
  <2> QED
    BY <1>2, LeastNumber
<1>4. k \in 0..n /\ ~Keeps(l, k, g[k])
  OBVIOUS
<1>5. k # 0
  BY <1>1, <1>4
<1>6. k - 1 \in 0..n /\ k \in 1..n /\ k - 1 \notin C
  <2>1. k - 1 < k /\ k - 1 \in 0..n /\ k \in 1..n
    BY <1>4, <1>5
  <2> HIDE DEF C
  <2> QED
    BY <1>3, <2>1
<1>7. Keeps(l, k - 1, g[k - 1])
  BY <1>6
<1>8. g[k] = Body(l, g[k - 1], k)
  BY <1>1, <1>4, <1>5
<1> QED
  BY <1>4, <1>6, <1>7, <1>8

LEMMA CountKeeps ==
  ASSUME NEW l, NEW n \in Nat, NEW base, Keeps(l, 0, base), NEW g, Rounds(l, n, base, g),
         \A i \in 1..n : \A r : Keeps(l, i - 1, r) => Keeps(l, i, Body(l, r, i))
  PROVE  Keeps(l, n, g[n])
BY RoundsKeep

----------------------------------------------------------------------------
(* Chains of dialers *)

\* What a loop over the dialers of q makes of its rounds.
LEMMA HopsRounds ==
  ASSUME NEW s, NEW q, NEW l,
         \A r, x : Body(l, r, x) = r \cup ({s.path[p].dialer : p \in r} \ {None})
  PROVE  \E g : Rounds(l, Cardinality(PathIds), {q}, g) /\ Hops(s, q) = g[Cardinality(PathIds)]
<1> DEFINE n == Cardinality(PathIds)
<1>1. n \in Nat
  BY AccessStoreAssumption, FS_CardinalityType
<1> DEFINE E(g) == g = [k \in 0..n |-> IF k = 0 THEN {q}
                                        ELSE g[k - 1] \cup ({s.path[r].dialer : r \in g[k - 1]} \ {None})]
           f == CHOOSE g : E(g)
<1>2. Hops(s, q) = f[n]
  BY DEF Hops
<1>3. \A g : E(g) <=> Rounds(l, n, {q}, g)
  BY DEF Rounds
<1> HIDE DEF E
<1>4. E(f)
  BY <1>1, <1>3, RoundsExist
<1> QED
  BY <1>2, <1>3, <1>4

\* The hops of a path are paths, the path is one of them and so is whatever they
\* dial through: |PathIds| rounds are enough, since each adds a path until none does.
LEMMA HopsClosed ==
  ASSUME NEW s, Linked(s), NEW q \in ListPaths(s)
  PROVE  Hops(s, q) \subseteq ListPaths(s) /\ q \in Hops(s, q) /\ Closed(s, Hops(s, q))
<1> DEFINE l == [kind |-> "dialers", s |-> s, path |-> q]
           n == Cardinality(PathIds)
<1>1. l.kind = "dialers" /\ l.s = s /\ l.path = q
  OBVIOUS
<1> HIDE DEF l
<1>2. /\ n \in Nat
      /\ \A r, x : Body(l, r, x) = r \cup ({s.path[p].dialer : p \in r} \ {None})
  BY <1>1, AccessStoreAssumption, FS_CardinalityType DEF Body
<1>3. PICK g : Rounds(l, n, {q}, g) /\ Hops(s, q) = g[n]
  BY <1>2, HopsRounds
<1>4. \A T, r : Keeps(l, T, r) <=> (/\ r \subseteq ListPaths(s) /\ q \in r
                                    /\ Closed(s, r) \/ Cardinality(r) >= T + 1)
  BY <1>1 DEF Keeps
<1>5. \A r : r \subseteq ListPaths(s) => IsFiniteSet(r) /\ Cardinality(r) \in Nat /\ Cardinality(r) <= n
  <2>1. ListPaths(s) \subseteq PathIds
    BY DEF ListPaths
  <2> QED
    BY <2>1, AccessStoreAssumption, FS_Subset, FS_CardinalityType
<1>6. Keeps(l, 0, {q})
  BY <1>4, FS_Singleton, SMTT(60)
<1>7. ASSUME NEW i \in 1..n, NEW r, Keeps(l, i - 1, r) PROVE Keeps(l, i, Body(l, r, i))
  <2> DEFINE D == {s.path[p].dialer : p \in r} \ {None}
             v == r \cup D
  <2>1. r \subseteq ListPaths(s) /\ q \in r /\ (Closed(s, r) \/ Cardinality(r) >= i)
    BY <1>2, <1>4, <1>7
  <2>2. v \subseteq ListPaths(s)
    BY <2>1, AccessControlAssumption DEF Linked, ListPaths, PathRows
  <2>3. CASE Closed(s, r)
    <3>1. D \subseteq r
      BY <2>3 DEF Closed
    <3>2. v = r
      BY <3>1
    <3> QED
      BY <1>2, <1>4, <2>1, <2>3, <3>2
  <2>4. CASE ~Closed(s, r)
    <3>1. PICK d \in D : d \notin r
      BY <2>4 DEF Closed
    <3>2. /\ IsFiniteSet(r) /\ Cardinality(r) \in Nat /\ Cardinality(v) \in Nat /\ IsFiniteSet(v)
      BY <1>5, <2>1, <2>2
    <3>3. Cardinality(r \cup {d}) = Cardinality(r) + 1
      BY <3>1, <3>2, FS_AddElement
    <3>4. r \cup {d} \subseteq v
      BY <3>1
    <3> HIDE DEF v, D
    <3>5. Cardinality(r \cup {d}) <= Cardinality(v)
      BY <3>2, <3>4, FS_Subset
    <3>6. Cardinality(v) >= i + 1
      BY <1>2, <2>1, <2>4, <3>2, <3>3, <3>5
    <3> QED
      BY <1>2, <1>4, <2>1, <2>2, <3>6 DEF v, D
  <2> QED
    BY <2>3, <2>4
<1> HIDE DEF n
<1>8. Keeps(l, n, g[n])
  BY <1>2, <1>3, <1>6, <1>7, CountKeeps
<1>9. Hops(s, q) \subseteq ListPaths(s) /\ q \in Hops(s, q) /\ (Closed(s, Hops(s, q)) \/ Cardinality(Hops(s, q)) >= n + 1)
  BY <1>3, <1>4, <1>8
<1> QED
  BY <1>2, <1>5, <1>9

\* They are the least such set.
LEMMA HopsLeast ==
  ASSUME NEW s, NEW Z, Closed(s, Z), NEW q \in Z
  PROVE  Hops(s, q) \subseteq Z
<1> DEFINE l == [kind |-> "within", s |-> s, set |-> Z]
           n == Cardinality(PathIds)
<1>1. l.kind = "within" /\ l.s = s /\ l.set = Z
  OBVIOUS
<1> HIDE DEF l
<1>2. /\ n \in Nat
      /\ \A r, x : Body(l, r, x) = r \cup ({s.path[p].dialer : p \in r} \ {None})
  BY <1>1, AccessStoreAssumption, FS_CardinalityType DEF Body
<1>3. PICK g : Rounds(l, n, {q}, g) /\ Hops(s, q) = g[n]
  BY <1>2, HopsRounds
<1>4. \A T, r : Keeps(l, T, r) <=> r \subseteq Z
  BY <1>1 DEF Keeps
<1>5. Keeps(l, 0, {q})
  BY <1>4
<1>6. ASSUME NEW i \in 1..n, NEW r, Keeps(l, i - 1, r) PROVE Keeps(l, i, Body(l, r, i))
  <2>1. r \subseteq Z
    BY <1>4, <1>6
  <2>2. r \cup ({s.path[p].dialer : p \in r} \ {None}) \subseteq Z
    BY <2>1 DEF Closed
  <2> QED
    BY <1>2, <1>4, <2>2
<1> HIDE DEF n
<1>7. Keeps(l, n, g[n])
  BY <1>2, <1>3, <1>5, <1>6, CountKeeps
<1> QED
  BY <1>3, <1>4, <1>7

\* Only the dialers count.
LEMMA HopsSame ==
  ASSUME NEW s, NEW t, Linked(s), Linked(t), ListPaths(t) = ListPaths(s),
         \A p \in ListPaths(s) : t.path[p].dialer = s.path[p].dialer,
         NEW q \in ListPaths(s)
  PROVE  Hops(t, q) = Hops(s, q)
<1>1. /\ Hops(s, q) \subseteq ListPaths(s) /\ q \in Hops(s, q) /\ Closed(s, Hops(s, q))
      /\ Hops(t, q) \subseteq ListPaths(s) /\ q \in Hops(t, q) /\ Closed(t, Hops(t, q))
  BY HopsClosed
<1>2. Closed(t, Hops(s, q)) /\ Closed(s, Hops(t, q))
  BY <1>1 DEF Closed
<1>3. Hops(t, q) \subseteq Hops(s, q)
  BY <1>1, <1>2, HopsLeast
<1>4. Hops(s, q) \subseteq Hops(t, q)
  BY <1>1, <1>2, HopsLeast
<1> QED
  BY <1>3, <1>4

LEMMA DialerListed ==
  ASSUME NEW s, Linked(s), NEW q \in ListPaths(s)
  PROVE  /\ q \in PathIds /\ s.path[q] \in PathRows
         /\ s.path[q].dialer # None => s.path[q].dialer \in ListPaths(s)
BY AccessControlAssumption DEF Linked, ListPaths, PathRows

\* Rows that keep their endpoint and their dialer stay wired.
LEMMA Rewired ==
  ASSUME NEW s, NEW t, Wired(s),
         t.path \in [PathIds -> PathRows \cup {None}],
         t.endpoint \in [Proxies \X Hosts -> {"none", "on", "off"}],
         \A q \in PathIds : /\ t.path[q] = None <=> s.path[q] = None
                            /\ s.path[q] # None => /\ t.path[q].dialer = s.path[q].dialer
                                                   /\ EndpointOf(t, q) = EndpointOf(s, q),
         \A q \in ListPaths(s) : t.endpoint[EndpointOf(s, q)] # "none"
  PROVE  Wired(t)
<1>1. Linked(s) /\ ListPaths(t) = ListPaths(s)
  BY DEF Wired, ListPaths
<1>2. Linked(t)
  BY <1>1, DialerListed DEF Linked, ListPaths
<1>3. ASSUME NEW q \in ListPaths(t)
      PROVE  /\ t.endpoint[EndpointOf(t, q)] # "none"
             /\ t.path[q].dialer # None => q \notin Hops(t, t.path[q].dialer)
  <2>1. q \in ListPaths(s) /\ s.path[q] \in PathRows /\ q \in PathIds /\ s.path[q] # None
    BY <1>1, DialerListed DEF ListPaths
  <2>2. t.path[q].dialer = s.path[q].dialer /\ EndpointOf(t, q) = EndpointOf(s, q)
    BY <2>1
  <2>3. t.endpoint[EndpointOf(t, q)] # "none"
    BY <2>1, <2>2
  <2>4. ASSUME t.path[q].dialer # None PROVE q \notin Hops(t, t.path[q].dialer)
    <3>1. s.path[q].dialer \in ListPaths(s)
      BY <1>1, <2>1, <2>2, <2>4, DialerListed
    <3>2. \A p \in ListPaths(s) : t.path[p].dialer = s.path[p].dialer
      BY DEF ListPaths
    <3>3. Hops(t, s.path[q].dialer) = Hops(s, s.path[q].dialer)
      BY <1>1, <1>2, <3>1, <3>2, HopsSame
    <3> QED
      BY <2>1, <2>2, <2>4, <3>3 DEF Wired
  <2> QED
    BY <2>3, <2>4
<1> QED
  BY <1>2, <1>3 DEF Wired

LEMMA WiredSame ==
  ASSUME NEW s, NEW t, Wired(s), t.path = s.path, t.endpoint = s.endpoint
  PROVE  Wired(t)
BY Rewired DEF Wired, Linked, EndpointOf

\* Writing a row whose chain was walked closes no circle: a circle through another
\* path would have been there before, or lead through the path that is written.
LEMMA WriteWires ==
  ASSUME NEW s, NEW t, Wired(s), NEW q \in PathIds, NEW row \in PathRows,
         s.endpoint[<<row.proxy, row.host>>] # "none",
         t.path = [s.path EXCEPT ![q] = row], t.endpoint = s.endpoint,
         row.dialer # None => t.path[row.dialer] # None /\ q \notin Hops(t, row.dialer)
  PROVE  Wired(t)
<1>1. /\ Linked(s) /\ s.path \in [PathIds -> PathRows \cup {None}] /\ row # None
      /\ t.path \in [PathIds -> PathRows \cup {None}]
      /\ s.endpoint \in [Proxies \X Hosts -> {"none", "on", "off"}]
  BY AccessControlAssumption DEF Wired, Linked
<1>2. ListPaths(t) = ListPaths(s) \cup {q} /\ t.path[q] = row
      /\ \A r \in ListPaths(s) : r # q => t.path[r] = s.path[r]
  BY <1>1 DEF ListPaths
<1>3. Linked(t)
  <2>1. ASSUME NEW r \in ListPaths(t), t.path[r].dialer # None PROVE t.path[t.path[r].dialer] # None
    <3>1. CASE r = q
      BY <1>2, <2>1, <3>1
    <3>2. CASE r # q
      <4>1. r \in ListPaths(s) /\ t.path[r] = s.path[r]
        BY <1>2, <3>2
      <4>2. s.path[r].dialer \in ListPaths(s)
        BY <1>1, <2>1, <4>1, DialerListed
      <4>3. s.path[r].dialer \in ListPaths(t)
        BY <1>2, <4>2
      <4> QED
        BY <4>1, <4>3 DEF ListPaths
    <3> QED
      BY <3>1, <3>2
  <2> QED
    BY <1>1, <2>1 DEF Linked
<1>4. ASSUME NEW r \in ListPaths(t), t.path[r].dialer # None PROVE r \notin Hops(t, t.path[r].dialer)
  <2>1. CASE r = q
    BY <1>2, <1>4, <2>1
  <2>2. CASE r # q
    <3> DEFINE d == s.path[r].dialer
               Hs == Hops(s, d)
               Ht == Hops(t, d)
    <3>1. r \in ListPaths(s) /\ t.path[r] = s.path[r]
      BY <1>2, <2>2
    <3>2. d \in ListPaths(s) /\ d \in ListPaths(t)
      BY <1>1, <1>2, <1>4, <3>1, DialerListed
    <3>3. Hs \subseteq ListPaths(s) /\ d \in Hs /\ Closed(s, Hs) /\ d \in Ht /\ Closed(t, Ht)
      BY <1>1, <1>3, <3>2, HopsClosed
    <3>4. r \notin Hs
      BY <1>4, <3>1 DEF Wired
    <3> HIDE DEF Hs, Ht, d
    <3> SUFFICES ASSUME r \in Ht PROVE FALSE
      BY <3>1 DEF Ht, d
    <3>5. CASE q \notin Ht
      <4> DEFINE Z == Hs \cap Ht
      <4>1. Closed(t, Z)
        BY <1>2, <3>3, <3>5 DEF Closed
      <4>2. Ht \subseteq Z
        BY <3>3, <4>1, HopsLeast DEF Ht
      <4> QED
        BY <3>4, <4>2
    <3>6. CASE row.dialer = None
      <4>1. Closed(t, Hs)
        BY <1>2, <3>3, <3>6 DEF Closed
      <4>2. Ht \subseteq Hs
        BY <3>3, <4>1, HopsLeast DEF Ht
      <4> QED
        BY <3>4, <4>2
    <3>7. CASE q \in Ht /\ row.dialer # None
      <4> DEFINE Y == Hops(t, row.dialer)
                 Z == Hs \cup Y
      <4>1. row.dialer \in ListPaths(t)
        BY <1>1, <3>7 DEF ListPaths, PathRows
      <4>2. row.dialer \in Y /\ Closed(t, Y) /\ q \notin Y
        BY <1>3, <3>7, <4>1, HopsClosed
      <4> HIDE DEF Y
      <4>3. Closed(t, Z)
        BY <1>2, <3>3, <4>2 DEF Closed
      <4>4. Ht \subseteq Z
        BY <3>3, <4>3, HopsLeast DEF Ht
      <4>5. d \in Y
        BY <1>4, <3>1, <3>4, <4>2, <4>4 DEF Closed, d
      <4>6. Ht \subseteq Y
        BY <4>2, <4>5, HopsLeast DEF Ht
      <4> QED
        BY <3>7, <4>2, <4>6
    <3> QED
      BY <3>5, <3>6, <3>7
  <2> QED
    BY <2>1, <2>2
<1>5. ASSUME NEW r \in ListPaths(t) PROVE t.endpoint[EndpointOf(t, r)] # "none"
  BY <1>2 DEF EndpointOf, Wired
<1> QED
  BY <1>1, <1>3, <1>4, <1>5 DEF Wired

LEMMA DeleteWires ==
  ASSUME NEW s, NEW t, Wired(s), NEW q, DeletableBySchema(s, q),
         t.path = [s.path EXCEPT ![q] = None], t.endpoint = s.endpoint
  PROVE  Wired(t)
<1>1. /\ Linked(s) /\ s.path \in [PathIds -> PathRows \cup {None}]
      /\ t.path \in [PathIds -> PathRows \cup {None}]
      /\ s.endpoint \in [Proxies \X Hosts -> {"none", "on", "off"}]
  BY DEF Wired, Linked
<1>2. ListPaths(t) = ListPaths(s) \ {q} /\ \A r \in ListPaths(t) : t.path[r] = s.path[r]
  BY <1>1 DEF ListPaths
<1>3. ASSUME NEW r \in ListPaths(t), t.path[r].dialer # None
      PROVE  t.path[r].dialer \in ListPaths(t) /\ t.path[r] = s.path[r] /\ r \in ListPaths(s)
  BY <1>1, <1>2, <1>3, DialerListed DEF DeletableBySchema
<1>4. Linked(t)
  BY <1>1, <1>3 DEF Linked, ListPaths
<1>5. ASSUME NEW r \in ListPaths(t), t.path[r].dialer # None PROVE r \notin Hops(t, t.path[r].dialer)
  <2> DEFINE d == s.path[r].dialer
             Hs == Hops(s, d)
             Z == Hs \ {q}
  <2>1. d \in ListPaths(t) /\ d \in ListPaths(s) /\ r \in ListPaths(s) /\ t.path[r].dialer = d /\ d # q /\ d # None
    BY <1>2, <1>3, <1>5
  <2>2. Hs \subseteq ListPaths(s) /\ d \in Hs /\ Closed(s, Hs) /\ r \notin Hs
    BY <1>1, <2>1, HopsClosed DEF Wired
  <2> HIDE DEF Hs, d
  <2>3. Closed(t, Z)
    BY <1>2, <2>2 DEF Closed, DeletableBySchema
  <2>4. Hops(t, d) \subseteq Z
    BY <2>1, <2>2, <2>3, HopsLeast
  <2> QED
    BY <2>1, <2>2, <2>4
<1>6. ASSUME NEW r \in ListPaths(t) PROVE t.endpoint[EndpointOf(t, r)] # "none"
  BY <1>2 DEF EndpointOf, Wired
<1> QED
  BY <1>1, <1>4, <1>5, <1>6 DEF Wired

LEMMA EnableWires ==
  ASSUME NEW s, NEW t, Wired(s), NEW qs \in SUBSET ListPaths(s), NEW b \in BOOLEAN,
         t.path = [q \in PathIds |-> IF q \in qs THEN [s.path[q] EXCEPT !.enabled = b] ELSE s.path[q]],
         t.endpoint = s.endpoint
  PROVE  Wired(t)
<1>1. s.path \in [PathIds -> PathRows \cup {None}] /\ \A q \in qs : q \in PathIds /\ s.path[q] \in PathRows
  BY DialerListed DEF Wired, Linked
<1>2. ASSUME NEW q \in PathIds
      PROVE  /\ t.path[q] \in PathRows \cup {None}
             /\ t.path[q] = None <=> s.path[q] = None
             /\ s.path[q] # None => /\ t.path[q].dialer = s.path[q].dialer
                                    /\ EndpointOf(t, q) = EndpointOf(s, q)
  <2>1. CASE q \in qs
    <3>1. t.path[q] = [s.path[q] EXCEPT !.enabled = b] /\ s.path[q] \in PathRows
      BY <1>1, <2>1
    <3>2. t.path[q] \in PathRows /\ t.path[q].dialer = s.path[q].dialer
          /\ t.path[q].proxy = s.path[q].proxy /\ t.path[q].host = s.path[q].host
      BY <3>1 DEF PathRows
    <3> QED
      BY <1>1, <2>1, <3>2, AccessControlAssumption DEF EndpointOf, ListPaths
  <2>2. CASE q \notin qs
    BY <1>1, <2>2 DEF EndpointOf
  <2> QED
    BY <2>1, <2>2
<1>3. t.path \in [PathIds -> PathRows \cup {None}]
  BY <1>2
<1>4. /\ t.endpoint \in [Proxies \X Hosts -> {"none", "on", "off"}]
      /\ \A q \in ListPaths(s) : t.endpoint[EndpointOf(s, q)] # "none"
  BY DEF Wired
<1> QED
  BY <1>2, <1>3, <1>4, Rewired

----------------------------------------------------------------------------
(* The statements *)

LEMMA SparesSame == ASSUME NEW s, StoreOK(s) PROVE Moves(s, s) /\ Spares(s, s)
<1>1. \A c \in Users \X Proxies : s.cred[c].secret \in Nat
  BY DEF StoreOK, Creds
<1> QED
  BY <1>1 DEF Moves, Spares, Fresher, Issued

LEMMA MovesOn ==
  ASSUME NEW s, NEW t, NEW v, StoreOK(s), Moves(s, t), Moves(t, v)
  PROVE  Moves(s, v)
<1>1. \A c \in Users \X Proxies : s.cred[c].secret \in Nat /\ t.cred[c].secret \in Nat /\ v.cred[c].secret \in Nat
  BY DEF Moves, StoreOK, Creds
<1>2. Fresher(s, v)
  BY <1>1 DEF Moves, Fresher
<1>3. Issued(s, v)
  BY DEF Moves, Issued, GetProxyUser, GetProxyByID
<1> QED
  BY <1>2, <1>3 DEF Moves

LEMMA SparesOn ==
  ASSUME NEW s, NEW t, NEW v, StoreOK(s), Spares(s, t), Spares(t, v)
  PROVE  Spares(s, v)
BY MovesOn DEF Spares

\* The tables of paths and endpoints apart.
LEMMA Elsewhere ==
  ASSUME NEW s, StoreOK(s), NEW t, t = [x \in Fields |-> t[x]], Wired(t),
         t.node = s.node, t.host = s.host, t.proxy = s.proxy, t.user = s.user,
         t.access = s.access, t.grant = s.grant, t.cred = s.cred,
         \A q \in PathIds : s.path[q] # None => t.path[q] # None
  PROVE  Spares(s, t)
<1>1. \A c \in Users \X Proxies : s.cred[c].secret \in Nat
  BY DEF StoreOK, Creds
<1>2. StoreOK(t)
  BY DEF StoreOK
<1>3. Rooted(s) => Rooted(t)
  BY DEF Rooted
<1> QED
  BY <1>1, <1>2, <1>3 DEF Moves, Spares, Fresher, Issued

\* A statement on a table no property is about.
LEMMA OtherTables ==
  ASSUME NEW s, StoreOK(s), NEW a, NEW b
  PROVE  /\ Spares(s, SetProxyDirectPublication(s, a, b))
         /\ Spares(s, DrawPathId(s, a))
         /\ Spares(s, UpsertUserNodeBinding(s, a, b))
         /\ Spares(s, DisableRetiredNodeBindings(s))
         /\ Spares(s, RemoveRetiredPathGroupSources(s, a))
<1> USE DEF Fields
<1>1. s = [x \in Fields |-> s[x]] /\ Wired(s)
  BY DEF StoreOK
<1> HIDE DEF Fields
<1> DEFINE Like(t) == /\ t = [x \in Fields |-> t[x]]
                      /\ t.node = s.node /\ t.host = s.host /\ t.proxy = s.proxy /\ t.user = s.user
                      /\ t.access = s.access /\ t.grant = s.grant /\ t.cred = s.cred
                      /\ t.path = s.path /\ t.endpoint = s.endpoint
<1>2. ASSUME NEW t, Like(t) PROVE Spares(s, t)
  BY <1>1, <1>2, WiredSame, Elsewhere
<1>3. Like(SetProxyDirectPublication(s, a, b)) /\ Like(DrawPathId(s, a))
  BY <1>1 DEF Fields, SetProxyDirectPublication, DrawPathId
<1>4. Like(UpsertUserNodeBinding(s, a, b))
  BY <1>1 DEF Fields, UpsertUserNodeBinding
<1>5. Like(DisableRetiredNodeBindings(s))
  BY <1>1 DEF Fields, DisableRetiredNodeBindings
<1>6. Like(RemoveRetiredPathGroupSources(s, a))
  BY <1>1 DEF Fields, RemoveRetiredPathGroupSources
<1> HIDE DEF Like
<1> QED
  BY <1>2, <1>3, <1>4, <1>5, <1>6

\* A statement on the endpoints that leaves every path its endpoint.
LEMMA EndpointTable ==
  ASSUME NEW s, StoreOK(s), NEW f \in [Proxies \X Hosts -> {"none", "on", "off"}],
         \A q \in ListPaths(s) : f[EndpointOf(s, q)] # "none",
         NEW t, t = [s EXCEPT !.endpoint = f]
  PROVE  Spares(s, t)
<1>1. /\ t = [x \in Fields |-> t[x]] /\ t.endpoint = f /\ t.path = s.path
      /\ t.node = s.node /\ t.host = s.host /\ t.proxy = s.proxy /\ t.user = s.user
      /\ t.access = s.access /\ t.grant = s.grant /\ t.cred = s.cred
  BY DEF StoreOK, Fields
<1>2. Wired(s) /\ s.path \in [PathIds -> PathRows \cup {None}]
  BY DEF StoreOK, Wired, Linked
<1>3. \A q : EndpointOf(t, q) = EndpointOf(s, q)
  BY <1>1 DEF EndpointOf
<1>4. Wired(t)
  BY <1>1, <1>2, <1>3, Rewired, ZenonT(60)
<1> QED
  BY <1>1, <1>4, Elsewhere, ZenonT(60)

LEMMA EndpointFacts ==
  ASSUME NEW s, StoreOK(s)
  PROVE  /\ s.endpoint \in [Proxies \X Hosts -> {"none", "on", "off"}]
         /\ \A q \in ListPaths(s) : EndpointOf(s, q) \in Proxies \X Hosts /\ s.endpoint[EndpointOf(s, q)] # "none"
<1>1. Linked(s)
  BY DEF StoreOK, Wired
<1>2. \A q \in ListPaths(s) : EndpointOf(s, q) \in Proxies \X Hosts
  BY <1>1, DialerListed DEF EndpointOf, PathRows
<1> QED
  BY <1>2 DEF StoreOK, Wired

LEMMA SetEndpointSpares ==
  ASSUME NEW s, StoreOK(s), NEW e, NEW v \in {"none", "on"},
         v = "none" => ListPathsByEndpointID(s, e) = {}
  PROVE  Spares(s, SetEndpoint(s, e, v))
<1> DEFINE f == [s.endpoint EXCEPT ![e] = v]
<1>1. SetEndpoint(s, e, v) = [s EXCEPT !.endpoint = f]
  BY DEF SetEndpoint, StoreOK, Fields
<1>2. f \in [Proxies \X Hosts -> {"none", "on", "off"}]
  BY EndpointFacts
<1>3. \A q \in ListPaths(s) : f[EndpointOf(s, q)] # "none"
  BY EndpointFacts DEF ListPathsByEndpointID
<1> HIDE DEF f
<1> QED
  BY <1>1, <1>2, <1>3, EndpointTable

LEMMA RetiredEndpointsSpare == ASSUME NEW s, StoreOK(s) PROVE Spares(s, DisableRetiredEndpoints(s))
<1> DEFINE f == [e \in DOMAIN s.endpoint |-> IF s.endpoint[e] = "on" /\ Retired(s, e[1]) THEN "off" ELSE s.endpoint[e]]
<1>1. DisableRetiredEndpoints(s) = [s EXCEPT !.endpoint = f]
  BY DEF DisableRetiredEndpoints
<1>2. f \in [Proxies \X Hosts -> {"none", "on", "off"}]
  BY EndpointFacts
<1>3. \A q \in ListPaths(s) : f[EndpointOf(s, q)] # "none"
  BY EndpointFacts
<1> HIDE DEF f
<1> QED
  BY <1>1, <1>2, <1>3, EndpointTable

LEMMA EnabledSpares ==
  ASSUME NEW s, StoreOK(s), NEW qs \in SUBSET ListPaths(s), NEW b \in BOOLEAN
  PROVE  Spares(s, SetPathsEnabled(s, qs, b))
<1> DEFINE t == SetPathsEnabled(s, qs, b)
<1>1. /\ t = [x \in Fields |-> t[x]] /\ t.endpoint = s.endpoint
      /\ t.path = [q \in PathIds |-> IF q \in qs THEN [s.path[q] EXCEPT !.enabled = b] ELSE s.path[q]]
      /\ t.node = s.node /\ t.host = s.host /\ t.proxy = s.proxy /\ t.user = s.user
      /\ t.access = s.access /\ t.grant = s.grant /\ t.cred = s.cred
  BY DEF SetPathsEnabled, StoreOK, Fields
<1> HIDE DEF t
<1>2. Wired(t)
  <2>1. Wired(s)
    BY DEF StoreOK
  <2> QED
    BY <1>1, <2>1, EnableWires
<1>3. \A q \in PathIds : s.path[q] # None => t.path[q] # None
  <2> SUFFICES ASSUME NEW q \in PathIds, s.path[q] # None PROVE t.path[q] # None
    OBVIOUS
  <2>1. s.path[q] \in PathRows
    BY DialerListed DEF StoreOK, Wired, ListPaths
  <2>2. [s.path[q] EXCEPT !.enabled = b] \in PathRows
    BY <2>1 DEF PathRows
  <2> QED
    BY <1>1, <2>2, AccessControlAssumption
<1> QED
  BY <1>1, <1>2, <1>3, Elsewhere DEF t

LEMMA WriteSpares ==
  ASSUME NEW s, StoreOK(s), NEW q \in PathIds, NEW row \in PathRows,
         s.endpoint[<<row.proxy, row.host>>] # "none",
         row.dialer # None => /\ WritePath(s, q, row).path[row.dialer] # None
                              /\ q \notin Hops(WritePath(s, q, row), row.dialer)
  PROVE  Spares(s, WritePath(s, q, row)) /\ Spares(s, InsertPath(s, q, row))
<1> DEFINE t == WritePath(s, q, row)
           v == InsertPath(s, q, row)
<1>1. /\ t = [x \in Fields |-> t[x]] /\ t.endpoint = s.endpoint
      /\ t.path = [s.path EXCEPT ![q] = row]
      /\ t.node = s.node /\ t.host = s.host /\ t.proxy = s.proxy /\ t.user = s.user
      /\ t.access = s.access /\ t.grant = s.grant /\ t.cred = s.cred
  BY DEF WritePath, StoreOK, Fields
<1>2. /\ v = [x \in Fields |-> v[x]] /\ v.endpoint = s.endpoint
      /\ v.path = [s.path EXCEPT ![q] = row]
      /\ v.node = s.node /\ v.host = s.host /\ v.proxy = s.proxy /\ v.user = s.user
      /\ v.access = s.access /\ v.grant = s.grant /\ v.cred = s.cred
  BY DEF WritePath, InsertPath, DrawPathId, StoreOK, Fields
<1>3. row.dialer # None => t.path[row.dialer] # None /\ q \notin Hops(t, row.dialer)
  OBVIOUS
<1> HIDE DEF t, v
<1>5. Wired(t)
  <2>1. Wired(s)
    BY DEF StoreOK
  <2> QED
    BY <1>1, <1>3, <2>1, WriteWires
<1>6. Wired(v)
  BY <1>1, <1>2, <1>5, WiredSame
<1>7. \A r \in PathIds : s.path[r] # None => t.path[r] # None /\ v.path[r] # None
  <2>1. row # None /\ s.path \in [PathIds -> PathRows \cup {None}]
    BY AccessControlAssumption DEF StoreOK, Wired, Linked
  <2> QED
    BY <1>1, <1>2, <2>1
<1> QED
  BY <1>1, <1>2, <1>5, <1>6, <1>7, Elsewhere DEF t, v

LEMMA GroupTables ==
  ASSUME NEW s, StoreOK(s), NEW g, NEW m, NEW b
  PROVE  /\ Spares(s, CreatePathGroup(s, g, m, b)) /\ Spares(s, UpdatePathGroup(s, g, m, b))
         /\ Spares(s, ArchivePathGroup(s, g))
<1>1. s = [x \in Fields |-> s[x]] /\ Wired(s)
  BY DEF StoreOK
<1> DEFINE Like(t) == /\ t = [x \in Fields |-> t[x]]
                      /\ t.node = s.node /\ t.host = s.host /\ t.proxy = s.proxy /\ t.user = s.user
                      /\ t.access = s.access /\ t.grant = s.grant /\ t.cred = s.cred
                      /\ t.path = s.path /\ t.endpoint = s.endpoint
<1>2. ASSUME NEW t, Like(t) PROVE Spares(s, t)
  BY <1>1, <1>2, WiredSame, Elsewhere
<1>3. Like(CreatePathGroup(s, g, m, b))
  BY <1>1 DEF CreatePathGroup, Fields
<1>4. Like(UpdatePathGroup(s, g, m, b))
  BY <1>1 DEF UpdatePathGroup, Fields
<1>5. Like(ArchivePathGroup(s, g))
  BY <1>1 DEF ArchivePathGroup, Fields
<1> HIDE DEF Like
<1> QED
  BY <1>2, <1>3, <1>4, <1>5

\* A statement on the credentials.
LEMMA CredTable ==
  ASSUME NEW s, StoreOK(s), NEW f \in [Users \X Proxies -> Creds], NEW t, t = [s EXCEPT !.cred = f],
         Fresher(s, t), Issued(s, t)
  PROVE  Spares(s, t)
<1>1. /\ t = [x \in Fields |-> t[x]] /\ t.cred = f /\ t.path = s.path /\ t.endpoint = s.endpoint
      /\ t.node = s.node /\ t.host = s.host /\ t.proxy = s.proxy /\ t.user = s.user
      /\ t.access = s.access /\ t.grant = s.grant
  BY DEF StoreOK, Fields
<1>2. Wired(t)
  BY <1>1, WiredSame DEF StoreOK
<1> QED
  BY <1>1, <1>2 DEF Spares, Moves, StoreOK, Rooted

LEMMA MintSpares ==
  ASSUME NEW s, StoreOK(s), NEW u, NEW p, GetProxyUser(s, u), GetProxyByID(s, p)
  PROVE  Spares(s, CreateProxyAccess(s, u, p)) /\ Spares(s, RestoreProxyAccess(s, u, p))
<1> DEFINE t == CreateProxyAccess(s, u, p)
           f == [s.cred EXCEPT ![<<u, p>>] = MintSecret(s.cred[<<u, p>>])]
<1>1. t = [s EXCEPT !.cred = f] /\ RestoreProxyAccess(s, u, p) = t
  BY DEF CreateProxyAccess, RestoreProxyAccess, StoreOK, Fields
<1>2. ASSUME NEW c \in Users \X Proxies
      PROVE  /\ f[c] = IF c = <<u, p>> THEN MintSecret(s.cred[c]) ELSE s.cred[c]
             /\ s.cred[c] \in Creds /\ s.cred[c].secret \in Nat
             /\ MintSecret(s.cred[c]) \in Creds
             /\ MintSecret(s.cred[c]).secret = s.cred[c].secret + 1
  <2>1. s.cred \in [Users \X Proxies -> Creds]
    BY DEF StoreOK
  <2>2. s.cred[c] \in Creds
    BY <2>1
  <2> QED
    BY <2>1, <2>2 DEF MintSecret, Creds
<1>3. f \in [Users \X Proxies -> Creds]
  <2>1. s.cred \in [Users \X Proxies -> Creds]
    BY DEF StoreOK
  <2>2. f = [c \in Users \X Proxies |-> f[c]]
    BY <2>1
  <2>3. \A c \in Users \X Proxies : f[c] \in Creds
    BY <1>2
  <2> HIDE DEF f
  <2> QED
    BY <2>2, <2>3
<1>4. t.cred = f
  BY <1>1 DEF StoreOK, Fields
<1> HIDE DEF f, t
<1>5. Fresher(s, t)
  BY <1>2, <1>4 DEF Fresher
<1>6. Issued(s, t)
  BY <1>2, <1>4 DEF Issued
<1> QED
  BY <1>1, <1>3, <1>5, <1>6, CredTable DEF t

\* Credentials that are switched off, archived or given a new secret.
LEMMA LessSpares ==
  ASSUME NEW s, StoreOK(s), NEW f,
         f = [x \in DOMAIN s.cred |-> f[x]],
         \A c \in Users \X Proxies :
           /\ f[c] \in Creds /\ f[c].secret >= s.cred[c].secret
           /\ f[c].state = "on" => s.cred[c].state = "on"
           /\ f[c].state = "off" => s.cred[c].state \in {"on", "off"}
  PROVE  Spares(s, [s EXCEPT !.cred = f])
<1> DEFINE t == [s EXCEPT !.cred = f]
<1>1. f \in [Users \X Proxies -> Creds]
  BY DEF StoreOK
<1>2. t.cred = f
  BY DEF StoreOK, Fields
<1> HIDE DEF t
<1>3. Fresher(s, t) /\ Issued(s, t)
  BY <1>2 DEF Fresher, Issued
<1> QED
  BY <1>1, <1>3, CredTable DEF t

LEMMA DisableSpares ==
  ASSUME NEW s, StoreOK(s), NEW u, NEW ps,
         \A p \in ps : u \in Users /\ p \in Proxies => s.cred[<<u, p>>].state \in {"on", "off"}
  PROVE  Spares(s, DisableProxyAccesses(s, u, ps))
<1> DEFINE f == [x \in DOMAIN s.cred |-> IF x[1] = u /\ x[2] \in ps THEN [s.cred[x] EXCEPT !.state = "off"] ELSE s.cred[x]]
<1>1. DisableProxyAccesses(s, u, ps) = [s EXCEPT !.cred = f]
  BY DEF DisableProxyAccesses
<1>2. s.cred \in [Users \X Proxies -> Creds]
  BY DEF StoreOK
<1>3. ASSUME NEW c \in Users \X Proxies
      PROVE  /\ f[c] \in Creds /\ f[c].secret >= s.cred[c].secret
             /\ f[c].state = "on" => s.cred[c].state = "on"
             /\ f[c].state = "off" => s.cred[c].state \in {"on", "off"}
  <2>1. s.cred[c] \in Creds
    BY <1>2
  <2>2. f[c] = IF c[1] = u /\ c[2] \in ps THEN [s.cred[c] EXCEPT !.state = "off"] ELSE s.cred[c]
    BY <1>2
  <2>3. c[1] = u /\ c[2] \in ps => s.cred[c].state \in {"on", "off"}
    OBVIOUS
  <2> HIDE DEF f
  <2> QED
    BY <2>1, <2>2, <2>3 DEF Creds
<1>4. f = [x \in DOMAIN s.cred |-> f[x]]
  OBVIOUS
<1> HIDE DEF f
<1> QED
  BY <1>1, <1>3, <1>4, LessSpares

LEMMA ArchiveSpares ==
  ASSUME NEW s, StoreOK(s), NEW xs PROVE Spares(s, ArchiveCredentials(s, xs))
<1> DEFINE f == [x \in DOMAIN s.cred |-> IF x \in xs /\ s.cred[x].state # "none" THEN [s.cred[x] EXCEPT !.state = "archived"] ELSE s.cred[x]]
<1>1. ArchiveCredentials(s, xs) = [s EXCEPT !.cred = f]
  BY DEF ArchiveCredentials
<1>2. s.cred \in [Users \X Proxies -> Creds]
  BY DEF StoreOK
<1>3. ASSUME NEW c \in Users \X Proxies
      PROVE  /\ f[c] \in Creds /\ f[c].secret >= s.cred[c].secret
             /\ f[c].state = "on" => s.cred[c].state = "on"
             /\ f[c].state = "off" => s.cred[c].state \in {"on", "off"}
  <2>1. s.cred[c] \in Creds
    BY <1>2
  <2>2. f[c] = IF c \in xs /\ s.cred[c].state # "none" THEN [s.cred[c] EXCEPT !.state = "archived"] ELSE s.cred[c]
    BY <1>2
  <2> HIDE DEF f
  <2> QED
    BY <2>1, <2>2 DEF Creds
<1>4. f = [x \in DOMAIN s.cred |-> f[x]]
  OBVIOUS
<1> HIDE DEF f
<1> QED
  BY <1>1, <1>3, <1>4, LessSpares

LEMMA RotateSpares ==
  ASSUME NEW s, StoreOK(s), NEW u, NEW ps PROVE Spares(s, RotateProxyAccessCredential(s, u, ps))
<1> DEFINE f == [x \in DOMAIN s.cred |-> IF x[1] = u /\ x[2] \in ps THEN [s.cred[x] EXCEPT !.secret = s.cred[x].secret + 1] ELSE s.cred[x]]
<1>1. RotateProxyAccessCredential(s, u, ps) = [s EXCEPT !.cred = f]
  BY DEF RotateProxyAccessCredential
<1>2. s.cred \in [Users \X Proxies -> Creds]
  BY DEF StoreOK
<1>3. ASSUME NEW c \in Users \X Proxies
      PROVE  /\ f[c] \in Creds /\ f[c].secret >= s.cred[c].secret
             /\ f[c].state = "on" => s.cred[c].state = "on"
             /\ f[c].state = "off" => s.cred[c].state \in {"on", "off"}
  <2>1. s.cred[c] \in Creds
    BY <1>2
  <2>2. f[c] = IF c[1] = u /\ c[2] \in ps THEN [s.cred[c] EXCEPT !.secret = s.cred[c].secret + 1] ELSE s.cred[c]
    BY <1>2
  <2> HIDE DEF f
  <2> QED
    BY <2>1, <2>2 DEF Creds
<1>4. f = [x \in DOMAIN s.cred |-> f[x]]
  OBVIOUS
<1> HIDE DEF f
<1> QED
  BY <1>1, <1>3, <1>4, LessSpares

\* Only credentials that are on are switched off.
LEMMA UnusedSpares ==
  ASSUME NEW s, StoreOK(s), NEW u PROVE Spares(s, disableUnusedProxyCredentials(s, u))
BY DisableSpares DEF disableUnusedProxyCredentials

\* A statement on the accesses or the grants.
LEMMA AccessTable ==
  ASSUME NEW s, StoreOK(s), NEW t, t = [x \in Fields |-> t[x]], Wired(t),
         t.node = s.node, t.host = s.host, t.proxy = s.proxy, t.user = s.user, t.cred = s.cred,
         t.access \in [Users \X PathIds -> {"none", "live", "archived"}],
         \A u \in Users, q \in PathIds :
           t.access[<<u, q>>] = "live" => t.path[q] # None \/ (s.access[<<u, q>>] = "live" /\ t.path[q] = s.path[q])
  PROVE  Moves(s, t)
<1>1. \A c \in Users \X Proxies : s.cred[c].secret \in Nat
  BY DEF StoreOK, Creds
<1>2. StoreOK(t)
  BY DEF StoreOK
<1>3. Rooted(s) => Rooted(t)
  BY DEF Rooted
<1> QED
  BY <1>1, <1>2, <1>3 DEF Moves, Fresher, Issued

LEMMA AccessMoves ==
  ASSUME NEW s, StoreOK(s), NEW u, NEW q, GetPathByID(s, q)
  PROVE  LET t == RestorePathAccess(s, u, q)
         IN  /\ Moves(s, t) /\ t.grant = s.grant
             /\ \A a \in Users, b \in PathIds :
                  t.access[<<a, b>>] = IF a = u /\ b = q THEN "live" ELSE s.access[<<a, b>>]
<1> DEFINE t == RestorePathAccess(s, u, q)
<1>1. /\ t = [x \in Fields |-> t[x]]
      /\ t.node = s.node /\ t.host = s.host /\ t.proxy = s.proxy /\ t.user = s.user
      /\ t.path = s.path /\ t.endpoint = s.endpoint /\ t.cred = s.cred /\ t.grant = s.grant
      /\ t.access = [s.access EXCEPT ![<<u, q>>] = "live"]
  BY DEF RestorePathAccess, StoreOK, Fields
<1>2. s.access \in [Users \X PathIds -> {"none", "live", "archived"}]
  BY DEF StoreOK
<1> HIDE DEF t
<1>3. t.access \in [Users \X PathIds -> {"none", "live", "archived"}]
  BY <1>1, <1>2
<1>4. Wired(t)
  BY <1>1, WiredSame DEF StoreOK
<1>5. \A a \in Users, b \in PathIds :
        t.access[<<a, b>>] = "live" => t.path[b] # None \/ (s.access[<<a, b>>] = "live" /\ t.path[b] = s.path[b])
  BY <1>1, <1>2 DEF GetPathByID
<1>6. Moves(s, t)
  BY <1>1, <1>3, <1>4, <1>5, AccessTable
<1> QED
  BY <1>1, <1>2, <1>6 DEF t

LEMMA SoftDeleteMoves ==
  ASSUME NEW s, StoreOK(s), NEW u, NEW qs
  PROVE  LET t == SoftDeletePathAccess(s, u, qs)
         IN  /\ Moves(s, t) /\ t.grant = s.grant
             /\ \A a \in Users, b \in PathIds :
                  t.access[<<a, b>>] = IF a = u /\ b \in qs THEN Archive(s.access[<<a, b>>]) ELSE s.access[<<a, b>>]
<1> DEFINE t == SoftDeletePathAccess(s, u, qs)
<1>1. /\ t = [x \in Fields |-> t[x]]
      /\ t.node = s.node /\ t.host = s.host /\ t.proxy = s.proxy /\ t.user = s.user
      /\ t.path = s.path /\ t.endpoint = s.endpoint /\ t.cred = s.cred /\ t.grant = s.grant
      /\ t.access = [x \in DOMAIN s.access |-> IF x[1] = u /\ x[2] \in qs THEN Archive(s.access[x]) ELSE s.access[x]]
  BY DEF SoftDeletePathAccess, StoreOK, Fields
<1>2. s.access \in [Users \X PathIds -> {"none", "live", "archived"}]
  BY DEF StoreOK
<1> HIDE DEF t
<1>3. t.access \in [Users \X PathIds -> {"none", "live", "archived"}]
  BY <1>1, <1>2 DEF Archive
<1>4. Wired(t)
  BY <1>1, WiredSame DEF StoreOK
<1>5. \A a \in Users, b \in PathIds :
        t.access[<<a, b>>] = "live" => t.path[b] # None \/ (s.access[<<a, b>>] = "live" /\ t.path[b] = s.path[b])
  BY <1>1, <1>2 DEF Archive
<1>6. Moves(s, t)
  BY <1>1, <1>3, <1>4, <1>5, AccessTable
<1> QED
  BY <1>1, <1>2, <1>6 DEF t

LEMMA ArchiveMoves ==
  ASSUME NEW s, StoreOK(s), NEW qs
  PROVE  LET t == ArchivePathAccesses(s, qs)
         IN  /\ Moves(s, t) /\ t.grant = s.grant
             /\ \A a \in Users, b \in PathIds :
                  t.access[<<a, b>>] = IF b \in qs THEN Archive(s.access[<<a, b>>]) ELSE s.access[<<a, b>>]
<1> DEFINE t == ArchivePathAccesses(s, qs)
<1>1. /\ t = [x \in Fields |-> t[x]]
      /\ t.node = s.node /\ t.host = s.host /\ t.proxy = s.proxy /\ t.user = s.user
      /\ t.path = s.path /\ t.endpoint = s.endpoint /\ t.cred = s.cred /\ t.grant = s.grant
      /\ t.access = [x \in DOMAIN s.access |-> IF x[2] \in qs THEN Archive(s.access[x]) ELSE s.access[x]]
  BY DEF ArchivePathAccesses, StoreOK, Fields
<1>2. s.access \in [Users \X PathIds -> {"none", "live", "archived"}]
  BY DEF StoreOK
<1> HIDE DEF t
<1>3. t.access \in [Users \X PathIds -> {"none", "live", "archived"}]
  BY <1>1, <1>2 DEF Archive
<1>4. Wired(t)
  BY <1>1, WiredSame DEF StoreOK
<1>5. \A a \in Users, b \in PathIds :
        t.access[<<a, b>>] = "live" => t.path[b] # None \/ (s.access[<<a, b>>] = "live" /\ t.path[b] = s.path[b])
  BY <1>1, <1>2 DEF Archive
<1>6. Moves(s, t)
  BY <1>1, <1>3, <1>4, <1>5, AccessTable
<1> QED
  BY <1>1, <1>2, <1>6 DEF t

LEMMA GrantMoves ==
  ASSUME NEW s, StoreOK(s), NEW G
  PROVE  LET t == [s EXCEPT !.grant = G]
         IN  Moves(s, t) /\ t.access = s.access /\ t.grant = G
<1> DEFINE t == [s EXCEPT !.grant = G]
<1>1. /\ t = [x \in Fields |-> t[x]] /\ t.access = s.access /\ t.grant = G
      /\ t.node = s.node /\ t.host = s.host /\ t.proxy = s.proxy /\ t.user = s.user
      /\ t.path = s.path /\ t.endpoint = s.endpoint /\ t.cred = s.cred
  BY DEF StoreOK, Fields
<1>2. s.access \in [Users \X PathIds -> {"none", "live", "archived"}]
  BY DEF StoreOK
<1> HIDE DEF t
<1>3. Wired(t)
  BY <1>1, WiredSame DEF StoreOK
<1>4. Moves(s, t)
  BY <1>1, <1>2, <1>3, AccessTable
<1> QED
  BY <1>1, <1>4 DEF t

----------------------------------------------------------------------------
(* Paths and endpoints *)

LEMMA Results ==
  \A s : Ok(s).ok /\ Ok(s).s = s /\ ~Fail(s).ok /\ Fail(s).s = s
BY DEF Ok, Fail

LEMMA HopsFinite ==
  ASSUME NEW s, StoreOK(s), NEW q \in ListPaths(s)
  PROVE  IsFiniteSet(Hops(s, q)) /\ Hops(s, q) \subseteq ListPaths(s)
<1>1. Hops(s, q) \subseteq ListPaths(s)
  BY HopsClosed DEF StoreOK, Wired
<1>2. ListPaths(s) \subseteq PathIds
  BY DEF ListPaths
<1> QED
  BY <1>1, <1>2, AccessStoreAssumption, FS_Subset

\* A host is listed by its node and no other.
LEMMA HostHome ==
  ASSUME NEW n \in Nodes, NEW i \in DOMAIN HostOrder[n]
  PROVE  HostOrder[n][i] \in Hosts /\ HostNode(HostOrder[n][i]) = n
<1> DEFINE h == HostOrder[n][i]
<1>1. HostOrder[n] \in Seq(Hosts)
  BY AccessStoreAssumption
<1>2. h \in Hosts
  BY <1>1
<1>3. \E m \in Nodes : \E j \in DOMAIN HostOrder[m] : HostOrder[m][j] = h
  OBVIOUS
<1>4. HostNode(h) \in Nodes /\ \E j \in DOMAIN HostOrder[HostNode(h)] : HostOrder[HostNode(h)][j] = h
  BY <1>3 DEF HostNode
<1> QED
  BY <1>2, <1>4, AccessStoreAssumption

LEMMA EndpointSpares ==
  ASSUME NEW s, StoreOK(s), NEW e PROVE Spares(s, EnsureEndpoint(s, e).s)
<1>1. EnsureEndpoint(s, e) \in {Fail(s), Ok(s), Ok(CreateEndpoint(s, e))}
  BY DEF EnsureEndpoint
<1>2. Spares(s, CreateEndpoint(s, e))
  BY SetEndpointSpares DEF CreateEndpoint
<1> QED
  BY <1>1, <1>2, SparesSame, Results

LEMMA PathSpares ==
  ASSUME NEW s, StoreOK(s), NEW q \in PathIds, NEW row \in PathRows, NEW m
  PROVE  Spares(s, CreatePath(s, q, row).s) /\ Spares(s, UpdatePath(s, q, row, m).s)
<1>1. \/ CreatePath(s, q, row) = Fail(s)
      \/ /\ CreatePath(s, q, row) = Ok(InsertPath(s, q, row))
         /\ normalizePath(s, q, row) /\ validatePathGraph(s, q, row)
  BY DEF CreatePath, ValidPath
<1>2. \/ UpdatePath(s, q, row, m) = Fail(s)
      \/ /\ UpdatePath(s, q, row, m) = Ok(WritePath(s, q, row))
         /\ normalizePath(s, q, row) /\ validatePathGraph(s, q, row)
  BY DEF UpdatePath
<1>3. normalizePath(s, q, row) /\ validatePathGraph(s, q, row)
      => Spares(s, InsertPath(s, q, row)) /\ Spares(s, WritePath(s, q, row))
  BY WriteSpares DEF normalizePath, validatePathGraph
<1> QED
  BY <1>1, <1>2, <1>3, SparesSame, Results

LEMMA DirectPathSpares ==
  ASSUME NEW s, StoreOK(s), NEW e \in DOMAIN DirectPath PROVE Spares(s, EnsureDirectPath(s, e).s)
<1> DEFINE r == EnsureEndpoint(s, e)
           q == DirectPath[e]
           v == IF ~GetPathByID(r.s, q) THEN CreatePath(r.s, q, DirectRow(e))
                ELSE IF r.s.path[q].enabled THEN Ok(r.s)
                ELSE UpdatePath(r.s, q, DirectRow(e), TRUE)
<1>1. EnsureDirectPath(s, e) = IF r.ok THEN v ELSE r
  BY DEF EnsureDirectPath, Then
<1>2. Spares(s, r.s)
  BY EndpointSpares
<1>3. StoreOK(r.s)
  BY <1>2 DEF Spares, Moves
<1> HIDE DEF r
<1>4. q \in PathIds /\ DirectRow(e) \in PathRows
  BY AccessStoreAssumption DEF PathIds, DirectRow, PathRows, AllLabels
<1>5. Spares(r.s, v.s)
  BY <1>3, <1>4, PathSpares, SparesSame, Results
<1> HIDE DEF v
<1>6. Spares(s, v.s)
  BY <1>2, <1>5, SparesOn
<1> QED
  BY <1>1, <1>2, <1>6

LEMMA DirectPathsSpare ==
  ASSUME NEW s, StoreOK(s), NEW p \in Proxies PROVE Spares(s, EnsureDirectPathsForProxy(s, p).s)
<1> DEFINE stale == {q \in ManagedPaths(s, p) : s.path[q].enabled /\ s.host[s.path[q].host] # "selected"}
           hosts == HostOrder[HomeNode[p]]
           l == [kind |-> "host", s |-> s, proxy |-> p]
           base == Ok(SetPathsEnabled(s, stale, FALSE))
<1>1. /\ Len(hosts) \in Nat
      /\ \A i \in 1..Len(hosts) : <<p, hosts[i]>> \in DOMAIN DirectPath
  <2>1. HomeNode[p] \in Nodes /\ hosts \in Seq(Hosts)
    BY AccessStoreAssumption
  <2>2. \A i \in 1..Len(hosts) : hosts[i] \in Hosts /\ HostNode(hosts[i]) = HomeNode[p]
    BY <2>1, HostHome
  <2> QED
    BY <2>1, <2>2, AccessStoreAssumption
<1>2. stale \in SUBSET ListPaths(s)
  BY DEF ManagedPaths
<1>3. l.kind = "host" /\ l.s = s /\ l.proxy = p
  OBVIOUS
<1> HIDE DEF l, stale, hosts
<1>4. \A r, x : Body(l, r, x) =
         IF s.host[hosts[x]] # "selected" THEN r
         ELSE IF r.ok THEN EnsureDirectPath(r.s, <<p, hosts[x]>>) ELSE r
  BY <1>3 DEF Body, hosts
<1>5. \A T, r : Keeps(l, T, r) <=> Spares(s, r.s)
  BY <1>3 DEF Keeps
<1>6. PICK g : /\ Rounds(l, Len(hosts), base, g)
               /\ EnsureDirectPathsForProxy(s, p) = IF ~GetProxyByID(s, p) THEN Fail(s) ELSE g[Len(hosts)]
  <2> DEFINE E(g) == g = [i \in 0..Len(hosts) |->
                            IF i = 0 THEN base
                            ELSE IF s.host[hosts[i]] # "selected" THEN g[i - 1]
                            ELSE IF g[i - 1].ok THEN EnsureDirectPath(g[i - 1].s, <<p, hosts[i]>>) ELSE g[i - 1]]
             f == CHOOSE g : E(g)
  <2>1. EnsureDirectPathsForProxy(s, p) = IF ~GetProxyByID(s, p) THEN Fail(s) ELSE f[Len(hosts)]
    BY DEF EnsureDirectPathsForProxy, Then, hosts, stale
  <2>2. \A g : E(g) <=> Rounds(l, Len(hosts), base, g)
    <3> HIDE DEF base
    <3> SUFFICES ASSUME NEW g PROVE E(g) <=> Rounds(l, Len(hosts), base, g)
      OBVIOUS
    <3> DEFINE A(i) == IF i = 0 THEN base
                       ELSE IF s.host[hosts[i]] # "selected" THEN g[i - 1]
                       ELSE IF g[i - 1].ok THEN EnsureDirectPath(g[i - 1].s, <<p, hosts[i]>>) ELSE g[i - 1]
               B(i) == IF i = 0 THEN base ELSE Body(l, g[i - 1], i)
    <3>1. \A i \in 0..Len(hosts) : A(i) = B(i)
      BY <1>4
    <3>2. E(g) <=> g = [i \in 0..Len(hosts) |-> A(i)]
      OBVIOUS
    <3>3. Rounds(l, Len(hosts), base, g) <=> g = [i \in 0..Len(hosts) |-> B(i)]
      BY DEF Rounds
    <3> HIDE DEF A, B, E
    <3> QED
      BY <3>1, <3>2, <3>3
  <2> HIDE DEF E, base
  <2>3. E(f)
    BY <1>1, <2>2, RoundsExist
  <2> QED
    BY <2>1, <2>2, <2>3
<1>7. Keeps(l, 0, base)
  <2>1. Spares(s, SetPathsEnabled(s, stale, FALSE))
    BY <1>2, EnabledSpares
  <2> QED
    BY <1>5, <2>1, Results
<1>8. ASSUME NEW i \in 1..Len(hosts), NEW r, Keeps(l, i - 1, r) PROVE Keeps(l, i, Body(l, r, i))
  <2>1. Spares(s, r.s)
    BY <1>5, <1>8
  <2>2. StoreOK(r.s)
    BY <2>1 DEF Spares, Moves
  <2>3. Spares(s, EnsureDirectPath(r.s, <<p, hosts[i]>>).s)
    BY <1>1, <2>1, <2>2, DirectPathSpares, SparesOn
  <2> QED
    BY <1>4, <1>5, <2>1, <2>3
<1> HIDE DEF base
<1>9. Spares(s, g[Len(hosts)].s)
  BY <1>1, <1>5, <1>6, <1>7, <1>8, CountKeeps
<1> QED
  BY <1>6, <1>9, SparesSame, Results

\* A row that only the keys of the table admit closes no circle either: nothing
\* dials through a path that is not there.
LEMMA RowSpares ==
  ASSUME NEW s, StoreOK(s), NEW q \in PathIds, NEW row \in PathRows
  PROVE  Spares(s, CreatePathRow(s, q, row).s)
<1>1. CASE ~InsertableBySchema(s, q, row)
  BY <1>1, SparesSame, Results DEF CreatePathRow
<1>2. CASE InsertableBySchema(s, q, row)
  <2> DEFINE t == WritePath(s, q, row)
             d == row.dialer
  <2>1. /\ s.path[q] = None /\ s.endpoint[<<row.proxy, row.host>>] # "none"
        /\ d # None => s.path[d] # None
    BY <1>2 DEF InsertableBySchema, GetPathByID
  <2>2. Linked(s) /\ s.path \in [PathIds -> PathRows \cup {None}] /\ t.path = [s.path EXCEPT ![q] = row]
    BY DEF StoreOK, Wired, Linked, WritePath, Fields
  <2> HIDE DEF t
  <2>3. ASSUME d # None PROVE t.path[d] # None /\ q \notin Hops(t, d)
    <3>1. d \in ListPaths(s) /\ q \notin ListPaths(s)
      BY <2>1, <2>3 DEF ListPaths, PathRows
    <3>2. Hops(s, d) \subseteq ListPaths(s) /\ d \in Hops(s, d) /\ Closed(s, Hops(s, d))
      BY <2>2, <3>1, HopsClosed
    <3>3. \A r \in ListPaths(s) : t.path[r] = s.path[r]
      BY <2>2, <3>1 DEF ListPaths
    <3>4. Closed(t, Hops(s, d))
      BY <3>2, <3>3 DEF Closed
    <3>5. Hops(t, d) \subseteq Hops(s, d)
      BY <3>2, <3>4, HopsLeast
    <3> QED
      BY <2>1, <2>3, <3>1, <3>2, <3>3, <3>5
  <2>4. Spares(s, InsertPath(s, q, row))
    BY <2>1, <2>3, WriteSpares DEF t
  <2> QED
    BY <1>2, <2>4, Results DEF CreatePathRow
<1> QED
  BY <1>1, <1>2

LEMMA HidingSpares ==
  ASSUME NEW s, StoreOK(s), NEW q PROVE Spares(s, setPathEnabledUnchecked(s, q, FALSE).s)
<1>1. CASE q \in PathIds /\ GetPathByID(s, q)
  <2>1. {q} \in SUBSET ListPaths(s)
    BY <1>1 DEF GetPathByID, ListPaths
  <2> QED
    BY <1>1, <2>1, EnabledSpares, Results DEF setPathEnabledUnchecked
<1>2. CASE ~GetPathByID(s, q)
  BY <1>2, SparesSame, Results DEF setPathEnabledUnchecked
<1>3. CASE q \notin PathIds
  <2>1. SetPathsEnabled(s, {q}, FALSE) = SetPathsEnabled(s, {}, FALSE)
    BY <1>3 DEF SetPathsEnabled
  <2>2. Spares(s, SetPathsEnabled(s, {}, FALSE))
    BY EnabledSpares
  <2> QED
    BY <2>1, <2>2, SparesSame, Results DEF setPathEnabledUnchecked
<1> QED
  BY <1>1, <1>2, <1>3

----------------------------------------------------------------------------
(* Credentials and grants *)

LEMMA IssueSpares ==
  ASSUME NEW s, StoreOK(s), NEW u, NEW p PROVE Spares(s, issueProxyCredential(s, u, p).s)
<1>1. CASE ~(GetProxyUser(s, u) /\ GetProxyByID(s, p) /\ GetUserNodeBinding(s, u, HomeNode[p]) = "on")
  BY <1>1, SparesSame, Results DEF issueProxyCredential
<1>2. CASE GetProxyUser(s, u) /\ GetProxyByID(s, p) /\ GetUserNodeBinding(s, u, HomeNode[p]) = "on"
  <2>1. Spares(s, CreateProxyAccess(s, u, p)) /\ Spares(s, RestoreProxyAccess(s, u, p))
    BY <1>2, MintSpares
  <2>2. issueProxyCredential(s, u, p) \in {Ok(s), Ok(CreateProxyAccess(s, u, p)), Ok(RestoreProxyAccess(s, u, p))}
    BY <1>2 DEF issueProxyCredential
  <2> QED
    BY <2>1, <2>2, SparesSame, Results
<1> QED
  BY <1>1, <1>2

LEMMA BindSpares ==
  ASSUME NEW s, StoreOK(s), NEW u, NEW n PROVE Spares(s, BindUserToNode(s, u, n).s)
<1>1. BindUserToNode(s, u, n) \in {Fail(s), Ok(UpsertUserNodeBinding(s, u, n))}
  BY DEF BindUserToNode
<1>2. Spares(s, UpsertUserNodeBinding(s, u, n))
  BY OtherTables
<1> QED
  BY <1>1, <1>2, SparesSame, Results

LEMMA HopSpares ==
  ASSUME NEW s, StoreOK(s), NEW u, NEW q PROVE Spares(s, EnsureHop(s, u, q).s)
<1> DEFINE p == s.path[q].proxy
           n == HomeNode[p]
           r == IF s.binding[<<u, n>>] = "none" THEN BindUserToNode(s, u, n) ELSE Ok(s)
<1>1. EnsureHop(s, u, q) = IF ~ResolveEndpoint(s, EndpointOf(s, q)) \/ s.binding[<<u, n>>] = "off" THEN Fail(s)
                           ELSE IF r.ok THEN issueProxyCredential(r.s, u, p) ELSE r
  BY DEF EnsureHop, Then
<1>2. Spares(s, r.s)
  BY BindSpares, SparesSame, Results
<1>3. StoreOK(r.s)
  BY <1>2 DEF Spares, Moves
<1> HIDE DEF r
<1>4. Spares(s, issueProxyCredential(r.s, u, p).s)
  BY <1>2, <1>3, IssueSpares, SparesOn
<1> QED
  BY <1>1, <1>2, <1>4, SparesSame, Results

\* The first loop of grantPathToUser.
EnsureHops(s, u, q) == ForEach(Hops(s, q), Ok(s), LAMBDA t, r : EnsureHop(t, u, r))

LEMMA HopsSpare ==
  ASSUME NEW s, StoreOK(s), NEW u, NEW q \in ListPaths(s)
  PROVE  Spares(s, EnsureHops(s, u, q).s)
<1> DEFINE l == [kind |-> "hop", s |-> s, user |-> u]
           S == Hops(s, q)
<1>1. l.kind = "hop" /\ l.s = s /\ l.user = u
  OBVIOUS
<1> HIDE DEF l, S
<1>2. \A r, x : Body(l, r, x) = IF r.ok THEN EnsureHop(r.s, u, x) ELSE r
  BY <1>1 DEF Body
<1>3. \A T, r : Keeps(l, T, r) <=> Spares(s, r.s)
  BY <1>1 DEF Keeps
<1>4. IsFiniteSet(S)
  BY HopsFinite DEF S
<1>5. PICK g : Passes(l, S, Ok(s), g) /\ EnsureHops(s, u, q) = g[S]
  <2> DEFINE E(g) == g = [T \in SUBSET S |->
                            IF T = {} THEN Ok(s)
                            ELSE LET x == CHOOSE x \in T : TRUE
                                 IN  IF g[T \ {x}].ok THEN EnsureHop(g[T \ {x}].s, u, x) ELSE g[T \ {x}]]
             f == CHOOSE g : E(g)
  <2>1. EnsureHops(s, u, q) = f[S]
    BY DEF EnsureHops, ForEach, FoldSet, MapThenFoldSet, Then, S
  <2>2. \A g : E(g) <=> Passes(l, S, Ok(s), g)
    BY <1>2 DEF Passes, Pick
  <2> HIDE DEF E
  <2>3. E(f)
    BY <1>4, <2>2, PassesExist
  <2> QED
    BY <2>1, <2>2, <2>3
<1>6. Keeps(l, {}, Ok(s))
  BY <1>3, SparesSame, Results
<1>7. ASSUME NEW T \in SUBSET S, NEW x \in S, NEW r, x \in T, Keeps(l, T \ {x}, r)
      PROVE  Keeps(l, T, Body(l, r, x))
  <2>1. Spares(s, r.s)
    BY <1>3, <1>7
  <2>2. StoreOK(r.s)
    BY <2>1 DEF Spares, Moves
  <2>3. Spares(s, EnsureHop(r.s, u, x).s)
    BY <2>1, <2>2, HopSpares, SparesOn
  <2> QED
    BY <1>2, <1>3, <2>1, <2>3
<1>8. Spares(s, g[S].s)
  BY <1>3, <1>4, <1>5, <1>6, <1>7, LoopKeeps
<1> QED
  BY <1>5, <1>8

\* A grant makes one access live, and nothing else of the accesses.
Opens(s, t, u, q) ==
  /\ Moves(s, t)
  /\ t.grant = s.grant
  /\ \A a \in Users, b \in PathIds :
       t.access[<<a, b>>] = IF a = u /\ b = q THEN "live" ELSE s.access[<<a, b>>]

LEMMA AccessOpens ==
  ASSUME NEW s, StoreOK(s), NEW u, NEW q, NEW r, r = grantPathAccess(s, u, q)
  PROVE  IF r.ok THEN Opens(s, r.s, u, q) ELSE r.s = s
<1>1. GetPathByID(s, q) => Opens(s, RestorePathAccess(s, u, q), u, q)
  BY AccessMoves DEF Opens
<1> QED
  BY <1>1, Results DEF grantPathAccess

LEMMA PathOpens ==
  ASSUME NEW s, StoreOK(s), NEW u, NEW q \in PathIds, NEW r, r = grantPathToUser(s, u, q)
  PROVE  Moves(s, r.s) /\ r.s.grant = s.grant /\ (r.ok => Opens(s, r.s, u, q))
<1> DEFINE h == EnsureHops(s, u, q)
           g == grantPathAccess(h.s, u, q)
<1>1. \/ r = Fail(s)
      \/ r = (IF h.ok THEN g ELSE h) /\ GetPathByID(s, q)
  BY DEF grantPathToUser, Then, EnsureHops
<1>2. CASE r = Fail(s)
  BY <1>2, SparesSame, Results
<1> SUFFICES ASSUME r = (IF h.ok THEN g ELSE h), q \in ListPaths(s) PROVE Moves(s, r.s) /\ r.s.grant = s.grant /\ (r.ok => Opens(s, r.s, u, q))
  BY <1>1, <1>2 DEF ListPaths, GetPathByID
<1>3. Spares(s, h.s)
  BY HopsSpare
<1>4. StoreOK(h.s) /\ Moves(s, h.s) /\ h.s.grant = s.grant /\ h.s.access = s.access
  BY <1>3 DEF Spares, Moves
<1> HIDE DEF h
<1>5. IF g.ok THEN Opens(h.s, g.s, u, q) ELSE g.s = h.s
  BY <1>4, AccessOpens
<1> HIDE DEF g
<1>6. CASE r = h /\ ~h.ok
  BY <1>4, <1>6
<1>7. CASE r = g
  <2>1. CASE g.ok
    <3>1. Opens(h.s, g.s, u, q)
      BY <1>5, <2>1
    <3>2. Moves(s, g.s)
      BY <1>4, <3>1, MovesOn DEF Opens
    <3> QED
      BY <1>4, <1>7, <3>1, <3>2 DEF Opens
  <2>2. CASE ~g.ok
    BY <1>4, <1>5, <1>7, <2>2
  <2> QED
    BY <2>1, <2>2
<1> QED
  BY <1>6, <1>7

----------------------------------------------------------------------------
(* Grants *)

LEMMA SparesWidens ==
  ASSUME NEW s, StoreOK(s), Balanced(s), NEW t, Spares(s, t)
  PROVE  Widens(s, t) /\ StoreOK(t) /\ Balanced(t)
BY DEF Spares, Moves, Widens, Balanced

LEMMA WidensSame == ASSUME NEW s, StoreOK(s), Balanced(s) PROVE Widens(s, s)
BY SparesSame, SparesWidens

LEMMA WidensOn ==
  ASSUME NEW s, StoreOK(s), NEW t, NEW v, Widens(s, t), Widens(t, v)
  PROVE  Widens(s, v)
BY MovesOn DEF Widens

LEMMA WidensKeeps == ASSUME NEW s, NEW t, Widens(s, t) PROVE StoreOK(t) /\ Balanced(t)
BY DEF Widens, Moves

\* An access that is opened after its grant was recorded.
LEMMA OpensWidens ==
  ASSUME NEW s, StoreOK(s), Balanced(s), NEW u, NEW q, NEW v, Opens(SetDirectPathGrant(s, u, q), v, u, q)
  PROVE  Widens(s, v)
<1> DEFINE t == SetDirectPathGrant(s, u, q)
<1>1. Moves(s, t) /\ t.access = s.access /\ t.grant = s.grant \cup {<<u, q>>}
  BY GrantMoves DEF SetDirectPathGrant
<1>2. Opens(t, v, u, q)
  OBVIOUS
<1> HIDE DEF t
<1>3. Moves(s, v)
  BY <1>1, <1>2, MovesOn DEF Opens, Moves
<1>4. ASSUME NEW a \in Users, NEW b \in PathIds
      PROVE  /\ v.access[<<a, b>>] = IF a = u /\ b = q THEN "live" ELSE s.access[<<a, b>>]
             /\ <<a, b>> \in v.grant <=> (<<a, b>> \in s.grant \/ (a = u /\ b = q))
  BY <1>1, <1>2 DEF Opens
<1> QED
  BY <1>3, <1>4 DEF Widens, Balanced

LEMMA GrantStoreOK ==
  ASSUME NEW s, StoreOK(s), NEW u, NEW q PROVE StoreOK(SetDirectPathGrant(s, u, q))
BY GrantMoves DEF SetDirectPathGrant, Moves

LEMMA AccessWidens ==
  ASSUME NEW s, StoreOK(s), Balanced(s), NEW u, NEW q PROVE Widens(s, GrantPathAccess(s, u, q).s)
<1> DEFINE t == SetDirectPathGrant(s, u, q)
           r == grantPathAccess(t, u, q)
<1>1. StoreOK(t)
  BY GrantStoreOK
<1> HIDE DEF t
<1>2. r.ok => Opens(t, r.s, u, q)
  BY <1>1, AccessOpens
<1> HIDE DEF r
<1>3. r.ok => Widens(s, r.s)
  BY <1>2, OpensWidens DEF t
<1>4. GrantPathAccess(s, u, q) \in {Fail(s), Tx(s, Fail(s)), Tx(s, r)}
  BY DEF GrantPathAccess, r, t
<1> QED
  BY <1>3, <1>4, WidensSame, Results DEF Tx

LEMMA PathWidens ==
  ASSUME NEW s, StoreOK(s), Balanced(s), NEW u, NEW q \in PathIds PROVE Widens(s, GrantPathToUser(s, u, q).s)
<1> DEFINE t == SetDirectPathGrant(s, u, q)
           r == grantPathToUser(t, u, q)
<1>1. StoreOK(t)
  BY GrantStoreOK
<1> HIDE DEF t
<1>2. r.ok => Opens(t, r.s, u, q)
  BY <1>1, PathOpens
<1> HIDE DEF r
<1>3. r.ok => Widens(s, r.s)
  BY <1>2, OpensWidens DEF t
<1>4. GrantPathToUser(s, u, q) \in {Fail(s), Tx(s, Fail(s)), Tx(s, r)}
  BY DEF GrantPathToUser, r, t
<1> QED
  BY <1>3, <1>4, WidensSame, Results DEF Tx

\* The hosts whose direct paths are granted.
DirectHosts(s, p) == {h \in Hosts : HostNode(h) = HomeNode[p] /\ s.host[h] = "selected"}
GrantDirect(s, u, p) ==
  ForEach(DirectHosts(s, p), Ok(s), LAMBDA v, h : GrantPathAccess(v, u, DirectPath[<<p, h>>]))

LEMMA DirectWidens ==
  ASSUME NEW s, StoreOK(s), Balanced(s), NEW u, NEW p PROVE Widens(s, GrantDirect(s, u, p).s)
<1> DEFINE l == [kind |-> "direct", s |-> s, user |-> u, proxy |-> p]
           S == DirectHosts(s, p)
<1>1. l.kind = "direct" /\ l.s = s /\ l.user = u /\ l.proxy = p
  OBVIOUS
<1> HIDE DEF l, S
<1>2. \A r, x : Body(l, r, x) = IF r.ok THEN GrantPathAccess(r.s, u, DirectPath[<<p, x>>]) ELSE r
  BY <1>1 DEF Body
<1>3. \A T, r : Keeps(l, T, r) <=> Widens(s, r.s)
  BY <1>1 DEF Keeps
<1>4. IsFiniteSet(S)
  BY AccessStoreAssumption, FS_Subset DEF S, DirectHosts
<1>5. PICK g : Passes(l, S, Ok(s), g) /\ GrantDirect(s, u, p) = g[S]
  <2> DEFINE E(g) == g = [T \in SUBSET S |->
                            IF T = {} THEN Ok(s)
                            ELSE LET x == CHOOSE x \in T : TRUE
                                 IN  IF g[T \ {x}].ok THEN GrantPathAccess(g[T \ {x}].s, u, DirectPath[<<p, x>>])
                                     ELSE g[T \ {x}]]
             f == CHOOSE g : E(g)
  <2>1. GrantDirect(s, u, p) = f[S]
    BY DEF GrantDirect, ForEach, FoldSet, MapThenFoldSet, Then, S
  <2>2. \A g : E(g) <=> Passes(l, S, Ok(s), g)
    <3> SUFFICES ASSUME NEW g PROVE E(g) <=> Passes(l, S, Ok(s), g)
      OBVIOUS
    <3> DEFINE A(T) == IF T = {} THEN Ok(s)
                       ELSE IF g[T \ {Pick(T)}].ok
                       THEN GrantPathAccess(g[T \ {Pick(T)}].s, u, DirectPath[<<p, Pick(T)>>])
                       ELSE g[T \ {Pick(T)}]
               B(T) == IF T = {} THEN Ok(s) ELSE Body(l, g[T \ {Pick(T)}], Pick(T))
    <3>1. \A T \in SUBSET S : A(T) = B(T)
      BY <1>2
    <3>2. E(g) <=> g = [T \in SUBSET S |-> A(T)]
      BY DEF Pick
    <3>3. Passes(l, S, Ok(s), g) <=> g = [T \in SUBSET S |-> B(T)]
      BY DEF Passes
    <3> HIDE DEF A, B, E
    <3> QED
      BY <3>1, <3>2, <3>3
  <2> HIDE DEF E
  <2>3. E(f)
    BY <1>4, <2>2, PassesExist
  <2> QED
    BY <2>1, <2>2, <2>3
<1>6. Keeps(l, {}, Ok(s))
  BY <1>3, WidensSame, Results
<1>7. ASSUME NEW T \in SUBSET S, NEW x \in S, NEW r, x \in T, Keeps(l, T \ {x}, r)
      PROVE  Keeps(l, T, Body(l, r, x))
  <2>1. Widens(s, r.s)
    BY <1>3, <1>7
  <2>2. StoreOK(r.s) /\ Balanced(r.s)
    BY <2>1, WidensKeeps
  <2>3. Widens(s, GrantPathAccess(r.s, u, DirectPath[<<p, x>>]).s)
    BY <2>1, <2>2, AccessWidens, WidensOn
  <2> QED
    BY <1>2, <1>3, <2>1, <2>3
<1>8. Widens(s, g[S].s)
  BY <1>3, <1>4, <1>5, <1>6, <1>7, LoopKeeps
<1> QED
  BY <1>5, <1>8

LEMMA CredentialWidens ==
  ASSUME NEW s, StoreOK(s), Balanced(s), NEW u, NEW p \in Proxies
  PROVE  Widens(s, GrantDirectPathsForCredential(s, u, p).s)
<1> DEFINE r == EnsureDirectPathsForProxy(s, p)
<1>1. GrantDirectPathsForCredential(s, u, p) =
        IF ~s.direct[p] THEN Ok(s) ELSE IF r.ok THEN GrantDirect(r.s, u, p) ELSE r
  BY DEF GrantDirectPathsForCredential, GrantDirect, DirectHosts, Then
<1>2. Spares(s, r.s)
  BY DirectPathsSpare
<1> HIDE DEF r
<1>3. Widens(s, r.s) /\ StoreOK(r.s) /\ Balanced(r.s)
  BY <1>2, SparesWidens
<1>4. Widens(s, GrantDirect(r.s, u, p).s)
  BY <1>3, DirectWidens, WidensOn
<1> QED
  BY <1>1, <1>3, <1>4, WidensSame, Results

LEMMA IssueWidens ==
  ASSUME NEW s, StoreOK(s), Balanced(s), NEW u, NEW p \in Proxies
  PROVE  Widens(s, IssueProxyAccess(s, u, p).s)
<1> DEFINE r == issueProxyCredential(s, u, p)
           v == GrantDirectPathsForCredential(r.s, u, p)
<1>1. IssueProxyAccess(s, u, p) = IF r.ok THEN Tx(s, v) ELSE Tx(s, r)
  BY DEF IssueProxyAccess, Then
<1>2. Spares(s, r.s)
  BY IssueSpares
<1> HIDE DEF r
<1>3. Widens(s, r.s) /\ StoreOK(r.s) /\ Balanced(r.s)
  BY <1>2, SparesWidens
<1>4. Widens(s, v.s)
  BY <1>3, CredentialWidens, WidensOn
<1> HIDE DEF v
<1> QED
  BY <1>1, <1>3, <1>4, WidensSame, Results DEF Tx

\* The two loops of SyncLegacyDirectPathsForNode.
EnsureAll(s, P, ok) == ForEach(P, Require(s, ok), LAMBDA t, p : EnsureDirectPathsForProxy(t, p))
RegrantAll(s, X) ==
  ForEach(X, Ok(s), LAMBDA t, x : IF HasManagedDirectGrantForProxyUser(t, x[1], x[2])
                                  THEN GrantDirectPathsForCredential(t, x[1], x[2]) ELSE Ok(t))

LEMMA EnsureAllSpares ==
  ASSUME NEW s, StoreOK(s), NEW S \in SUBSET Proxies, NEW c PROVE Spares(s, EnsureAll(s, S, c).s)
<1> DEFINE l == [kind |-> "ensure", s |-> s]
           base == Require(s, c)
<1>1. l.kind = "ensure" /\ l.s = s
  OBVIOUS
<1>2. base.s = s
  BY DEF Require, Ok, Fail
<1> HIDE DEF l, base
<1>3. \A r, x : Body(l, r, x) = IF r.ok THEN EnsureDirectPathsForProxy(r.s, x) ELSE r
  BY <1>1 DEF Body
<1>4. \A T, r : Keeps(l, T, r) <=> Spares(s, r.s)
  BY <1>1 DEF Keeps
<1>5. IsFiniteSet(S)
  BY AccessStoreAssumption, FS_Subset
<1>6. PICK g : Passes(l, S, base, g) /\ EnsureAll(s, S, c) = g[S]
  <2> DEFINE E(g) == g = [T \in SUBSET S |->
                            IF T = {} THEN base
                            ELSE LET x == CHOOSE x \in T : TRUE
                                 IN  IF g[T \ {x}].ok THEN EnsureDirectPathsForProxy(g[T \ {x}].s, x)
                                     ELSE g[T \ {x}]]
             f == CHOOSE g : E(g)
  <2>1. EnsureAll(s, S, c) = f[S]
    BY DEF EnsureAll, ForEach, FoldSet, MapThenFoldSet, Then, base
  <2>2. \A g : E(g) <=> Passes(l, S, base, g)
    <3> SUFFICES ASSUME NEW g PROVE E(g) <=> Passes(l, S, base, g)
      OBVIOUS
    <3> DEFINE A(T) == IF T = {} THEN base
                       ELSE IF g[T \ {Pick(T)}].ok THEN EnsureDirectPathsForProxy(g[T \ {Pick(T)}].s, Pick(T))
                       ELSE g[T \ {Pick(T)}]
               B(T) == IF T = {} THEN base ELSE Body(l, g[T \ {Pick(T)}], Pick(T))
    <3>1. \A T \in SUBSET S : A(T) = B(T)
      BY <1>3
    <3>2. E(g) <=> g = [T \in SUBSET S |-> A(T)]
      BY DEF Pick
    <3>3. Passes(l, S, base, g) <=> g = [T \in SUBSET S |-> B(T)]
      BY DEF Passes
    <3> HIDE DEF A, B, E
    <3> QED
      BY <3>1, <3>2, <3>3
  <2> HIDE DEF E
  <2>3. E(f)
    BY <1>5, <2>2, PassesExist
  <2> QED
    BY <2>1, <2>2, <2>3
<1>7. Keeps(l, {}, base)
  BY <1>2, <1>4, SparesSame
<1>8. ASSUME NEW T \in SUBSET S, NEW x \in S, NEW r, x \in T, Keeps(l, T \ {x}, r)
      PROVE  Keeps(l, T, Body(l, r, x))
  <2>1. Spares(s, r.s)
    BY <1>4, <1>8
  <2>2. StoreOK(r.s)
    BY <2>1 DEF Spares, Moves
  <2>3. Spares(s, EnsureDirectPathsForProxy(r.s, x).s)
    BY <2>1, <2>2, DirectPathsSpare, SparesOn
  <2> QED
    BY <1>3, <1>4, <2>1, <2>3
<1>9. Spares(s, g[S].s)
  BY <1>4, <1>5, <1>6, <1>7, <1>8, LoopKeeps
<1> QED
  BY <1>6, <1>9

LEMMA RegrantAllWidens ==
  ASSUME NEW s, StoreOK(s), Balanced(s), NEW S \in SUBSET (Users \X Proxies)
  PROVE  Widens(s, RegrantAll(s, S).s)
<1> DEFINE l == [kind |-> "regrant", s |-> s]
<1>1. l.kind = "regrant" /\ l.s = s
  OBVIOUS
<1> HIDE DEF l
<1>2. \A r, x : Body(l, r, x) = IF ~r.ok THEN r
                                ELSE IF HasManagedDirectGrantForProxyUser(r.s, x[1], x[2])
                                THEN GrantDirectPathsForCredential(r.s, x[1], x[2]) ELSE Ok(r.s)
  BY <1>1 DEF Body
<1>3. \A T, r : Keeps(l, T, r) <=> Widens(s, r.s)
  BY <1>1 DEF Keeps
<1>4. IsFiniteSet(S)
  <2>1. IsFiniteSet(Users \X Proxies)
    BY AccessStoreAssumption, FS_Product
  <2> QED
    BY <2>1, FS_Subset
<1>5. PICK g : Passes(l, S, Ok(s), g) /\ RegrantAll(s, S) = g[S]
  <2> DEFINE E(g) == g = [T \in SUBSET S |->
                            IF T = {} THEN Ok(s)
                            ELSE LET x == CHOOSE x \in T : TRUE
                                 IN  IF g[T \ {x}].ok
                                     THEN IF HasManagedDirectGrantForProxyUser(g[T \ {x}].s, x[1], x[2])
                                          THEN GrantDirectPathsForCredential(g[T \ {x}].s, x[1], x[2])
                                          ELSE Ok(g[T \ {x}].s)
                                     ELSE g[T \ {x}]]
             f == CHOOSE g : E(g)
  <2>1. RegrantAll(s, S) = f[S]
    BY DEF RegrantAll, ForEach, FoldSet, MapThenFoldSet, Then
  <2>2. \A g : E(g) <=> Passes(l, S, Ok(s), g)
    <3> SUFFICES ASSUME NEW g PROVE E(g) <=> Passes(l, S, Ok(s), g)
      OBVIOUS
    <3> DEFINE R(T) == g[T \ {Pick(T)}]
               A(T) == IF T = {} THEN Ok(s)
                       ELSE IF R(T).ok
                       THEN IF HasManagedDirectGrantForProxyUser(R(T).s, Pick(T)[1], Pick(T)[2])
                            THEN GrantDirectPathsForCredential(R(T).s, Pick(T)[1], Pick(T)[2])
                            ELSE Ok(R(T).s)
                       ELSE R(T)
               B(T) == IF T = {} THEN Ok(s) ELSE Body(l, R(T), Pick(T))
    <3>1. E(g) <=> g = [T \in SUBSET S |-> A(T)]
      BY DEF Pick
    <3>2. Passes(l, S, Ok(s), g) <=> g = [T \in SUBSET S |-> B(T)]
      BY DEF Passes
    <3>3. \A T \in SUBSET S : A(T) = B(T)
      <4> HIDE DEF R
      <4> QED
        BY <1>2
    <3> HIDE DEF A, B, E
    <3> QED
      BY <3>3, <3>1, <3>2
  <2> HIDE DEF E
  <2>3. E(f)
    BY <1>4, <2>2, PassesExist
  <2> QED
    BY <2>1, <2>2, <2>3
<1>6. Keeps(l, {}, Ok(s))
  BY <1>3, WidensSame, Results
<1>7. ASSUME NEW T \in SUBSET S, NEW x \in S, NEW r, x \in T, Keeps(l, T \ {x}, r)
      PROVE  Keeps(l, T, Body(l, r, x))
  <2>1. Widens(s, r.s)
    BY <1>3, <1>7
  <2>2. StoreOK(r.s) /\ Balanced(r.s) /\ x[2] \in Proxies
    BY <2>1, WidensKeeps
  <2>3. Widens(s, GrantDirectPathsForCredential(r.s, x[1], x[2]).s)
    BY <2>1, <2>2, CredentialWidens, WidensOn
  <2> QED
    BY <1>2, <1>3, <2>1, <2>3, Results
<1>8. Widens(s, g[S].s)
  BY <1>3, <1>4, <1>5, <1>6, <1>7, LoopKeeps
<1> QED
  BY <1>5, <1>8

LEMMA SyncWidens ==
  ASSUME NEW s, StoreOK(s), Balanced(s), NEW n PROVE Widens(s, SyncLegacyDirectPathsForNode(s, n).s)
<1> DEFINE P == {p \in Proxies : HomeNode[p] = n /\ GetProxyByID(s, p) /\ s.direct[p]}
           r == EnsureAll(s, P, GetNode(s, n))
           X == ListProxyAccessesByNodeName(r.s, n)
           v == RegrantAll(r.s, X)
<1>1. SyncLegacyDirectPathsForNode(s, n) = IF r.ok THEN Tx(s, v) ELSE Tx(s, r)
  BY DEF SyncLegacyDirectPathsForNode, Then, EnsureAll, RegrantAll
<1>2. P \in SUBSET Proxies /\ X \in SUBSET (Users \X Proxies)
  BY DEF ListProxyAccessesByNodeName
<1> HIDE DEF P
<1>3. Spares(s, r.s)
  BY <1>2, EnsureAllSpares
<1> HIDE DEF r, X
<1>4. Widens(s, r.s) /\ StoreOK(r.s) /\ Balanced(r.s)
  BY <1>3, SparesWidens
<1>5. Widens(s, v.s)
  BY <1>2, <1>4, RegrantAllWidens, WidensOn
<1> HIDE DEF v
<1> QED
  BY <1>1, <1>4, <1>5, WidensSame, Results DEF Tx

----------------------------------------------------------------------------
(* Credentials nobody needs *)

LEMMA RoundsUnique ==
  ASSUME NEW l, NEW n \in Nat, NEW base, NEW g, Rounds(l, n, base, g), NEW h, Rounds(l, n, base, h)
  PROVE  g[n] = h[n]
<1>1. \A i \in 0..n : /\ g[i] = IF i = 0 THEN base ELSE Body(l, g[i - 1], i)
                      /\ h[i] = IF i = 0 THEN base ELSE Body(l, h[i - 1], i)
  BY DEF Rounds
<1> SUFFICES ASSUME g[n] # h[n] PROVE FALSE
  OBVIOUS
<1> DEFINE C == {i \in 0..n : g[i] # h[i]}
<1>2. PICK k \in C : \A y \in C : k <= y
  <2>1. C \in SUBSET Nat /\ C # {}
    OBVIOUS
  <2> HIDE DEF C
  <2> QED
    BY <2>1, LeastNumber
<1>3. k \in 0..n /\ g[k] # h[k]
  OBVIOUS
<1>4. k # 0
  BY <1>1, <1>3
<1>5. k - 1 \in 0..n /\ k - 1 \notin C
  <2>1. k - 1 < k /\ k - 1 \in 0..n
    BY <1>3, <1>4
  <2> HIDE DEF C
  <2> QED
    BY <1>2, <1>3, <2>1
<1>6. g[k - 1] = h[k - 1]
  BY <1>5
<1> QED
  BY <1>1, <1>3, <1>4, <1>6

LEMMA HopsOfPath ==
  ASSUME NEW s, NEW t, t.path = s.path, NEW q PROVE Hops(t, q) = Hops(s, q)
<1> DEFINE l == [kind |-> "within", s |-> s]
           n == Cardinality(PathIds)
<1>1. l.kind = "within" /\ l.s = s
  OBVIOUS
<1> HIDE DEF l
<1>2. /\ n \in Nat
      /\ \A r, x : Body(l, r, x) = r \cup ({s.path[p].dialer : p \in r} \ {None})
      /\ \A r, x : Body(l, r, x) = r \cup ({t.path[p].dialer : p \in r} \ {None})
  BY <1>1, AccessStoreAssumption, FS_CardinalityType DEF Body
<1>3. PICK g : Rounds(l, n, {q}, g) /\ Hops(s, q) = g[n]
  BY <1>2, HopsRounds
<1>4. PICK h : Rounds(l, n, {q}, h) /\ Hops(t, q) = h[n]
  BY <1>2, HopsRounds
<1> HIDE DEF n
<1> QED
  BY <1>2, <1>3, <1>4, RoundsUnique

\* What a user needs depends on the paths, the endpoints, the accesses, the proxies
\* and their nodes.
LEMMA SameNeeds ==
  ASSUME NEW s, NEW t, t.path = s.path, t.endpoint = s.endpoint, t.access = s.access,
         t.proxy = s.proxy, t.node = s.node, NEW u
  PROVE  HopProxies(t, ListActivePathAccessesByUserID(t, u)) = HopProxies(s, ListActivePathAccessesByUserID(s, u))
<1>1. ListActivePathAccessesByUserID(t, u) = ListActivePathAccessesByUserID(s, u)
  BY DEF ListActivePathAccessesByUserID, LiveAccesses, EndpointOf, GetProxyByID
<1>2. \A qs : HopProxies(t, qs) = HopProxies(s, qs)
  <2> SUFFICES ASSUME NEW qs PROVE HopProxies(t, qs) = HopProxies(s, qs)
    OBVIOUS
  <2>1. UNION {Hops(t, q) : q \in qs} = UNION {Hops(s, q) : q \in qs}
    BY HopsOfPath
  <2> QED
    BY <2>1 DEF HopProxies
<1> QED
  BY <1>1, <1>2

LEMMA UnusedSettles ==
  ASSUME NEW s, StoreOK(s), NEW u \in Users, NEW t, t = disableUnusedProxyCredentials(s, u)
  PROVE  /\ Spares(s, t) /\ t.path = s.path /\ t.endpoint = s.endpoint
         /\ Settled(t, u)
         /\ \A a \in Users : Settled(s, a) => Settled(t, a)
<1> DEFINE required == HopProxies(s, ListActivePathAccessesByUserID(s, u))
           unused == {p \in ListProxyAccessesByUserName(s, u) : s.cred[<<u, p>>].state = "on" /\ p \notin required}
           f == [x \in DOMAIN s.cred |-> IF x[1] = u /\ x[2] \in unused THEN [s.cred[x] EXCEPT !.state = "off"] ELSE s.cred[x]]
<1>1. Spares(s, t)
  BY UnusedSpares
<1>2. t = [s EXCEPT !.cred = f]
  BY DEF disableUnusedProxyCredentials, DisableProxyAccesses
<1>3. t.path = s.path /\ t.endpoint = s.endpoint /\ t.cred = f /\ t.proxy = s.proxy /\ t.node = s.node
      /\ t.user = s.user /\ t.access = s.access
  BY <1>2 DEF StoreOK, Fields
<1>4. s.cred \in [Users \X Proxies -> Creds]
  BY DEF StoreOK
<1>5. ASSUME NEW a \in Users, NEW p \in Proxies, t.cred[<<a, p>>].state = "on"
      PROVE  s.cred[<<a, p>>].state = "on" /\ (a = u => p \notin unused)
  <2>1. s.cred[<<a, p>>] \in Creds
    BY <1>4
  <2>2. t.cred[<<a, p>>] = IF a = u /\ p \in unused THEN [s.cred[<<a, p>>] EXCEPT !.state = "off"] ELSE s.cred[<<a, p>>]
    BY <1>3, <1>4
  <2> HIDE DEF unused
  <2> QED
    BY <1>5, <2>1, <2>2 DEF Creds
<1>6. \A p : GetProxyByID(t, p) <=> GetProxyByID(s, p)
  BY <1>3 DEF GetProxyByID
<1>7. \A a : GetProxyUser(t, a) <=> GetProxyUser(s, a)
  BY <1>3 DEF GetProxyUser
<1>8. \A a : HopProxies(t, ListActivePathAccessesByUserID(t, a)) = HopProxies(s, ListActivePathAccessesByUserID(s, a))
  BY <1>3, SameNeeds
<1>9. Settled(t, u)
  <2> SUFFICES ASSUME NEW p \in Proxies, t.cred[<<u, p>>].state = "on", GetProxyByID(s, p), GetProxyUser(s, u),
                      p \notin required
               PROVE  FALSE
    BY <1>6, <1>7, <1>8 DEF Settled
  <2>1. s.cred[<<u, p>>].state = "on" /\ p \notin unused
    BY <1>5
  <2> QED
    BY <2>1 DEF ListProxyAccessesByUserName
<1>10. \A a \in Users : Settled(s, a) => Settled(t, a)
  <2> HIDE DEF unused
  <2> QED
    BY <1>5, <1>6, <1>7, <1>8 DEF Settled
<1> QED
  BY <1>1, <1>3, <1>9, <1>10

\* The loop over the users who lost something.
TeardownAll(s, S) == FoldSet(LAMBDA u, t : disableUnusedProxyCredentials(t, u), s, S)

LEMMA TeardownSettles ==
  ASSUME NEW s, StoreOK(s), NEW S \in SUBSET Users, NEW t, t = TeardownAll(s, S)
  PROVE  /\ Spares(s, t) /\ t.path = s.path /\ t.endpoint = s.endpoint
         /\ \A u \in S : Settled(t, u)
<1> DEFINE l == [kind |-> "teardown", s |-> s]
<1>1. l.kind = "teardown" /\ l.s = s
  OBVIOUS
<1> HIDE DEF l
<1>2. \A r, x : Body(l, r, x) = disableUnusedProxyCredentials(r, x)
  BY <1>1 DEF Body
<1>3. \A T, r : Keeps(l, T, r) <=> /\ Spares(s, r) /\ r.path = s.path /\ r.endpoint = s.endpoint
                                   /\ \A u \in T : Settled(r, u)
  BY <1>1 DEF Keeps
<1>4. IsFiniteSet(S)
  BY AccessStoreAssumption, FS_Subset
<1>5. PICK g : Passes(l, S, s, g) /\ t = g[S]
  <2> DEFINE E(g) == g = [T \in SUBSET S |->
                            IF T = {} THEN s
                            ELSE LET x == CHOOSE x \in T : TRUE
                                 IN  disableUnusedProxyCredentials(g[T \ {x}], x)]
             f == CHOOSE g : E(g)
  <2>1. t = f[S]
    BY DEF TeardownAll, FoldSet, MapThenFoldSet
  <2>2. \A g : E(g) <=> Passes(l, S, s, g)
    BY <1>2 DEF Passes, Pick
  <2> HIDE DEF E
  <2>3. E(f)
    BY <1>4, <2>2, PassesExist
  <2> QED
    BY <2>1, <2>2, <2>3
<1>6. Keeps(l, {}, s)
  BY <1>3, SparesSame
<1>7. ASSUME NEW T \in SUBSET S, NEW x \in S, NEW r, x \in T, Keeps(l, T \ {x}, r)
      PROVE  Keeps(l, T, Body(l, r, x))
  <2>1. Spares(s, r) /\ r.path = s.path /\ r.endpoint = s.endpoint /\ \A u \in T \ {x} : Settled(r, u)
    BY <1>3, <1>7
  <2>2. StoreOK(r)
    BY <2>1 DEF Spares, Moves
  <2> DEFINE v == disableUnusedProxyCredentials(r, x)
  <2>3. /\ Spares(r, v) /\ v.path = r.path /\ v.endpoint = r.endpoint
        /\ Settled(v, x)
        /\ \A a \in Users : Settled(r, a) => Settled(v, a)
    BY <2>2, UnusedSettles
  <2> HIDE DEF v
  <2>4. Spares(s, v)
    BY <2>1, <2>3, SparesOn
  <2>5. \A u \in T : Settled(v, u)
    BY <2>1, <2>3
  <2>6. Body(l, r, x) = v
    BY <1>2 DEF v
  <2> QED
    BY <1>3, <2>1, <2>3, <2>4, <2>5, <2>6
<1>8. Keeps(l, S, g[S])
  BY <1>4, <1>5, <1>6, <1>7, LoopKeeps
<1> QED
  BY <1>3, <1>5, <1>8

----------------------------------------------------------------------------
(* Reconciliation *)

\* Accesses and grants agree, but for those of the user u.
BalancedBut(s, u) ==
  \A a \in Users \ {u}, q \in PathIds : (s.access[<<a, q>>] = "live") <=> (<<a, q>> \in s.grant)

\* The first part of reconcilePathGrants: accesses without a grant are archived,
\* those a grant lacks are opened.
ExtendAll(s, u, S, blocked) ==
  ForEach(S, Ok(s), LAMBDA t, q : IF HopProxies(t, {q}) \cap blocked # {} THEN Fail(t) ELSE grantPathToUser(t, u, q))

LEMMA ExtendOpens ==
  ASSUME NEW s, StoreOK(s), NEW u, NEW S \in SUBSET PathIds, NEW blocked, NEW r, r = ExtendAll(s, u, S, blocked)
  PROVE  /\ Moves(s, r.s)
         /\ r.s.grant = s.grant
         /\ r.ok => \A a \in Users, q \in PathIds :
                      r.s.access[<<a, q>>] = IF a = u /\ q \in S THEN "live" ELSE s.access[<<a, q>>]
<1> DEFINE l == [kind |-> "extend", s |-> s, user |-> u, blocked |-> blocked]
<1>1. l.kind = "extend" /\ l.s = s /\ l.user = u /\ l.blocked = blocked
  OBVIOUS
<1> HIDE DEF l
<1>2. \A v, x : Body(l, v, x) = IF ~v.ok THEN v
                                ELSE IF HopProxies(v.s, {x}) \cap blocked # {} THEN Fail(v.s)
                                ELSE grantPathToUser(v.s, u, x)
  BY <1>1 DEF Body
<1>3. \A T, v : Keeps(l, T, v) <=>
         /\ Moves(s, v.s)
         /\ v.s.grant = s.grant
         /\ v.ok => \A a \in Users, q \in PathIds :
                      v.s.access[<<a, q>>] = IF a = u /\ q \in T THEN "live" ELSE s.access[<<a, q>>]
  BY <1>1 DEF Keeps
<1>4. IsFiniteSet(S)
  BY AccessStoreAssumption, FS_Subset
<1>5. PICK g : Passes(l, S, Ok(s), g) /\ r = g[S]
  <2> DEFINE E(g) == g = [T \in SUBSET S |->
                            IF T = {} THEN Ok(s)
                            ELSE LET x == CHOOSE x \in T : TRUE
                                 IN  IF g[T \ {x}].ok
                                     THEN IF HopProxies(g[T \ {x}].s, {x}) \cap blocked # {} THEN Fail(g[T \ {x}].s)
                                          ELSE grantPathToUser(g[T \ {x}].s, u, x)
                                     ELSE g[T \ {x}]]
             f == CHOOSE g : E(g)
  <2>1. r = f[S]
    BY DEF ExtendAll, ForEach, FoldSet, MapThenFoldSet, Then
  <2>2. \A g : E(g) <=> Passes(l, S, Ok(s), g)
    <3> SUFFICES ASSUME NEW g PROVE E(g) <=> Passes(l, S, Ok(s), g)
      OBVIOUS
    <3> DEFINE R(T) == g[T \ {Pick(T)}]
               A(T) == IF T = {} THEN Ok(s)
                       ELSE IF R(T).ok
                       THEN IF HopProxies(R(T).s, {Pick(T)}) \cap blocked # {} THEN Fail(R(T).s)
                            ELSE grantPathToUser(R(T).s, u, Pick(T))
                       ELSE R(T)
               B(T) == IF T = {} THEN Ok(s) ELSE Body(l, R(T), Pick(T))
    <3>1. E(g) <=> g = [T \in SUBSET S |-> A(T)]
      BY DEF Pick
    <3>2. Passes(l, S, Ok(s), g) <=> g = [T \in SUBSET S |-> B(T)]
      BY DEF Passes
    <3>3. \A T \in SUBSET S : A(T) = B(T)
      <4> HIDE DEF R
      <4> QED
        BY <1>2
    <3> HIDE DEF A, B, E
    <3> QED
      BY <3>3, <3>1, <3>2
  <2> HIDE DEF E
  <2>3. E(f)
    BY <1>4, <2>2, PassesExist
  <2> QED
    BY <2>1, <2>2, <2>3
<1>6. Keeps(l, {}, Ok(s))
  BY <1>3, SparesSame, Results
<1>7. ASSUME NEW T \in SUBSET S, NEW x \in S, NEW v, x \in T, Keeps(l, T \ {x}, v)
      PROVE  Keeps(l, T, Body(l, v, x))
  <2>1. /\ Moves(s, v.s) /\ v.s.grant = s.grant
        /\ v.ok => \A a \in Users, q \in PathIds :
                     v.s.access[<<a, q>>] = IF a = u /\ q \in T \ {x} THEN "live" ELSE s.access[<<a, q>>]
    BY <1>3, <1>7
  <2>2. StoreOK(v.s)
    BY <2>1 DEF Moves
  <2>3. CASE ~v.ok
    <3>1. Body(l, v, x) = v
      BY <1>2, <2>3
    <3> QED
      BY <1>3, <2>1, <2>3, <3>1
  <2>4. CASE v.ok /\ HopProxies(v.s, {x}) \cap blocked # {}
    <3>1. Body(l, v, x) = Fail(v.s)
      BY <1>2, <2>4
    <3> QED
      BY <1>3, <2>1, <3>1, Results
  <2>5. CASE v.ok /\ ~(HopProxies(v.s, {x}) \cap blocked # {})
    <3> DEFINE w == grantPathToUser(v.s, u, x)
    <3>1. Body(l, v, x) = w
      BY <1>2, <2>5
    <3>2. Moves(v.s, w.s) /\ w.s.grant = v.s.grant /\ (w.ok => Opens(v.s, w.s, u, x))
      BY <2>2, PathOpens
    <3> HIDE DEF w
    <3>3. Moves(s, w.s)
      BY <2>1, <3>2, MovesOn
    <3>4. w.ok => \A a \in Users, q \in PathIds :
            w.s.access[<<a, q>>] = IF a = u /\ q \in T THEN "live" ELSE s.access[<<a, q>>]
      BY <1>7, <2>1, <2>5, <3>2 DEF Opens
    <3> QED
      BY <1>3, <2>1, <3>1, <3>2, <3>3, <3>4
  <2> QED
    BY <2>3, <2>4, <2>5
<1>8. Keeps(l, S, g[S])
  BY <1>4, <1>5, <1>6, <1>7, LoopKeeps
<1> QED
  BY <1>3, <1>5, <1>8

\* A reconciliation that succeeds makes the user's accesses those that are granted
\* and leaves the user no credential nobody needs.
LEMMA ReconcileBalances ==
  ASSUME NEW s, StoreOK(s), NEW u \in Users, BalancedBut(s, u), NEW r, r = reconcilePathGrants(s, u), r.ok
  PROVE  /\ Moves(s, r.s) /\ Balanced(r.s) /\ Settled(r.s, u)
         /\ \A a \in Users \ {u}, q \in PathIds : r.s.access[<<a, q>>] = s.access[<<a, q>>]
<1> DEFINE desired == ListUserDesiredPathIDs(s, u)
           live == LiveAccesses(s, u)
           blocked == {p \in HopProxies(s, live) : s.cred[<<u, p>>].state \in {"off", "archived"}}
           t == SoftDeletePathAccess(s, u, live \ desired)
           S == desired \ live
           v == ExtendAll(t, u, S, blocked)
           w == disableUnusedProxyCredentials(v.s, u)
<1>1. \/ r = Fail(s)
      \/ r = IF v.ok THEN IF validatePublishedNamesForUser(v.s, u, {}) THEN Ok(w) ELSE Fail(v.s) ELSE v
  BY DEF reconcilePathGrants, ExtendAll, Then
<1>2. v.ok /\ r = Ok(w)
  <2> HIDE DEF v, w
  <2> QED
    BY <1>1, Results
<1>3. /\ Moves(s, t) /\ t.grant = s.grant
      /\ \A a \in Users, b \in PathIds :
           t.access[<<a, b>>] = IF a = u /\ b \in live \ desired THEN Archive(s.access[<<a, b>>]) ELSE s.access[<<a, b>>]
  BY SoftDeleteMoves
<1>4. StoreOK(t) /\ S \in SUBSET PathIds
  BY <1>3 DEF Moves, ListUserDesiredPathIDs
<1>5. \A q \in PathIds : (q \in desired <=> <<u, q>> \in s.grant) /\ (q \in live <=> s.access[<<u, q>>] = "live")
  BY DEF ListUserDesiredPathIDs, LiveAccesses
<1> HIDE DEF t, S, blocked, desired, live
<1>6. /\ Moves(t, v.s) /\ v.s.grant = t.grant
      /\ \A a \in Users, q \in PathIds :
           v.s.access[<<a, q>>] = IF a = u /\ q \in S THEN "live" ELSE t.access[<<a, q>>]
  BY <1>2, <1>4, ExtendOpens
<1> HIDE DEF v
<1>7. StoreOK(v.s) /\ Moves(s, v.s)
  BY <1>3, <1>6, MovesOn DEF Moves
<1>8. Spares(v.s, w) /\ Settled(w, u)
  BY <1>7, UnusedSettles
<1> HIDE DEF w
<1>9. Moves(s, w) /\ w.access = v.s.access /\ w.grant = s.grant
  BY <1>3, <1>6, <1>7, <1>8, MovesOn DEF Spares
<1>10. ASSUME NEW a \in Users, NEW q \in PathIds
       PROVE  /\ (w.access[<<a, q>>] = "live") <=> (<<a, q>> \in w.grant)
              /\ a # u => w.access[<<a, q>>] = s.access[<<a, q>>]
  <2>1. CASE a = u
    BY <1>3, <1>5, <1>6, <1>9, <2>1 DEF S, Archive
  <2>2. CASE a # u
    BY <1>3, <1>6, <1>9, <2>2 DEF BalancedBut
  <2> QED
    BY <2>1, <2>2
<1> QED
  BY <1>2, <1>8, <1>9, <1>10, Results DEF Balanced

----------------------------------------------------------------------------
(* Requests *)

\* Every node has a selected host.
HostsOK(s) == \A n \in Nodes : \E i \in DOMAIN HostOrder[n] : s.host[HostOrder[n][i]] = "selected"

Sound(s) == StoreOK(s) /\ Balanced(s) /\ NoStray(s) /\ HostsOK(s) /\ Rooted(s)

\* A user who loses an access is left no credential nobody needs.
Advances(s, t) ==
  /\ Sound(t)
  /\ Fresher(s, t)
  /\ \A u \in Users : (\E q \in PathIds : s.access[<<u, q>>] = "live" /\ t.access[<<u, q>>] # "live") => Settled(t, u)

LEMMA MovesAdvance ==
  ASSUME NEW s, Sound(s), NEW t, Moves(s, t), Balanced(t),
         \A u \in Users, q \in PathIds :
           s.access[<<u, q>>] = "live" /\ t.access[<<u, q>>] # "live" => Settled(t, u)
  PROVE  Advances(s, t)
<1>1. NoStray(t)
  <2> SUFFICES ASSUME NEW u \in Users, NEW p \in Proxies, ~GetProxyByID(t, p) \/ ~GetProxyUser(t, u)
               PROVE  t.cred[<<u, p>>].state \in {"none", "archived"}
    BY DEF NoStray
  <2>1. ~GetProxyByID(s, p) \/ ~GetProxyUser(s, u)
    BY DEF Moves, GetProxyByID, GetProxyUser
  <2>2. s.cred[<<u, p>>].state \in {"none", "archived"}
    BY <2>1 DEF Sound, NoStray
  <2>3. t.cred[<<u, p>>].state \notin {"on", "off"}
    BY <2>1, <2>2 DEF Moves, Issued
  <2>4. t.cred[<<u, p>>] \in Creds
    BY DEF Moves, StoreOK
  <2> QED
    BY <2>3, <2>4 DEF Creds
<1>2. HostsOK(t)
  BY DEF Sound, HostsOK, Moves
<1> QED
  BY <1>1, <1>2 DEF Advances, Sound, Moves

LEMMA WidensAdvance == ASSUME NEW s, Sound(s), NEW t, Widens(s, t) PROVE Advances(s, t)
BY MovesAdvance DEF Widens

LEMMA SparesAdvance == ASSUME NEW s, Sound(s), NEW t, Spares(s, t) PROVE Advances(s, t)
BY SparesWidens, WidensAdvance DEF Sound

LEMMA SameAdvances == ASSUME NEW s, Sound(s) PROVE Advances(s, s)
BY SparesSame, SparesAdvance DEF Sound

LEMMA ReconcileAdvances ==
  ASSUME NEW s, Sound(s), NEW u \in Users, NEW t, Moves(s, t), t.access = s.access, BalancedBut(t, u),
         NEW r, r = reconcilePathGrants(t, u), r.ok
  PROVE  Advances(s, r.s)
<1>1. StoreOK(s) /\ StoreOK(t)
  BY DEF Sound, Moves
<1>2. /\ Moves(t, r.s) /\ Balanced(r.s) /\ Settled(r.s, u)
      /\ \A a \in Users \ {u}, q \in PathIds : r.s.access[<<a, q>>] = t.access[<<a, q>>]
  BY <1>1, ReconcileBalances
<1>3. Moves(s, r.s)
  BY <1>1, <1>2, MovesOn
<1>4. \A a \in Users, q \in PathIds :
        s.access[<<a, q>>] = "live" /\ r.s.access[<<a, q>>] # "live" => Settled(r.s, a)
  BY <1>2
<1> QED
  BY <1>2, <1>3, <1>4, MovesAdvance

LEMMA RevokeAdvances ==
  ASSUME NEW s, Sound(s), NEW u \in Users, NEW q PROVE Advances(s, RevokePathAccess(s, u, q).s)
<1> DEFINE t == DeleteDirectPathGrant(s, u, q)
           r == reconcilePathGrants(t, u)
           v == RevokePathAccess(s, u, q)
<1>1. Moves(s, t) /\ t.access = s.access /\ t.grant = s.grant \ {<<u, q>>}
  BY GrantMoves DEF DeleteDirectPathGrant, Sound
<1>2. BalancedBut(t, u)
  BY <1>1 DEF Sound, Balanced, BalancedBut
<1>3. v = Fail(s) \/ (r.ok /\ v = Ok(r.s))
  BY Results DEF RevokePathAccess, Tx, Then, Require
<1> HIDE DEF t, v
<1>4. r.ok => Advances(s, r.s)
  BY <1>1, <1>2, ReconcileAdvances
<1> HIDE DEF r
<1> QED
  BY <1>3, <1>4, SameAdvances, Results DEF v

LEMMA SelectAdvances ==
  ASSUME NEW s, Sound(s), NEW u \in Users, NEW on, NEW off
  PROVE  Advances(s, ChangeUserPathSelection(s, u, on, off).s)
<1> DEFINE t == [s EXCEPT !.grant = (@ \cup ({u} \X on)) \ ({u} \X off)]
           r == reconcilePathGrants(t, u)
           v == ChangeUserPathSelection(s, u, on, off)
<1>1. Moves(s, t) /\ t.access = s.access /\ t.grant = (s.grant \cup ({u} \X on)) \ ({u} \X off)
  BY GrantMoves DEF Sound
<1>2. BalancedBut(t, u)
  BY <1>1 DEF Sound, Balanced, BalancedBut
<1>3. v = Fail(s) \/ (r.ok /\ v = r)
  BY Results DEF ChangeUserPathSelection, Tx
<1> HIDE DEF t, v
<1>4. r.ok => Advances(s, r.s)
  BY <1>1, <1>2, ReconcileAdvances
<1> HIDE DEF r
<1> QED
  BY <1>3, <1>4, SameAdvances, Results DEF v

\* What ChangePathGroup writes before it reconciles.
GroupWritten(s, c) ==
  LET members == \A q \in c.paths :
        /\ GetPathByID(s, q)
        /\ s.path[q].visibility = "selectable"
        /\ ResolveEndpoint(s, EndpointOf(s, q))
  IN  CASE c.op = "save" /\ s.group[c.group].state = "none" /\ members
             -> Ok(CreatePathGroup(s, c.group, c.paths, c.enabled))
        [] c.op = "save" /\ GetPathGroup(s, c.group) /\ s.group[c.group].revision = c.revision /\ members
             -> Ok(UpdatePathGroup(s, c.group, c.paths, c.enabled))
        [] c.op = "delete" /\ GetPathGroup(s, c.group) /\ s.group[c.group].revision = c.revision
             -> Ok(ArchivePathGroup(s, c.group))
        [] OTHER -> Fail(s)

LEMMA GroupAdvances ==
  ASSUME NEW s, Sound(s), NEW c, c.user \in Users \cup {None}
  PROVE  Advances(s, ChangePathGroup(s, c).s)
<1> DEFINE w == GroupWritten(s, c)
           r == reconcilePathGrants(w.s, c.user)
           v == ChangePathGroup(s, c)
<1>1. StoreOK(s) /\ Balanced(s)
  BY DEF Sound
<1>2. Spares(s, w.s)
  <2>1. w \in {Fail(s), Ok(CreatePathGroup(s, c.group, c.paths, c.enabled)),
               Ok(UpdatePathGroup(s, c.group, c.paths, c.enabled)), Ok(ArchivePathGroup(s, c.group))}
    BY DEF GroupWritten
  <2>2. /\ Spares(s, CreatePathGroup(s, c.group, c.paths, c.enabled)) /\ Spares(s, s)
        /\ Spares(s, UpdatePathGroup(s, c.group, c.paths, c.enabled)) /\ Spares(s, ArchivePathGroup(s, c.group))
    BY <1>1, GroupTables, SparesSame
  <2> HIDE DEF w
  <2> QED
    BY <2>1, <2>2, Results
<1>3. \/ v = Fail(s)
      \/ v = Tx(s, w)
      \/ c.user # None /\ v = Tx(s, IF w.ok THEN r ELSE w)
  <2>1. v = IF Cardinality(c.paths) > MaxPathGroupMembers THEN Fail(s)
            ELSE IF c.user = None THEN Tx(s, w)
            ELSE Tx(s, Then(Require(s, GetProxyUser(s, c.user)), LAMBDA t :
                         Then(w, LAMBDA x : reconcilePathGrants(x, c.user))))
    BY DEF ChangePathGroup, GroupWritten
  <2>2. Then(Require(s, GetProxyUser(s, c.user)), LAMBDA t : Then(w, LAMBDA x : reconcilePathGrants(x, c.user)))
        \in {Fail(s), IF w.ok THEN r ELSE w}
    BY DEF Then, Require, Ok, Fail
  <2>3. Tx(s, Fail(s)) = Fail(s)
    BY DEF Tx, Fail
  <2> HIDE DEF v, w, r
  <2> QED
    BY <2>1, <2>2, <2>3
<1> HIDE DEF w, v
<1>4. Advances(s, w.s)
  BY <1>2, SparesAdvance
<1>5. ASSUME c.user # None, r.ok PROVE Advances(s, r.s)
  <2>1. Moves(s, w.s) /\ w.s.access = s.access /\ w.s.grant = s.grant /\ c.user \in Users
    BY <1>2, <1>5 DEF Spares
  <2>2. BalancedBut(w.s, c.user)
    BY <1>1, <2>1 DEF Balanced, BalancedBut
  <2> QED
    BY <1>5, <2>1, <2>2, ReconcileAdvances
<1> HIDE DEF r
<1> QED
  BY <1>3, <1>4, <1>5, SameAdvances, Results DEF v, Tx

LEMMA CredentialRequestsAdvance ==
  ASSUME NEW s, Sound(s), NEW u, NEW p, NEW n
  PROVE  /\ Advances(s, RotateUserCredentials(s, u).s)
         /\ Advances(s, SoftDeleteProxyCredential(s, u, p).s)
         /\ Advances(s, BindUserToNode(s, u, n).s)
         /\ Advances(s, EnsureEndpoint(s, p).s)
<1>1. StoreOK(s)
  BY DEF Sound
<1>2. RotateUserCredentials(s, u) \in {Fail(s), Ok(RotateProxyAccessCredential(s, u, ListProxyAccessesByUserName(s, u)))}
  BY DEF RotateUserCredentials
<1>3. SoftDeleteProxyCredential(s, u, p) \in {Fail(s), Ok(ArchiveCredentials(s, {<<u, p>>}))}
  BY DEF SoftDeleteProxyCredential
<1>4. Spares(s, RotateProxyAccessCredential(s, u, ListProxyAccessesByUserName(s, u)))
      /\ Spares(s, ArchiveCredentials(s, {<<u, p>>})) /\ Spares(s, s)
  BY <1>1, RotateSpares, ArchiveSpares, SparesSame
<1>5. Spares(s, RotateUserCredentials(s, u).s) /\ Spares(s, SoftDeleteProxyCredential(s, u, p).s)
  BY <1>2, <1>3, <1>4, Results
<1>6. Spares(s, BindUserToNode(s, u, n).s) /\ Spares(s, EnsureEndpoint(s, p).s)
  BY <1>1, BindSpares, EndpointSpares
<1> QED
  BY <1>5, <1>6, SparesAdvance

LEMMA DeleteRowMoves ==
  ASSUME NEW s, StoreOK(s), NEW q, DeletableBySchema(s, q), NEW t, t = DeletePathRow(s, q)
  PROVE  /\ Moves(s, t)
         /\ \A a \in Users, b \in PathIds :
              /\ t.access[<<a, b>>] = IF b = q THEN "none" ELSE s.access[<<a, b>>]
              /\ <<a, b>> \in t.grant <=> <<a, b>> \in s.grant /\ b # q
<1>1. /\ t = [x \in Fields |-> t[x]] /\ t.endpoint = s.endpoint
      /\ t.path = [s.path EXCEPT ![q] = None]
      /\ t.node = s.node /\ t.host = s.host /\ t.proxy = s.proxy /\ t.user = s.user /\ t.cred = s.cred
      /\ t.access = [x \in DOMAIN s.access |-> IF x[2] = q THEN "none" ELSE s.access[x]]
      /\ t.grant = {x \in s.grant : x[2] # q}
  BY DEF DeletePathRow, StoreOK, Fields
<1>2. s.access \in [Users \X PathIds -> {"none", "live", "archived"}] /\ Wired(s)
  BY DEF StoreOK
<1>3. t.access \in [Users \X PathIds -> {"none", "live", "archived"}]
  BY <1>1, <1>2
<1>4. Wired(t)
  BY <1>1, <1>2, DeleteWires
<1>5. \A a \in Users, b \in PathIds :
        t.access[<<a, b>>] = "live" => s.access[<<a, b>>] = "live" /\ t.path[b] = s.path[b]
  BY <1>1, <1>2 DEF Wired, Linked
<1>6. Moves(s, t)
  BY <1>1, <1>3, <1>4, <1>5, AccessTable, ZenonT(60)
<1> QED
  BY <1>1, <1>2, <1>6

LEMMA DeletePathAdvances ==
  ASSUME NEW s, Sound(s), NEW q PROVE Advances(s, DeletePath(s, q).s)
<1> DEFINE e == EndpointOf(s, q)
           gone == DeletePathRow(s, q)
           tidy == IF ListPathsByEndpointID(gone, e) = {} THEN DeleteEndpoint(gone, e) ELSE gone
           U == ListUserNamesByPathID(s, q)
           r == TeardownAll(tidy, U)
<1>1. DeletePath(s, q) = Fail(s) \/ (DeletableBySchema(s, q) /\ DeletePath(s, q) = Ok(r))
  BY DEF DeletePath, TeardownAll
<1>2. ASSUME DeletableBySchema(s, q) PROVE Advances(s, r)
  <2>1. StoreOK(s) /\ Balanced(s) /\ U \in SUBSET Users
    BY DEF Sound, ListUserNamesByPathID
  <2>2. /\ Moves(s, gone)
        /\ \A a \in Users, b \in PathIds :
             /\ gone.access[<<a, b>>] = IF b = q THEN "none" ELSE s.access[<<a, b>>]
             /\ <<a, b>> \in gone.grant <=> <<a, b>> \in s.grant /\ b # q
    BY <1>2, <2>1, DeleteRowMoves
  <2>3. StoreOK(gone)
    BY <2>2 DEF Moves
  <2> HIDE DEF gone, e
  <2>4. Spares(gone, tidy)
    BY <2>3, SetEndpointSpares, SparesSame DEF DeleteEndpoint
  <2> HIDE DEF tidy
  <2>5. StoreOK(tidy)
    BY <2>4 DEF Spares, Moves
  <2>6. Spares(tidy, r) /\ \A u \in U : Settled(r, u)
    BY <2>1, <2>5, TeardownSettles
  <2> HIDE DEF r
  <2>7. Moves(s, r) /\ r.access = gone.access /\ r.grant = gone.grant
    BY <2>1, <2>2, <2>3, <2>4, <2>5, <2>6, MovesOn DEF Spares
  <2>8. Balanced(r)
    BY <2>1, <2>2, <2>7 DEF Balanced
  <2>9. ASSUME NEW a \in Users, NEW b \in PathIds, s.access[<<a, b>>] = "live", r.access[<<a, b>>] # "live"
        PROVE  Settled(r, a)
    <3>1. b = q
      BY <2>2, <2>7, <2>9
    <3>2. CASE GetProxyUser(s, a)
      <4>1. a \in U
        BY <2>9, <3>1, <3>2 DEF ListUserNamesByPathID, LiveAccesses
      <4> QED
        BY <2>6, <4>1
    <3>3. CASE ~GetProxyUser(s, a)
      BY <2>7, <3>3 DEF Moves, Settled, GetProxyUser
    <3> QED
      BY <3>2, <3>3
  <2> QED
    BY <2>7, <2>8, <2>9, MovesAdvance
<1> HIDE DEF r
<1> QED
  BY <1>1, <1>2, SameAdvances, Results

LEMMA RetiredPathsListed ==
  ASSUME NEW s PROVE ListRetiredResourcePaths(s) \in SUBSET ListPaths(s)
<1> DEFINE l == [kind |-> "upward", s |-> s]
           n == Cardinality(PathIds)
           base == {q \in ListPaths(s) : Retired(s, s.path[q].proxy)}
<1>1. l.kind = "upward" /\ l.s = s
  OBVIOUS
<1> HIDE DEF l, base
<1>2. /\ n \in Nat
      /\ \A r, x : Body(l, r, x) = r \cup {q \in ListPaths(s) : s.path[q].dialer \in r}
  BY <1>1, AccessStoreAssumption, FS_CardinalityType DEF Body
<1>3. \A T, r : Keeps(l, T, r) <=> r \subseteq ListPaths(s)
  BY <1>1 DEF Keeps
<1>4. PICK g : Rounds(l, n, base, g) /\ ListRetiredResourcePaths(s) = g[n]
  <2> DEFINE E(g) == g = [k \in 0..n |-> IF k = 0 THEN base
                                          ELSE g[k - 1] \cup {q \in ListPaths(s) : s.path[q].dialer \in g[k - 1]}]
             f == CHOOSE g : E(g)
  <2>1. ListRetiredResourcePaths(s) = f[n]
    BY DEF ListRetiredResourcePaths, base
  <2>2. \A g : E(g) <=> Rounds(l, n, base, g)
    BY <1>2 DEF Rounds
  <2> HIDE DEF E
  <2>3. E(f)
    BY <1>2, <2>2, RoundsExist
  <2> QED
    BY <2>1, <2>2, <2>3
<1>5. Keeps(l, 0, base)
  BY <1>3 DEF base
<1>6. ASSUME NEW i \in 1..n, NEW r, Keeps(l, i - 1, r) PROVE Keeps(l, i, Body(l, r, i))
  BY <1>2, <1>3, <1>6
<1> HIDE DEF n
<1>7. Keeps(l, n, g[n])
  BY <1>2, <1>4, <1>5, <1>6, CountKeeps
<1> QED
  BY <1>3, <1>4, <1>7

LEMMA ArchivedAreGone ==
  ASSUME NEW s, StoreOK(s), NEW u \in Users, NEW p \in Proxies, Retired(s, p)
  PROVE  ArchiveRetiredProxyCredentials(s).cred[<<u, p>>].state \in {"none", "archived"}
<1> DEFINE xs == {x \in Users \X Proxies : Retired(s, x[2])}
           f == [x \in DOMAIN s.cred |-> IF x \in xs /\ s.cred[x].state # "none" THEN [s.cred[x] EXCEPT !.state = "archived"] ELSE s.cred[x]]
<1>1. ArchiveRetiredProxyCredentials(s).cred = f
  BY DEF ArchiveRetiredProxyCredentials, ArchiveCredentials, StoreOK, Fields
<1>2. s.cred \in [Users \X Proxies -> Creds]
  BY DEF StoreOK
<1>3. <<u, p>> \in xs /\ s.cred[<<u, p>>] \in Creds
  BY <1>2
<1>4. f[<<u, p>>] = IF s.cred[<<u, p>>].state # "none" THEN [s.cred[<<u, p>>] EXCEPT !.state = "archived"] ELSE s.cred[<<u, p>>]
  BY <1>2, <1>3
<1> HIDE DEF f, xs
<1> QED
  BY <1>1, <1>3, <1>4 DEF Creds

\* What retireResourceDependencies leaves of the retired resources.
LEMMA RetireMoves ==
  ASSUME NEW s, StoreOK(s), Balanced(s), NEW r, r = retireResourceDependencies(s)
  PROVE  /\ Moves(s, r) /\ Balanced(r)
         /\ \A u \in Users, p \in Proxies : Retired(s, p) => r.cred[<<u, p>>].state \in {"none", "archived"}
         /\ \A u \in Users, q \in PathIds : s.access[<<u, q>>] = "live" /\ r.access[<<u, q>>] # "live" => Settled(r, u)
<1> DEFINE paths == ListRetiredResourcePaths(s)
           users == {u \in ListPathAccessUsersIncludingDeleted(s, paths) : GetProxyUser(s, u)}
           t1 == SetPathsEnabled(s, paths, FALSE)
           t2 == ArchivePathAccesses(t1, paths)
           t3 == RemoveRetiredPathGroupSources(t2, paths)
           t4 == RemoveDirectSources(t3, {}, paths)
           t5 == DisableRetiredNodeBindings(t4)
           t6 == DisableRetiredEndpoints(t5)
           t7 == ArchiveRetiredProxyCredentials(t6)
<1>1. r = TeardownAll(t7, users)
  BY DEF retireResourceDependencies, TeardownAll
<1>2. paths \in SUBSET ListPaths(s) /\ users \in SUBSET Users
  BY RetiredPathsListed DEF ListPathAccessUsersIncludingDeleted
<1> HIDE DEF paths
<1>3. Spares(s, t1) /\ StoreOK(t1)
  BY <1>2, EnabledSpares DEF Spares, Moves
<1>4. \A u \in Users : GetProxyUser(s, u) /\ (\E q \in paths : q \in PathIds /\ s.access[<<u, q>>] = "live") => u \in users
  BY DEF ListPathAccessUsersIncludingDeleted, LiveAccesses
<1> HIDE DEF users, t1
<1>5. /\ Moves(t1, t2) /\ t2.grant = t1.grant /\ StoreOK(t2)
      /\ \A a \in Users, b \in PathIds :
           t2.access[<<a, b>>] = IF b \in paths THEN Archive(t1.access[<<a, b>>]) ELSE t1.access[<<a, b>>]
  BY <1>3, ArchiveMoves DEF Moves
<1> HIDE DEF t2
<1>6. Spares(t2, t3) /\ StoreOK(t3)
  BY <1>5, OtherTables DEF Spares, Moves
<1> HIDE DEF t3
<1>7. /\ Moves(t3, t4) /\ t4.access = t3.access /\ StoreOK(t4)
      /\ t4.grant = {x \in t3.grant : x[1] \notin {} /\ x[2] \notin paths}
  BY <1>6, GrantMoves DEF RemoveDirectSources, Moves
<1> HIDE DEF t4
<1>8. Moves(s, t4)
  <2>1. Moves(s, t2)
    BY <1>3, <1>5, MovesOn DEF Spares
  <2>2. Moves(s, t3)
    BY <2>1, <1>6, MovesOn DEF Spares
  <2> QED
    BY <2>2, <1>7, MovesOn
<1>9. \A a \in Users, b \in PathIds :
        /\ t4.access[<<a, b>>] = IF b \in paths THEN Archive(s.access[<<a, b>>]) ELSE s.access[<<a, b>>]
        /\ <<a, b>> \in t4.grant <=> <<a, b>> \in s.grant /\ b \notin paths
  BY <1>3, <1>5, <1>6, <1>7 DEF Spares
<1>10. Spares(t4, t5) /\ StoreOK(t5)
  BY <1>7, OtherTables DEF Spares, Moves
<1> HIDE DEF t5
<1>11. Spares(t5, t6) /\ StoreOK(t6)
  BY <1>10, RetiredEndpointsSpare DEF Spares, Moves
<1> HIDE DEF t6
<1>12. Spares(t6, t7) /\ StoreOK(t7)
  BY <1>11, ArchiveSpares DEF ArchiveRetiredProxyCredentials, Spares, Moves
<1>13. Spares(t4, t7) /\ Spares(t4, t6)
  BY <1>7, <1>10, <1>11, <1>12, SparesOn
<1>14. ASSUME NEW u \in Users, NEW p \in Proxies, Retired(s, p)
       PROVE  t7.cred[<<u, p>>].state \in {"none", "archived"} /\ ~GetProxyByID(t7, p)
  <2>1. t6.node = s.node /\ t6.proxy = s.proxy /\ t7.node = s.node /\ t7.proxy = s.proxy
    BY <1>8, <1>13 DEF Spares, Moves
  <2>2. Retired(t6, p) /\ ~GetProxyByID(t7, p)
    BY <1>14, <2>1 DEF Retired, GetProxyByID
  <2> QED
    BY <1>11, <2>2, ArchivedAreGone
<1> HIDE DEF t7
<1>15. Spares(t7, r) /\ \A u \in users : Settled(r, u)
  BY <1>1, <1>2, <1>12, TeardownSettles
<1>16. Spares(t4, r)
  BY <1>7, <1>13, <1>15, SparesOn
<1>17. Moves(s, r) /\ r.access = t4.access /\ r.grant = t4.grant
  BY <1>8, <1>16, MovesOn DEF Spares
<1>18. Balanced(r)
  BY <1>9, <1>17 DEF Balanced, Archive
<1>19. ASSUME NEW u \in Users, NEW p \in Proxies, Retired(s, p)
       PROVE  r.cred[<<u, p>>].state \in {"none", "archived"}
  <2>1. t7.cred[<<u, p>>].state \in {"none", "archived"} /\ ~GetProxyByID(t7, p)
    BY <1>14, <1>19
  <2>2. r.cred[<<u, p>>].state \notin {"on", "off"}
    BY <1>15, <2>1 DEF Spares, Moves, Issued
  <2>3. r.cred[<<u, p>>] \in Creds
    BY <1>17 DEF Moves, StoreOK
  <2> QED
    BY <2>2, <2>3 DEF Creds
<1>20. ASSUME NEW u \in Users, NEW q \in PathIds, s.access[<<u, q>>] = "live", r.access[<<u, q>>] # "live"
       PROVE  Settled(r, u)
  <2>1. q \in paths
    BY <1>9, <1>17, <1>20
  <2>2. CASE GetProxyUser(s, u)
    BY <1>4, <1>15, <1>20, <2>1, <2>2
  <2>3. CASE ~GetProxyUser(s, u)
    BY <1>17, <2>3 DEF Moves, Settled, GetProxyUser
  <2> QED
    BY <2>2, <2>3
<1> QED
  BY <1>17, <1>18, <1>19, <1>20

\* Rows of nodes and proxies were marked deleted, then their dependencies retired.
LEMMA RetireAdvances ==
  ASSUME NEW s, Sound(s), NEW t, StoreOK(t),
         t.access = s.access, t.grant = s.grant, t.cred = s.cred, t.host = s.host, t.user = s.user,
         t.path = s.path,
         \A p \in Proxies : t.proxy[p] = "absent" => s.proxy[p] = "absent"
  PROVE  Advances(s, retireResourceDependencies(t))
<1> DEFINE r == retireResourceDependencies(t)
<1>1. Balanced(t) /\ Rooted(t)
  BY DEF Sound, Balanced, Rooted
<1>2. /\ Moves(t, r) /\ Balanced(r)
      /\ \A u \in Users, p \in Proxies : Retired(t, p) => r.cred[<<u, p>>].state \in {"none", "archived"}
      /\ \A u \in Users, q \in PathIds : t.access[<<u, q>>] = "live" /\ r.access[<<u, q>>] # "live" => Settled(r, u)
  BY <1>1, RetireMoves
<1> HIDE DEF r
<1>3. Fresher(s, r)
  BY <1>2 DEF Moves, Fresher
<1>4. NoStray(r)
  <2> SUFFICES ASSUME NEW u \in Users, NEW p \in Proxies, ~GetProxyByID(r, p) \/ ~GetProxyUser(r, u)
               PROVE  r.cred[<<u, p>>].state \in {"none", "archived"}
    BY DEF NoStray
  <2>1. ~GetProxyByID(t, p) \/ ~GetProxyUser(t, u)
    BY <1>2 DEF Moves, GetProxyByID, GetProxyUser
  <2>2. CASE Retired(t, p)
    BY <1>2, <2>2
  <2>3. CASE ~Retired(t, p)
    <3>1. ~GetProxyByID(s, p) \/ ~GetProxyUser(s, u)
      BY <2>1, <2>3 DEF Retired, GetProxyByID, GetProxyUser
    <3>2. t.cred[<<u, p>>].state \in {"none", "archived"}
      BY <3>1 DEF Sound, NoStray
    <3>3. r.cred[<<u, p>>].state \notin {"on", "off"}
      BY <1>2, <2>1, <3>2 DEF Moves, Issued
    <3>4. r.cred[<<u, p>>] \in Creds
      BY <1>2 DEF Moves, StoreOK
    <3> QED
      BY <3>3, <3>4 DEF Creds
  <2> QED
    BY <2>2, <2>3
<1>5. HostsOK(r) /\ StoreOK(r) /\ Rooted(r)
  BY <1>1, <1>2 DEF Moves, HostsOK, Sound
<1>6. \A u \in Users : (\E q \in PathIds : s.access[<<u, q>>] = "live" /\ r.access[<<u, q>>] # "live") => Settled(r, u)
  BY <1>2
<1> QED
  BY <1>2, <1>3, <1>4, <1>5, <1>6 DEF Advances, Sound, r

LEMMA DeletionsAdvance ==
  ASSUME NEW s, Sound(s), NEW x
  PROVE  Advances(s, SoftDeleteNode(s, x).s) /\ Advances(s, SoftDeleteProxy(s, x).s)
<1> DEFINE t == ArchiveNodeProxies(ArchiveNodeRow(s, x), x)
           v == ArchiveProxyRow(s, x)
<1>1. /\ s = [y \in Fields |-> s[y]] /\ Wired(s)
      /\ s.node \in [Nodes -> {"active", "disabled", "deleted"}]
      /\ s.proxy \in [Proxies -> {"absent", "on", "off", "deleted"}]
  BY DEF Sound, StoreOK
<1>2. /\ t = [y \in Fields |-> t[y]]
      /\ t.access = s.access /\ t.grant = s.grant /\ t.cred = s.cred /\ t.host = s.host /\ t.user = s.user
      /\ t.path = s.path /\ t.endpoint = s.endpoint
      /\ t.node = [s.node EXCEPT ![x] = "deleted"]
      /\ t.proxy = [p \in Proxies |-> IF HomeNode[p] = x /\ s.proxy[p] # "absent" THEN "deleted" ELSE s.proxy[p]]
  BY <1>1 DEF ArchiveNodeProxies, ArchiveNodeRow, Fields
<1>3. /\ v = [y \in Fields |-> v[y]]
      /\ v.access = s.access /\ v.grant = s.grant /\ v.cred = s.cred /\ v.host = s.host /\ v.user = s.user
      /\ v.path = s.path /\ v.endpoint = s.endpoint /\ v.node = s.node
      /\ v.proxy = [s.proxy EXCEPT ![x] = "deleted"]
  BY <1>1 DEF ArchiveProxyRow, Fields
<1>4. SoftDeleteNode(s, x) \in {Fail(s), Ok(retireResourceDependencies(t))}
      /\ SoftDeleteProxy(s, x) \in {Fail(s), Ok(retireResourceDependencies(v))}
  BY DEF SoftDeleteNode, SoftDeleteProxy
<1> HIDE DEF t, v
<1>5. Wired(t) /\ Wired(v)
  BY <1>1, <1>2, <1>3, WiredSame
<1>6. /\ t.node \in [Nodes -> {"active", "disabled", "deleted"}]
      /\ t.proxy \in [Proxies -> {"absent", "on", "off", "deleted"}]
      /\ v.node \in [Nodes -> {"active", "disabled", "deleted"}]
      /\ v.proxy \in [Proxies -> {"absent", "on", "off", "deleted"}]
  <2>1. t.node \in [Nodes -> {"active", "disabled", "deleted"}]
    BY <1>1, <1>2
  <2>2. t.proxy \in [Proxies -> {"absent", "on", "off", "deleted"}]
    BY <1>1, <1>2
  <2>3. v.proxy \in [Proxies -> {"absent", "on", "off", "deleted"}]
    BY <1>1, <1>3
  <2> QED
    BY <1>1, <1>3, <2>1, <2>2, <2>3
<1>7. StoreOK(t) /\ StoreOK(v)
  BY <1>2, <1>3, <1>5, <1>6 DEF Sound, StoreOK
<1>8. /\ \A p \in Proxies : t.proxy[p] = "absent" => s.proxy[p] = "absent"
      /\ \A p \in Proxies : v.proxy[p] = "absent" => s.proxy[p] = "absent"
  BY <1>1, <1>2, <1>3
<1>9. Advances(s, retireResourceDependencies(t))
  BY <1>2, <1>7, <1>8, RetireAdvances
<1>10. Advances(s, retireResourceDependencies(v))
  BY <1>3, <1>7, <1>8, RetireAdvances
<1> QED
  BY <1>4, <1>9, <1>10, SameAdvances, Results

\* Rows that come or come back.
LEMMA RowsAdvance ==
  ASSUME NEW s, Sound(s), NEW t, t = [x \in Fields |-> t[x]], Wired(t), HostsOK(t),
         t.node \in [Nodes -> {"active", "disabled", "deleted"}],
         t.proxy \in [Proxies -> {"absent", "on", "off", "deleted"}],
         t.user \in [Users -> {"absent", "active", "disabled", "deleted"}],
         t.access = s.access, t.grant = s.grant, t.cred = s.cred, t.path = s.path,
         \A p \in Proxies : GetProxyByID(s, p) => GetProxyByID(t, p),
         \A u \in Users : GetProxyUser(s, u) => GetProxyUser(t, u)
  PROVE  Advances(s, t)
<1>1. StoreOK(s) /\ Balanced(s)
  BY DEF Sound
<1>2. s.access \in [Users \X PathIds -> {"none", "live", "archived"}] /\ s.cred \in [Users \X Proxies -> Creds]
  BY <1>1 DEF StoreOK
<1>3. StoreOK(t)
  BY <1>2 DEF StoreOK
<1>4. StoreOK(t) /\ Balanced(t)
  BY <1>1, <1>3 DEF Balanced
<1>5. Rooted(t)
  BY DEF Sound, Rooted
<1>6. NoStray(t)
  BY DEF Sound, NoStray
<1>7. Fresher(s, t)
  <2>1. \A c \in Users \X Proxies : s.cred[c].secret \in Nat
    BY DEF Sound, StoreOK, Creds
  <2> QED
    BY <2>1 DEF Fresher
<1> QED
  BY <1>4, <1>6, <1>7, <1>5 DEF Advances, Sound

LEMMA SoundFacts ==
  ASSUME NEW s, Sound(s)
  PROVE  /\ s = [y \in Fields |-> s[y]] /\ Wired(s) /\ HostsOK(s)
         /\ s.node \in [Nodes -> {"active", "disabled", "deleted"}]
         /\ s.proxy \in [Proxies -> {"absent", "on", "off", "deleted"}]
         /\ s.user \in [Users -> {"absent", "active", "disabled", "deleted"}]
BY DEF Sound, StoreOK

LEMMA UserRowAdvances ==
  ASSUME NEW s, Sound(s), NEW u, NEW st \in {"active", "disabled"}
  PROVE  Advances(s, [s EXCEPT !.user[u] = st])
<1> DEFINE t == [s EXCEPT !.user[u] = st]
<1>1. /\ t = [y \in Fields |-> t[y]] /\ t.user = [s.user EXCEPT ![u] = st]
      /\ t.access = s.access /\ t.grant = s.grant /\ t.cred = s.cred /\ t.host = s.host /\ t.node = s.node
      /\ t.path = s.path /\ t.endpoint = s.endpoint /\ t.proxy = s.proxy
  BY SoundFacts DEF Fields
<1> HIDE DEF t
<1>2. Wired(t) /\ HostsOK(t)
  BY <1>1, SoundFacts, WiredSame DEF HostsOK
<1>3. t.user \in [Users -> {"absent", "active", "disabled", "deleted"}]
      /\ \A a \in Users : GetProxyUser(s, a) => GetProxyUser(t, a)
  BY <1>1, SoundFacts DEF GetProxyUser
<1>4. \A p \in Proxies : GetProxyByID(s, p) => GetProxyByID(t, p)
  BY <1>1 DEF GetProxyByID
<1> QED
  BY <1>1, <1>2, <1>3, <1>4, SoundFacts, RowsAdvance DEF t

LEMMA ProxyRowAdvances ==
  ASSUME NEW s, Sound(s), NEW p, NEW st \in {"on", "off"}
  PROVE  Advances(s, [s EXCEPT !.proxy[p] = st])
<1> DEFINE t == [s EXCEPT !.proxy[p] = st]
<1>1. /\ t = [y \in Fields |-> t[y]] /\ t.proxy = [s.proxy EXCEPT ![p] = st]
      /\ t.access = s.access /\ t.grant = s.grant /\ t.cred = s.cred /\ t.host = s.host /\ t.node = s.node
      /\ t.path = s.path /\ t.endpoint = s.endpoint /\ t.user = s.user
  BY SoundFacts DEF Fields
<1> HIDE DEF t
<1>2. Wired(t) /\ HostsOK(t)
  BY <1>1, SoundFacts, WiredSame DEF HostsOK
<1>3. t.proxy \in [Proxies -> {"absent", "on", "off", "deleted"}]
      /\ \A a \in Proxies : GetProxyByID(s, a) => GetProxyByID(t, a)
  BY <1>1, SoundFacts DEF GetProxyByID
<1>4. \A u \in Users : GetProxyUser(s, u) => GetProxyUser(t, u)
  BY <1>1 DEF GetProxyUser
<1> QED
  BY <1>1, <1>2, <1>3, <1>4, SoundFacts, RowsAdvance DEF t

LEMMA UserRequestsAdvance ==
  ASSUME NEW s, Sound(s), NEW u, NEW st \in {"active", "disabled"}
  PROVE  /\ Advances(s, CreateProxyUser(s, u).s) /\ Advances(s, UpdateProxyUser(s, u, st).s)
         /\ Advances(s, RestoreProxyUser(s, u).s)
<1>1. /\ CreateProxyUser(s, u) \in {Fail(s), Ok([s EXCEPT !.user[u] = "active"])}
      /\ UpdateProxyUser(s, u, st) \in {Fail(s), Ok([s EXCEPT !.user[u] = st])}
      /\ RestoreProxyUser(s, u) \in {Fail(s), Ok([s EXCEPT !.user[u] = "disabled"])}
  BY DEF CreateProxyUser, UpdateProxyUser, RestoreProxyUser, InsertProxyUser, SetProxyUserStatus, RestoreProxyUserRow
<1>2. /\ Advances(s, [s EXCEPT !.user[u] = "active"]) /\ Advances(s, [s EXCEPT !.user[u] = st])
      /\ Advances(s, [s EXCEPT !.user[u] = "disabled"]) /\ Advances(s, s)
  BY UserRowAdvances, SameAdvances
<1> QED
  BY <1>1, <1>2, Results

LEMMA RestoreProxyAdvances ==
  ASSUME NEW s, Sound(s), NEW p PROVE Advances(s, RestoreProxy(s, p).s)
<1> DEFINE w == RestoreProxyRow(s, p)
           f == [e \in DOMAIN w.endpoint |-> IF e[1] = p /\ w.endpoint[e] = "off" THEN "on" ELSE w.endpoint[e]]
           t == RestoreProxyEndpoints(w, p)
<1>1. RestoreProxy(s, p) \in {Fail(s), Ok(t), Fail(t)}
  BY DEF RestoreProxy, Require
<1>2. Advances(s, w)
  BY ProxyRowAdvances DEF RestoreProxyRow
<1>3. Sound(w) /\ StoreOK(w)
  BY <1>2 DEF Advances, Sound
<1>4. t = [w EXCEPT !.endpoint = f]
  BY DEF RestoreProxyEndpoints
<1> HIDE DEF w
<1>5. f \in [Proxies \X Hosts -> {"none", "on", "off"}] /\ \A q \in ListPaths(w) : f[EndpointOf(w, q)] # "none"
  BY <1>3, EndpointFacts
<1> HIDE DEF f, t
<1>6. Spares(w, t)
  BY <1>3, <1>4, <1>5, EndpointTable
<1>7. Advances(w, t)
  BY <1>3, <1>6, SparesAdvance
<1>8. w.cred = s.cred /\ w.access = s.access
  BY SoundFacts DEF RestoreProxyRow, w, Fields
<1>9. Advances(s, t)
  BY <1>7, <1>8 DEF Advances, Fresher
<1> QED
  BY <1>1, <1>9, SameAdvances, Results

LEMMA ArchivedState ==
  ASSUME NEW s, StoreOK(s), NEW xs, NEW c \in Users \X Proxies, c \in xs
  PROVE  ArchiveCredentials(s, xs).cred[c].state \in {"none", "archived"}
<1> DEFINE f == [x \in DOMAIN s.cred |-> IF x \in xs /\ s.cred[x].state # "none" THEN [s.cred[x] EXCEPT !.state = "archived"] ELSE s.cred[x]]
<1>1. ArchiveCredentials(s, xs).cred = f
  BY DEF ArchiveCredentials, StoreOK, Fields
<1>2. s.cred \in [Users \X Proxies -> Creds]
  BY DEF StoreOK
<1>3. s.cred[c] \in Creds /\ f[c] = IF s.cred[c].state # "none" THEN [s.cred[c] EXCEPT !.state = "archived"] ELSE s.cred[c]
  BY <1>2
<1> HIDE DEF f
<1> QED
  BY <1>1, <1>3 DEF Creds

LEMMA DeleteUserAdvances ==
  ASSUME NEW s, Sound(s), NEW u \in Users PROVE Advances(s, SoftDeleteProxyUser(s, u).s)
<1> DEFINE g1 == ArchiveProxyUser(s, u)
           g2 == RemoveDirectSources(g1, {u}, {})
           g3 == SoftDeletePathAccess(g2, u, PathIds)
           g4 == ArchiveCredentials(g3, {u} \X Proxies)
           G == {x \in g1.grant : x[1] \notin {u} /\ x[2] \notin {}}
<1>1. SoftDeleteProxyUser(s, u) \in {Fail(s), Ok(g4)}
  BY DEF SoftDeleteProxyUser
<1>2. /\ g1 = [y \in Fields |-> g1[y]] /\ g1.user = [s.user EXCEPT ![u] = "deleted"]
      /\ g1.access = s.access /\ g1.grant = s.grant /\ g1.cred = s.cred /\ g1.host = s.host /\ g1.node = s.node
      /\ g1.path = s.path /\ g1.endpoint = s.endpoint /\ g1.proxy = s.proxy
  BY SoundFacts DEF ArchiveProxyUser, Fields
<1>3. g2 = [g1 EXCEPT !.grant = G]
  BY DEF RemoveDirectSources
<1> HIDE DEF g1
<1>4. StoreOK(g1)
  <2>1. Wired(g1) /\ g1.user \in [Users -> {"absent", "active", "disabled", "deleted"}]
    BY <1>2, SoundFacts, WiredSame
  <2> QED
    BY <1>2, <2>1 DEF Sound, StoreOK
<1>5. /\ Moves(g1, g2) /\ g2.access = g1.access
      /\ g2.grant = G
  <2> HIDE DEF G, g2
  <2> QED
    BY <1>3, <1>4, GrantMoves
<1> HIDE DEF g2
<1>6. StoreOK(g2)
  BY <1>5 DEF Moves
<1>7. /\ Moves(g2, g3) /\ g3.grant = g2.grant
      /\ \A a \in Users, b \in PathIds :
           g3.access[<<a, b>>] = IF a = u /\ b \in PathIds THEN Archive(g2.access[<<a, b>>]) ELSE g2.access[<<a, b>>]
  BY <1>6, SoftDeleteMoves
<1> HIDE DEF g3
<1>8. StoreOK(g3)
  BY <1>7 DEF Moves
<1>9. Spares(g3, g4) /\ \A p \in Proxies : g4.cred[<<u, p>>].state \in {"none", "archived"}
  <2>1. \A p \in Proxies : <<u, p>> \in Users \X Proxies /\ <<u, p>> \in {u} \X Proxies
    OBVIOUS
  <2> QED
    BY <1>8, <2>1, ArchiveSpares, ArchivedState
<1> HIDE DEF g4
<1>10. Moves(g1, g4) /\ g4.access = g3.access /\ g4.grant = g3.grant
  BY <1>4, <1>5, <1>6, <1>7, <1>9, MovesOn DEF Spares
<1>11. Balanced(g4)
  <2> SUFFICES ASSUME NEW a \in Users, NEW q \in PathIds
               PROVE  (g4.access[<<a, q>>] = "live") <=> (<<a, q>> \in g4.grant)
    BY DEF Balanced
  <2>1. <<a, q>> \in g4.grant <=> <<a, q>> \in s.grant /\ a # u
    BY <1>2, <1>5, <1>7, <1>10
  <2>2. g4.access[<<a, q>>] = IF a = u THEN Archive(s.access[<<a, q>>]) ELSE s.access[<<a, q>>]
    BY <1>2, <1>5, <1>7, <1>10
  <2> QED
    BY <2>1, <2>2 DEF Sound, Balanced, Archive
<1>12. NoStray(g4)
  <2> SUFFICES ASSUME NEW a \in Users, NEW p \in Proxies, ~GetProxyByID(g4, p) \/ ~GetProxyUser(g4, a)
               PROVE  g4.cred[<<a, p>>].state \in {"none", "archived"}
    BY DEF NoStray
  <2>1. CASE a = u
    BY <1>9, <2>1
  <2>2. CASE a # u
    <3>1. ~GetProxyByID(g1, p) \/ ~GetProxyUser(g1, a)
      BY <1>10 DEF Moves, GetProxyByID, GetProxyUser
    <3>2. ~GetProxyByID(s, p) \/ ~GetProxyUser(s, a)
      BY <1>2, <2>2, <3>1, SoundFacts DEF GetProxyByID, GetProxyUser
    <3>3. g1.cred[<<a, p>>].state \in {"none", "archived"}
      BY <1>2, <3>2 DEF Sound, NoStray
    <3>4. g4.cred[<<a, p>>].state \notin {"on", "off"}
      BY <1>10, <3>1, <3>3 DEF Moves, Issued
    <3>5. g4.cred[<<a, p>>] \in Creds
      BY <1>10 DEF Moves, StoreOK
    <3> QED
      BY <3>4, <3>5 DEF Creds
  <2> QED
    BY <2>1, <2>2
<1>13. Rooted(g4)
  BY <1>2, <1>10 DEF Sound, Rooted, Moves
<1>14. HostsOK(g4) /\ StoreOK(g4) /\ Fresher(s, g4)
  BY <1>2, <1>10 DEF Moves, HostsOK, Sound, Fresher
<1>15. Settled(g4, u)
  <2>1. ~GetProxyUser(g4, u)
    BY <1>2, <1>10, SoundFacts DEF Moves, GetProxyUser
  <2> QED
    BY <2>1 DEF Settled
<1>16. \A a \in Users, q \in PathIds : s.access[<<a, q>>] = "live" /\ g4.access[<<a, q>>] # "live" => a = u
  BY <1>2, <1>5, <1>7, <1>10
<1>17. Advances(s, g4)
  BY <1>11, <1>12, <1>14, <1>15, <1>16, <1>13 DEF Advances, Sound
<1> QED
  BY <1>1, <1>17, SameAdvances, Results

----------------------------------------------------------------------------
(* Nodes and their hosts *)

HasSelected(n, hosts) == \E i \in DOMAIN HostOrder[n] : hosts[HostOrder[n][i]] = "selected"

LEMMA NodeRowAdvances ==
  ASSUME NEW s, Sound(s), NEW n \in Nodes, NEW st \in {"active", "disabled"}, NEW hosts, HasSelected(n, hosts)
  PROVE  Advances(s, UpdateNodeRow(s, n, st, hosts))
<1> DEFINE t == UpdateNodeRow(s, n, st, hosts)
           H == [h \in Hosts |-> IF HostNode(h) = n THEN hosts[h] ELSE s.host[h]]
<1>1. t = [s EXCEPT !.node[n] = st, !.host = H]
  BY SoundFacts DEF UpdateNodeRow, Fields
<1> HIDE DEF t
<1>2. /\ t = [y \in Fields |-> t[y]] /\ t.node = [s.node EXCEPT ![n] = st]
      /\ t.access = s.access /\ t.grant = s.grant /\ t.cred = s.cred /\ t.user = s.user
      /\ t.path = s.path /\ t.endpoint = s.endpoint /\ t.proxy = s.proxy /\ t.host = H
  <2> HIDE DEF H
  <2>1. s = [y \in Fields |-> s[y]]
    BY SoundFacts
  <2> QED
    BY <1>1, <2>1 DEF Fields
<1>3. Wired(t)
  BY <1>2, SoundFacts, WiredSame
<1>4. HostsOK(t)
  <2> SUFFICES ASSUME NEW m \in Nodes PROVE \E i \in DOMAIN HostOrder[m] : t.host[HostOrder[m][i]] = "selected"
    BY DEF HostsOK
  <2>1. \A i \in DOMAIN HostOrder[m] :
          t.host[HostOrder[m][i]] = IF m = n THEN hosts[HostOrder[m][i]] ELSE s.host[HostOrder[m][i]]
    BY <1>2, HostHome
  <2> QED
    BY <2>1, SoundFacts DEF HasSelected, HostsOK
<1>5. t.node \in [Nodes -> {"active", "disabled", "deleted"}]
      /\ \A p \in Proxies : GetProxyByID(s, p) => GetProxyByID(t, p)
  <2>1. \A p \in Proxies : HomeNode[p] \in Nodes
    BY AccessStoreAssumption
  <2> QED
    BY <1>2, <2>1, SoundFacts DEF GetProxyByID
<1>6. \A u \in Users : GetProxyUser(s, u) => GetProxyUser(t, u)
  BY <1>2 DEF GetProxyUser
<1> QED
  BY <1>2, <1>3, <1>4, <1>5, <1>6, SoundFacts, RowsAdvance DEF t

LEMMA FirstListedHost ==
  ASSUME NEW n \in Nodes, NEW hosts, \E i \in DOMAIN HostOrder[n] : hosts[HostOrder[n][i]] # "absent"
  PROVE  \E i \in DOMAIN HostOrder[n] : FirstListed(n, hosts) = HostOrder[n][i]
<1> DEFINE order == HostOrder[n]
           C == {i \in DOMAIN order : hosts[order[i]] # "absent"}
<1>1. order \in Seq(Hosts)
  BY AccessStoreAssumption
<1>2. DOMAIN order = 1..Len(order) /\ Len(order) \in Nat
  BY <1>1
<1>3. C \in SUBSET Nat /\ C # {}
  BY <1>2
<1>4. PICK i \in C : \A y \in C : i <= y
  <2> HIDE DEF C
  <2> QED
    BY <1>3, LeastNumber
<1>5. i \in DOMAIN order /\ hosts[order[i]] # "absent" /\ \A j \in 1..(i - 1) : hosts[order[j]] = "absent"
  <2> SUFFICES ASSUME NEW j \in 1..(i - 1), hosts[order[j]] # "absent" PROVE FALSE
    BY <1>4
  <2>1. i \in Nat /\ i \in 1..Len(order)
    BY <1>2, <1>4
  <2>2. j \in 1..Len(order) /\ j < i /\ j \in Int
    BY <1>2, <2>1
  <2>3. j \in C
    BY <1>2, <2>2
  <2> QED
    BY <1>4, <2>1, <2>2, <2>3
<1> HIDE DEF C
<1> DEFINE k == CHOOSE x \in DOMAIN order : /\ hosts[order[x]] # "absent"
                                            /\ \A j \in 1..(x - 1) : hosts[order[j]] = "absent"
<1>6. k \in DOMAIN order
  BY <1>5
<1>7. FirstListed(n, hosts) = order[k]
  BY DEF FirstListed
<1> HIDE DEF k
<1> QED
  BY <1>6, <1>7

LEMMA NormalizedSelects ==
  ASSUME NEW n \in Nodes, NEW hosts, \E i \in DOMAIN HostOrder[n] : hosts[HostOrder[n][i]] # "absent"
  PROVE  HasSelected(n, normalizeNodeHosts(n, hosts))
<1>1. PICK i \in DOMAIN HostOrder[n] : FirstListed(n, hosts) = HostOrder[n][i]
  BY FirstListedHost
<1>2. \A j \in DOMAIN HostOrder[n] : HostOrder[n][j] \in Hosts
  BY HostHome
<1>3. CASE \A j \in DOMAIN HostOrder[n] : hosts[HostOrder[n][j]] # "selected"
  BY <1>1, <1>2, <1>3 DEF normalizeNodeHosts, HasSelected
<1>4. CASE ~\A j \in DOMAIN HostOrder[n] : hosts[HostOrder[n][j]] # "selected"
  BY <1>2, <1>4 DEF normalizeNodeHosts, HasSelected
<1> QED
  BY <1>3, <1>4

LEMMA ConstantTable == \A S, T, v : v \in T => [x \in S |-> v] \in [S -> T]
OBVIOUS

LEMMA FleetIsSound == Sound(EnrolledFleet)
<1> DEFINE s == EnrolledFleet
<1>1. /\ s = [x \in Fields |-> s[x]]
      /\ s.node = [n \in Nodes |-> "active"] /\ s.proxy = [p \in Proxies |-> "absent"]
      /\ s.user = [u \in Users |-> "absent"] /\ s.endpoint = [e \in Proxies \X Hosts |-> "none"]
      /\ s.path = [q \in PathIds |-> None] /\ s.access = [a \in Users \X PathIds |-> "none"]
      /\ s.grant = {} /\ s.cred = [c \in Users \X Proxies |-> EmptyCred]
      /\ s.host = [h \in Hosts |-> IF h = HostOrder[HostNode(h)][1] THEN "selected" ELSE "absent"]
  BY DEF EnrolledFleet, Fields
<1> HIDE DEF s
<1>2. ListPaths(s) = {}
  BY <1>1 DEF ListPaths
<1>3. Wired(s)
  <2>1. s.path \in [PathIds -> PathRows \cup {None}] /\ s.endpoint \in [Proxies \X Hosts -> {"none", "on", "off"}]
    <3>1. s.path = [q \in PathIds |-> None] /\ s.endpoint = [e \in Proxies \X Hosts |-> "none"]
      BY <1>1
    <3> QED
      BY <3>1, ConstantTable
  <2> QED
    BY <1>2, <2>1 DEF Wired, Linked
<1>4. EmptyCred \in Creds /\ EmptyCred.state = "none"
  BY DEF EmptyCred, Creds
<1>5. StoreOK(s)
  <2>1. /\ s.node \in [Nodes -> {"active", "disabled", "deleted"}]
        /\ s.proxy \in [Proxies -> {"absent", "on", "off", "deleted"}]
        /\ s.user \in [Users -> {"absent", "active", "disabled", "deleted"}]
    <3>1. /\ s.node = [n \in Nodes |-> "active"] /\ s.proxy = [p \in Proxies |-> "absent"]
          /\ s.user = [u \in Users |-> "absent"]
      BY <1>1
    <3> QED
      BY <3>1, ConstantTable
  <2>2. s.access \in [Users \X PathIds -> {"none", "live", "archived"}]
    <3>1. s.access = [a \in Users \X PathIds |-> "none"]
      BY <1>1
    <3> QED
      BY <3>1, ConstantTable
  <2>3. s.cred \in [Users \X Proxies -> Creds]
    BY <1>1, <1>4
  <2> QED
    BY <1>1, <1>3, <2>1, <2>2, <2>3 DEF StoreOK
<1>6. Balanced(s) /\ NoStray(s) /\ Rooted(s)
  BY <1>1, <1>4 DEF Balanced, NoStray, Rooted
<1>7. HostsOK(s)
  <2> SUFFICES ASSUME NEW n \in Nodes PROVE \E i \in DOMAIN HostOrder[n] : s.host[HostOrder[n][i]] = "selected"
    BY DEF HostsOK
  <2>1. 1 \in DOMAIN HostOrder[n]
    <3>1. HostOrder[n] \in Seq(Hosts) /\ HostOrder[n] # <<>>
      BY AccessStoreAssumption
    <3> QED
      BY <3>1
  <2>2. HostOrder[n][1] \in Hosts /\ HostNode(HostOrder[n][1]) = n
    BY <2>1, HostHome
  <2> QED
    BY <1>1, <2>1, <2>2
<1> QED
  BY <1>5, <1>6, <1>7 DEF Sound, s

----------------------------------------------------------------------------
(* Steps *)

\* What a request still under way has read is well formed.
HasPaths(p, hosts) == \A h \in hosts : <<p, h>> \in DOMAIN DirectPath
Waits(req) ==
  /\ req.kind \in {"proxy", "publish", "managed", "issue"} => req.proxy \in Proxies
  /\ req.kind \in {"hide", "host"} => HasPaths(req.proxy, req.hosts)
  /\ req.kind = "direct" => <<req.proxy, req.host>> \in DOMAIN DirectPath /\ HasPaths(req.proxy, req.hosts)
  /\ req.kind = "insert" => /\ req.path \in PathIds /\ req.row \in PathRows
                            /\ \A x \in req.rest : x.kind = "host" /\ HasPaths(x.proxy, x.hosts)
  /\ req.kind = "node" => /\ req.node \in Nodes /\ req.status \in {"active", "disabled"}
                          /\ HasSelected(req.node, req.hosts)
  /\ req.kind = "create" => req.row \in PathRows
  /\ req.kind = "update" => req.path \in PathIds /\ req.row \in PathRows

AccessInv ==
  /\ Sound(db)
  /\ \A req \in pending : Waits(req)
  /\ preview # None => preview.change.user \in Users \cup {None}

Stepped == Advances(db, db') /\ AccessInv'

LEMMA RequestSteps ==
  ASSUME AccessInv, NEW r, Advances(db, r.s), Request(r) PROVE Stepped
BY DEF Request, Stepped, AccessInv, Advances

LEMMA FirstPartSteps ==
  ASSUME AccessInv, NEW r, Advances(db, r.s), NEW rest, Waits(rest), FirstPart(r, rest) PROVE Stepped
<1>1. db' = r.s /\ pending' = pending \cup {rest} /\ preview' = preview
  BY DEF FirstPart
<1>2. \A req \in pending' : Waits(req)
  BY <1>1 DEF AccessInv
<1> QED
  BY <1>1, <1>2 DEF Stepped, AccessInv, Advances

LEMMA NextPartSteps ==
  ASSUME AccessInv, NEW req, NEW r, Advances(db, r.s), NEW more, \A x \in more : Waits(x), NextPart(req, r, more)
  PROVE  Stepped
<1>1. /\ db' = r.s /\ preview' = preview
      /\ pending' = (pending \ {req}) \cup (IF r.ok THEN more ELSE {})
  BY DEF NextPart
<1>2. \A x \in pending' : Waits(x)
  BY <1>1 DEF AccessInv
<1> QED
  BY <1>1, <1>2 DEF Stepped, AccessInv, Advances

LEMMA CheckedAdvances ==
  ASSUME NEW s, Sound(s), NEW c PROVE Advances(s, Require(s, c).s) /\ Advances(s, Fail(s).s) /\ Advances(s, Ok(s).s)
BY SameAdvances, Results DEF Require

LEMMA UserSteps == ASSUME AccessInv, UserRequests PROVE Stepped
<1>1. Sound(db) /\ StoreOK(db) /\ Balanced(db)
  BY DEF AccessInv, Sound
<1>2. PICK u \in Users :
        \/ CreateUser(u)
        \/ \E st \in {"active", "disabled"} : UpdateUser(u, st)
        \/ DeleteUser(u)
        \/ RestoreUser(u)
        \/ RotateUser(u)
        \/ \E p \in Proxies : IssueCredential(u, p) \/ DeleteCredential(u, p)
        \/ \E q \in ListPaths(db) : GrantPath(u, q) \/ RevokePath(u, q)
        \/ \E q, r \in ListPaths(db) : SelectPaths(u, {q}, {r}) \/ SelectPaths(u, {q, r}, {}) \/ SelectPaths(u, {}, {q, r})
  BY DEF UserRequests
<1>3. CASE CreateUser(u) \/ RestoreUser(u) \/ \E st \in {"active", "disabled"} : UpdateUser(u, st)
  <2>1. /\ Advances(db, CreateProxyUser(db, u).s) /\ Advances(db, RestoreProxyUser(db, u).s)
        /\ \A st \in {"active", "disabled"} : Advances(db, UpdateProxyUser(db, u, st).s)
    BY <1>1, UserRequestsAdvance
  <2> QED
    BY <1>3, <2>1, RequestSteps DEF CreateUser, RestoreUser, UpdateUser
<1>4. CASE DeleteUser(u)
  BY <1>1, <1>4, DeleteUserAdvances, RequestSteps DEF DeleteUser
<1>5. CASE RotateUser(u)
  BY <1>1, <1>5, CredentialRequestsAdvance, RequestSteps DEF RotateUser
<1>6. ASSUME NEW p \in Proxies, IssueCredential(u, p) PROVE Stepped
  <2> DEFINE rest == [kind |-> "issue", user |-> u, proxy |-> p]
  <2>1. Advances(db, BindUserToNode(db, u, HomeNode[p]).s)
    BY <1>1, CredentialRequestsAdvance
  <2>2. Waits(rest)
    BY DEF Waits
  <2>3. FirstPart(BindUserToNode(db, u, HomeNode[p]), rest)
    BY <1>6 DEF IssueCredential
  <2> HIDE DEF rest
  <2> QED
    BY <2>1, <2>2, <2>3, FirstPartSteps
<1>7. ASSUME NEW p \in Proxies, DeleteCredential(u, p) PROVE Stepped
  BY <1>1, <1>7, CredentialRequestsAdvance, RequestSteps DEF DeleteCredential
<1>8. ASSUME NEW q \in ListPaths(db), GrantPath(u, q) PROVE Stepped
  <2>1. q \in PathIds
    BY DEF ListPaths
  <2>2. Advances(db, GrantPathToUser(db, u, q).s)
    BY <1>1, <2>1, PathWidens, WidensAdvance
  <2> QED
    BY <1>8, <2>2, RequestSteps DEF GrantPath
<1>9. ASSUME NEW q, RevokePath(u, q) PROVE Stepped
  BY <1>1, <1>9, RevokeAdvances, RequestSteps DEF RevokePath
<1>10. ASSUME NEW on, NEW off, SelectPaths(u, on, off) PROVE Stepped
  BY <1>1, <1>10, SelectAdvances, RequestSteps DEF SelectPaths
<1> QED
  BY <1>2, <1>3, <1>4, <1>5, <1>6, <1>7, <1>8, <1>9, <1>10

LEMMA ResourceSteps == ASSUME AccessInv, ResourceRequests PROVE Stepped
<1>1. Sound(db)
  BY DEF AccessInv
<1>2. ASSUME NEW p \in Proxies, NEW b \in BOOLEAN, CreateProxy(p, b) PROVE Stepped
  <2> DEFINE rest == [kind |-> "proxy", proxy |-> p, publish |-> b]
             r == Require(db, db.proxy[p] = "absent" /\ GetNode(db, HomeNode[p]))
  <2>1. Waits(rest)
    BY DEF Waits
  <2>2. FirstPart(r, rest) /\ Advances(db, r.s)
    BY <1>1, <1>2, CheckedAdvances DEF CreateProxy
  <2> HIDE DEF rest, r
  <2> QED
    BY <2>1, <2>2, FirstPartSteps
<1>3. ASSUME NEW p \in Proxies, NEW b \in BOOLEAN, UpdateProxyPublication(p, b) PROVE Stepped
  <2> DEFINE rest == [kind |-> "publish", proxy |-> p, publish |-> b]
             r == Require(db, GetProxyByID(db, p))
  <2>1. Waits(rest)
    BY DEF Waits
  <2>2. FirstPart(r, rest) /\ Advances(db, r.s)
    BY <1>1, <1>3, CheckedAdvances DEF UpdateProxyPublication
  <2> HIDE DEF rest, r
  <2> QED
    BY <2>1, <2>2, FirstPartSteps
<1>4. ASSUME NEW p \in Proxies, NEW st \in {"on", "off"}, UpdateProxy(p, st) PROVE Stepped
  <2> DEFINE r == IF GetProxyByID(db, p) THEN Ok(UpdateProxyRow(db, p, st)) ELSE Fail(db)
  <2>1. Advances(db, UpdateProxyRow(db, p, st))
    BY <1>1, ProxyRowAdvances DEF UpdateProxyRow
  <2>2. Advances(db, r.s)
    BY <1>1, <2>1, SameAdvances, Results
  <2>3. Request(r)
    BY <1>4 DEF UpdateProxy
  <2> HIDE DEF r
  <2> QED
    BY <2>2, <2>3, RequestSteps
<1>5. ASSUME NEW p \in Proxies, DeleteProxy(p) PROVE Stepped
  BY <1>1, <1>5, DeletionsAdvance, RequestSteps DEF DeleteProxy
<1>6. ASSUME NEW p \in Proxies, UndeleteProxy(p) PROVE Stepped
  BY <1>1, <1>6, RestoreProxyAdvances, RequestSteps DEF UndeleteProxy
<1>7. ASSUME NEW n \in Nodes, DeleteNode(n) PROVE Stepped
  BY <1>1, <1>7, DeletionsAdvance, RequestSteps DEF DeleteNode
<1>8. ASSUME NEW n \in Nodes, NEW hosts, NEW st \in {"active", "disabled", "deleted"}, st = "deleted" => st = db.node[n],
             UpdateNode(n, hosts, st)
      PROVE Stepped
  <2> DEFINE next == normalizeNodeHosts(n, hosts)
             rest == [kind |-> "node", node |-> n, hosts |-> next, status |-> st]
             r == Require(db, GetNode(db, n))
  <2>1. /\ FirstPart(r, rest) /\ Advances(db, r.s)
        /\ \E i \in DOMAIN HostOrder[n] : hosts[HostOrder[n][i]] # "absent"
    BY <1>1, <1>8, CheckedAdvances DEF UpdateNode
  <2>2. st \in {"active", "disabled"}
    BY <1>8, <2>1 DEF FirstPart, Require, GetNode, Fail
  <2>3. HasSelected(n, next)
    BY <2>1, NormalizedSelects
  <2> HIDE DEF next
  <2>4. Waits(rest)
    BY <2>2, <2>3 DEF Waits
  <2> HIDE DEF rest, r
  <2> QED
    BY <2>1, <2>4, FirstPartSteps
<1>9. \A n \in Nodes : db.node[n] \in {"active", "disabled", "deleted"}
  BY <1>1, SoundFacts
<1> QED
  BY <1>2, <1>3, <1>4, <1>5, <1>6, <1>7, <1>8, <1>9 DEF ResourceRequests

LEMMA PatchesTyped ==
  ASSUME Sound(db), NEW q \in ListPaths(db), NEW row \in Patches(q) PROVE q \in PathIds /\ row \in PathRows
<1> DEFINE old == db.path[q]
<1>1. Linked(db)
  BY DEF Sound, StoreOK, Wired
<1>2. q \in PathIds /\ old \in PathRows
  BY <1>1, DialerListed
<1>3. ListPaths(db) \subseteq PathIds /\ Labels \subseteq AllLabels
  BY DEF ListPaths, Labels, AllLabels
<1>4. \A e \in DOMAIN DirectPath : e[1] \in Proxies /\ e[2] \in Hosts
  BY AccessStoreAssumption
<1>5. \/ row = [old EXCEPT !.enabled = ~old.enabled]
      \/ \E v \in {"selectable", "dependency"} : row = [old EXCEPT !.visibility = v]
      \/ \E d \in ListPaths(db) \cup {None} : row = [old EXCEPT !.dialer = d]
      \/ \E l \in Labels : row = [old EXCEPT !.label = l]
      \/ \E e \in DOMAIN DirectPath : row = [old EXCEPT !.proxy = e[1], !.host = e[2]]
  BY DEF Patches
<1> HIDE DEF old
<1> QED
  BY <1>2, <1>3, <1>4, <1>5 DEF PathRows

LEMMA PathSteps == ASSUME AccessInv, PathRequests PROVE Stepped
<1>1. Sound(db)
  BY DEF AccessInv
<1>2. ASSUME NEW e \in DOMAIN DirectPath, NEW d \in ListPaths(db) \cup {None}, NEW f \in PathForms,
             CreatePathRequest(e, d, f)
      PROVE  Stepped
  <2> DEFINE row == [proxy |-> e[1], host |-> e[2], dialer |-> d, enabled |-> f.enabled,
                     visibility |-> f.visibility, managed |-> FALSE, label |-> f.label]
             rest == [kind |-> "create", row |-> row]
             r == EnsureEndpoint(db, e)
  <2>1. FirstPart(r, rest) /\ Advances(db, r.s)
    BY <1>1, <1>2, CredentialRequestsAdvance DEF CreatePathRequest
  <2>2. row \in PathRows
    <3>1. e[1] \in Proxies /\ e[2] \in Hosts
      BY AccessStoreAssumption
    <3>2. f \in [enabled : BOOLEAN, visibility : {"selectable", "dependency"}, label : AllLabels]
      BY AccessControlAssumption
    <3>3. d \in PathIds \cup {None}
      BY DEF ListPaths
    <3> QED
      BY <3>1, <3>2, <3>3 DEF PathRows
  <2> HIDE DEF row
  <2>3. Waits(rest)
    BY <2>2 DEF Waits
  <2> HIDE DEF rest, r
  <2> QED
    BY <2>1, <2>3, FirstPartSteps
<1>3. ASSUME NEW q \in ListPaths(db), RemovePath(q) PROVE Stepped
  BY <1>1, <1>3, DeletePathAdvances, RequestSteps DEF RemovePath
<1>4. ASSUME NEW q \in ListPaths(db), NEW row \in Patches(q), UpdatePathRequest(q, row) PROVE Stepped
  <2> DEFINE rest == [kind |-> "update", path |-> q, row |-> row]
             r == IF ~GetPathByID(db, q) THEN Fail(db)
                  ELSE IF <<row.proxy, row.host>> = EndpointOf(db, q) THEN Ok(db)
                  ELSE EnsureEndpoint(db, <<row.proxy, row.host>>)
  <2>1. FirstPart(r, rest)
    BY <1>4 DEF UpdatePathRequest
  <2>2. r \in {Fail(db), Ok(db), EnsureEndpoint(db, <<row.proxy, row.host>>)}
    OBVIOUS
  <2>3. q \in PathIds /\ row \in PathRows
    BY <1>1, PatchesTyped
  <2>4. Waits(rest)
    BY <2>3 DEF Waits
  <2> HIDE DEF rest, r
  <2>5. Advances(db, r.s)
    BY <1>1, <2>2, CheckedAdvances, CredentialRequestsAdvance
  <2> QED
    BY <2>1, <2>4, <2>5, FirstPartSteps
<1>5. ASSUME NEW c \in GroupChanges, PreviewGroupChange(c) PROVE Stepped
  <2>1. c.user \in Users \cup {None}
    BY DEF GroupChanges
  <2>2. db' = db /\ pending' = pending /\ preview'.change = c
    BY <1>5 DEF PreviewGroupChange
  <2> QED
    BY <1>1, <2>1, <2>2, SameAdvances DEF Stepped, AccessInv
<1>6. CASE ApplyGroupChange
  <2>1. /\ db' = ChangePathGroup(db, preview.change).s /\ pending' = pending /\ preview' = None
        /\ preview.change.user \in Users \cup {None}
    BY <1>6 DEF ApplyGroupChange, AccessInv
  <2>2. Advances(db, db')
    BY <1>1, <2>1, GroupAdvances
  <2> QED
    BY <2>1, <2>2 DEF Stepped, AccessInv, Advances
<1> QED
  BY <1>2, <1>3, <1>4, <1>5, <1>6 DEF PathRequests

LEMMA HostsLeftWait ==
  ASSUME NEW p, NEW hosts, HasPaths(p, hosts)
  PROVE  \A x \in HostsLeft(p, hosts) : x.kind = "host" /\ HasPaths(x.proxy, x.hosts) /\ Waits(x)
BY DEF HostsLeft, Waits

\* The parts of a publication.
LEMMA PublicationSteps ==
  ASSUME AccessInv, NEW req, Waits(req),
         \/ Publish(req) \/ ListManaged(req) \/ HideManaged(req)
         \/ EnsureManagedEndpoint(req) \/ EnsureManagedPath(req)
  PROVE  Stepped
<1>1. Sound(db) /\ StoreOK(db)
  BY DEF AccessInv, Sound
<1>2. CASE Publish(req)
  <2> DEFINE r == Ok(SetProxyDirectPublication(db, req.proxy, req.publish))
             more == {[req EXCEPT !.kind = "managed"]}
  <2>1. NextPart(req, r, more) /\ req.kind = "publish" /\ req.proxy \in Proxies
    BY <1>2 DEF Publish, Waits
  <2>2. Advances(db, r.s)
    BY <1>1, OtherTables, SparesAdvance, Results
  <2>3. \A x \in more : Waits(x)
    <3> SUFFICES Waits([req EXCEPT !.kind = "managed"])
      OBVIOUS
    <3>1. /\ [req EXCEPT !.kind = "managed"].proxy = req.proxy
          /\ [req EXCEPT !.kind = "managed"].kind \in {"managed", req.kind}
      OBVIOUS
    <3> QED
      BY <2>1, <3>1 DEF Waits
  <2> HIDE DEF r, more
  <2> QED
    BY <2>1, <2>2, <2>3, NextPartSteps
<1>3. CASE ListManaged(req)
  <2> DEFINE r == Require(db, req.publish => GetProxyByID(db, req.proxy))
             hosts == PublishedHosts(db, req.proxy, req.publish)
             more == {[kind |-> "hide", proxy |-> req.proxy,
                       paths |-> HiddenPaths(db, req.proxy, req.publish), hosts |-> hosts]}
  <2>1. NextPart(req, r, more) /\ req.proxy \in Proxies
    BY <1>3 DEF ListManaged, Waits
  <2>2. Advances(db, r.s)
    BY <1>1, CheckedAdvances
  <2>3. HasPaths(req.proxy, hosts)
    BY <2>1, AccessStoreAssumption DEF HasPaths, PublishedHosts
  <2> HIDE DEF hosts
  <2>4. \A x \in more : Waits(x)
    BY <2>3 DEF Waits
  <2> HIDE DEF r, more
  <2> QED
    BY <2>1, <2>2, <2>4, NextPartSteps
<1>4. CASE HideManaged(req)
  <2>1. req.kind = "hide" /\ HasPaths(req.proxy, req.hosts)
    BY <1>4 DEF HideManaged, Waits
  <2>2. ASSUME NEW q \in req.paths,
               NextPart(req, setPathEnabledUnchecked(db, q, FALSE), {[req EXCEPT !.paths = req.paths \ {q}]})
        PROVE  Stepped
    <3> DEFINE x == [req EXCEPT !.paths = req.paths \ {q}]
               r == setPathEnabledUnchecked(db, q, FALSE)
    <3>1. x.kind = req.kind /\ x.proxy = req.proxy /\ x.hosts = req.hosts
      OBVIOUS
    <3>2. Advances(db, r.s)
      BY <1>1, HidingSpares, SparesAdvance
    <3>3. NextPart(req, r, {x})
      BY <2>2
    <3> HIDE DEF x, r
    <3>4. \A y \in {x} : Waits(y)
      BY <2>1, <3>1 DEF Waits
    <3> QED
      BY <3>2, <3>3, <3>4, NextPartSteps
  <2>3. CASE NextPart(req, Ok(db), HostsLeft(req.proxy, req.hosts))
    <3>1. Advances(db, Ok(db).s)
      BY <1>1, CheckedAdvances
    <3>2. \A x \in HostsLeft(req.proxy, req.hosts) : Waits(x)
      BY <2>1, HostsLeftWait
    <3> QED
      BY <2>3, <3>1, <3>2, NextPartSteps
  <2> QED
    BY <1>4, <2>2, <2>3 DEF HideManaged
<1>5. CASE EnsureManagedEndpoint(req)
  <2> DEFINE order == HostOrder[HomeNode[req.proxy]]
             more(h) == {[kind |-> "direct", proxy |-> req.proxy, host |-> h, hosts |-> req.hosts \ {h}]}
  <2>1. PICK i \in DOMAIN order :
          /\ order[i] \in req.hosts
          /\ NextPart(req, EnsureEndpoint(db, <<req.proxy, order[i]>>), more(order[i]))
    BY <1>5 DEF EnsureManagedEndpoint
  <2> DEFINE h == order[i]
             r == EnsureEndpoint(db, <<req.proxy, h>>)
  <2>2. HasPaths(req.proxy, req.hosts)
    BY <1>5 DEF EnsureManagedEndpoint, Waits
  <2>3. h \in req.hosts /\ NextPart(req, r, more(h))
    BY <2>1
  <2> HIDE DEF h
  <2>4. Advances(db, r.s)
    BY <1>1, EndpointSpares, SparesAdvance
  <2>5. \A x \in more(h) : Waits(x)
    BY <2>2, <2>3 DEF Waits, HasPaths
  <2> HIDE DEF r, more
  <2> QED
    BY <2>3, <2>4, <2>5, NextPartSteps
<1>6. CASE EnsureManagedPath(req)
  <2> DEFINE e == <<req.proxy, req.host>>
             q == DirectPath[e]
             rest == HostsLeft(req.proxy, req.hosts)
             r1 == IF db.path[q].enabled THEN Ok(db) ELSE UpdatePath(db, q, DirectRow(e), TRUE)
             r2 == Require(db, ValidPath(db, q, DirectRow(e)))
             x == [kind |-> "insert", path |-> q, row |-> DirectRow(e), rest |-> rest]
  <2>1. NextPart(req, r1, rest) \/ NextPart(req, r2, {x})
    BY <1>6 DEF EnsureManagedPath
  <2>2. e \in DOMAIN DirectPath /\ HasPaths(req.proxy, req.hosts)
    BY <1>6 DEF EnsureManagedPath, Waits
  <2> HIDE DEF e
  <2>3. q \in PathIds /\ DirectRow(e) \in PathRows
    BY <2>2, AccessStoreAssumption DEF PathIds, DirectRow, PathRows, AllLabels
  <2>4. \A y \in rest : y.kind = "host" /\ HasPaths(y.proxy, y.hosts) /\ Waits(y)
    BY <2>2, HostsLeftWait
  <2> HIDE DEF q, rest
  <2>5. \A y \in {x} : Waits(y)
    <3>1. x.kind = "insert" /\ x.path = q /\ x.row = DirectRow(e) /\ x.rest = rest
      OBVIOUS
    <3> HIDE DEF x
    <3>2. Waits(x)
      BY <2>3, <2>4, <3>1 DEF Waits
    <3> QED
      BY <3>2
  <2>6. r1 \in {Ok(db), UpdatePath(db, q, DirectRow(e), TRUE)}
    OBVIOUS
  <2> HIDE DEF r1
  <2>7. Advances(db, r1.s)
    BY <1>1, <2>3, <2>6, PathSpares, SparesAdvance, CheckedAdvances
  <2>8. Advances(db, r2.s)
    BY <1>1, CheckedAdvances
  <2> HIDE DEF r2, x
  <2> QED
    BY <2>1, <2>4, <2>5, <2>7, <2>8, NextPartSteps
<1> QED
  BY <1>2, <1>3, <1>4, <1>5, <1>6

LEMMA LaterSteps == ASSUME AccessInv, LaterParts PROVE Stepped
<1>1. Sound(db) /\ StoreOK(db) /\ Balanced(db)
  BY DEF AccessInv, Sound
<1>2. PICK req \in pending :
        \/ InsertProxy(req)
        \/ Publish(req) \/ ListManaged(req) \/ HideManaged(req)
        \/ EnsureManagedEndpoint(req) \/ EnsureManagedPath(req)
        \/ WriteNode(req) \/ SyncNode(req)
        \/ ValidateNewPath(req) \/ InsertNewPath(req) \/ WriteMergedPath(req)
        \/ IssueAccess(req)
        \/ Abandon(req)
  BY DEF LaterParts
<1>3. Waits(req)
  BY DEF AccessInv
<1>4. CASE InsertProxy(req)
  <2> DEFINE r == IF db.proxy[req.proxy] = "absent" THEN Ok(InsertProxyRow(db, req.proxy)) ELSE Fail(db)
             more == IF GetNode(db, HomeNode[req.proxy])
                     THEN {[kind |-> "publish", proxy |-> req.proxy, publish |-> req.publish]} ELSE {}
  <2>1. NextPart(req, r, more) /\ req.proxy \in Proxies
    BY <1>3, <1>4 DEF InsertProxy, Waits
  <2>2. \A x \in more : Waits(x)
    BY <2>1 DEF Waits
  <2>3. Advances(db, InsertProxyRow(db, req.proxy))
    BY <1>1, ProxyRowAdvances DEF InsertProxyRow
  <2>4. Advances(db, r.s)
    BY <1>1, <2>3, SameAdvances, Results
  <2> HIDE DEF r, more
  <2> QED
    BY <2>1, <2>2, <2>4, NextPartSteps
<1>5. CASE \/ Publish(req) \/ ListManaged(req) \/ HideManaged(req)
           \/ EnsureManagedEndpoint(req) \/ EnsureManagedPath(req)
  BY <1>3, <1>5, PublicationSteps
<1>6. CASE WriteNode(req)
  <2> DEFINE r == IF GetNode(db, req.node)
                  THEN Ok(UpdateNodeRow(db, req.node, req.status, req.hosts)) ELSE Fail(db)
             more == {[kind |-> "sync", node |-> req.node]}
  <2>1. /\ NextPart(req, r, more) /\ req.node \in Nodes /\ req.status \in {"active", "disabled"}
        /\ HasSelected(req.node, req.hosts)
    BY <1>3, <1>6 DEF WriteNode, Waits
  <2>2. \A x \in more : Waits(x)
    BY DEF Waits
  <2>3. Advances(db, UpdateNodeRow(db, req.node, req.status, req.hosts))
    BY <1>1, <2>1, NodeRowAdvances
  <2>4. Advances(db, r.s)
    BY <1>1, <2>3, SameAdvances, Results
  <2> HIDE DEF r, more
  <2> QED
    BY <2>1, <2>2, <2>4, NextPartSteps
<1>7. CASE SyncNode(req)
  <2>1. NextPart(req, SyncLegacyDirectPathsForNode(db, req.node), {})
    BY <1>7 DEF SyncNode
  <2>2. Advances(db, SyncLegacyDirectPathsForNode(db, req.node).s)
    BY <1>1, SyncWidens, WidensAdvance
  <2> QED
    BY <2>1, <2>2, NextPartSteps
<1>8. CASE ValidateNewPath(req)
  <2> DEFINE q == FreshPathId
             r == IF ValidPath(db, q, req.row) THEN Ok(DrawPathId(db, q)) ELSE Fail(db)
             x == [kind |-> "insert", path |-> q, row |-> req.row, rest |-> {}]
  <2>1. NextPart(req, r, {x}) /\ req.row \in PathRows /\ CustomPaths \ db.born # {}
    BY <1>3, <1>8 DEF ValidateNewPath, Waits
  <2>2. q \in PathIds
    BY <2>1 DEF FreshPathId, PathIds
  <2> HIDE DEF q
  <2>3. Advances(db, DrawPathId(db, q))
    BY <1>1, OtherTables, SparesAdvance
  <2>4. Advances(db, r.s)
    BY <1>1, <2>3, SameAdvances, Results
  <2>5. \A y \in {x} : Waits(y)
    BY <2>1, <2>2 DEF Waits
  <2> HIDE DEF r, x
  <2> QED
    BY <2>1, <2>4, <2>5, NextPartSteps
<1>12. CASE InsertNewPath(req)
  <2>1. /\ NextPart(req, CreatePathRow(db, req.path, req.row), req.rest)
        /\ req.path \in PathIds /\ req.row \in PathRows
        /\ \A x \in req.rest : x.kind = "host" /\ HasPaths(x.proxy, x.hosts)
    BY <1>3, <1>12 DEF InsertNewPath, Waits
  <2>2. Advances(db, CreatePathRow(db, req.path, req.row).s)
    BY <1>1, <2>1, RowSpares, SparesAdvance
  <2>3. \A x \in req.rest : Waits(x)
    BY <2>1 DEF Waits
  <2> QED
    BY <2>1, <2>2, <2>3, NextPartSteps
<1>9. CASE WriteMergedPath(req)
  <2> DEFINE r == UpdatePath(db, req.path, req.row, FALSE)
  <2>1. NextPart(req, r, {}) /\ req.path \in PathIds /\ req.row \in PathRows
    BY <1>3, <1>9 DEF WriteMergedPath, Waits
  <2>2. Advances(db, r.s)
    BY <1>1, <2>1, PathSpares, SparesAdvance
  <2> HIDE DEF r
  <2> QED
    BY <2>1, <2>2, NextPartSteps
<1>10. CASE IssueAccess(req)
  <2>1. NextPart(req, IssueProxyAccess(db, req.user, req.proxy), {}) /\ req.proxy \in Proxies
    BY <1>3, <1>10 DEF IssueAccess, Waits
  <2>2. Advances(db, IssueProxyAccess(db, req.user, req.proxy).s)
    BY <1>1, <2>1, IssueWidens, WidensAdvance
  <2> QED
    BY <2>1, <2>2, NextPartSteps
<1>11. CASE Abandon(req)
  BY <1>1, <1>11, SameAdvances DEF Abandon, Stepped, AccessInv
<1> QED
  BY <1>2, <1>4, <1>5, <1>6, <1>7, <1>8, <1>9, <1>10, <1>11, <1>12

LEMMA StepAdvances == ASSUME AccessInv, [Next]_vars PROVE Stepped
<1>1. CASE Next
  BY <1>1, UserSteps, ResourceSteps, PathSteps, LaterSteps DEF Next
<1>2. CASE UNCHANGED vars
  BY <1>2, SameAdvances DEF vars, Stepped, AccessInv
<1> QED
  BY <1>1, <1>2

LEMMA InitSound == Init => AccessInv
BY FleetIsSound DEF Init, AccessInv

LEMMA AlwaysSound == Spec => []AccessInv
<1>1. AccessInv /\ [Next]_vars => AccessInv'
  BY StepAdvances DEF Stepped
<1> QED
  BY <1>1, InitSound, PTL DEF Spec

----------------------------------------------------------------------------
(* Theorems *)

\* Through every interleaving of requests of any number of transactions, a live
\* access has its direct grant and a direct grant its live access
\* (reconcilePathGrants, GrantPathToUser, the deletions of db/delete.go).
THEOREM AccessHasItsSource == Spec => []GrantIsTheSource
<1>1. AccessInv => GrantIsTheSource
  BY DEF AccessInv, Sound, Balanced, GrantIsTheSource
<1> QED
  BY <1>1, AlwaysSound, PTL

\* Whatever was under way when a proxy, its node or a user was deleted, neither
\* holds a credential that is not archived (retireResourceDependencies,
\* SoftDeleteProxyUser, and the lookups issueProxyCredential makes first).
THEOREM NoCredentialOfTheRetired == Spec => []RetiredHoldsNoCredential
<1>1. AccessInv => RetiredHoldsNoCredential
  BY DEF AccessInv, Sound, NoStray, RetiredHoldsNoCredential, Retired, GetProxyUser
<1> QED
  BY <1>1, AlwaysSound, PTL

\* No edit of dialers, however the reads and writes of several requests
\* interleave, makes a path dial through itself or through a path that is gone,
\* although validatePathGraph walks one chain only.
THEOREM DiallingEnds == Spec => []DialersEnd
<1>1. AccessInv => DialersEnd
  BY DEF AccessInv, Sound, StoreOK, Wired, Linked, DialersEnd
<1> QED
  BY <1>1, AlwaysSound, PTL

\* No step of any request lowers a secret or enables a credential with the
\* secret it was switched off with (RestoreProxyAccess mints a fresh one).
THEOREM SecretsStayDead == Spec => RevokedStaysDead
<1> DEFINE Act == \A c \in Users \X Proxies :
                    /\ db'.cred[c].secret >= db.cred[c].secret
                    /\ db.cred[c].state # "on" /\ db'.cred[c].state = "on" => db'.cred[c].secret > db.cred[c].secret
<1>1. AccessInv /\ [Next]_vars => [Act]_vars
  BY StepAdvances DEF Stepped, Advances, Fresher
<1>2. Spec => [][Act]_vars
  <2> HIDE DEF Act
  <2> QED
    BY <1>1, AlwaysSound, PTL DEF Spec
<1> QED
  BY <1>2 DEF RevokedStaysDead

\* Any step that takes an access from a user leaves the user only credentials that
\* one of the user's active accesses still needs, through the paths it dials
\* through (disableUnusedProxyCredentials in the transaction that revokes).
THEOREM NothingIsLeftOver == Spec => LastConsumerDisables
<1> DEFINE Act == \A u \in Users :
                    (\E q \in PathIds : db.access[<<u, q>>] = "live" /\ db'.access[<<u, q>>] # "live")
                      => \A p \in Proxies : db'.cred[<<u, p>>].state = "on" =>
                           p \in HopProxies(db', ListActivePathAccessesByUserID(db', u))
<1>1. AccessInv /\ [Next]_vars => [Act]_vars
  <2> SUFFICES ASSUME AccessInv, [Next]_vars PROVE Act
    OBVIOUS
  <2>1. Advances(db, db')
    BY StepAdvances DEF Stepped
  <2> SUFFICES ASSUME NEW u \in Users, NEW q \in PathIds, db.access[<<u, q>>] = "live", db'.access[<<u, q>>] # "live",
                      NEW p \in Proxies, db'.cred[<<u, p>>].state = "on"
               PROVE  p \in HopProxies(db', ListActivePathAccessesByUserID(db', u))
    OBVIOUS
  <2>2. Settled(db', u)
    BY <2>1 DEF Advances
  <2>3. GetProxyByID(db', p) /\ GetProxyUser(db', u)
    BY <2>1 DEF Advances, Sound, NoStray
  <2> QED
    BY <2>2, <2>3 DEF Settled
<1>2. Spec => [][Act]_vars
  <2> HIDE DEF Act
  <2> QED
    BY <1>1, AlwaysSound, PTL DEF Spec
<1> QED
  BY <1>2 DEF LastConsumerDisables

\* What resolves for a user is admitted by the node it leads to.
LEMMA HopIsAdmitted ==
  ASSUME NEW s, Sound(s), NEW u \in Users, s.user[u] = "active", NEW q \in ListPaths(s), Usable(s, u, q)
  PROVE  \E n \in Nodes :
           [user |-> u, proxy |-> Profile(s, u, q).proxy, secret |-> Profile(s, u, q).secret] \in RenderNodeConfig(s, n)
<1> DEFINE p == s.path[q].proxy
           x == <<u, p>>
<1>1. p \in Proxies
  <2>1. Linked(s)
    BY DEF Sound, StoreOK, Wired
  <2> QED
    BY <2>1, DialerListed DEF PathRows
<1>2. HomeNode[p] \in Nodes
  BY <1>1, AccessStoreAssumption
<1>3. /\ s.proxy[p] = "on" /\ s.node[HomeNode[p]] = "active"
      /\ s.binding[<<u, HomeNode[p]>>] = "on" /\ s.cred[<<u, p>>].state = "on"
  BY DEF Usable, GetUserNodeBinding, GetProxyAccessByIDs
<1>4. Profile(s, u, q).proxy = p /\ Profile(s, u, q).secret = s.cred[<<u, p>>].secret
  BY DEF Profile, GetProxyAccessByIDs
<1> HIDE DEF p
<1>5. x \in ListProxyAccessesByNodeName(s, HomeNode[p])
  BY <1>1, <1>3 DEF ListProxyAccessesByNodeName
<1>6. [user |-> u, proxy |-> p, secret |-> s.cred[x].secret] \in RenderNodeConfig(s, HomeNode[p])
  BY <1>5 DEF RenderNodeConfig
<1> QED
  BY <1>2, <1>4, <1>6

\* A listing is a sequence of paths that are there.
LEMMA ListingOfPaths ==
  ASSUME NEW s, Sound(s), NEW u \in Users, NEW listing \in Listings(s, u)
  PROVE  Len(listing) \in Nat /\ DOMAIN listing = 1..Len(listing) /\ \A i \in DOMAIN listing : listing[i] \in ListPaths(s)
<1> DEFINE A == ListActivePathAccessesByUserID(s, u)
           n == Cardinality(A)
<1>1. A \subseteq ListPaths(s) /\ A \subseteq PathIds
  BY DEF ListActivePathAccessesByUserID, LiveAccesses, Sound, Rooted, ListPaths
<1>2. n \in Nat
  BY <1>1, AccessStoreAssumption, FS_Subset, FS_CardinalityType
<1>3. listing \in [1..n -> A]
  BY DEF Listings, Injection
<1> HIDE DEF n, A
<1>4. listing \in Seq(A) /\ Len(listing) = n
  BY <1>2, <1>3
<1> QED
  BY <1>1, <1>2, <1>3, <1>4

\* Whatever was resolved is usable, and so is all it dials through: a chain joins
\* the cache as a whole.
LEMMA ResolvedHops ==
  ASSUME NEW s, Sound(s), NEW u \in Users, NEW listing \in Listings(s, u), NEW j \in DOMAIN listing
  PROVE  LET c == Resolved(s, u, listing)[j]
         IN  c \subseteq ListPaths(s) /\ Closed(s, c) /\ \A q \in c : Usable(s, u, q)
<1> DEFINE l == [kind |-> "resolve", s |-> s, user |-> u, listing |-> listing]
           n == Len(listing)
<1>1. l.kind = "resolve" /\ l.s = s /\ l.user = u /\ l.listing = listing
  OBVIOUS
<1> HIDE DEF l
<1>2. n \in Nat /\ j \in 0..n /\ \A i \in 1..n : listing[i] \in ListPaths(s)
  BY ListingOfPaths
<1>3. \A r, x : Body(l, r, x) = resolve(s, u, r, listing[x])
  BY <1>1 DEF Body
<1>4. \A T, r : Keeps(l, T, r) <=> r \subseteq ListPaths(s) /\ Closed(s, r) /\ \A q \in r : Usable(s, u, q)
  BY <1>1 DEF Keeps
<1> DEFINE E(g) == g = [i \in 0..n |-> IF i = 0 THEN {} ELSE resolve(s, u, g[i - 1], listing[i])]
           f == CHOOSE g : E(g)
<1>5. Resolved(s, u, listing) = f
  BY DEF Resolved
<1>6. \A g : E(g) <=> Rounds(l, n, {}, g)
  BY <1>3 DEF Rounds
<1> HIDE DEF E, n
<1>7. Rounds(l, n, {}, f)
  BY <1>2, <1>6, RoundsExist
<1>8. Keeps(l, 0, {})
  BY <1>4 DEF Closed
<1>9. ASSUME NEW i \in 1..n, NEW r, Keeps(l, i - 1, r) PROVE Keeps(l, i, Body(l, r, i))
  <2> DEFINE H == Hops(s, listing[i])
  <2>1. r \subseteq ListPaths(s) /\ Closed(s, r) /\ \A q \in r : Usable(s, u, q)
    BY <1>4, <1>9
  <2>2. H \subseteq ListPaths(s) /\ Closed(s, H)
    BY <1>2, HopsClosed DEF Sound, StoreOK, Wired
  <2>3. \/ Body(l, r, i) = r
        \/ Body(l, r, i) = r \cup (H \ r) /\ \A q \in H \ r : Usable(s, u, q)
    BY <1>3 DEF resolve
  <2> HIDE DEF H
  <2>4. Closed(s, r \cup (H \ r))
    BY <2>1, <2>2 DEF Closed
  <2> QED
    BY <1>4, <2>1, <2>2, <2>3, <2>4
<1>10. \A i \in 0..n : Keeps(l, i, f[i])
  <2> HIDE DEF f
  <2> QED
    BY <1>2, <1>7, <1>8, <1>9, RoundsKeep
<1> QED
  BY <1>2, <1>4, <1>5, <1>10

\* What a user can select is there and usable over its whole chain.
LEMMA SelectableHops ==
  ASSUME NEW s, Sound(s), NEW u \in Users, NEW listing \in Listings(s, u), NEW r \in Selectable(s, u, listing)
  PROVE  r \in ListPaths(s) /\ \A q \in Hops(s, r) : Usable(s, u, q)
<1>1. PICK j \in DOMAIN listing : r = listing[j] /\ listing[j] \in Resolved(s, u, listing)[j]
  BY DEF Selectable
<1> DEFINE c == Resolved(s, u, listing)[j]
<1>2. c \subseteq ListPaths(s) /\ Closed(s, c) /\ \A q \in c : Usable(s, u, q)
  BY ResolvedHops
<1> HIDE DEF c
<1>3. Hops(s, r) \subseteq c
  BY <1>1, <1>2, HopsLeast DEF c
<1> QED
  BY <1>1, <1>2, <1>3 DEF c

\* The hops of what a user can select are listed paths, with what they dial through.
LEMMA OrderedHops ==
  ASSUME NEW s, Sound(s), NEW u \in Users, NEW listing \in Listings(s, u), NEW q \in ForUser(s, u, listing).ordered
  PROVE  /\ q \in ListPaths(s) /\ Usable(s, u, q)
         /\ s.path[q].dialer # None => s.path[q].dialer \in ForUser(s, u, listing).ordered
<1>1. ForUser(s, u, listing).ordered = UNION {Hops(s, r) : r \in Selectable(s, u, listing)}
  BY DEF ForUser
<1>2. PICK r \in Selectable(s, u, listing) : q \in Hops(s, r)
  BY <1>1
<1>3. r \in ListPaths(s) /\ Usable(s, u, q)
  BY <1>2, SelectableHops
<1>4. Hops(s, r) \subseteq ListPaths(s) /\ Closed(s, Hops(s, r))
  BY <1>3, HopsClosed DEF Sound, StoreOK, Wired
<1> QED
  BY <1>1, <1>2, <1>3, <1>4 DEF Closed

LEMMA SelectableOrdered ==
  ASSUME NEW s, Sound(s), NEW u \in Users, NEW listing \in Listings(s, u)
  PROVE  ForUser(s, u, listing).selectable \subseteq ForUser(s, u, listing).ordered
<1>1. /\ ForUser(s, u, listing).selectable = Selectable(s, u, listing)
      /\ ForUser(s, u, listing).ordered = UNION {Hops(s, x) : x \in Selectable(s, u, listing)}
  BY DEF ForUser
<1>2. \A r \in Selectable(s, u, listing) : r \in Hops(s, r)
  BY SelectableHops, HopsClosed DEF Sound, StoreOK, Wired
<1> QED
  BY <1>1, <1>2

LEMMA SelectedHostsAreHome ==
  ASSUME NEW s, HostsOK(s), NEW n \in Nodes, NEW h \in selectedNodeHosts(s, n) PROVE HostNode(h) = n
<1>1. PICK i \in DOMAIN HostOrder[n] : s.host[HostOrder[n][i]] = "selected"
  BY DEF HostsOK
<1>2. HostOrder[n][i] \in {x \in Hosts : HostNode(x) = n /\ s.host[x] = "selected"}
  BY <1>1, HostHome
<1> QED
  BY <1>2 DEF selectedNodeHosts

\* Every entry of a subscription and of a node's profiles carries a secret that
\* the configuration rendered for its node admits, with the paths it dials
\* through: the queries of pathresolve.ForUser and of the renderer agree in
\* every state, whatever was switched off, rotated or deleted and in whatever
\* order the accesses are listed.
THEOREM EntriesAreAdmitted == Spec => []ClientsAreAdmitted
<1>1. AccessInv => ClientsAreAdmitted
  <2> SUFFICES ASSUME AccessInv PROVE ClientsAreAdmitted
    OBVIOUS
  <2>1. Sound(db)
    BY DEF AccessInv
  <2> DEFINE admitted == UNION {RenderNodeConfig(db, n) : n \in Nodes}
             opens(u, e) == [user |-> u, proxy |-> e.proxy, secret |-> e.secret] \in admitted
  <2>2. ASSUME NEW u \in Users, NEW listing \in Listings(db, u), NEW e \in RenderMihomoProxyProvider(db, u, listing)
        PROVE  /\ opens(u, e)
               /\ e.dialer # None => \E d \in RenderMihomoProxyProvider(db, u, listing) : d.path = e.dialer
    <3> DEFINE result == ForUser(db, u, listing)
    <3>1. /\ result.ok
          /\ RenderMihomoProxyProvider(db, u, listing) = {Profile(db, u, q) : q \in result.ordered}
      BY <2>2 DEF RenderMihomoProxyProvider
    <3>2. PICK q \in result.ordered : e = Profile(db, u, q)
      BY <2>2, <3>1
    <3>3. db.user[u] = "active"
      BY <3>1 DEF ForUser
    <3>4. q \in ListPaths(db) /\ Usable(db, u, q)
          /\ (db.path[q].dialer # None => db.path[q].dialer \in result.ordered)
      BY <2>1, OrderedHops
    <3> HIDE DEF result
    <3>5. opens(u, e)
      BY <2>1, <3>2, <3>3, <3>4, HopIsAdmitted
    <3>6. e.dialer = db.path[q].dialer /\ \A r : Profile(db, u, r).path = r
      BY <3>2 DEF Profile
    <3> QED
      BY <3>1, <3>4, <3>5, <3>6
  <2>3. ASSUME NEW u \in Users, NEW listing \in Listings(db, u)
        PROVE  ConnectionInfoForUser(db, u, listing) \subseteq RenderMihomoProxyProvider(db, u, listing)
    BY <2>1, SelectableOrdered DEF ConnectionInfoForUser, RenderMihomoProxyProvider
  <2>4. ASSUME NEW u \in Users, NEW n \in Nodes, NEW e \in NodeInfoForUser(db, u, n)
        PROVE  opens(u, e) /\ HostNode(e.host) = HomeNode[e.proxy]
    <3>1. PICK p \in ListProxyAccessesByUserNode(db, u, n), h \in selectedNodeHosts(db, n) :
            e = [proxy |-> p, host |-> h, secret |-> GetProxyAccessByIDs(db, u, p).secret]
      BY <2>4 DEF NodeInfoForUser
    <3>2. <<u, p>> \in ListProxyAccessesByNodeName(db, n)
      BY <3>1 DEF ListProxyAccessesByUserNode, ListProxyAccessesByNodeName
    <3>3. HomeNode[p] = n
      BY <3>2 DEF ListProxyAccessesByNodeName
    <3>4. HostNode(h) = n
      BY <2>1, <3>1, SelectedHostsAreHome DEF Sound
    <3>5. [user |-> u, proxy |-> p, secret |-> db.cred[<<u, p>>].secret] \in RenderNodeConfig(db, n)
      BY <3>2 DEF RenderNodeConfig
    <3>6. e.proxy = p /\ e.host = h /\ e.secret = db.cred[<<u, p>>].secret
      BY <3>1 DEF GetProxyAccessByIDs
    <3> QED
      BY <3>3, <3>4, <3>5, <3>6
  <2> HIDE DEF opens
  <2> QED
    BY <2>2, <2>3, <2>4 DEF ClientsAreAdmitted, opens
<1> QED
  BY <1>1, AlwaysSound, PTL
====
