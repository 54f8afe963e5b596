----------------------------- MODULE AccessControl -----------------------------
(***************************************************************************)
(* Who may use which proxy: users, proxies, endpoints, paths, grants,      *)
(* credentials, node bindings and path groups, as the admin API changes    *)
(* them (src/internal/server/db and the handlers of api/admin.go).         *)
(*                                                                         *)
(* A database function is an operator from a store to a result             *)
(* [ok, s].  SQLite runs one transaction at a time, so a function that     *)
(* runs in a transaction is one step and leaves the store alone when it    *)
(* fails (Tx).  A request that makes several transactions or several bare  *)
(* writes is several steps: what it read and has still to do waits in      *)
(* pending while other requests run, and the client may go away in         *)
(* between, which leaves what was written so far.                          *)
(***************************************************************************)
EXTENDS AccessStore, FiniteSetsExt, SequencesExt

CONSTANTS DirectLabel,          \* published name of the managed path of <<proxy, host>>
          PathForms,            \* the paths operators create: [enabled, visibility, label]
          MaxDialerPathDepth,   \* 3 in the code
          MaxPathGroupMembers,  \* 200 in the code
          MaxInFlight,          \* bound: requests between two transactions
          MaxChanges            \* bound: requests in a behaviour

\* The rows of the table paths.
AllLabels == {f.label : f \in PathForms} \cup {DirectLabel[e] : e \in DOMAIN DirectPath}
PathRows == [proxy : Proxies, host : Hosts, dialer : PathIds \cup {None}, enabled : BOOLEAN,
             visibility : {"selectable", "dependency"}, managed : BOOLEAN, label : AllLabels]

ASSUME AccessControlAssumption ==
  /\ PathForms \subseteq [enabled : BOOLEAN, visibility : {"selectable", "dependency"}, label : AllLabels]
  /\ None \notin PathRows \cup PathIds

VARIABLES db,        \* the store
          pending,   \* requests between two of their transactions
          preview,   \* the last group preview: [change, state] or None
          changes    \* requests so far

vars == <<db, pending, preview, changes>>

Ok(s) == [ok |-> TRUE, s |-> s]
Fail(s) == [ok |-> FALSE, s |-> s]
Then(r, F(_)) == IF r.ok THEN F(r.s) ELSE r
Require(s, cond) == IF cond THEN Ok(s) ELSE Fail(s)
\* withTx and atomic: a failed transaction leaves the store as it was.
Tx(s, r) == IF r.ok THEN r ELSE Fail(s)
ForEach(S, r, F(_, _)) == FoldSet(LAMBDA x, acc : Then(acc, LAMBDA t : F(t, x)), r, S)

----------------------------------------------------------------------------
(* Paths and endpoints *)

\* validateEndpointPair: the proxy is live and the host is a selected host of
\* the proxy's node.
ResolveEndpoint(s, e) ==
  /\ GetProxyByID(s, e[1])
  /\ HostNode(e[2]) = HomeNode[e[1]]
  /\ s.host[e[2]] = "selected"

EnsureEndpoint(s, e) ==
  IF ~ResolveEndpoint(s, e) THEN Fail(s)
  ELSE IF s.endpoint[e] # "none" THEN Ok(s) ELSE Ok(CreateEndpoint(s, e))

\* The path and every path it dials through.
Hops(s, q) ==
  LET reach[k \in 0..Cardinality(PathIds)] ==
        IF k = 0 THEN {q}
        ELSE LET seen == reach[k - 1] IN seen \cup ({s.path[r].dialer : r \in seen} \ {None})
  IN  reach[Cardinality(PathIds)]
HopProxies(s, qs) == {s.path[r].proxy : r \in UNION {Hops(s, q) : q \in qs}}

\* What a subscription visits from a root: a disabled path ends the walk.
Published(s, roots) ==
  LET on(qs) == {q \in qs : s.path[q].enabled}
      reach[k \in 0..Cardinality(PathIds)] ==
        IF k = 0 THEN on(roots)
        ELSE reach[k - 1] \cup on({s.path[q].dialer : q \in reach[k - 1]} \ {None})
  IN  reach[Cardinality(PathIds)]

validatePublishedNamesForUser(s, u, extra) ==
  LET seen == Published(s, ListActivePathAccessesByUserID(s, u) \cup extra)
  IN  /\ \A q \in seen : GetProxyByID(s, s.path[q].proxy)
      /\ \A q, r \in seen : s.path[q].label = s.path[r].label => q = r

\* The roots are the accesses active before the change; the candidate's row
\* stands in for the stored one while their names are walked, and only a
\* conflict the candidate takes part in is an error.
validatePublishedNamesAfterPathChange(s, q, row) ==
  \A u \in ListUserNamesWithActivePathAccess(s) :
    LET t == WritePath(s, q, row)
        roots == ListActivePathAccessesByUserID(s, u)
        seen == Published(t, roots)
    IN  /\ \A r \in seen : GetProxyByID(s, t.path[r].proxy)
        /\ q \in seen => \A r \in seen \ {q} : t.path[r].label # row.label

normalizePath(s, q, row) ==
  LET e == <<row.proxy, row.host>>
  IN  /\ row.visibility = "dependency" => q \notin ListPathGroupMembers(s)
      /\ s.endpoint[e] # "none"
      /\ row.enabled => s.endpoint[e] = "on" /\ ResolveEndpoint(s, e)

\* Mutant: only the dialer itself is compared with the path.
validatePathGraphDirectOnly(s, q, row) ==
  row.dialer # None => s.path[row.dialer] # None /\ row.dialer # q

\* Only the candidate's own chain is walked.
validatePathGraph(s, q, row) ==
  LET t == WritePath(s, q, row)
  IN  row.dialer # None =>
        /\ t.path[row.dialer] # None
        /\ q \notin Hops(t, row.dialer)
        /\ Cardinality(Hops(t, q)) <= MaxDialerPathDepth

ValidPath(s, q, row) == normalizePath(s, q, row) /\ validatePathGraph(s, q, row)

\* Within a transaction.  Outside of one the row is inserted in a step of its
\* own, and only the keys of the table are checked again.
CreatePath(s, q, row) == IF ValidPath(s, q, row) THEN Ok(InsertPath(s, q, row)) ELSE Fail(s)
CreatePathRow(s, q, row) == IF InsertableBySchema(s, q, row) THEN Ok(InsertPath(s, q, row)) ELSE Fail(s)

UpdatePath(s, q, row, allowManaged) ==
  IF /\ GetPathByID(s, q)
     /\ s.path[q].managed => allowManaged
     /\ normalizePath(s, q, row)
     /\ validatePathGraph(s, q, row)
     /\ validatePublishedNamesAfterPathChange(s, q, row)
  THEN Ok(WritePath(s, q, row)) ELSE Fail(s)

\* The first host the node lists.
FirstListed(n, hosts) ==
  LET order == HostOrder[n]
      i == CHOOSE i \in DOMAIN order : /\ hosts[order[i]] # "absent"
                                       /\ \A j \in 1..(i - 1) : hosts[order[j]] = "absent"
  IN  order[i]

ManagedPaths(s, p) == {q \in ListPaths(s) : s.path[q].managed /\ s.path[q].proxy = p}

DirectRow(e) == [proxy |-> e[1], host |-> e[2], dialer |-> None, enabled |-> TRUE,
                 visibility |-> "selectable", managed |-> TRUE, label |-> DirectLabel[e]]

\* One selected host: its endpoint, then its managed path, created or
\* switched on again.
EnsureDirectPath(s, e) ==
  LET q == DirectPath[e]
  IN  Then(EnsureEndpoint(s, e), LAMBDA t :
        IF ~GetPathByID(t, q) THEN CreatePath(t, q, DirectRow(e))
        ELSE IF t.path[q].enabled THEN Ok(t)
        ELSE UpdatePath(t, q, DirectRow(e), TRUE))

EnsureDirectPathsForProxy(s, p) ==
  LET stale == {q \in ManagedPaths(s, p) : s.path[q].enabled /\ s.host[s.path[q].host] # "selected"}
      hosts == HostOrder[HomeNode[p]]
      upTo[i \in 0..Len(hosts)] ==
        IF i = 0 THEN Ok(SetPathsEnabled(s, stale, FALSE))
        ELSE IF s.host[hosts[i]] # "selected" THEN upTo[i - 1]
        ELSE Then(upTo[i - 1], LAMBDA t : EnsureDirectPath(t, <<p, hosts[i]>>))
  IN  IF ~GetProxyByID(s, p) THEN Fail(s) ELSE upTo[Len(hosts)]

\* The flag alone: what follows from it is written in steps of its own.
SetProxyDirectPublication(s, p, publish) == [s EXCEPT !.direct[p] = publish]
setPathEnabledUnchecked(s, q, enabled) ==
  IF GetPathByID(s, q) THEN Ok(SetPathsEnabled(s, {q}, enabled)) ELSE Fail(s)
HiddenPaths(s, p, publish) ==
  {q \in ManagedPaths(s, p) : IF publish THEN s.host[s.path[q].host] # "selected" ELSE s.path[q].enabled}
PublishedHosts(s, p, publish) ==
  {h \in Hosts : publish /\ HostNode(h) = HomeNode[p] /\ s.host[h] = "selected"}

----------------------------------------------------------------------------
(* Credentials and grants *)

BindUserToNode(s, u, n) ==
  IF GetProxyUser(s, u) /\ GetNode(s, n) THEN Ok(UpsertUserNodeBinding(s, u, n)) ELSE Fail(s)

\* A credential that is on is kept; any other row gets a fresh secret.
issueProxyCredential(s, u, p) ==
  IF ~(GetProxyUser(s, u) /\ GetProxyByID(s, p) /\ GetUserNodeBinding(s, u, HomeNode[p]) = "on")
  THEN Fail(s)
  ELSE LET state == GetProxyAccessByIDs(s, u, p).state
       IN  CASE state = "on"   -> Ok(s)
             [] state = "none" -> Ok(CreateProxyAccess(s, u, p))
             [] OTHER          -> Ok(RestoreProxyAccess(s, u, p))

grantPathAccess(s, u, q) ==
  IF GetProxyUser(s, u) /\ GetPathByID(s, q) THEN Ok(RestorePathAccess(s, u, q)) ELSE Fail(s)

EnsureHop(s, u, q) ==
  LET p == s.path[q].proxy
      n == HomeNode[p]
  IN  IF ~ResolveEndpoint(s, EndpointOf(s, q)) \/ s.binding[<<u, n>>] = "off" THEN Fail(s)
      ELSE Then(IF s.binding[<<u, n>>] = "none" THEN BindUserToNode(s, u, n) ELSE Ok(s),
                LAMBDA t : issueProxyCredential(t, u, p))

grantPathToUser(s, u, q) ==
  IF ~(/\ GetProxyUser(s, u)
       /\ GetPathByID(s, q)
       /\ s.path[q].visibility = "selectable"
       /\ validatePublishedNamesForUser(s, u, {q}))
  THEN Fail(s)
  ELSE Then(ForEach(Hops(s, q), Ok(s), LAMBDA t, r : EnsureHop(t, u, r)),
            LAMBDA t : grantPathAccess(t, u, q))

\* The compatibility grant of the proxy API: no name is checked.
GrantPathAccess(s, u, q) ==
  Tx(s, IF ~GetProxyUser(s, u) \/ ~GetPathByID(s, q) THEN Fail(s)
        ELSE grantPathAccess(SetDirectPathGrant(s, u, q), u, q))

GrantPathToUser(s, u, q) ==
  Tx(s, IF ~GetProxyUser(s, u) \/ ~GetPathByID(s, q) THEN Fail(s)
        ELSE grantPathToUser(SetDirectPathGrant(s, u, q), u, q))

GrantDirectPathsForCredential(s, u, p) ==
  IF ~s.direct[p] THEN Ok(s)
  ELSE Then(EnsureDirectPathsForProxy(s, p), LAMBDA t :
         ForEach({h \in Hosts : HostNode(h) = HomeNode[p] /\ t.host[h] = "selected"}, Ok(t),
                 LAMBDA v, h : GrantPathAccess(v, u, DirectPath[<<p, h>>])))

IssueProxyAccess(s, u, p) ==
  Tx(s, Then(issueProxyCredential(s, u, p), LAMBDA t : GrantDirectPathsForCredential(t, u, p)))

SyncLegacyDirectPathsForNode(s, n) ==
  LET proxies == {p \in Proxies : HomeNode[p] = n /\ GetProxyByID(s, p) /\ s.direct[p]}
      regrant(t, x) == IF HasManagedDirectGrantForProxyUser(t, x[1], x[2])
                       THEN GrantDirectPathsForCredential(t, x[1], x[2]) ELSE Ok(t)
  IN  Tx(s, Then(ForEach(proxies, Require(s, GetNode(s, n)),
                         LAMBDA t, p : EnsureDirectPathsForProxy(t, p)),
                 LAMBDA t : ForEach(ListProxyAccessesByNodeName(t, n), Ok(t), regrant)))

\* Mutant: a credential stays while any granted path, active or not, uses its proxy.
disableUnusedProxyCredentialsByGrant(s, u) ==
  LET unused == {p \in ListProxyAccessesByUserName(s, u) :
                   s.cred[<<u, p>>].state = "on" /\ p \notin HopProxies(s, ListPaths(s))}
  IN  DisableProxyAccesses(s, u, unused)

\* Credentials no active access needs any more are switched off; the walk
\* takes disabled dialers along.
disableUnusedProxyCredentials(s, u) ==
  LET required == HopProxies(s, ListActivePathAccessesByUserID(s, u))
      unused == {p \in ListProxyAccessesByUserName(s, u) :
                   s.cred[<<u, p>>].state = "on" /\ p \notin required}
  IN  DisableProxyAccesses(s, u, unused)

\* Accesses follow the direct grants.  A credential an operator switched off
\* is not restored on the side: extending access over it is refused.
reconcilePathGrants(s, u) ==
  LET desired == ListUserDesiredPathIDs(s, u)
      live == LiveAccesses(s, u)
      blocked == {p \in HopProxies(s, live) : s.cred[<<u, p>>].state \in {"off", "archived"}}
      extend(t, q) == IF HopProxies(t, {q}) \cap blocked # {} THEN Fail(t)
                      ELSE grantPathToUser(t, u, q)
  IN  IF ~GetProxyUser(s, u) THEN Fail(s)
      ELSE Then(ForEach(desired \ live, Ok(SoftDeletePathAccess(s, u, live \ desired)), extend),
                LAMBDA t : IF validatePublishedNamesForUser(t, u, {})
                           THEN Ok(disableUnusedProxyCredentials(t, u)) ELSE Fail(t))

RevokePathAccess(s, u, q) ==
  Tx(s, IF ~GetProxyUser(s, u) THEN Fail(s)
        ELSE Then(reconcilePathGrants(DeleteDirectPathGrant(s, u, q), u),
                  LAMBDA t : Require(t, t.access[<<u, q>>] # "none")))

\* on and off: the checkboxes set and cleared in one request.
ChangeUserPathSelection(s, u, on, off) ==
  LET count == Cardinality(on \cup off)
      granted == [s EXCEPT !.grant = (@ \cup ({u} \X on)) \ ({u} \X off)]
  IN  Tx(s, IF /\ count \in 1..MaxPathGroupMembers
               /\ on \cap off = {}
               /\ GetProxyUser(s, u)
               /\ \A q \in on \cup off : GetPathByID(s, q) /\ s.path[q].visibility = "selectable"
               /\ \A q \in on : s.path[q].enabled
            THEN reconcilePathGrants(granted, u) ELSE Fail(s))

RotateUserCredentials(s, u) ==
  IF GetProxyUser(s, u)
  THEN Ok(RotateProxyAccessCredential(s, u, ListProxyAccessesByUserName(s, u))) ELSE Fail(s)

SoftDeleteProxyCredential(s, u, p) ==
  IF GetProxyUser(s, u) /\ GetProxyByID(s, p) /\ s.cred[<<u, p>>].state \in {"on", "off"}
  THEN Ok(ArchiveCredentials(s, {<<u, p>>})) ELSE Fail(s)

DeletePath(s, q) ==
  LET e == EndpointOf(s, q)
      gone == DeletePathRow(s, q)
      tidy == IF ListPathsByEndpointID(gone, e) = {} THEN DeleteEndpoint(gone, e) ELSE gone
      teardown(u, t) == disableUnusedProxyCredentials(t, u)
  IN  IF GetPathByID(s, q) /\ ~s.path[q].managed /\ DeletableBySchema(s, q)
      THEN Ok(FoldSet(teardown, tidy, ListUserNamesByPathID(s, q))) ELSE Fail(s)

\* change: [op, group, user, paths, enabled, revision]; user is None or the
\* user the change is reviewed for, whose accesses are reconciled.
ChangePathGroup(s, c) ==
  LET members == \A q \in c.paths :
        /\ GetPathByID(s, q)
        /\ s.path[q].visibility = "selectable"
        /\ ResolveEndpoint(s, EndpointOf(s, q))
      written ==
        CASE c.op = "save" /\ s.group[c.group].state = "none" /\ members
               -> Ok(CreatePathGroup(s, c.group, c.paths, c.enabled))
          [] c.op = "save" /\ GetPathGroup(s, c.group) /\ s.group[c.group].revision = c.revision /\ members
               -> Ok(UpdatePathGroup(s, c.group, c.paths, c.enabled))
          [] c.op = "delete" /\ GetPathGroup(s, c.group) /\ s.group[c.group].revision = c.revision
               -> Ok(ArchivePathGroup(s, c.group))
          [] OTHER -> Fail(s)
  IN  IF Cardinality(c.paths) > MaxPathGroupMembers THEN Fail(s)
      ELSE IF c.user = None THEN Tx(s, written)
      ELSE Tx(s, Then(Require(s, GetProxyUser(s, c.user)), LAMBDA t :
                 Then(written, LAMBDA v : reconcilePathGrants(v, c.user))))

----------------------------------------------------------------------------
(* Deletion and restoration *)

\* Mutant: the direct sources of a retired path are forgotten.
retireResourceDependenciesKeepsSources(s) ==
  LET paths == ListRetiredResourcePaths(s)
  IN  ArchiveRetiredProxyCredentials(DisableRetiredEndpoints(DisableRetiredNodeBindings(
        ArchivePathAccesses(SetPathsEnabled(s, paths, FALSE), paths))))

retireResourceDependencies(s) ==
  LET paths == ListRetiredResourcePaths(s)
      users == {u \in ListPathAccessUsersIncludingDeleted(s, paths) : GetProxyUser(s, u)}
      cut == RemoveDirectSources(RemoveRetiredPathGroupSources(
               ArchivePathAccesses(SetPathsEnabled(s, paths, FALSE), paths), paths), {}, paths)
      retired == ArchiveRetiredProxyCredentials(DisableRetiredEndpoints(DisableRetiredNodeBindings(cut)))
      teardown(u, t) == disableUnusedProxyCredentials(t, u)
  IN  FoldSet(teardown, retired, users)

SoftDeleteNode(s, n) ==
  IF GetNode(s, n)
  THEN Ok(retireResourceDependencies(ArchiveNodeProxies(ArchiveNodeRow(s, n), n)))
  ELSE Fail(s)

SoftDeleteProxy(s, p) ==
  IF GetProxyByID(s, p)
  THEN Ok(retireResourceDependencies(ArchiveProxyRow(s, p))) ELSE Fail(s)

\* The row comes back even when its node is deleted; the lookup after the
\* commit then fails.
RestoreProxy(s, p) ==
  IF s.proxy[p] = "deleted"
  THEN LET t == RestoreProxyEndpoints(RestoreProxyRow(s, p), p)
       IN  Require(t, GetProxyByID(t, p))
  ELSE Fail(s)

\* Mutant: the credentials of a deleted user stay.
SoftDeleteProxyUserKeepsCredentials(s, u) ==
  LET gone == RemoveDirectSources(ArchiveProxyUser(s, u), {u}, {})
  IN  IF GetProxyUser(s, u) THEN Ok(SoftDeletePathAccess(gone, u, PathIds)) ELSE Fail(s)

SoftDeleteProxyUser(s, u) ==
  LET gone == RemoveDirectSources(ArchiveProxyUser(s, u), {u}, {})
  IN  IF GetProxyUser(s, u)
      THEN Ok(ArchiveCredentials(SoftDeletePathAccess(gone, u, PathIds), {u} \X Proxies)) ELSE Fail(s)

CreateProxyUser(s, u) == IF s.user[u] = "absent" THEN Ok(InsertProxyUser(s, u)) ELSE Fail(s)
UpdateProxyUser(s, u, status) ==
  IF GetProxyUser(s, u) THEN Ok(SetProxyUserStatus(s, u, status)) ELSE Fail(s)
RestoreProxyUser(s, u) ==
  IF s.user[u] = "deleted" THEN Ok(RestoreProxyUserRow(s, u)) ELSE Fail(s)

\* What the deletion preview announces for a node or a proxy: the paths and
\* endpoints disabled, the accesses revoked, the credentials disabled or
\* archived and the bindings disabled.
ResourceDeletionImpact(s, kind, x) ==
  LET targets == {p \in Proxies : s.proxy[p] \in {"on", "off"} /\ x = (IF kind = "node" THEN HomeNode[p] ELSE p)}
      up[k \in 0..Cardinality(PathIds)] ==
        IF k = 0 THEN {q \in ListPaths(s) : s.path[q].proxy \in targets}
        ELSE up[k - 1] \cup {q \in ListPaths(s) : s.path[q].dialer \in up[k - 1]}
      affected == up[Cardinality(PathIds)]
      usable(q) == /\ q \notin affected
                   /\ s.path[q].enabled
                   /\ s.endpoint[EndpointOf(s, q)] = "on"
                   /\ ~Retired(s, s.path[q].proxy)
      walk(u) == LET reach[k \in 0..Cardinality(PathIds)] ==
                       IF k = 0 THEN {q \in LiveAccesses(s, u) : usable(q)}
                       ELSE reach[k - 1] \cup {q \in {s.path[r].dialer : r \in reach[k - 1]} \ {None} : usable(q)}
                 IN  {s.path[q].proxy : q \in reach[Cardinality(PathIds)]}
      lost(u) == LiveAccesses(s, u) \cap affected # {}
  IN  [paths       |-> {q \in affected : s.path[q].enabled},
       endpoints   |-> {e \in DOMAIN s.endpoint : e[1] \in targets /\ s.endpoint[e] = "on"},
       accesses    |-> {a \in Users \X affected : s.access[a] = "live"},
       credentials |-> {c \in Users \X Proxies :
                          \/ s.cred[c].state \in {"on", "off"} /\ c[2] \in targets
                          \/ s.cred[c].state = "on" /\ lost(c[1]) /\ c[2] \notin walk(c[1])},
       bindings    |-> {b \in Users \X {n \in Nodes : kind = "node" /\ n = x} : s.binding[b] = "on"}]

----------------------------------------------------------------------------
(* Subscriptions (pathresolve.ForUser) *)

\* Mutant: a hop over a disabled proxy still resolves.
UsableSwitchedOff(s, u, q) ==
  LET p == s.path[q].proxy
  IN  /\ s.path[q].enabled
      /\ s.endpoint[EndpointOf(s, q)] = "on"
      /\ ResolveEndpoint(s, EndpointOf(s, q))
      /\ s.node[HomeNode[p]] = "active"
      /\ GetUserNodeBinding(s, u, HomeNode[p]) = "on"
      /\ GetProxyAccessByIDs(s, u, p).state = "on"

\* One hop resolves for a user when everything along it is on.
Usable(s, u, q) ==
  LET p == s.path[q].proxy
  IN  /\ s.path[q].enabled
      /\ s.endpoint[EndpointOf(s, q)] = "on"
      /\ ResolveEndpoint(s, EndpointOf(s, q))
      /\ s.proxy[p] = "on"
      /\ s.node[HomeNode[p]] = "active"
      /\ GetUserNodeBinding(s, u, HomeNode[p]) = "on"
      /\ GetProxyAccessByIDs(s, u, p).state = "on"

\* The orders in which the accesses may be listed: by age, which no table of
\* the store records.
Listings(s, u) ==
  LET accesses == ListActivePathAccessesByUserID(s, u)
  IN  Injection(1..Cardinality(accesses), accesses)

\* A chain resolves when each of its hops does.  A hop an earlier access has
\* resolved is taken from the cache, and only the hops before it count
\* against the depth.
resolve(s, u, cache, q) ==
  LET fresh == Hops(s, q) \ cache
  IN  IF Cardinality(fresh) <= MaxDialerPathDepth /\ \A r \in fresh : Usable(s, u, r)
      THEN cache \cup fresh ELSE cache
Resolved(s, u, listing) ==
  LET cache[i \in 0..Len(listing)] ==
        IF i = 0 THEN {} ELSE resolve(s, u, cache[i - 1], listing[i])
  IN  cache

\* The accesses that resolve over their whole chain; the others are omitted.
Selectable(s, u, listing) ==
  {listing[i] : i \in {j \in DOMAIN listing :
     /\ listing[j] \in Resolved(s, u, listing)[j]
     /\ s.path[listing[j]].visibility = "selectable"}}

\* An inactive user gets an error; so does one whose emitted names collide.
ForUser(s, u, listing) ==
  LET selectable == Selectable(s, u, listing)
      ordered == UNION {Hops(s, q) : q \in selectable}
  IN  [ok |-> /\ s.user[u] = "active"
              /\ \A q, r \in ordered : s.path[q].label = s.path[r].label => q = r,
       selectable |-> selectable,
       ordered |-> ordered]

----------------------------------------------------------------------------
(* Rendering (src/internal/server/render).  An entry is what the properties *)
(* tell apart: whose secret opens which proxy, and what it dials through.   *)

\* The users of a node's inbounds; a disabled node gets none.
RenderNodeConfig(s, n) ==
  {[user |-> x[1], proxy |-> x[2], secret |-> s.cred[x].secret] : x \in ListProxyAccessesByNodeName(s, n)}

Profile(s, u, q) ==
  [path |-> q, proxy |-> s.path[q].proxy, host |-> s.path[q].host, dialer |-> s.path[q].dialer,
   secret |-> GetProxyAccessByIDs(s, u, s.path[q].proxy).secret]

\* The proxies of a subscription, dependencies of chains included.
RenderMihomoProxyProvider(s, u, listing) ==
  LET resolved == ForUser(s, u, listing)
  IN  IF resolved.ok THEN {Profile(s, u, q) : q \in resolved.ordered} ELSE {}

\* What the administrator is shown of it: the paths a user can select.
ConnectionInfoForUser(s, u, listing) ==
  LET resolved == ForUser(s, u, listing)
  IN  IF resolved.ok THEN {Profile(s, u, q) : q \in resolved.selectable} ELSE {}

\* With no host selected the node's public host, the first it lists, is used.
selectedNodeHosts(s, n) ==
  LET selected == {h \in Hosts : HostNode(h) = n /\ s.host[h] = "selected"}
  IN  IF selected = {} THEN {FirstListed(n, s.host)} ELSE selected
\* The direct profiles of one node, from credentials instead of paths.
NodeInfoForUser(s, u, n) ==
  {[proxy |-> p, host |-> h, secret |-> GetProxyAccessByIDs(s, u, p).secret] :
     p \in ListProxyAccessesByUserNode(s, u, n), h \in selectedNodeHosts(s, n)}

----------------------------------------------------------------------------
(* The requests of the admin API *)

EmptyCred == [state |-> "none", secret |-> 0]
NoGroup == [state |-> "none", enabled |-> FALSE, revision |-> 0, members |-> {}]

\* The fleet once its nodes are enrolled, before any proxy or user.
EnrolledFleet ==
  [node     |-> [n \in Nodes |-> "active"],
   host     |-> [h \in Hosts |-> IF h = HostOrder[HostNode(h)][1] THEN "selected" ELSE "absent"],
   proxy    |-> [p \in Proxies |-> "absent"],
   direct   |-> [p \in Proxies |-> TRUE],
   user     |-> [u \in Users |-> "absent"],
   endpoint |-> [e \in Proxies \X Hosts |-> "none"],
   path     |-> [q \in PathIds |-> None],
   born     |-> {},
   access   |-> [a \in Users \X PathIds |-> "none"],
   grant    |-> {},
   cred     |-> [c \in Users \X Proxies |-> EmptyCred],
   binding  |-> [b \in Users \X Nodes |-> "none"],
   group    |-> [g \in Groups |-> NoGroup]]

Init ==
  /\ db = EnrolledFleet
  /\ pending = {}
  /\ preview = None
  /\ changes = 0

Arrive == changes < MaxChanges /\ changes' = changes + 1

\* A request of one transaction; one that changes nothing is not a step.
Request(r) == Arrive /\ r.s # db /\ db' = r.s /\ UNCHANGED <<pending, preview>>

\* The first part of a request that goes on later with rest.
FirstPart(r, rest) ==
  /\ Arrive
  /\ r.ok
  /\ Cardinality(pending) < MaxInFlight
  /\ db' = r.s
  /\ pending' = pending \cup {rest}
  /\ UNCHANGED preview

\* A later part: the request ends, or goes on with more.
NextPart(req, r, more) ==
  /\ db' = r.s
  /\ pending' = (pending \ {req}) \cup (IF r.ok THEN more ELSE {})
  /\ UNCHANGED <<preview, changes>>

CreateUser(u) == Request(CreateProxyUser(db, u))
UpdateUser(u, status) == Request(UpdateProxyUser(db, u, status))
DeleteUser(u) == Request(SoftDeleteProxyUser(db, u))
RestoreUser(u) == Request(RestoreProxyUser(db, u))
RotateUser(u) == Request(RotateUserCredentials(db, u))

\* CreateProxy: the node is read, the row is inserted in a transaction, then
\* its direct publication is set outside of it if the new row is found.
CreateProxy(p, publish) ==
  FirstPart(Require(db, db.proxy[p] = "absent" /\ GetNode(db, HomeNode[p])),
            [kind |-> "proxy", proxy |-> p, publish |-> publish])
InsertProxy(req) ==
  /\ req.kind = "proxy"
  /\ NextPart(req, IF db.proxy[req.proxy] = "absent" THEN Ok(InsertProxyRow(db, req.proxy)) ELSE Fail(db),
              IF GetNode(db, HomeNode[req.proxy])
              THEN {[kind |-> "publish", proxy |-> req.proxy, publish |-> req.publish]} ELSE {})

\* PATCH of a proxy: the update, then the publication when the body names it.
UpdateProxy(p, status) ==
  Request(IF GetProxyByID(db, p) THEN Ok(UpdateProxyRow(db, p, status)) ELSE Fail(db))
UpdateProxyPublication(p, publish) ==
  FirstPart(Require(db, GetProxyByID(db, p)), [kind |-> "publish", proxy |-> p, publish |-> publish])

\* SetProxyDirectPublication: the flag is written; the managed paths to hide
\* and the hosts to publish are read; the paths are hidden one after the
\* other; then every host, in the order its node lists them, gets its
\* endpoint and its managed path.
HostsLeft(p, hosts) == IF hosts = {} THEN {} ELSE {[kind |-> "host", proxy |-> p, hosts |-> hosts]}
Publish(req) ==
  /\ req.kind = "publish"
  /\ NextPart(req, Ok(SetProxyDirectPublication(db, req.proxy, req.publish)), {[req EXCEPT !.kind = "managed"]})
ListManaged(req) ==
  /\ req.kind = "managed"
  /\ NextPart(req, Require(db, req.publish => GetProxyByID(db, req.proxy)),
              {[kind |-> "hide", proxy |-> req.proxy, paths |-> HiddenPaths(db, req.proxy, req.publish),
                hosts |-> PublishedHosts(db, req.proxy, req.publish)]})
HideManaged(req) ==
  /\ req.kind = "hide"
  /\ \/ \E q \in req.paths :
          NextPart(req, setPathEnabledUnchecked(db, q, FALSE), {[req EXCEPT !.paths = @ \ {q}]})
     \/ req.paths = {} /\ NextPart(req, Ok(db), HostsLeft(req.proxy, req.hosts))
EnsureManagedEndpoint(req) ==
  LET order == HostOrder[HomeNode[req.proxy]]
  IN  /\ req.kind = "host"
      /\ \E i \in DOMAIN order :
           /\ order[i] \in req.hosts
           /\ \A j \in 1..(i - 1) : order[j] \notin req.hosts
           /\ NextPart(req, EnsureEndpoint(db, <<req.proxy, order[i]>>),
                {[kind |-> "direct", proxy |-> req.proxy, host |-> order[i], hosts |-> req.hosts \ {order[i]}]})
EnsureManagedPath(req) ==
  LET e == <<req.proxy, req.host>>
      q == DirectPath[e]
      rest == HostsLeft(req.proxy, req.hosts)
  IN  /\ req.kind = "direct"
      /\ IF GetPathByID(db, q)
         THEN NextPart(req, IF db.path[q].enabled THEN Ok(db) ELSE UpdatePath(db, q, DirectRow(e), TRUE), rest)
         ELSE NextPart(req, Require(db, ValidPath(db, q, DirectRow(e))),
                       {[kind |-> "insert", path |-> q, row |-> DirectRow(e), rest |-> rest]})

DeleteProxy(p) == Request(SoftDeleteProxy(db, p))
UndeleteProxy(p) == Request(RestoreProxy(db, p))

\* normalizeNodeHosts: with no host selected the first listed one is.
normalizeNodeHosts(n, hosts) ==
  LET unselected == \A i \in DOMAIN HostOrder[n] : hosts[HostOrder[n][i]] # "selected"
  IN  [h \in Hosts |-> IF unselected /\ h = FirstListed(n, hosts) THEN "selected" ELSE hosts[h]]

\* PATCH of a node: the row is read and the hosts to go are checked for
\* endpoints, the row is written in a transaction, the managed paths follow
\* in another one.  What the body leaves out is written as it was read.
UpdateNode(n, hosts, status) ==
  LET next == normalizeNodeHosts(n, hosts)
  IN  /\ \E i \in DOMAIN HostOrder[n] : hosts[HostOrder[n][i]] # "absent"
      /\ \A h \in Hosts : next[h] = "absent" /\ db.host[h] # "absent" => CountEndpointsByHostID(db, h) = 0
      /\ FirstPart(Require(db, GetNode(db, n)),
                   [kind |-> "node", node |-> n, hosts |-> next, status |-> status])
WriteNode(req) ==
  /\ req.kind = "node"
  /\ NextPart(req,
       IF GetNode(db, req.node)
       THEN Ok(UpdateNodeRow(db, req.node, req.status, req.hosts)) ELSE Fail(db), {[kind |-> "sync", node |-> req.node]})
SyncNode(req) ==
  /\ req.kind = "sync"
  /\ NextPart(req, SyncLegacyDirectPathsForNode(db, req.node), {})
DeleteNode(n) == Request(SoftDeleteNode(db, n))

\* POST of a path: the endpoint is ensured, an id is drawn and the path is
\* validated, then its row is inserted.
CreatePathRequest(e, dialer, form) ==
  FirstPart(EnsureEndpoint(db, e),
            [kind |-> "create", row |-> [proxy |-> e[1], host |-> e[2], dialer |-> dialer,
               enabled |-> form.enabled, visibility |-> form.visibility, managed |-> FALSE,
               label |-> form.label]])
FreshPathId == CHOOSE q \in CustomPaths \ db.born : TRUE
ValidateNewPath(req) ==
  /\ req.kind = "create"
  /\ CustomPaths \ db.born # {}
  /\ NextPart(req, IF ValidPath(db, FreshPathId, req.row) THEN Ok(DrawPathId(db, FreshPathId)) ELSE Fail(db),
              {[kind |-> "insert", path |-> FreshPathId, row |-> req.row, rest |-> {}]})
InsertNewPath(req) ==
  /\ req.kind = "insert"
  /\ NextPart(req, CreatePathRow(db, req.path, req.row), req.rest)

\* PATCH of a path: the row is read and merged with the body, an endpoint the
\* body names is ensured, then the merged row is written.
UpdatePathRequest(q, row) ==
  FirstPart(IF ~GetPathByID(db, q) THEN Fail(db)
            ELSE IF <<row.proxy, row.host>> = EndpointOf(db, q) THEN Ok(db)
            ELSE EnsureEndpoint(db, <<row.proxy, row.host>>),
            [kind |-> "update", path |-> q, row |-> row])
WriteMergedPath(req) ==
  /\ req.kind = "update"
  /\ NextPart(req, UpdatePath(db, req.path, req.row, FALSE), {})
RemovePath(q) == Request(DeletePath(db, q))

\* POST of a user's proxy: the node is bound (and a disabled binding enabled
\* again), then the credential and its direct paths are granted.
IssueCredential(u, p) ==
  FirstPart(BindUserToNode(db, u, HomeNode[p]), [kind |-> "issue", user |-> u, proxy |-> p])
IssueAccess(req) ==
  /\ req.kind = "issue"
  /\ NextPart(req, IssueProxyAccess(db, req.user, req.proxy), {})
DeleteCredential(u, p) == Request(SoftDeleteProxyCredential(db, u, p))

GrantPath(u, q) == Request(GrantPathToUser(db, u, q))
RevokePath(u, q) == Request(RevokePathAccess(db, u, q))
SelectPaths(u, on, off) == Request(ChangeUserPathSelection(db, u, on, off))

\* A preview runs the change, rolls it back and returns a token for the
\* change and the state it was computed from.
PreviewGroupChange(c) ==
  /\ Arrive
  /\ ChangePathGroup(db, c).ok
  /\ preview' = [change |-> c, state |-> PathGroupPreviewState(db)]
  /\ UNCHANGED <<db, pending>>
ApplyGroupChange ==
  /\ preview # None
  /\ Arrive
  /\ preview.state = PathGroupPreviewState(db)
  /\ db' = ChangePathGroup(db, preview.change).s
  /\ preview' = None
  /\ UNCHANGED pending

\* The client goes away or the server stops between two parts.
Abandon(req) == pending' = pending \ {req} /\ UNCHANGED <<db, preview, changes>>

\* The inputs: patches of one field, group changes of at most one path, checkbox
\* changes of one or two paths.
Labels == {f.label : f \in PathForms}
Patches(q) ==
  LET row == db.path[q]
  IN  {[row EXCEPT !.enabled = ~@]}
      \cup {[row EXCEPT !.visibility = v] : v \in {"selectable", "dependency"}}
      \cup {[row EXCEPT !.dialer = d] : d \in ListPaths(db) \cup {None}}
      \cup {[row EXCEPT !.label = l] : l \in Labels}
      \cup {[row EXCEPT !.proxy = e[1], !.host = e[2]] : e \in DOMAIN DirectPath}
GroupChanges ==
  LET sets == {S \in SUBSET ListPaths(db) : Cardinality(S) <= 1}
  IN  {[op |-> "save", group |-> g, user |-> u, paths |-> S, enabled |-> b, revision |-> db.group[g].revision] :
         g \in Groups, u \in Users \cup {None}, S \in sets, b \in BOOLEAN}
      \cup {[op |-> "delete", group |-> g, user |-> u, paths |-> {}, enabled |-> FALSE, revision |-> db.group[g].revision] :
         g \in Groups, u \in Users \cup {None}}
HostPatches(n) ==
  {[db.host EXCEPT ![h] = v] : h \in {x \in Hosts : HostNode(x) = n}, v \in {"selected", "unselected", "absent"}}

UserRequests ==
  \E u \in Users :
    \/ CreateUser(u)
    \/ \E st \in {"active", "disabled"} : UpdateUser(u, st)
    \/ DeleteUser(u)
    \/ RestoreUser(u)
    \/ RotateUser(u)
    \/ \E p \in Proxies : IssueCredential(u, p) \/ DeleteCredential(u, p)
    \/ \E q \in ListPaths(db) : GrantPath(u, q) \/ RevokePath(u, q)
    \/ \E q, r \in ListPaths(db) : SelectPaths(u, {q}, {r}) \/ SelectPaths(u, {q, r}, {}) \/ SelectPaths(u, {}, {q, r})
ResourceRequests ==
  \/ \E p \in Proxies :
       \/ \E b \in BOOLEAN : CreateProxy(p, b) \/ UpdateProxyPublication(p, b)
       \/ \E st \in {"on", "off"} : UpdateProxy(p, st)
       \/ DeleteProxy(p)
       \/ UndeleteProxy(p)
  \/ \E n \in Nodes :
       \/ DeleteNode(n)
       \/ \E st \in {"active", "disabled"} : UpdateNode(n, db.host, st)
       \/ \E hosts \in HostPatches(n) : UpdateNode(n, hosts, db.node[n])
PathRequests ==
  \/ \E e \in DOMAIN DirectPath, d \in ListPaths(db) \cup {None}, f \in PathForms :
       CustomPaths \ db.born # {} /\ CreatePathRequest(e, d, f)
  \/ \E q \in ListPaths(db) : RemovePath(q) \/ \E row \in Patches(q) : UpdatePathRequest(q, row)
  \/ \E c \in GroupChanges : PreviewGroupChange(c)
  \/ ApplyGroupChange
LaterParts ==
  \E req \in pending :
    \/ InsertProxy(req)
    \/ Publish(req) \/ ListManaged(req) \/ HideManaged(req)
    \/ EnsureManagedEndpoint(req) \/ EnsureManagedPath(req)
    \/ WriteNode(req) \/ SyncNode(req)
    \/ ValidateNewPath(req) \/ InsertNewPath(req) \/ WriteMergedPath(req)
    \/ IssueAccess(req)
    \/ Abandon(req)

Next == UserRequests \/ ResourceRequests \/ PathRequests \/ LaterParts
Spec == Init /\ [][Next]_vars

----------------------------------------------------------------------------
(* Properties *)

\* The tables hold rows of their schema, and the bounds are kept.
AccessTypeOK ==
  /\ db.node \in [Nodes -> {"active", "disabled", "deleted"}]
  /\ db.host \in [Hosts -> {"selected", "unselected", "absent"}]
  /\ db.proxy \in [Proxies -> {"absent", "on", "off", "deleted"}]
  /\ db.direct \in [Proxies -> BOOLEAN]
  /\ db.user \in [Users -> {"absent", "active", "disabled", "deleted"}]
  /\ db.endpoint \in [Proxies \X Hosts -> {"none", "on", "off"}]
  /\ db.path \in [PathIds -> PathRows \cup {None}]
  /\ db.access \in [Users \X PathIds -> {"none", "live", "archived"}]
  /\ db.grant \subseteq Users \X PathIds
  /\ \A c \in Users \X Proxies : db.cred[c].state \in {"none", "on", "off", "archived"} /\ db.cred[c].secret \in Nat
  /\ db.binding \in [Users \X Nodes -> {"none", "on", "off"}]
  /\ \A g \in Groups : db.group[g].members \subseteq PathIds /\ db.group[g].revision \in Nat
  /\ changes \in 0..MaxChanges /\ Cardinality(pending) <= MaxInFlight

\* Every live access has its direct grant and every grant its live access,
\* through every grant, revocation, deletion, restoration and group edit, so
\* no permission survives its source and none is lost beside it
\* (reconcilePathGrants; docs/path-groups.md: permission belongs only to the
\* user/Path pair).
GrantIsTheSource ==
  \A u \in Users, q \in PathIds : (db.access[<<u, q>>] = "live") <=> (<<u, q>> \in db.grant)

\* A deleted proxy, a proxy of a deleted node and a deleted user hold no
\* credential that is not archived, whatever request was under way when they
\* were deleted.
RetiredHoldsNoCredential ==
  \A u \in Users, p \in Proxies :
    Retired(db, p) \/ db.user[u] = "deleted" => db.cred[<<u, p>>].state \in {"none", "archived"}

\* A path and the endpoint it names exist together, and dialling through
\* paths never comes back to where it started, so resolution ends
\* (validatePathGraph looks at one chain only).
DialersEnd ==
  \A q \in ListPaths(db) :
    /\ db.endpoint[EndpointOf(db, q)] # "none"
    /\ db.path[q].dialer # None =>
         db.path[db.path[q].dialer] # None /\ q \notin Hops(db, db.path[q].dialer)

\* An active user's subscription is never taken down as a whole: what does
\* not resolve is omitted (the comment in pathresolve.ForUser).  The code lets
\* two granted paths publish one name, and the whole subscription fails.
SubscriptionRenders ==
  \A u \in Users : db.user[u] = "active" => \A listing \in Listings(db, u) : ForUser(db, u, listing).ok

\* Whatever a client is given opens a door: every proxy of a subscription and of
\* a node's profiles carries the secret that the configuration rendered for its
\* node admits, and what a chain dials through comes with it.  The two sides
\* are read by different queries with different filters, in whatever order
\* the accesses are listed.
ClientsAreAdmitted ==
  LET admitted == UNION {RenderNodeConfig(db, n) : n \in Nodes}
      opens(u, e) == [user |-> u, proxy |-> e.proxy, secret |-> e.secret] \in admitted
  IN  \A u \in Users :
        /\ \A listing \in Listings(db, u) :
             LET entries == RenderMihomoProxyProvider(db, u, listing)
             IN  /\ \A e \in entries : opens(u, e) /\ (e.dialer # None => \E d \in entries : d.path = e.dialer)
                 /\ ConnectionInfoForUser(db, u, listing) \subseteq entries
        /\ \A n \in Nodes : \A e \in NodeInfoForUser(db, u, n) :
             opens(u, e) /\ HostNode(e.host) = HomeNode[e.proxy]

\* A deletion preview identifies the resources the deletion affects
\* (docs/db-schema.md).  Deletion walks every retired resource, the preview
\* only the one to delete.
Affected(s, t) ==
  [paths       |-> {q \in ListPaths(s) : s.path[q].enabled /\ ~t.path[q].enabled},
   accesses    |-> {a \in DOMAIN s.access : s.access[a] = "live" /\ t.access[a] # "live"},
   credentials |-> {c \in DOMAIN s.cred : s.cred[c].state = "on" /\ t.cred[c].state # "on"}]
Announced(kind, x, r) ==
  LET told == ResourceDeletionImpact(db, kind, x)
      done == Affected(db, r.s)
  IN  r.ok => \A k \in DOMAIN done : done[k] \subseteq told[k]
DeletionIsAnnounced ==
  /\ \A n \in Nodes : Announced("node", n, SoftDeleteNode(db, n))
  /\ \A p \in Proxies : Announced("proxy", p, SoftDeleteProxy(db, p))

\* A credential that was switched off or archived never works again with the
\* secret it had (docs/architecture.md: restoring a revoked credential always
\* mints a fresh secret).
RevokedStaysDead ==
  [][\A c \in Users \X Proxies :
       /\ db'.cred[c].secret >= db.cred[c].secret
       /\ db.cred[c].state # "on" /\ db'.cred[c].state = "on" => db'.cred[c].secret > db.cred[c].secret]_vars

\* Whatever takes an access away from a user (a revocation, a checkbox, the
\* deletion of the path, of a proxy or node under it or of the user) leaves
\* the user only credentials that an access still needs
\* (disableUnusedProxyCredentialsTx, in the transaction that revokes).
LastConsumerDisables ==
  [][\A u \in Users :
       (\E q \in PathIds : db.access[<<u, q>>] = "live" /\ db'.access[<<u, q>>] # "live")
         => \A p \in Proxies : db'.cred[<<u, p>>].state = "on" =>
              p \in HopProxies(db', ListActivePathAccessesByUserID(db', u))]_vars
================================================================================
