------------------------------ MODULE AccessStore ------------------------------
(***************************************************************************)
(* The tables behind access control and the statements that read and       *)
(* write them (src/internal/server/store/sqlc).  A store is a record s     *)
(* with one field per table; a read is an operator of s, a write returns   *)
(* the next store.  The functions of src/internal/server/db that compose   *)
(* the statements are in AccessControl.                                    *)
(*                                                                         *)
(* Rows that no statement tells apart are one value:                       *)
(*   node, user, proxy   "deleted" when deleted_at is set, else the status *)
(*                       (a deleted row comes back disabled);              *)
(*   access              "live" (enabled, not deleted) or "archived";      *)
(*   cred                "on", "off" or "archived", and a secret: the      *)
(*                       number of secrets minted for that row;            *)
(*   endpoint            its key is the pair (proxy, host), as the UNIQUE  *)
(*                       constraint of the table has it.                   *)
(* user_path_group_grants is left out: the handler answers 410 to the two  *)
(* operations that write it and a migration emptied it.                    *)
(***************************************************************************)
EXTENDS Naturals, FiniteSets, Sequences

CONSTANTS Nodes, Proxies, Hosts, Users, Groups,
          HomeNode,       \* [Proxies -> Nodes]: proxies.node_id never changes
          HostOrder,      \* [Nodes -> Seq(Hosts)]: the hosts a node may list
          DirectPath,     \* id of the managed path of <<proxy, host>>
          CustomPaths,    \* ids the operator's own paths draw from
          None

PathIds == {DirectPath[e] : e \in DOMAIN DirectPath} \cup CustomPaths
HostNode(h) == CHOOSE n \in Nodes : \E i \in DOMAIN HostOrder[n] : HostOrder[n][i] = h

\* A host is listed by one node, a node lists at least one host, and every
\* proxy has a managed path for each host its node may list.
ASSUME AccessStoreAssumption ==
  /\ HomeNode \in [Proxies -> Nodes]
  /\ HostOrder \in [Nodes -> Seq(Hosts) \ {<<>>}]
  /\ \A h \in Hosts : \E n \in Nodes : \E i \in DOMAIN HostOrder[n] : HostOrder[n][i] = h
  /\ \A n, m \in Nodes : \A i \in DOMAIN HostOrder[n], j \in DOMAIN HostOrder[m] :
       HostOrder[n][i] = HostOrder[m][j] => n = m
  /\ DOMAIN DirectPath = {e \in Proxies \X Hosts : HostNode(e[2]) = HomeNode[e[1]]}
  /\ CustomPaths \cap {DirectPath[e] : e \in DOMAIN DirectPath} = {}
  /\ IsFiniteSet(Proxies) /\ IsFiniteSet(Hosts) /\ IsFiniteSet(Users) /\ IsFiniteSet(PathIds)

----------------------------------------------------------------------------
\* proxy_details: the row of a proxy and of its node are both undeleted.
GetProxyByID(s, p) == s.proxy[p] \in {"on", "off"} /\ s.node[HomeNode[p]] # "deleted"
GetNode(s, n) == s.node[n] # "deleted"
GetProxyUser(s, u) == s.user[u] \in {"active", "disabled"}
Retired(s, p) == s.proxy[p] # "absent" /\ ~GetProxyByID(s, p)

\* The rows of users, proxies and nodes.  A user or proxy that is restored
\* comes back disabled; a node is never restored.
InsertProxyUser(s, u) == [s EXCEPT !.user[u] = "active"]
SetProxyUserStatus(s, u, status) == [s EXCEPT !.user[u] = status]
ArchiveProxyUser(s, u) == [s EXCEPT !.user[u] = "deleted"]
RestoreProxyUserRow(s, u) == [s EXCEPT !.user[u] = "disabled"]
InsertProxyRow(s, p) == [s EXCEPT !.proxy[p] = "on"]
UpdateProxyRow(s, p, enabled) == [s EXCEPT !.proxy[p] = enabled]
ArchiveProxyRow(s, p) == [s EXCEPT !.proxy[p] = "deleted"]
RestoreProxyRow(s, p) == [s EXCEPT !.proxy[p] = "off"]
ArchiveNodeRow(s, n) == [s EXCEPT !.node[n] = "deleted"]
UpdateNodeRow(s, n, status, hosts) ==
  [s EXCEPT !.node[n] = status,
            !.host = [h \in Hosts |-> IF HostNode(h) = n THEN hosts[h] ELSE @[h]]]

GetPathByID(s, q) == s.path[q] # None
ListPaths(s) == {q \in PathIds : s.path[q] # None}
EndpointOf(s, q) == <<s.path[q].proxy, s.path[q].host>>
ListPathsByEndpointID(s, e) == {q \in ListPaths(s) : EndpointOf(s, q) = e}
ListEndpointsByProxyID(s, p) == {e \in {p} \X Hosts : s.endpoint[e] # "none"}
CountEndpointsByHostID(s, h) == Cardinality({p \in Proxies : s.endpoint[<<p, h>>] # "none"})

SetEndpoint(s, e, v) == [s EXCEPT !.endpoint[e] = v]
CreateEndpoint(s, e) == SetEndpoint(s, e, "on")
DeleteEndpoint(s, e) == SetEndpoint(s, e, "none")
RestoreProxyEndpoints(s, p) ==
  [s EXCEPT !.endpoint = [e \in DOMAIN @ |->
     IF e[1] = p /\ @[e] = "off" THEN "on" ELSE @[e]]]

WritePath(s, q, row) == [s EXCEPT !.path[q] = row]
DrawPathId(s, q) == [s EXCEPT !.born = @ \cup {q}]
InsertPath(s, q, row) == WritePath(DrawPathId(s, q), q, row)
\* The keys of the table: the id is free, the endpoint and the dialer exist.
InsertableBySchema(s, q, row) ==
  /\ ~GetPathByID(s, q)
  /\ s.endpoint[<<row.proxy, row.host>>] # "none"
  /\ row.dialer # None => GetPathByID(s, row.dialer)
SetPathsEnabled(s, qs, b) ==
  [s EXCEPT !.path = [q \in PathIds |-> IF q \in qs THEN [@[q] EXCEPT !.enabled = b] ELSE @[q]]]
\* dialer_path_id is ON DELETE RESTRICT; accesses, direct grants and group
\* memberships are ON DELETE CASCADE.
DeletableBySchema(s, q) == \A r \in ListPaths(s) : s.path[r].dialer # q
DeletePathRow(s, q) ==
  [s EXCEPT !.path[q] = None,
            !.access = [x \in DOMAIN @ |-> IF x[2] = q THEN "none" ELSE @[x]],
            !.grant = {x \in @ : x[2] # q},
            !.group = [g \in Groups |-> [s.group[g] EXCEPT !.members = @ \ {q}]]]

----------------------------------------------------------------------------
\* path_accesses and direct_path_grants
RestorePathAccess(s, u, q) == [s EXCEPT !.access[<<u, q>>] = "live"]
Archive(v) == IF v = "live" THEN "archived" ELSE v
SoftDeletePathAccess(s, u, qs) ==
  [s EXCEPT !.access = [x \in DOMAIN @ |->
     IF x[1] = u /\ x[2] \in qs THEN Archive(@[x]) ELSE @[x]]]
ArchivePathAccesses(s, qs) ==
  [s EXCEPT !.access = [x \in DOMAIN @ |-> IF x[2] \in qs THEN Archive(@[x]) ELSE @[x]]]
LiveAccesses(s, u) == {q \in PathIds : s.access[<<u, q>>] = "live"}
ListActivePathAccessesByUserID(s, u) ==
  {q \in LiveAccesses(s, u) : /\ s.path[q].enabled
                              /\ s.endpoint[EndpointOf(s, q)] = "on"
                              /\ GetProxyByID(s, s.path[q].proxy)}
ListUserNamesWithActivePathAccess(s) ==
  {u \in Users : /\ GetProxyUser(s, u)
                 /\ \E q \in LiveAccesses(s, u) : GetProxyByID(s, s.path[q].proxy)}
ListUserNamesByPathID(s, q) == {u \in Users : GetProxyUser(s, u) /\ q \in LiveAccesses(s, u)}

SetDirectPathGrant(s, u, q) == [s EXCEPT !.grant = @ \cup {<<u, q>>}]
DeleteDirectPathGrant(s, u, q) == [s EXCEPT !.grant = @ \ {<<u, q>>}]
RemoveDirectSources(s, us, qs) == [s EXCEPT !.grant = {x \in @ : x[1] \notin us /\ x[2] \notin qs}]
ListUserDesiredPathIDs(s, u) == {q \in PathIds : <<u, q>> \in s.grant}
HasManagedDirectGrantForProxyUser(s, u, p) ==
  \E q \in ListUserDesiredPathIDs(s, u) : s.path[q].managed /\ s.path[q].proxy = p

----------------------------------------------------------------------------
\* proxy_accesses: the credentials
MintSecret(c) == [state |-> "on", secret |-> c.secret + 1]
CreateProxyAccess(s, u, p) == [s EXCEPT !.cred[<<u, p>>] = MintSecret(@)]
\* Mutant: the row is enabled again with the secret it had.
RestoreProxyAccessOldSecret(s, u, p) == [s EXCEPT !.cred[<<u, p>>].state = "on"]
RestoreProxyAccess(s, u, p) == [s EXCEPT !.cred[<<u, p>>] = MintSecret(@)]
RotateProxyAccessCredential(s, u, ps) ==
  [s EXCEPT !.cred = [x \in DOMAIN s.cred |->
     IF x[1] = u /\ x[2] \in ps THEN [s.cred[x] EXCEPT !.secret = @ + 1] ELSE s.cred[x]]]
DisableProxyAccesses(s, u, ps) ==
  [s EXCEPT !.cred = [x \in DOMAIN @ |->
     IF x[1] = u /\ x[2] \in ps THEN [@[x] EXCEPT !.state = "off"] ELSE @[x]]]
ArchiveCredentials(s, xs) ==
  [s EXCEPT !.cred = [x \in DOMAIN @ |->
     IF x \in xs /\ @[x].state # "none" THEN [@[x] EXCEPT !.state = "archived"] ELSE @[x]]]
\* One row per user and proxy: those a user still has on live proxies.
ListProxyAccessesByUserName(s, u) ==
  {p \in Proxies : s.cred[<<u, p>>].state \in {"on", "off"} /\ GetProxyByID(s, p) /\ GetProxyUser(s, u)}
\* What a node's configuration is rendered from: every switch is on.
ListProxyAccessesByNodeName(s, n) ==
  {x \in Users \X Proxies :
     /\ HomeNode[x[2]] = n
     /\ s.cred[x].state = "on"
     /\ s.user[x[1]] = "active"
     /\ s.node[n] = "active"
     /\ s.proxy[x[2]] = "on"
     /\ s.binding[<<x[1], n>>] = "on"}

\* What a client of one node is shown.
ListProxyAccessesByUserNode(s, u, n) ==
  {p \in Proxies :
     /\ HomeNode[p] = n
     /\ s.user[u] = "active"
     /\ s.node[n] = "active"
     /\ s.cred[<<u, p>>].state = "on"
     /\ s.binding[<<u, n>>] = "on"
     /\ s.proxy[p] = "on"}
GetProxyAccessByIDs(s, u, p) == s.cred[<<u, p>>]

GetUserNodeBinding(s, u, n) == s.binding[<<u, n>>]
UpsertUserNodeBinding(s, u, n) == [s EXCEPT !.binding[<<u, n>>] = "on"]

----------------------------------------------------------------------------
\* path_groups and path_group_members
GetPathGroup(s, g) == s.group[g].state = "live"
GroupRow(members, enabled, rev) ==
  [state |-> "live", enabled |-> enabled, revision |-> rev, members |-> members]
CreatePathGroup(s, g, members, enabled) == [s EXCEPT !.group[g] = GroupRow(members, enabled, 1)]
UpdatePathGroup(s, g, members, enabled) ==
  [s EXCEPT !.group[g] = GroupRow(members, enabled, @.revision + 1)]
ArchivePathGroup(s, g) ==
  [s EXCEPT !.group[g].state = "archived", !.group[g].enabled = FALSE, !.group[g].revision = @ + 1]
ListPathGroupMembers(s) == UNION {s.group[g].members : g \in Groups}
RemoveRetiredPathGroupSources(s, qs) ==
  [s EXCEPT !.group = [g \in Groups |-> [s.group[g] EXCEPT !.members = @ \ qs]]]
\* The authorization state a preview token binds: neither the hosts nor the
\* publication flags are part of it.
PathGroupPreviewState(s) ==
  <<s.group, s.grant, s.access,
    [q \in PathIds |-> IF s.path[q] = None THEN None ELSE
       [k \in {"proxy", "host", "dialer", "enabled", "visibility", "label"} |-> s.path[q][k]]],
    s.endpoint, s.proxy, s.node, s.user, s.binding, s.cred>>

----------------------------------------------------------------------------
\* Deletion: what a retired proxy or node drags along.
ListRetiredResourcePaths(s) ==
  LET base == {q \in ListPaths(s) : Retired(s, s.path[q].proxy)}
      closure[k \in 0..Cardinality(PathIds)] ==
        IF k = 0 THEN base
        ELSE closure[k - 1] \cup {q \in ListPaths(s) : s.path[q].dialer \in closure[k - 1]}
  IN  closure[Cardinality(PathIds)]
ListPathAccessUsersIncludingDeleted(s, qs) ==
  {u \in Users : \E q \in qs : q \in LiveAccesses(s, u)}
DisableRetiredNodeBindings(s) ==
  [s EXCEPT !.binding = [b \in DOMAIN @ |->
     IF @[b] = "on" /\ s.node[b[2]] = "deleted" THEN "off" ELSE @[b]]]
DisableRetiredEndpoints(s) ==
  [s EXCEPT !.endpoint = [e \in DOMAIN @ |->
     IF @[e] = "on" /\ Retired(s, e[1]) THEN "off" ELSE @[e]]]
ArchiveRetiredProxyCredentials(s) == ArchiveCredentials(s, {x \in Users \X Proxies : Retired(s, x[2])})
ArchiveNodeProxies(s, n) ==
  [s EXCEPT !.proxy = [p \in Proxies |->
     IF HomeNode[p] = n /\ @[p] # "absent" THEN "deleted" ELSE @[p]]]
================================================================================
