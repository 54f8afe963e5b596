----------------------------- MODULE FleetRegistry -----------------------------
(***************************************************************************)
(* The registry of nodes, node tokens and proxies: what a name refers to,  *)
(* who authenticates as a node and which listeners a node has              *)
(* (src/internal/server/db/nodes.go, node_tokens.go, proxies.go and the    *)
(* admin and agent handlers that call them).                               *)
(*                                                                         *)
(* A handler reads the registry, then writes it in a later statement or    *)
(* transaction: what it read waits in requests while others run.  A reader *)
(* that ends without a match is an error answer, and a client may go away  *)
(* between two statements.                                                 *)
(***************************************************************************)
EXTENDS Naturals, FiniteSets

CONSTANTS NodeIDs, TokenIDs, ProxyIDs,   \* identifiers; never reused
          Names, ProxyNames,             \* names of nodes and of proxies
          Listeners,                     \* [address, transport, settings]
          Requests,                      \* slots for requests in flight
          MaxRequests,                   \* bound: requests in a behaviour
          None

Statuses == {"pending", "active", "disabled", "degraded"}
NodeRows == [name : Names, status : Statuses, deleted : BOOLEAN]
TokenRows == [node : NodeIDs, revoked : BOOLEAN]
ProxyRows == [node : NodeIDs, name : ProxyNames, listener : Listeners, deleted : BOOLEAN]

ASSUME RegistryConstants ==
  /\ None \notin NodeIDs \cup TokenIDs \cup ProxyIDs \cup Names \cup ProxyNames
  /\ None \notin NodeRows /\ None \notin TokenRows /\ None \notin ProxyRows
  /\ NodeIDs \cap Names = {} /\ ProxyIDs \cap ProxyNames = {}
  /\ MaxRequests \in Nat

\* What a request may call a node or a proxy by: an identifier, a name or an alias.
NodeRefs == Names \cup NodeIDs
ProxyRefs == ProxyNames \cup ProxyIDs

VARIABLES nodes,         \* nodes: [name, status, deleted] or None
          aliases,       \* node_name_aliases: name |-> node
          tokens,        \* node_tokens: [node, revoked] or None
          latest,        \* node_latest_heartbeats: node |-> the node whose agent sent it
          proxies,       \* proxies: [node, name, listener, deleted] or None
          proxyAliases,  \* proxy_name_aliases: name |-> proxy
          requests,      \* what each request in flight has still to do
          started        \* requests so far

nodeVars == <<nodes, aliases, tokens, latest>>
proxyVars == <<proxies, proxyAliases>>
vars == <<nodeVars, proxyVars, requests, started>>

----------------------------------------------------------------------------
(* Names *)

Live(n) == nodes[n] # None /\ ~nodes[n].deleted
LiveProxy(p) == proxies[p] # None /\ ~proxies[p].deleted

\* node_name_aliases, joined.
Aliased(ref, n) == ref \in Names /\ aliases[ref] = n
AliasedProxy(ref, p) == ref \in ProxyNames /\ proxyAliases[ref] = p

\* The live nodes that an identifier, a name or an alias refers to.  The
\* statement takes one row.
resolveNode(ref) == {n \in NodeIDs : Live(n) /\ (n = ref \/ nodes[n].name = ref \/ Aliased(ref, n))}

\* Mutant: the name of a deleted node still admits its tokens.
TokenOwnersForgetful(ref) ==
  {n \in NodeIDs : nodes[n] # None /\ (n = ref \/ nodes[n].name = ref \/ Aliased(ref, n))}

\* The nodes whose tokens a reference admits: an identifier or an alias is
\* followed even to a deleted node, a name is not.
TokenOwners(ref) ==
  {n \in NodeIDs : nodes[n] # None /\ (n = ref \/ (nodes[n].name = ref /\ ~nodes[n].deleted) \/ Aliased(ref, n))}
GetActiveNodeTokens(ref) ==
  {t \in TokenIDs : tokens[t] # None /\ ~tokens[t].revoked /\ tokens[t].node \in TokenOwners(ref)}

GetProxyByNodeAndName(n, ref) ==
  {p \in ProxyIDs : LiveProxy(p) /\ proxies[p].node = n /\ (proxies[p].name = ref \/ AliasedProxy(ref, p))}
\* A proxy is looked up on a live node, by its identifier or by name.
resolveProxy(n, ref) ==
  IF Live(n) THEN {p \in ProxyIDs : p = ref /\ LiveProxy(p) /\ proxies[p].node = n} \cup GetProxyByNodeAndName(n, ref)
  ELSE {}
\* GetProxyIDByNameOrAlias: proxy names are global.
ProxyOwners(ref) == {p \in ProxyIDs : LiveProxy(p) /\ (proxies[p].name = ref \/ AliasedProxy(ref, p))}

----------------------------------------------------------------------------
(* Statements *)

CreateNodeRow(n, name) == [nodes EXCEPT ![n] = [name |-> name, status |-> "active", deleted |-> FALSE]]
SetNodeStatusByID(n, status) == [nodes EXCEPT ![n].status = status]
RenameNodeByID(ns, n, name) == [ns EXCEPT ![n].name = name]
ArchiveNodeRow(n) == [nodes EXCEPT ![n].deleted = TRUE, ![n].status = "disabled"]
CreateNodeNameAlias(as, alias, n) == [as EXCEPT ![alias] = n]
DeleteNodeNameAlias(as, alias, n) == [as EXCEPT ![alias] = IF @ = n THEN None ELSE @]
DeleteNodeAliases(n) == [a \in Names |-> IF aliases[a] = n THEN None ELSE aliases[a]]
UpsertNodeLatestHeartbeat(n, agent) == [latest EXCEPT ![n] = agent]
ArchiveNodeProxies(n) ==
  [p \in ProxyIDs |-> IF proxies[p] # None /\ proxies[p].node = n THEN [proxies[p] EXCEPT !.deleted = TRUE] ELSE proxies[p]]
\* The aliases of every archived proxy of ps.
DeleteArchivedProxyAliases(ps) ==
  [a \in ProxyNames |-> IF proxyAliases[a] # None /\ ps[proxyAliases[a]].deleted THEN None ELSE proxyAliases[a]]
CreateProxyNameAlias(as, alias, p) == [as EXCEPT ![alias] = p]
DeleteProxyNameAlias(as, alias, p) == [as EXCEPT ![alias] = IF @ = p THEN None ELSE @]
DeleteProxyAliases(p) == [a \in ProxyNames |-> IF proxyAliases[a] = p THEN None ELSE proxyAliases[a]]
RenameProxyByID(ps, p, name) == [ps EXCEPT ![p].name = name]

----------------------------------------------------------------------------
(* Requests *)

Start(r, request) ==
  /\ requests[r] = None /\ started < MaxRequests
  /\ requests' = [requests EXCEPT ![r] = request]
  /\ started' = started + 1
At(r, op) == requests[r] # None /\ requests[r].op = op
Proceed(r, request) == requests' = [requests EXCEPT ![r] = request] /\ UNCHANGED started
End(r) == Proceed(r, None)
\* A request of a single transaction.
Once == started < MaxRequests /\ started' = started + 1 /\ UNCHANGED requests

\* The client goes away, or the server stops, between two statements.
Abandon(r) == requests[r] # None /\ End(r) /\ UNCHANGED <<nodeVars, proxyVars>>

----------------------------------------------------------------------------
(* Enrolment *)

\* CreateNode asks whether the name is free, outside a transaction ...
CreateNode(r, name, bootstrap) ==
  /\ resolveNode(name) = {}
  /\ Start(r, [op |-> "insert_node", name |-> name, bootstrap |-> bootstrap])
  /\ UNCHANGED <<nodeVars, proxyVars>>

\* ... and inserts an active node, unless a live node took the name meanwhile
\* (idx_nodes_active_name).  Enrolment then makes it pending.
InsertNode(r) ==
  /\ At(r, "insert_node")
  /\ LET req == requests[r]
     IN  IF \E n \in NodeIDs : Live(n) /\ nodes[n].name = req.name
         THEN End(r) /\ UNCHANGED nodeVars
         ELSE \E n \in NodeIDs :
                /\ nodes[n] = None
                /\ nodes' = CreateNodeRow(n, req.name)
                /\ Proceed(r, IF req.bootstrap THEN [op |-> "set_pending", name |-> req.name] ELSE None)
                /\ UNCHANGED <<aliases, tokens, latest>>
  /\ UNCHANGED proxyVars

\* SetNodeStatus(name, "pending") of enrolment and re-enrolment.
SetNodeStatus(r) ==
  /\ At(r, "set_pending")
  /\ LET name == requests[r].name
     IN  IF resolveNode(name) = {}
         THEN End(r) /\ UNCHANGED nodes
         ELSE \E n \in resolveNode(name) :
                /\ nodes' = SetNodeStatusByID(n, "pending")
                /\ Proceed(r, [op |-> "issue", name |-> name])
  /\ UNCHANGED <<aliases, tokens, latest, proxyVars>>

\* IssueNodeToken reads the node and refuses a disabled one ...
IssueNodeToken(r) ==
  /\ At(r, "issue")
  /\ LET issuable == {n \in resolveNode(requests[r].name) : nodes[n].status # "disabled"}
     IN  IF issuable = {} THEN End(r)
         ELSE \E n \in issuable : Proceed(r, [op |-> "create_token", node |-> n])
  /\ UNCHANGED <<nodeVars, proxyVars>>

\* ... and inserts the token later, whatever became of the node.
CreateNodeToken(r) ==
  /\ At(r, "create_token")
  /\ \E t \in TokenIDs :
       /\ tokens[t] = None
       /\ tokens' = [tokens EXCEPT ![t] = [node |-> requests[r].node, revoked |-> FALSE]]
  /\ End(r)
  /\ UNCHANGED <<nodes, aliases, latest, proxyVars>>

\* Only a pending node, or a disabled one without a token, is enrolled again.
Reenroll(r, ref) ==
  /\ \E n \in resolveNode(ref) :
       /\ \/ nodes[n].status = "pending"
          \/ nodes[n].status = "disabled" /\ GetActiveNodeTokens(nodes[n].name) = {}
       /\ Start(r, [op |-> "revoke", name |-> nodes[n].name, pending |-> nodes[n].status = "pending"])
  /\ UNCHANGED <<nodeVars, proxyVars>>

Revoked(n) ==
  [t \in TokenIDs |-> IF tokens[t] # None /\ tokens[t].node = n THEN [tokens[t] EXCEPT !.revoked = TRUE] ELSE tokens[t]]

RevokeNodeTokens(r) ==
  /\ At(r, "revoke")
  /\ LET req == requests[r]
     IN  IF resolveNode(req.name) = {}
         THEN End(r) /\ UNCHANGED tokens
         ELSE \E n \in resolveNode(req.name) :
                /\ tokens' = Revoked(n)
                /\ Proceed(r, [op |-> IF req.pending THEN "issue" ELSE "set_pending", name |-> req.name])
  /\ UNCHANGED <<nodes, aliases, latest, proxyVars>>

----------------------------------------------------------------------------
(* The agent's heartbeat *)

\* The token must be one the reference admits; the handler goes on with the
\* canonical name of the token's node.
AuthenticateNodeToken(ref, t) == t \in GetActiveNodeTokens(ref)
authenticateNode(r, ref, t) ==
  /\ AuthenticateNodeToken(ref, t)
  /\ Start(r, [op |-> "heartbeat", name |-> nodes[tokens[t].node].name, agent |-> tokens[t].node])
  /\ UNCHANGED <<nodeVars, proxyVars>>

\* RecordHeartbeat resolves that name again ...
GetHeartbeatNode(r) ==
  /\ At(r, "heartbeat")
  /\ LET req == requests[r]
     IN  IF resolveNode(req.name) = {} THEN End(r)
         ELSE \E n \in resolveNode(req.name) :
                Proceed(r, [op |-> "record", node |-> n, name |-> nodes[n].name,
                            pending |-> nodes[n].status = "pending", agent |-> req.agent])
  /\ UNCHANGED <<nodeVars, proxyVars>>

\* PromotePendingNodeToActive, by name.
PromotePendingNodeToActive(name) ==
  [n \in NodeIDs |-> IF Live(n) /\ nodes[n].name = name /\ nodes[n].status = "pending"
                     THEN [nodes[n] EXCEPT !.status = "active"] ELSE nodes[n]]

\* ... and, in a transaction, replaces the node's latest heartbeat and
\* promotes a node that was pending when it was read.
RecordHeartbeat(r) ==
  /\ At(r, "record")
  /\ LET req == requests[r]
     IN  /\ latest' = UpsertNodeLatestHeartbeat(req.node, req.agent)
         /\ nodes' = IF req.pending THEN PromotePendingNodeToActive(req.name) ELSE nodes
  /\ End(r)
  /\ UNCHANGED <<aliases, tokens, proxyVars>>

----------------------------------------------------------------------------
(* Changing and deleting nodes *)

\* The handler fills what the request leaves out from the node as it reads it.
UpdateNode(r, ref, name, status) ==
  /\ \E n \in resolveNode(ref) :
       Start(r, [op |-> "write_node", ref |-> ref,
                 name |-> IF name = None THEN nodes[n].name ELSE name,
                 status |-> IF status = None THEN nodes[n].status ELSE status])
  /\ UNCHANGED <<nodeVars, proxyVars>>

\* renameNodeTx: the new name must be free or the node's own alias; the old
\* one becomes an alias, which fails when it is already one (the primary key).
Renamable(n, name) ==
  \/ nodes[n].name = name
  \/ resolveNode(name) \subseteq {n} /\ aliases[nodes[n].name] = None
renameNodeTx(n, name) ==
  IF nodes[n].name = name THEN aliases
  ELSE CreateNodeNameAlias(DeleteNodeNameAlias(aliases, name, n), nodes[n].name, n)

\* UpdateNodeByName resolves the reference again in its transaction.
UpdateNodeByName(r) ==
  /\ At(r, "write_node")
  /\ LET req == requests[r]
     IN  \/ /\ \A n \in resolveNode(req.ref) : ~Renamable(n, req.name)
            /\ UNCHANGED <<nodes, aliases>>
         \/ \E n \in resolveNode(req.ref) :
              /\ Renamable(n, req.name)
              /\ aliases' = renameNodeTx(n, req.name)
              /\ nodes' = RenameNodeByID(SetNodeStatusByID(n, req.status), n, req.name)
  /\ End(r)
  /\ UNCHANGED <<tokens, latest, proxyVars>>

\* The node, its aliases, its proxies and their aliases and its tokens, in one
\* transaction.
SoftDeleteNode(ref) ==
  /\ Once
  /\ \E n \in resolveNode(ref) :
       /\ nodes' = ArchiveNodeRow(n)
       /\ aliases' = DeleteNodeAliases(n)
       /\ proxies' = ArchiveNodeProxies(n)
       /\ proxyAliases' = DeleteArchivedProxyAliases(proxies')
       /\ tokens' = Revoked(n)
  /\ UNCHANGED latest

----------------------------------------------------------------------------
(* Proxies *)

transportsOverlap(l, k) == l.transport = "tcp_udp" \/ k.transport = "tcp_udp" \/ l.transport = k.transport
compatibleSharedListener(l, k) == l.transport = k.transport /\ l.settings = k.settings
Conflict(l, k) == l.address = k.address /\ transportsOverlap(l, k) /\ ~compatibleSharedListener(l, k)

\* validateProxyListenerTx compares with the proxies of the node of this name.
ListProxiesByNodeName(name) ==
  {p \in ProxyIDs : LiveProxy(p) /\ Live(proxies[p].node) /\ nodes[proxies[p].node].name = name}
validateProxyListenerTx(nodeName, listener, ignore) ==
  \A p \in ListProxiesByNodeName(nodeName) \ {ignore} : ~Conflict(listener, proxies[p].listener)

CreateProxy(r, ref, name, listener) ==
  /\ \E n \in resolveNode(ref) :
       Start(r, [op |-> "insert_proxy", node |-> n, nodeName |-> nodes[n].name, name |-> name, listener |-> listener])
  /\ UNCHANGED <<nodeVars, proxyVars>>

InsertProxy(r) ==
  /\ At(r, "insert_proxy")
  /\ LET req == requests[r]
     IN  IF validateProxyListenerTx(req.nodeName, req.listener, None) /\ ProxyOwners(req.name) = {}
         THEN \E p \in ProxyIDs :
                /\ proxies[p] = None
                /\ proxies' = [proxies EXCEPT ![p] = [node |-> req.node, name |-> req.name,
                                                      listener |-> req.listener, deleted |-> FALSE]]
         ELSE UNCHANGED proxies
  /\ End(r)
  /\ UNCHANGED <<nodeVars, proxyAliases>>

\* The handler and UpdateProxyByName read the node and the proxy ...
UpdateProxy(r, nodeRef, ref, name, listener) ==
  /\ \E n \in resolveNode(nodeRef) : \E p \in resolveProxy(n, ref) :
       Start(r, [op |-> "write_proxy", node |-> n, nodeName |-> nodes[n].name, ref |-> ref, proxy |-> p,
                 was |-> proxies[p].name,
                 name |-> IF name = None THEN proxies[p].name ELSE name,
                 listener |-> IF listener = None THEN proxies[p].listener ELSE listener])
  /\ UNCHANGED <<nodeVars, proxyVars>>

\* Mutant: the alias of a proxy is written over (INSERT OR REPLACE).
RenamableProxyReplacing(p, was, name) == was = name \/ ProxyOwners(name) \subseteq {p}

\* renameProxyTx, from the name read before the transaction: the new name is
\* free or refers to the proxy itself, no other proxy has it
\* (idx_proxies_name), and the old one is not an alias yet.
RenamableProxy(p, was, name) ==
  \/ was = name
  \/ /\ ProxyOwners(name) # {} => p \in ProxyOwners(name)
     /\ \A q \in ProxyIDs : LiveProxy(q) /\ proxies[q].name = name => q = p
     /\ proxyAliases[was] = None
renameProxyTx(p, was, name) ==
  IF was = name THEN proxyAliases
  ELSE CreateProxyNameAlias(DeleteProxyNameAlias(proxyAliases, name, p), was, p)

\* ... and the transaction goes on only if the reference still means that proxy.
UpdateProxyByName(r) ==
  /\ At(r, "write_proxy")
  /\ LET req == requests[r]
         found == resolveProxy(req.node, req.ref)
         valid == /\ validateProxyListenerTx(req.nodeName, req.listener, req.proxy)
                  /\ RenamableProxy(req.proxy, req.was, req.name)
         ambiguous == req.was # req.name /\ ProxyOwners(req.name) \ {req.proxy} # {}
     IN  \/ /\ valid => ambiguous \/ found \ {req.proxy} # {} \/ found = {}
            /\ UNCHANGED proxyVars
         \/ /\ req.proxy \in found /\ valid
            /\ LET ps == [proxies EXCEPT ![req.proxy].listener = req.listener]
               IN  proxies' = IF req.was = req.name THEN ps ELSE RenameProxyByID(ps, req.proxy, req.name)
            /\ proxyAliases' = renameProxyTx(req.proxy, req.was, req.name)
  /\ End(r)
  /\ UNCHANGED nodeVars

SoftDeleteProxy(nodeRef, ref) ==
  /\ Once
  /\ \E n \in resolveNode(nodeRef) : \E p \in resolveProxy(n, ref) :
       /\ proxies' = [proxies EXCEPT ![p].deleted = TRUE]
       /\ proxyAliases' = DeleteProxyAliases(p)
  /\ UNCHANGED nodeVars

\* RestoreProxy, by ID: the listener is checked again and the name only
\* against the other names (idx_proxies_name).
RestoreProxy(p) ==
  /\ Once
  /\ proxies[p] # None /\ proxies[p].deleted
  /\ validateProxyListenerTx(nodes[proxies[p].node].name, proxies[p].listener, p)
  /\ \A q \in ProxyIDs : LiveProxy(q) => proxies[q].name # proxies[p].name
  /\ proxies' = [proxies EXCEPT ![p].deleted = FALSE]
  /\ UNCHANGED <<nodeVars, proxyAliases>>

----------------------------------------------------------------------------
Init ==
  /\ nodes = [n \in NodeIDs |-> None]
  /\ aliases = [a \in Names |-> None]
  /\ tokens = [t \in TokenIDs |-> None]
  /\ latest = [n \in NodeIDs |-> None]
  /\ proxies = [p \in ProxyIDs |-> None]
  /\ proxyAliases = [a \in ProxyNames |-> None]
  /\ requests = [r \in Requests |-> None]
  /\ started = 0

AdminRequest(r) ==
  \/ \E name \in Names, bootstrap \in BOOLEAN : CreateNode(r, name, bootstrap)
  \/ \E ref \in NodeRefs : Reenroll(r, ref)
  \/ \E ref \in NodeRefs, name \in Names \cup {None}, status \in {"active", "disabled", None} :
       UpdateNode(r, ref, name, status)
  \/ \E ref \in NodeRefs, name \in ProxyNames, l \in Listeners : CreateProxy(r, ref, name, l)
  \/ \E ref \in NodeRefs, p \in ProxyRefs, name \in ProxyNames \cup {None}, l \in Listeners \cup {None} :
       UpdateProxy(r, ref, p, name, l)

Continue(r) ==
  \/ InsertNode(r) \/ SetNodeStatus(r) \/ IssueNodeToken(r) \/ CreateNodeToken(r) \/ RevokeNodeTokens(r)
  \/ GetHeartbeatNode(r) \/ RecordHeartbeat(r) \/ UpdateNodeByName(r)
  \/ InsertProxy(r) \/ UpdateProxyByName(r)

Next ==
  \/ \E r \in Requests : AdminRequest(r) \/ Continue(r) \/ Abandon(r)
  \/ \E r \in Requests, ref \in NodeRefs, t \in TokenIDs : authenticateNode(r, ref, t)
  \/ \E ref \in NodeRefs : SoftDeleteNode(ref)
  \/ \E ref \in NodeRefs, p \in ProxyRefs : SoftDeleteProxy(ref, p)
  \/ \E p \in ProxyIDs : RestoreProxy(p)

Spec == Init /\ [][Next]_vars

----------------------------------------------------------------------------
(* Properties *)

\* Tables hold rows of their columns, and rows only refer to rows.
FleetTypeOK ==
  /\ \A n \in NodeIDs : nodes[n] # None => nodes[n] \in [name : Names, status : Statuses, deleted : BOOLEAN]
  /\ \A a \in Names : aliases[a] # None => Live(aliases[a])
  /\ \A t \in TokenIDs : tokens[t] # None => nodes[tokens[t].node] # None
  /\ \A p \in ProxyIDs : proxies[p] # None => nodes[proxies[p].node] # None
  /\ \A a \in ProxyNames : proxyAliases[a] # None => LiveProxy(proxyAliases[a])
  /\ \A n \in NodeIDs : latest[n] \in NodeIDs \cup {None}
  /\ started \in 0..MaxRequests

\* Deleting a node cuts its agent off: no name or alias admits a token of a
\* deleted node, and its identifier admits none that existed when it was
\* deleted, only one whose issuing had read the node before and inserted the
\* token after (IssueNodeToken).
OnlyLateTokens ==
  \A ref \in NodeRefs : \A t \in GetActiveNodeTokens(ref)' :
    nodes'[tokens'[t].node].deleted =>
      /\ ref \in NodeIDs
      /\ tokens[t] = None \/ (nodes[tokens[t].node].deleted /\ t \in GetActiveNodeTokens(ref))
DeletionCutsOff == [][OnlyLateTokens]_vars

\* "Decommission also revokes tokens, cutting off the daemon."
DeletedNeverAuthenticates ==
  \A ref \in NodeRefs : \A t \in GetActiveNodeTokens(ref) : ~nodes[tokens[t].node].deleted

\* An update under way whose proxy no longer goes by the name the update read:
\* it was renamed, deleted (which drops its aliases) and restored meanwhile.
Overtaken(r) == At(r, "write_proxy") /\ requests[r].proxy \notin ProxyOwners(requests[r].was)

\* Renames retain aliases: a reference that finds a node or a proxy finds it
\* as long as it lives, however renames of several requests interleave, but
\* for an overtaken update, which makes an alias of the name it had read.
NodeReferencesKept == \A ref \in Names : \A n \in resolveNode(ref) : Live(n)' => n \in resolveNode(ref)'
ProxyReferencesKept ==
  \A ref \in ProxyNames : \A p \in ProxyOwners(ref) :
    LiveProxy(p)' =>
      \/ p \in ProxyOwners(ref)'
      \/ \E r \in Requests : Overtaken(r) /\ requests[r].proxy = p /\ requests'[r] = None
ReferencesSurvive == [][NodeReferencesKept /\ ProxyReferencesKept]_vars

\* "Canonical node/proxy renames retain aliases so old references resolve."
ReferencesAlwaysSurvive ==
  [][\A ref \in ProxyNames : \A p \in ProxyOwners(ref) : LiveProxy(p)' => p \in ProxyOwners(ref)']_vars

\* A heartbeat, however late, never puts a disabled node back to work: only an
\* administrator's update or re-enrolment does.
DisabledStays ==
  \A r \in Requests : At(r, "record") /\ requests'[r] = None =>
    \A n \in NodeIDs : nodes[n] # None /\ nodes[n].status = "disabled" => nodes'[n] = nodes[n]
HeartbeatNeverReenables == [][DisabledStays]_vars

\* Listeners of a node's live proxies do not conflict, as validateProxyListenerTx promises.
ListenersDisjoint ==
  \A p, q \in ProxyIDs :
    p # q /\ LiveProxy(p) /\ LiveProxy(q) /\ proxies[p].node = proxies[q].node
      => ~Conflict(proxies[p].listener, proxies[q].listener)

\* A reference to a proxy means one proxy.
ProxyReferencesUnambiguous == \A ref \in ProxyNames : Cardinality(ProxyOwners(ref)) <= 1

\* A replacement of the same name inherits nothing: a node's latest heartbeat
\* is one its own agent sent.
HeartbeatIsOwn == \A n \in NodeIDs : latest[n] \in {None, n}

================================================================================
