-------------------------- MODULE FleetRegistryProofs --------------------------
(***************************************************************************)
(* Proofs about FleetRegistry for every set of nodes, tokens, proxies,     *)
(* names and listeners, any number of requests in flight and every bound.  *)
(***************************************************************************)
EXTENDS FleetRegistry, TLAPS

(* What a request in flight remembers: names, and rows that exist.         *)
RequestOK(rows, q) ==
  /\ q.op \in {"insert_node", "set_pending", "issue", "revoke", "heartbeat"} => q.name \in Names
  /\ q.op \in {"heartbeat", "record"} => q.agent \in NodeIDs
  /\ q.op \in {"create_token", "record", "insert_proxy", "write_proxy"} => q.node \in NodeIDs /\ rows[q.node] # None
  /\ q.op = "write_node" => q.ref \in NodeRefs /\ q.name \in Names /\ q.status \in Statuses
  /\ q.op \in {"insert_proxy", "write_proxy"} => q.name \in ProxyNames /\ q.listener \in Listeners
  /\ q.op = "write_proxy" => q.ref \in ProxyRefs /\ q.was \in ProxyNames /\ q.proxy \in ProxyIDs

RequestsOK ==
  /\ requests = [r \in Requests |-> requests[r]]
  /\ \A r \in Requests : requests[r] # None => RequestOK(nodes, requests[r])

(* The tables, by column type.                                             *)
TablesOK ==
  /\ nodes \in [NodeIDs -> NodeRows \cup {None}]
  /\ aliases \in [Names -> NodeIDs \cup {None}]
  /\ tokens \in [TokenIDs -> TokenRows \cup {None}]
  /\ latest \in [NodeIDs -> NodeIDs \cup {None}]
  /\ proxies \in [ProxyIDs -> ProxyRows \cup {None}]
  /\ proxyAliases \in [ProxyNames -> ProxyIDs \cup {None}]
  /\ started \in 0..MaxRequests

(* Rows refer to rows; an alias refers to one that is not deleted.         *)
ReferencesOK ==
  /\ \A a \in Names : aliases[a] # None => Live(aliases[a])
  /\ \A t \in TokenIDs : tokens[t] # None => nodes[tokens[t].node] # None
  /\ \A p \in ProxyIDs : proxies[p] # None => nodes[proxies[p].node] # None
  /\ \A a \in ProxyNames : proxyAliases[a] # None => LiveProxy(proxyAliases[a])

FleetInv == TablesOK /\ ReferencesOK /\ RequestsOK

----------------------------------------------------------------------------
(* Statements *)

(* A live node has a row, and resolving a name or alias finds live nodes.  *)
LEMMA Resolved ==
  ASSUME TablesOK, NEW ref, NEW n \in resolveNode(ref)
  PROVE  n \in NodeIDs /\ Live(n) /\ nodes[n] # None /\ nodes[n] \in NodeRows
BY DEF resolveNode, Live, TablesOK

(* A request that goes on or ends disturbs no other request.               *)
LEMMA OneRequestMoves ==
  ASSUME RequestsOK, NEW r \in Requests, NEW q, requests' = [requests EXCEPT ![r] = q],
         q # None => RequestOK(nodes', q), \A n \in NodeIDs : nodes[n] # None => nodes'[n] # None
  PROVE  RequestsOK'
<1>1. requests' = [s \in Requests |-> requests'[s]]
  BY DEF RequestsOK
<1>2. ASSUME NEW s \in Requests, requests'[s] # None PROVE RequestOK(nodes', requests'[s])
  <2>1. CASE s = r
    BY <1>2, <2>1 DEF RequestsOK
  <2>2. CASE s # r
    <3>1. requests'[s] = requests[s] /\ RequestOK(nodes, requests[s])
      BY <1>2, <2>2 DEF RequestsOK
    <3> QED
      BY <3>1 DEF RequestOK
  <2> QED
    BY <2>1, <2>2
<1> QED
  BY <1>1, <1>2 DEF RequestsOK

(* Neither does a step that leaves the requests alone.                     *)
LEMMA NoRequestMoves ==
  ASSUME RequestsOK, requests' = requests, \A n \in NodeIDs : nodes[n] # None => nodes'[n] # None
  PROVE  RequestsOK'
BY DEF RequestsOK, RequestOK

(* Starting a request from tables that stay as they are.                   *)
LEMMA StartKeeps ==
  ASSUME FleetInv, NEW r \in Requests, NEW q, Start(r, q), RequestOK(nodes, q), UNCHANGED <<nodeVars, proxyVars>>
  PROVE  FleetInv'
<1>1. TablesOK' /\ ReferencesOK'
  BY RegistryConstants DEF FleetInv, TablesOK, ReferencesOK, Start, nodeVars, proxyVars, Live, LiveProxy
<1>2. RequestOK(nodes', q)
  BY DEF RequestOK, nodeVars
<1>3. RequestsOK'
  BY <1>2, OneRequestMoves DEF FleetInv, Start, nodeVars
<1> QED
  BY <1>1, <1>3 DEF FleetInv

(* Going on or ending with tables that stay as they are.                   *)
LEMMA ProceedKeeps ==
  ASSUME FleetInv, NEW r \in Requests, NEW q, Proceed(r, q), q # None => RequestOK(nodes, q), UNCHANGED <<nodeVars, proxyVars>>
  PROVE  FleetInv'
<1>1. TablesOK' /\ ReferencesOK'
  BY DEF FleetInv, TablesOK, ReferencesOK, Proceed, nodeVars, proxyVars, Live, LiveProxy
<1>2. q # None => RequestOK(nodes', q)
  BY DEF RequestOK, nodeVars
<1>3. RequestsOK'
  BY <1>2, OneRequestMoves DEF FleetInv, Proceed, nodeVars
<1> QED
  BY <1>1, <1>3 DEF FleetInv

(* A change of one node's row, and of nothing else a request refers to,    *)
(* that keeps the row a row and the node as alive as it was.               *)
LEMMA NodeRowChanges ==
  ASSUME FleetInv, NEW n \in NodeIDs, NEW row \in NodeRows, nodes' = [nodes EXCEPT ![n] = row],
         Live(n) => ~row.deleted, UNCHANGED <<aliases, tokens, latest, proxyVars>>
  PROVE  /\ nodes' \in [NodeIDs -> NodeRows \cup {None}] /\ ReferencesOK'
         /\ \A m \in NodeIDs : nodes[m] # None => nodes'[m] # None
<1>1. /\ nodes' \in [NodeIDs -> NodeRows \cup {None}]
      /\ \A m \in NodeIDs : Live(m) => Live(m)'
      /\ \A m \in NodeIDs : nodes[m] # None => nodes'[m] # None
  BY RegistryConstants DEF FleetInv, TablesOK, Live
<1>2. ReferencesOK'
  <2>1. \A a \in Names : aliases[a] # None => aliases[a] \in NodeIDs
    BY DEF FleetInv, TablesOK
  <2>2. \A t \in TokenIDs : tokens[t] # None => tokens[t].node \in NodeIDs
    BY DEF FleetInv, TablesOK, TokenRows
  <2>3. \A p \in ProxyIDs : proxies[p] # None => proxies[p].node \in NodeIDs
    BY DEF FleetInv, TablesOK, ProxyRows
  <2> QED
    BY <1>1, <2>1, <2>2, <2>3 DEF FleetInv, ReferencesOK, proxyVars, LiveProxy
<1> QED
  BY <1>1, <1>2

----------------------------------------------------------------------------
(* Enrolment *)

LEMMA CreateNodeKeeps ==
  ASSUME FleetInv, NEW r \in Requests, NEW name \in Names, NEW b \in BOOLEAN, CreateNode(r, name, b)
  PROVE  FleetInv'
<1> DEFINE q == [op |-> "insert_node", name |-> name, bootstrap |-> b]
<1>1. RequestOK(nodes, q)
  BY DEF RequestOK
<1> HIDE DEF q
<1> QED
  BY <1>1, StartKeeps DEF CreateNode, q

LEMMA InsertNodeKeeps ==
  ASSUME FleetInv, NEW r \in Requests, InsertNode(r)
  PROVE  FleetInv'
<1> DEFINE name == requests[r].name
<1>1. name \in Names /\ UNCHANGED proxyVars
  BY DEF InsertNode, At, FleetInv, RequestsOK, RequestOK
<1>2. CASE End(r) /\ UNCHANGED nodeVars
  BY <1>1, <1>2, ProceedKeeps DEF End
<1>3. ASSUME NEW n \in NodeIDs, nodes[n] = None, nodes' = CreateNodeRow(n, name),
             Proceed(r, IF requests[r].bootstrap THEN [op |-> "set_pending", name |-> name] ELSE None),
             UNCHANGED <<aliases, tokens, latest>>
      PROVE  FleetInv'
  <2> DEFINE row == [name |-> name, status |-> "active", deleted |-> FALSE]
             q == IF requests[r].bootstrap THEN [op |-> "set_pending", name |-> name] ELSE None
  <2>1. row \in NodeRows /\ ~row.deleted
    BY <1>1 DEF NodeRows, Statuses
  <2>2. nodes' = [nodes EXCEPT ![n] = row]
    BY <1>3 DEF CreateNodeRow
  <2>3. q # None => RequestOK(nodes', q)
    BY <1>1 DEF RequestOK
  <2> HIDE DEF row, q
  <2>4. /\ nodes' \in [NodeIDs -> NodeRows \cup {None}] /\ ReferencesOK'
        /\ \A m \in NodeIDs : nodes[m] # None => nodes'[m] # None
    BY <1>1, <1>3, <2>1, <2>2, NodeRowChanges
  <2>5. requests' = [requests EXCEPT ![r] = q] /\ UNCHANGED started
    BY <1>3 DEF Proceed, q
  <2>6. RequestsOK'
    BY <2>3, <2>4, <2>5, OneRequestMoves DEF FleetInv
  <2> QED
    BY <1>1, <1>3, <2>4, <2>5, <2>6 DEF FleetInv, TablesOK, proxyVars
<1> QED
  BY <1>1, <1>2, <1>3 DEF InsertNode

LEMMA SetNodeStatusKeeps ==
  ASSUME FleetInv, NEW r \in Requests, SetNodeStatus(r)
  PROVE  FleetInv'
<1> DEFINE name == requests[r].name
<1>1. name \in Names /\ UNCHANGED <<aliases, tokens, latest, proxyVars>>
  BY DEF SetNodeStatus, At, FleetInv, RequestsOK, RequestOK
<1>2. CASE End(r) /\ UNCHANGED nodes
  BY <1>1, <1>2, ProceedKeeps DEF End, nodeVars
<1>3. ASSUME NEW n \in resolveNode(name), nodes' = SetNodeStatusByID(n, "pending"),
             Proceed(r, [op |-> "issue", name |-> name])
      PROVE  FleetInv'
  <2> DEFINE row == [nodes[n] EXCEPT !.status = "pending"]
             q == [op |-> "issue", name |-> name]
  <2>1. n \in NodeIDs /\ Live(n) /\ nodes[n] \in NodeRows
    BY Resolved DEF FleetInv
  <2>2. row \in NodeRows /\ row.deleted = nodes[n].deleted
    BY <2>1 DEF NodeRows, Statuses
  <2>3. nodes' = [nodes EXCEPT ![n] = row]
    BY <1>3 DEF SetNodeStatusByID
  <2>4. RequestOK(nodes', q)
    BY <1>1 DEF RequestOK
  <2> HIDE DEF row, q
  <2>5. /\ nodes' \in [NodeIDs -> NodeRows \cup {None}] /\ ReferencesOK'
        /\ \A m \in NodeIDs : nodes[m] # None => nodes'[m] # None
    BY <1>1, <2>1, <2>2, <2>3, NodeRowChanges DEF Live
  <2>6. requests' = [requests EXCEPT ![r] = q] /\ UNCHANGED started
    BY <1>3 DEF Proceed, q
  <2>7. RequestsOK'
    BY <2>4, <2>5, <2>6, OneRequestMoves DEF FleetInv
  <2> QED
    BY <1>1, <2>5, <2>6, <2>7 DEF FleetInv, TablesOK, proxyVars
<1> QED
  BY <1>1, <1>2, <1>3 DEF SetNodeStatus

LEMMA IssueNodeTokenKeeps ==
  ASSUME FleetInv, NEW r \in Requests, IssueNodeToken(r)
  PROVE  FleetInv'
<1>1. CASE End(r)
  BY <1>1, ProceedKeeps DEF End, IssueNodeToken
<1>2. ASSUME NEW n \in resolveNode(requests[r].name), Proceed(r, [op |-> "create_token", node |-> n])
      PROVE  FleetInv'
  <2> DEFINE q == [op |-> "create_token", node |-> n]
  <2>1. n \in NodeIDs /\ nodes[n] # None
    BY Resolved DEF FleetInv
  <2>2. RequestOK(nodes, q)
    BY <2>1 DEF RequestOK
  <2> HIDE DEF q
  <2> QED
    BY <1>2, <2>2, ProceedKeeps DEF IssueNodeToken, q
<1> QED
  BY <1>1, <1>2 DEF IssueNodeToken

(* Tokens that are written refer to a row, so the tables stay as they are. *)
LEMMA TokensWritten ==
  ASSUME FleetInv, tokens' \in [TokenIDs -> TokenRows \cup {None}],
         \A t \in TokenIDs : tokens'[t] # None => nodes[tokens'[t].node] # None,
         UNCHANGED <<nodes, aliases, latest, proxyVars>>, started' \in 0..MaxRequests
  PROVE  TablesOK' /\ ReferencesOK'
BY DEF FleetInv, TablesOK, ReferencesOK, proxyVars, Live, LiveProxy

LEMMA CreateNodeTokenKeeps ==
  ASSUME FleetInv, NEW r \in Requests, CreateNodeToken(r)
  PROVE  FleetInv'
<1>1. PICK t \in TokenIDs : tokens' = [tokens EXCEPT ![t] = [node |-> requests[r].node, revoked |-> FALSE]]
  BY DEF CreateNodeToken
<1>2. requests[r].node \in NodeIDs /\ nodes[requests[r].node] # None
  BY DEF CreateNodeToken, At, FleetInv, RequestsOK, RequestOK
<1>3. tokens' \in [TokenIDs -> TokenRows \cup {None}]
  BY <1>1, <1>2 DEF FleetInv, TablesOK, TokenRows
<1>4. \A u \in TokenIDs : tokens'[u] # None => nodes[tokens'[u].node] # None
  BY <1>1, <1>2 DEF FleetInv, TablesOK, ReferencesOK
<1>5. UNCHANGED <<nodes, aliases, latest, proxyVars, started>> /\ requests' = [requests EXCEPT ![r] = None]
  BY DEF CreateNodeToken, End, Proceed
<1>6. TablesOK' /\ ReferencesOK'
  BY <1>3, <1>4, <1>5, TokensWritten DEF FleetInv, TablesOK
<1>7. RequestsOK'
  BY <1>5, OneRequestMoves DEF FleetInv
<1> QED
  BY <1>6, <1>7 DEF FleetInv

LEMMA ReenrollKeeps ==
  ASSUME FleetInv, NEW r \in Requests, NEW ref \in NodeRefs, Reenroll(r, ref)
  PROVE  FleetInv'
<1>1. PICK n \in resolveNode(ref) :
         Start(r, [op |-> "revoke", name |-> nodes[n].name, pending |-> nodes[n].status = "pending"])
  BY DEF Reenroll
<1> DEFINE q == [op |-> "revoke", name |-> nodes[n].name, pending |-> nodes[n].status = "pending"]
<1>2. nodes[n].name \in Names
  BY Resolved DEF FleetInv, NodeRows
<1>3. RequestOK(nodes, q)
  BY <1>2 DEF RequestOK
<1> HIDE DEF q
<1> QED
  BY <1>1, <1>3, StartKeeps DEF Reenroll, q

(* Revoking keeps every token a token of its node.                         *)
LEMMA RevokedTokens ==
  ASSUME FleetInv, NEW n
  PROVE  /\ Revoked(n) \in [TokenIDs -> TokenRows \cup {None}]
         /\ \A t \in TokenIDs : Revoked(n)[t] # None => tokens[t] # None /\ Revoked(n)[t].node = tokens[t].node
BY DEF FleetInv, TablesOK, TokenRows, Revoked

LEMMA RevokeNodeTokensKeeps ==
  ASSUME FleetInv, NEW r \in Requests, RevokeNodeTokens(r)
  PROVE  FleetInv'
<1> DEFINE name == requests[r].name
<1>1. name \in Names /\ UNCHANGED <<nodes, aliases, latest, proxyVars>>
  BY DEF RevokeNodeTokens, At, FleetInv, RequestsOK, RequestOK
<1>2. CASE End(r) /\ UNCHANGED tokens
  BY <1>1, <1>2, ProceedKeeps DEF End, nodeVars
<1>3. ASSUME NEW n \in resolveNode(name), tokens' = Revoked(n),
             Proceed(r, [op |-> IF requests[r].pending THEN "issue" ELSE "set_pending", name |-> name])
      PROVE  FleetInv'
  <2> DEFINE op == IF requests[r].pending THEN "issue" ELSE "set_pending"
             q == [op |-> op, name |-> name]
  <2>0. op \in {"issue", "set_pending"}
    OBVIOUS
  <2> HIDE DEF op
  <2>1. q.op \in {"issue", "set_pending"} /\ q.name \in Names
    BY <1>1, <2>0
  <2> HIDE DEF q
  <2>2. requests' = [requests EXCEPT ![r] = q] /\ UNCHANGED started
    BY <1>3 DEF Proceed, q, op
  <2>3. RequestsOK'
    <3>1. RequestOK(nodes', q)
      BY <2>1 DEF RequestOK
    <3>2. \A m \in NodeIDs : nodes[m] # None => nodes'[m] # None
      BY <1>1
    <3> QED
      BY <2>2, <3>1, <3>2, OneRequestMoves DEF FleetInv
  <2>4. TablesOK' /\ ReferencesOK'
    BY <1>1, <1>3, <2>2, RevokedTokens, TokensWritten DEF FleetInv, TablesOK, ReferencesOK
  <2> QED
    BY <2>3, <2>4 DEF FleetInv
<1> QED
  BY <1>1, <1>2, <1>3 DEF RevokeNodeTokens

----------------------------------------------------------------------------
(* Heartbeats *)

LEMMA authenticateNodeKeeps ==
  ASSUME FleetInv, NEW r \in Requests, NEW ref \in NodeRefs, NEW t \in TokenIDs, authenticateNode(r, ref, t)
  PROVE  FleetInv'
<1> DEFINE q == [op |-> "heartbeat", name |-> nodes[tokens[t].node].name, agent |-> tokens[t].node]
<1>1. tokens[t] # None /\ tokens[t] \in TokenRows
  BY DEF authenticateNode, AuthenticateNodeToken, GetActiveNodeTokens, FleetInv, TablesOK
<1>2. tokens[t].node \in NodeIDs /\ nodes[tokens[t].node] # None
  BY <1>1 DEF FleetInv, ReferencesOK, TokenRows
<1>3. nodes[tokens[t].node].name \in Names
  BY <1>2 DEF FleetInv, TablesOK, NodeRows
<1>4. RequestOK(nodes, q)
  BY <1>2, <1>3 DEF RequestOK
<1> HIDE DEF q
<1> QED
  BY <1>4, StartKeeps DEF authenticateNode, q

LEMMA GetHeartbeatNodeKeeps ==
  ASSUME FleetInv, NEW r \in Requests, GetHeartbeatNode(r)
  PROVE  FleetInv'
<1>1. requests[r].agent \in NodeIDs /\ UNCHANGED <<nodeVars, proxyVars>>
  BY DEF GetHeartbeatNode, At, FleetInv, RequestsOK, RequestOK
<1>2. CASE End(r)
  BY <1>1, <1>2, ProceedKeeps DEF End
<1>3. ASSUME NEW n \in resolveNode(requests[r].name),
             Proceed(r, [op |-> "record", node |-> n, name |-> nodes[n].name,
                         pending |-> nodes[n].status = "pending", agent |-> requests[r].agent])
      PROVE  FleetInv'
  <2> DEFINE q == [op |-> "record", node |-> n, name |-> nodes[n].name,
                   pending |-> nodes[n].status = "pending", agent |-> requests[r].agent]
  <2>1. n \in NodeIDs /\ nodes[n] # None
    BY Resolved DEF FleetInv
  <2>2. RequestOK(nodes, q)
    BY <1>1, <2>1 DEF RequestOK
  <2> HIDE DEF q
  <2> QED
    BY <1>1, <1>3, <2>2, ProceedKeeps DEF q
<1> QED
  BY <1>2, <1>3 DEF GetHeartbeatNode

(* Promotion changes the status of live rows only.                         *)
LEMMA PromotedRows ==
  ASSUME TablesOK, NEW name
  PROVE  LET ns == PromotePendingNodeToActive(name)
         IN  /\ ns \in [NodeIDs -> NodeRows \cup {None}]
             /\ \A n \in NodeIDs : /\ nodes[n] = None <=> ns[n] = None
                                   /\ nodes[n] # None => ns[n].name = nodes[n].name /\ ns[n].deleted = nodes[n].deleted
                                   /\ nodes[n] # None /\ nodes[n].status # "pending" => ns[n] = nodes[n]
<1> DEFINE ns == PromotePendingNodeToActive(name)
<1>1. ns = [n \in NodeIDs |-> ns[n]]
  BY DEF PromotePendingNodeToActive
<1>2. ASSUME NEW n \in NodeIDs
      PROVE  /\ ns[n] \in NodeRows \cup {None}
             /\ nodes[n] = None <=> ns[n] = None
             /\ nodes[n] # None => ns[n].name = nodes[n].name /\ ns[n].deleted = nodes[n].deleted
             /\ nodes[n] # None /\ nodes[n].status # "pending" => ns[n] = nodes[n]
  <2>1. CASE Live(n) /\ nodes[n].name = name /\ nodes[n].status = "pending"
    <3> DEFINE row == [nodes[n] EXCEPT !.status = "active"]
    <3>1. nodes[n] \in NodeRows /\ ns[n] = row
      BY <2>1 DEF TablesOK, Live, PromotePendingNodeToActive
    <3>2. row \in NodeRows /\ row.name = nodes[n].name /\ row.deleted = nodes[n].deleted
      BY <3>1 DEF NodeRows, Statuses
    <3> HIDE DEF row
    <3> QED
      BY <2>1, <3>1, <3>2, RegistryConstants DEF Live
  <2>2. CASE ~(Live(n) /\ nodes[n].name = name /\ nodes[n].status = "pending")
    <3>1. ns[n] = nodes[n]
      BY <2>2 DEF PromotePendingNodeToActive
    <3> QED
      BY <3>1 DEF TablesOK
  <2> QED
    BY <2>1, <2>2
<1> HIDE DEF ns
<1>3. ns \in [NodeIDs -> NodeRows \cup {None}]
  BY <1>1, <1>2
<1> QED
  BY <1>2, <1>3 DEF ns

(* Rows that keep their name and whether they are deleted leave every      *)
(* reference as it was.                                                    *)
LEMMA SameNames ==
  ASSUME FleetInv, nodes' \in [NodeIDs -> NodeRows \cup {None}], UNCHANGED <<aliases, tokens, proxyVars>>,
         \A n \in NodeIDs : /\ nodes[n] = None <=> nodes'[n] = None
                            /\ nodes[n] # None => nodes'[n].name = nodes[n].name /\ nodes'[n].deleted = nodes[n].deleted
  PROVE  ReferencesOK' /\ \A n \in NodeIDs : Live(n) <=> Live(n)'
<1>1. \A n \in NodeIDs : Live(n) <=> Live(n)'
  BY DEF Live
<1>2. \A a \in Names : aliases[a] # None => aliases[a] \in NodeIDs
  BY DEF FleetInv, TablesOK
<1>3. \A t \in TokenIDs : tokens[t] # None => tokens[t].node \in NodeIDs
  BY DEF FleetInv, TablesOK, TokenRows
<1>4. \A p \in ProxyIDs : proxies[p] # None => proxies[p].node \in NodeIDs
  BY DEF FleetInv, TablesOK, ProxyRows
<1> QED
  BY <1>1, <1>2, <1>3, <1>4 DEF FleetInv, ReferencesOK, proxyVars, LiveProxy

LEMMA RecordHeartbeatKeeps ==
  ASSUME FleetInv, NEW r \in Requests, RecordHeartbeat(r)
  PROVE  FleetInv'
<1> DEFINE req == requests[r]
<1>1. req.node \in NodeIDs /\ req.agent \in NodeIDs /\ UNCHANGED <<aliases, tokens, proxyVars>>
  BY DEF RecordHeartbeat, At, FleetInv, RequestsOK, RequestOK
<1>2. latest' \in [NodeIDs -> NodeIDs \cup {None}]
  BY <1>1 DEF RecordHeartbeat, UpsertNodeLatestHeartbeat, FleetInv, TablesOK
<1>3. /\ nodes' \in [NodeIDs -> NodeRows \cup {None}]
      /\ \A n \in NodeIDs : /\ nodes[n] = None <=> nodes'[n] = None
                            /\ nodes[n] # None => nodes'[n].name = nodes[n].name /\ nodes'[n].deleted = nodes[n].deleted
  <2>1. CASE req.pending
    BY <2>1, PromotedRows DEF RecordHeartbeat, FleetInv
  <2>2. CASE ~req.pending
    BY <2>2 DEF RecordHeartbeat, FleetInv, TablesOK
  <2> QED
    BY <2>1, <2>2
<1>4. ReferencesOK'
  BY <1>1, <1>3, SameNames
<1>5. requests' = [requests EXCEPT ![r] = None] /\ UNCHANGED started
  BY DEF RecordHeartbeat, End, Proceed
<1>6. RequestsOK'
  BY <1>3, <1>5, OneRequestMoves DEF FleetInv
<1>7. TablesOK'
  BY <1>1, <1>2, <1>3, <1>5 DEF FleetInv, TablesOK, proxyVars
<1> QED
  BY <1>4, <1>6, <1>7 DEF FleetInv

----------------------------------------------------------------------------
(* Changing and deleting nodes *)

LEMMA UpdateNodeKeeps ==
  ASSUME FleetInv, NEW r \in Requests, NEW ref \in NodeRefs, NEW name \in Names \cup {None},
         NEW status \in {"active", "disabled", None}, UpdateNode(r, ref, name, status)
  PROVE  FleetInv'
<1>1. PICK n \in resolveNode(ref) :
         Start(r, [op |-> "write_node", ref |-> ref,
                   name |-> IF name = None THEN nodes[n].name ELSE name,
                   status |-> IF status = None THEN nodes[n].status ELSE status])
  BY DEF UpdateNode
<1> DEFINE nm == IF name = None THEN nodes[n].name ELSE name
           st == IF status = None THEN nodes[n].status ELSE status
           q == [op |-> "write_node", ref |-> ref, name |-> nm, status |-> st]
<1>2. nodes[n].name \in Names /\ nodes[n].status \in Statuses
  BY Resolved DEF FleetInv, NodeRows
<1>3. nm \in Names /\ st \in Statuses
  BY <1>2 DEF Statuses
<1>4. Start(r, q)
  BY <1>1
<1> HIDE DEF nm, st
<1>5. RequestOK(nodes, q)
  BY <1>3 DEF RequestOK
<1> HIDE DEF q
<1> QED
  BY <1>4, <1>5, StartKeeps DEF UpdateNode

(* An update of a node found by a reference.                               *)
LEMMA NodeUpdated ==
  ASSUME FleetInv, NEW n \in NodeIDs, Live(n), NEW name \in Names, NEW status \in Statuses,
         aliases' = renameNodeTx(n, name), nodes' = RenameNodeByID(SetNodeStatusByID(n, status), n, name)
  PROVE  /\ nodes' \in [NodeIDs -> NodeRows \cup {None}] /\ aliases' \in [Names -> NodeIDs \cup {None}]
         /\ nodes'[n].name = name /\ Live(n)'
         /\ \A m \in NodeIDs \ {n} : nodes'[m] = nodes[m]
         /\ \A m \in NodeIDs : nodes[m] # None => nodes'[m] # None
         /\ \A a \in Names : aliases'[a] = aliases[a] \/ aliases'[a] = n \/ aliases'[a] = None
<1> DEFINE one == [nodes[n] EXCEPT !.status = status]
           row == [one EXCEPT !.name = name]
<1>0. nodes[n] \in NodeRows /\ nodes[n].deleted = FALSE
  BY DEF FleetInv, TablesOK, Live, NodeRows
<1>1. one \in NodeRows /\ one.deleted = FALSE
  BY <1>0 DEF NodeRows
<1>2. SetNodeStatusByID(n, status) = [nodes EXCEPT ![n] = one]
  BY DEF SetNodeStatusByID
<1> HIDE DEF one
<1>3. nodes[n].name \in Names
  BY DEF FleetInv, TablesOK, Live, NodeRows
<1>4. /\ aliases' \in [Names -> NodeIDs \cup {None}]
      /\ \A a \in Names : aliases'[a] = aliases[a] \/ aliases'[a] = n \/ aliases'[a] = None
  BY <1>3 DEF renameNodeTx, CreateNodeNameAlias, DeleteNodeNameAlias, FleetInv, TablesOK
<1>5. row \in NodeRows /\ row.name = name /\ row.deleted = FALSE
  BY <1>1 DEF NodeRows
<1>6. nodes' = [nodes EXCEPT ![n] = row]
  BY <1>2 DEF RenameNodeByID, FleetInv, TablesOK
<1> HIDE DEF row
<1>7. /\ nodes' \in [NodeIDs -> NodeRows \cup {None}]
      /\ nodes'[n] = row /\ \A m \in NodeIDs \ {n} : nodes'[m] = nodes[m]
  BY <1>5, <1>6 DEF FleetInv, TablesOK
<1> QED
  BY <1>4, <1>5, <1>7, RegistryConstants DEF Live

LEMMA UpdateNodeByNameKeeps ==
  ASSUME FleetInv, NEW r \in Requests, UpdateNodeByName(r)
  PROVE  FleetInv'
<1> DEFINE req == requests[r]
<1>1. req.ref \in NodeRefs /\ req.name \in Names /\ req.status \in Statuses /\ UNCHANGED <<tokens, latest, proxyVars>>
  BY DEF UpdateNodeByName, At, FleetInv, RequestsOK, RequestOK
<1>2. End(r)
  BY DEF UpdateNodeByName
<1>3. CASE UNCHANGED <<nodes, aliases>>
  BY <1>1, <1>2, <1>3, ProceedKeeps DEF End, nodeVars
<1>4. ASSUME NEW n \in resolveNode(req.ref), aliases' = renameNodeTx(n, req.name),
             nodes' = RenameNodeByID(SetNodeStatusByID(n, req.status), n, req.name)
      PROVE  FleetInv'
  <2>1. n \in NodeIDs /\ Live(n)
    BY Resolved DEF FleetInv
  <2>2. /\ nodes' \in [NodeIDs -> NodeRows \cup {None}] /\ aliases' \in [Names -> NodeIDs \cup {None}]
        /\ Live(n)'
        /\ \A m \in NodeIDs \ {n} : nodes'[m] = nodes[m]
        /\ \A m \in NodeIDs : nodes[m] # None => nodes'[m] # None
        /\ \A a \in Names : aliases'[a] = aliases[a] \/ aliases'[a] = n \/ aliases'[a] = None
    BY <1>1, <1>4, <2>1, NodeUpdated
  <2>3. ASSUME NEW a \in Names, aliases'[a] # None PROVE Live(aliases[a])'
    BY <2>2, <2>3 DEF FleetInv, ReferencesOK, TablesOK, Live
  <2>4. \A t \in TokenIDs : tokens[t] # None => tokens[t].node \in NodeIDs
    BY DEF FleetInv, TablesOK, TokenRows
  <2>5. \A p \in ProxyIDs : proxies[p] # None => proxies[p].node \in NodeIDs
    BY DEF FleetInv, TablesOK, ProxyRows
  <2>6. ReferencesOK'
    BY <1>1, <2>2, <2>3, <2>4, <2>5 DEF FleetInv, ReferencesOK, proxyVars, LiveProxy
  <2>7. RequestsOK'
    BY <1>2, <2>2, OneRequestMoves DEF FleetInv, End, Proceed
  <2>8. TablesOK'
    BY <1>1, <1>2, <2>2 DEF FleetInv, TablesOK, proxyVars, End, Proceed
  <2> QED
    BY <2>6, <2>7, <2>8 DEF FleetInv
<1> QED
  BY <1>3, <1>4 DEF UpdateNodeByName

(* The rows after an archival: proxies of the node are deleted, the others *)
(* are as they were, and so are the aliases that remain.                   *)
LEMMA ArchivedProxies ==
  ASSUME FleetInv, NEW n \in NodeIDs, proxies' = ArchiveNodeProxies(n),
         proxyAliases' = DeleteArchivedProxyAliases(proxies')
  PROVE  /\ proxies' \in [ProxyIDs -> ProxyRows \cup {None}]
         /\ proxyAliases' \in [ProxyNames -> ProxyIDs \cup {None}]
         /\ \A p \in ProxyIDs : /\ proxies'[p] # None => proxies[p] # None /\ proxies'[p].node = proxies[p].node
                                /\ LiveProxy(p)' => proxies'[p] = proxies[p]
         /\ \A a \in ProxyNames : /\ proxyAliases'[a] # None => LiveProxy(proxyAliases[a])' /\ proxyAliases'[a] = proxyAliases[a]
                                  /\ \A p \in ProxyIDs : proxyAliases[a] = p /\ LiveProxy(p)' => proxyAliases'[a] = p
<1>1. proxies' = [p \in ProxyIDs |-> proxies'[p]] /\ proxyAliases' = [a \in ProxyNames |-> proxyAliases'[a]]
  BY DEF ArchiveNodeProxies, DeleteArchivedProxyAliases
<1>2. ASSUME NEW p \in ProxyIDs
      PROVE  /\ proxies'[p] \in ProxyRows \cup {None}
             /\ proxies[p] = None <=> proxies'[p] = None
             /\ proxies'[p] # None => proxies'[p].node = proxies[p].node
             /\ LiveProxy(p)' => proxies'[p] = proxies[p]
  <2>1. CASE proxies[p] # None /\ proxies[p].node = n
    <3> DEFINE row == [proxies[p] EXCEPT !.deleted = TRUE]
    <3>1. proxies'[p] = row
      BY <2>1 DEF ArchiveNodeProxies
    <3>2. row \in ProxyRows /\ row.node = proxies[p].node /\ row.deleted
      BY <2>1 DEF FleetInv, TablesOK, ProxyRows
    <3> HIDE DEF row
    <3> QED
      BY <2>1, <3>1, <3>2, RegistryConstants DEF LiveProxy
  <2>2. CASE ~(proxies[p] # None /\ proxies[p].node = n)
    <3>1. proxies'[p] = proxies[p]
      BY <2>2 DEF ArchiveNodeProxies
    <3> QED
      BY <3>1 DEF FleetInv, TablesOK
  <2> QED
    BY <2>1, <2>2
<1>3. ASSUME NEW a \in ProxyNames
      PROVE  /\ proxyAliases'[a] \in ProxyIDs \cup {None}
             /\ proxyAliases'[a] # None => LiveProxy(proxyAliases[a])' /\ proxyAliases'[a] = proxyAliases[a]
             /\ \A p \in ProxyIDs : proxyAliases[a] = p /\ LiveProxy(p)' => proxyAliases'[a] = p
  <2>1. proxyAliases[a] \in ProxyIDs \cup {None} /\ (proxyAliases[a] # None => LiveProxy(proxyAliases[a]))
    BY DEF FleetInv, TablesOK, ReferencesOK
  <2>2. proxyAliases'[a] = IF proxyAliases[a] # None /\ proxies'[proxyAliases[a]].deleted THEN None ELSE proxyAliases[a]
    BY DEF DeleteArchivedProxyAliases
  <2>3. CASE proxyAliases[a] = None
    BY <2>2, <2>3, RegistryConstants
  <2>4. ASSUME NEW p \in ProxyIDs, proxyAliases[a] = p
        PROVE  /\ proxyAliases'[a] \in ProxyIDs \cup {None}
               /\ proxyAliases'[a] # None => LiveProxy(p)' /\ proxyAliases'[a] = p
               /\ LiveProxy(p)' => proxyAliases'[a] = p
    <3>1. p # None /\ proxies'[p] # None
      BY <1>2, <2>1, <2>4, RegistryConstants DEF LiveProxy
    <3>2. CASE proxies'[p].deleted
      BY <2>2, <2>4, <3>1, <3>2 DEF LiveProxy
    <3>3. CASE ~proxies'[p].deleted
      BY <2>2, <2>4, <3>1, <3>3 DEF LiveProxy
    <3> QED
      BY <3>2, <3>3
  <2> QED
    BY <2>1, <2>3, <2>4
<1>4. proxies' \in [ProxyIDs -> ProxyRows \cup {None}] /\ proxyAliases' \in [ProxyNames -> ProxyIDs \cup {None}]
  BY <1>1, <1>2, <1>3
<1> QED
  BY <1>2, <1>3, <1>4

LEMMA SoftDeleteNodeKeeps ==
  ASSUME FleetInv, NEW ref \in NodeRefs, SoftDeleteNode(ref)
  PROVE  FleetInv'
<1>1. PICK n \in resolveNode(ref) :
         /\ nodes' = ArchiveNodeRow(n) /\ aliases' = DeleteNodeAliases(n)
         /\ proxies' = ArchiveNodeProxies(n) /\ proxyAliases' = DeleteArchivedProxyAliases(proxies')
         /\ tokens' = Revoked(n)
  BY DEF SoftDeleteNode
<1>2. n \in NodeIDs /\ nodes[n] # None /\ nodes[n] \in NodeRows
  BY Resolved DEF FleetInv
<1>3. UNCHANGED latest /\ requests' = requests /\ started < MaxRequests /\ started' = started + 1
  BY DEF SoftDeleteNode, Once
<1>4. /\ nodes' \in [NodeIDs -> NodeRows \cup {None}]
      /\ \A m \in NodeIDs : nodes[m] # None => nodes'[m] # None
      /\ \A m \in NodeIDs \ {n} : nodes'[m] = nodes[m]
  <2> DEFINE row == [nodes[n] EXCEPT !.deleted = TRUE, !.status = "disabled"]
  <2>1. nodes' = [nodes EXCEPT ![n] = row]
    BY <1>1, <1>2 DEF ArchiveNodeRow, FleetInv, TablesOK
  <2>2. row \in NodeRows
    BY <1>2 DEF NodeRows, Statuses
  <2> HIDE DEF row
  <2> QED
    BY <1>2, <2>1, <2>2, RegistryConstants DEF FleetInv, TablesOK
<1>5. /\ aliases' \in [Names -> NodeIDs \cup {None}]
      /\ \A a \in Names : aliases'[a] # None => Live(aliases[a])' /\ aliases'[a] = aliases[a]
  <2>1. aliases' \in [Names -> NodeIDs \cup {None}]
        /\ \A a \in Names : aliases'[a] # None => aliases'[a] = aliases[a] /\ aliases[a] # n
    BY <1>1 DEF DeleteNodeAliases, FleetInv, TablesOK
  <2> QED
    BY <1>4, <2>1 DEF FleetInv, ReferencesOK, TablesOK, Live
<1>6. /\ tokens' \in [TokenIDs -> TokenRows \cup {None}]
      /\ \A t \in TokenIDs : tokens'[t] # None => tokens[t] # None /\ tokens'[t].node = tokens[t].node
  BY <1>1, RevokedTokens
<1>7. /\ proxies' \in [ProxyIDs -> ProxyRows \cup {None}]
      /\ proxyAliases' \in [ProxyNames -> ProxyIDs \cup {None}]
      /\ \A p \in ProxyIDs : proxies'[p] # None => proxies[p] # None /\ proxies'[p].node = proxies[p].node
      /\ \A a \in ProxyNames : proxyAliases'[a] # None => LiveProxy(proxyAliases[a])' /\ proxyAliases'[a] = proxyAliases[a]
  BY <1>1, <1>2, ArchivedProxies
<1>8. TablesOK'
  BY <1>3, <1>4, <1>5, <1>6, <1>7, RegistryConstants DEF FleetInv, TablesOK
<1>9. ReferencesOK'
  <2>1. \A t \in TokenIDs : tokens[t] # None => tokens[t].node \in NodeIDs /\ nodes[tokens[t].node] # None
    BY DEF FleetInv, TablesOK, ReferencesOK, TokenRows
  <2>2. \A p \in ProxyIDs : proxies[p] # None => proxies[p].node \in NodeIDs /\ nodes[proxies[p].node] # None
    BY DEF FleetInv, TablesOK, ReferencesOK, ProxyRows
  <2> QED
    BY <1>4, <1>5, <1>6, <1>7, <2>1, <2>2 DEF ReferencesOK
<1>10. RequestsOK'
  BY <1>3, <1>4, NoRequestMoves DEF FleetInv
<1> QED
  BY <1>8, <1>9, <1>10 DEF FleetInv

----------------------------------------------------------------------------
(* Proxies *)

LEMMA CreateProxyKeeps ==
  ASSUME FleetInv, NEW r \in Requests, NEW ref \in NodeRefs, NEW name \in ProxyNames, NEW l \in Listeners,
         CreateProxy(r, ref, name, l)
  PROVE  FleetInv'
<1>1. PICK n \in resolveNode(ref) :
         Start(r, [op |-> "insert_proxy", node |-> n, nodeName |-> nodes[n].name, name |-> name, listener |-> l])
  BY DEF CreateProxy
<1> DEFINE q == [op |-> "insert_proxy", node |-> n, nodeName |-> nodes[n].name, name |-> name, listener |-> l]
<1>2. n \in NodeIDs /\ nodes[n] # None
  BY Resolved DEF FleetInv
<1>3. RequestOK(nodes, q)
  BY <1>2 DEF RequestOK
<1> HIDE DEF q
<1> QED
  BY <1>1, <1>3, StartKeeps DEF CreateProxy, q

(* Proxies that are written refer to a row and are alive when an alias     *)
(* refers to them, so the tables stay as they are.                         *)
LEMMA ProxiesWritten ==
  ASSUME FleetInv, proxies' \in [ProxyIDs -> ProxyRows \cup {None}],
         proxyAliases' \in [ProxyNames -> ProxyIDs \cup {None}],
         \A p \in ProxyIDs : proxies'[p] # None => nodes[proxies'[p].node] # None,
         \A a \in ProxyNames : proxyAliases'[a] # None => LiveProxy(proxyAliases[a])',
         UNCHANGED nodeVars, started' \in 0..MaxRequests
  PROVE  TablesOK' /\ ReferencesOK'
BY DEF FleetInv, TablesOK, ReferencesOK, nodeVars, Live

(* Only the row of p is written.                                           *)
ProxyReplaced(p) ==
  /\ proxies' \in [ProxyIDs -> ProxyRows \cup {None}] /\ proxies'[p] \in ProxyRows
  /\ \A q \in ProxyIDs \ {p} : proxies'[q] = proxies[q]

(* One row replaced by a row of an existing node, which is not deleted     *)
(* while an alias refers to it.                                            *)
LEMMA ProxyRowChanges ==
  ASSUME FleetInv, NEW p \in ProxyIDs, ProxyReplaced(p), nodes[proxies'[p].node] # None,
         UNCHANGED nodeVars, started' \in 0..MaxRequests,
         proxyAliases' \in [ProxyNames -> ProxyIDs \cup {None}],
         \A a \in ProxyNames : proxyAliases'[a] \in {proxyAliases[a], p, None},
         proxies'[p].deleted => \A a \in ProxyNames : proxyAliases'[a] # p
  PROVE  TablesOK' /\ ReferencesOK'
<1>1. ASSUME NEW q \in ProxyIDs, proxies'[q] # None PROVE nodes[proxies'[q].node] # None
  BY <1>1 DEF FleetInv, ReferencesOK, ProxyReplaced
<1>2. ASSUME NEW a \in ProxyNames, proxyAliases'[a] # None PROVE LiveProxy(proxyAliases[a])'
  <2>1. CASE proxyAliases'[a] = p
    BY <1>2, <2>1, RegistryConstants DEF LiveProxy, ProxyReplaced
  <2>2. CASE proxyAliases'[a] # p
    <3>1. proxyAliases'[a] = proxyAliases[a] /\ LiveProxy(proxyAliases[a]) /\ proxyAliases[a] \in ProxyIDs \ {p}
      BY <1>2, <2>2 DEF FleetInv, TablesOK, ReferencesOK
    <3> QED
      BY <3>1 DEF LiveProxy, ProxyReplaced
  <2> QED
    BY <2>1, <2>2
<1> QED
  BY <1>1, <1>2, ProxiesWritten DEF ProxyReplaced

LEMMA InsertProxyKeeps ==
  ASSUME FleetInv, NEW r \in Requests, InsertProxy(r)
  PROVE  FleetInv'
<1> DEFINE req == requests[r]
<1>1. /\ req.node \in NodeIDs /\ nodes[req.node] # None /\ req.name \in ProxyNames /\ req.listener \in Listeners
      /\ UNCHANGED <<nodeVars, proxyAliases>> /\ End(r)
  BY DEF InsertProxy, At, FleetInv, RequestsOK, RequestOK
<1>2. CASE UNCHANGED proxies
  BY <1>1, <1>2, ProceedKeeps DEF End, proxyVars
<1>3. ASSUME NEW p \in ProxyIDs, proxies[p] = None,
             proxies' = [proxies EXCEPT ![p] = [node |-> req.node, name |-> req.name,
                                                listener |-> req.listener, deleted |-> FALSE]]
      PROVE  FleetInv'
  <2> DEFINE row == [node |-> req.node, name |-> req.name, listener |-> req.listener, deleted |-> FALSE]
  <2>1. row \in ProxyRows /\ row.node = req.node /\ row.deleted = FALSE
    BY <1>1 DEF ProxyRows
  <2>2. proxies' = [proxies EXCEPT ![p] = row]
    BY <1>3
  <2> HIDE DEF row
  <2>3. /\ ProxyReplaced(p) /\ nodes[proxies'[p].node] # None /\ ~proxies'[p].deleted /\ started' \in 0..MaxRequests
        /\ proxyAliases' \in [ProxyNames -> ProxyIDs \cup {None}]
    BY <1>1, <2>1, <2>2 DEF ProxyReplaced, FleetInv, TablesOK, End, Proceed
  <2>5. TablesOK' /\ ReferencesOK'
    BY <1>1, <2>3, ProxyRowChanges
  <2>4. RequestsOK'
    BY <1>1, OneRequestMoves DEF FleetInv, End, Proceed, nodeVars
  <2> QED
    BY <2>4, <2>5 DEF FleetInv
<1> QED
  BY <1>2, <1>3 DEF InsertProxy

LEMMA UpdateProxyKeeps ==
  ASSUME FleetInv, NEW r \in Requests, NEW nodeRef \in NodeRefs, NEW ref \in ProxyRefs,
         NEW name \in ProxyNames \cup {None}, NEW l \in Listeners \cup {None}, UpdateProxy(r, nodeRef, ref, name, l)
  PROVE  FleetInv'
<1>1. PICK n \in resolveNode(nodeRef) : \E p \in resolveProxy(n, ref) :
         Start(r, [op |-> "write_proxy", node |-> n, nodeName |-> nodes[n].name, ref |-> ref, proxy |-> p,
                   was |-> proxies[p].name,
                   name |-> IF name = None THEN proxies[p].name ELSE name,
                   listener |-> IF l = None THEN proxies[p].listener ELSE l])
  BY DEF UpdateProxy
<1>2. PICK p \in resolveProxy(n, ref) :
         Start(r, [op |-> "write_proxy", node |-> n, nodeName |-> nodes[n].name, ref |-> ref, proxy |-> p,
                   was |-> proxies[p].name,
                   name |-> IF name = None THEN proxies[p].name ELSE name,
                   listener |-> IF l = None THEN proxies[p].listener ELSE l])
  BY <1>1
<1>3. n \in NodeIDs /\ nodes[n] # None
  BY Resolved DEF FleetInv
<1>4. p \in ProxyIDs /\ proxies[p].name \in ProxyNames /\ proxies[p].listener \in Listeners
  BY DEF resolveProxy, GetProxyByNodeAndName, LiveProxy, FleetInv, TablesOK, ProxyRows
<1> DEFINE nm == IF name = None THEN proxies[p].name ELSE name
           li == IF l = None THEN proxies[p].listener ELSE l
           q == [op |-> "write_proxy", node |-> n, nodeName |-> nodes[n].name, ref |-> ref, proxy |-> p,
                 was |-> proxies[p].name, name |-> nm, listener |-> li]
<1>5. nm \in ProxyNames /\ li \in Listeners
  BY <1>4
<1>6. Start(r, q)
  BY <1>2
<1> HIDE DEF nm, li
<1>7. RequestOK(nodes, q)
  BY <1>3, <1>4, <1>5 DEF RequestOK
<1> HIDE DEF q
<1> QED
  BY <1>6, <1>7, StartKeeps DEF UpdateProxy

(* The proxy after an update that went through: the listener replaced, and *)
(* the name unless it is the one that was read.                            *)
Relistened(p, l) == [proxies EXCEPT ![p].listener = l]

LEMMA ProxyUpdated ==
  ASSUME FleetInv, NEW p \in ProxyIDs, LiveProxy(p), NEW l \in Listeners, NEW was \in ProxyNames, NEW name \in ProxyNames,
         proxies' = IF was = name THEN Relistened(p, l) ELSE RenameProxyByID(Relistened(p, l), p, name)
  PROVE  /\ ProxyReplaced(p) /\ ~proxies'[p].deleted /\ proxies'[p].node = proxies[p].node
         /\ proxies'[p].name = IF was = name THEN proxies[p].name ELSE name
<1>1. proxies[p] \in ProxyRows /\ proxies[p].deleted = FALSE
  BY DEF FleetInv, TablesOK, LiveProxy, ProxyRows
<1> DEFINE one == [proxies[p] EXCEPT !.listener = l]
           two == [one EXCEPT !.name = name]
<1>2. one \in ProxyRows /\ one.node = proxies[p].node /\ one.deleted = FALSE /\ one.name = proxies[p].name
  BY <1>1 DEF ProxyRows
<1>3. Relistened(p, l) = [proxies EXCEPT ![p] = one]
  BY DEF Relistened
<1> HIDE DEF one
<1>4. two \in ProxyRows /\ two.node = proxies[p].node /\ two.deleted = FALSE /\ two.name = name
  BY <1>2 DEF ProxyRows
<1>5. RenameProxyByID([proxies EXCEPT ![p] = one], p, name) = [proxies EXCEPT ![p] = two]
  BY DEF RenameProxyByID, FleetInv, TablesOK
<1> HIDE DEF two
<1>6. CASE was = name
  BY <1>2, <1>3, <1>6 DEF ProxyReplaced, FleetInv, TablesOK
<1>7. CASE was # name
  <2>1. proxies' = [proxies EXCEPT ![p] = two]
    BY <1>3, <1>5, <1>7
  <2> QED
    BY <1>4, <1>7, <2>1 DEF ProxyReplaced, FleetInv, TablesOK
<1> QED
  BY <1>6, <1>7

(* Its aliases: the new name is one no longer, the old one has become one. *)
LEMMA ProxyAliasesWritten ==
  ASSUME FleetInv, NEW p \in ProxyIDs, NEW was \in ProxyNames, NEW name \in ProxyNames,
         proxyAliases' = renameProxyTx(p, was, name)
  PROVE  /\ proxyAliases' \in [ProxyNames -> ProxyIDs \cup {None}]
         /\ \A a \in ProxyNames : proxyAliases'[a] \in {proxyAliases[a], p, None}
         /\ was # name => /\ proxyAliases'[was] = p
                          /\ \A a \in ProxyNames \ {was, name} : proxyAliases'[a] = proxyAliases[a]
                          /\ proxyAliases'[name] = IF proxyAliases[name] = p THEN None ELSE proxyAliases[name]
BY DEF renameProxyTx, CreateProxyNameAlias, DeleteProxyNameAlias, FleetInv, TablesOK

LEMMA UpdateProxyByNameKeeps ==
  ASSUME FleetInv, NEW r \in Requests, UpdateProxyByName(r)
  PROVE  FleetInv'
<1> DEFINE req == requests[r]
<1>1. /\ req.node \in NodeIDs /\ req.name \in ProxyNames /\ req.was \in ProxyNames
      /\ req.listener \in Listeners /\ req.proxy \in ProxyIDs
      /\ UNCHANGED nodeVars /\ End(r)
  BY DEF UpdateProxyByName, At, FleetInv, RequestsOK, RequestOK
<1>2. CASE UNCHANGED proxyVars
  BY <1>1, <1>2, ProceedKeeps DEF End
<1>3. ASSUME req.proxy \in resolveProxy(req.node, req.ref),
             proxies' = IF req.was = req.name THEN [proxies EXCEPT ![req.proxy].listener = req.listener]
                        ELSE RenameProxyByID([proxies EXCEPT ![req.proxy].listener = req.listener], req.proxy, req.name),
             proxyAliases' = renameProxyTx(req.proxy, req.was, req.name)
      PROVE  FleetInv'
  <2>1. LiveProxy(req.proxy)
    BY <1>3 DEF resolveProxy, GetProxyByNodeAndName
  <2>2. ProxyReplaced(req.proxy) /\ ~proxies'[req.proxy].deleted /\ proxies'[req.proxy].node = proxies[req.proxy].node
    <3>1. proxies' = IF req.was = req.name THEN Relistened(req.proxy, req.listener)
                     ELSE RenameProxyByID(Relistened(req.proxy, req.listener), req.proxy, req.name)
      BY <1>3 DEF Relistened
    <3> QED
      BY <1>1, <2>1, <3>1, ProxyUpdated
  <2>3. /\ proxyAliases' \in [ProxyNames -> ProxyIDs \cup {None}]
        /\ \A a \in ProxyNames : proxyAliases'[a] \in {proxyAliases[a], req.proxy, None}
    BY <1>1, <1>3, ProxyAliasesWritten
  <2>4. nodes[proxies'[req.proxy].node] # None /\ started' \in 0..MaxRequests
    BY <1>1, <2>1, <2>2 DEF FleetInv, TablesOK, ReferencesOK, LiveProxy, End, Proceed
  <2>5. TablesOK' /\ ReferencesOK'
    BY <1>1, <2>2, <2>3, <2>4, ProxyRowChanges
  <2>6. RequestsOK'
    BY <1>1, OneRequestMoves DEF FleetInv, End, Proceed, nodeVars
  <2> QED
    BY <2>5, <2>6 DEF FleetInv
<1> QED
  BY <1>2, <1>3 DEF UpdateProxyByName

(* Deleting or restoring a proxy.                                          *)
LEMMA ProxyMarked ==
  ASSUME FleetInv, NEW p \in ProxyIDs, proxies[p] # None, NEW d \in BOOLEAN,
         proxies' = [proxies EXCEPT ![p].deleted = d]
  PROVE  /\ ProxyReplaced(p) /\ proxies'[p].deleted = d
         /\ proxies'[p].node = proxies[p].node /\ proxies'[p].name = proxies[p].name
<1> DEFINE row == [proxies[p] EXCEPT !.deleted = d]
<1>1. row \in ProxyRows /\ row.node = proxies[p].node /\ row.deleted = d /\ row.name = proxies[p].name
  BY DEF FleetInv, TablesOK, ProxyRows
<1>2. proxies' = [proxies EXCEPT ![p] = row]
  OBVIOUS
<1> HIDE DEF row
<1> QED
  BY <1>1, <1>2 DEF ProxyReplaced, FleetInv, TablesOK

LEMMA SoftDeleteProxyKeeps ==
  ASSUME FleetInv, NEW nodeRef \in NodeRefs, NEW ref \in ProxyRefs, SoftDeleteProxy(nodeRef, ref)
  PROVE  FleetInv'
<1>1. PICK n \in resolveNode(nodeRef) : \E p \in resolveProxy(n, ref) :
         proxies' = [proxies EXCEPT ![p].deleted = TRUE] /\ proxyAliases' = DeleteProxyAliases(p)
  BY DEF SoftDeleteProxy
<1>2. PICK p \in resolveProxy(n, ref) :
         proxies' = [proxies EXCEPT ![p].deleted = TRUE] /\ proxyAliases' = DeleteProxyAliases(p)
  BY <1>1
<1>3. p \in ProxyIDs /\ proxies[p] # None
  BY DEF resolveProxy, GetProxyByNodeAndName, LiveProxy
<1>4. ProxyReplaced(p) /\ proxies'[p].node = proxies[p].node
  BY <1>2, <1>3, ProxyMarked
<1>5. /\ proxyAliases' \in [ProxyNames -> ProxyIDs \cup {None}]
      /\ \A a \in ProxyNames : proxyAliases'[a] \in {proxyAliases[a], p, None} /\ proxyAliases'[a] # p
  BY <1>2, <1>3, RegistryConstants DEF DeleteProxyAliases, FleetInv, TablesOK
<1>6. UNCHANGED nodeVars /\ requests' = requests /\ started < MaxRequests /\ started' = started + 1
  BY DEF SoftDeleteProxy, Once
<1>7. started' \in 0..MaxRequests
  BY <1>6, RegistryConstants DEF FleetInv, TablesOK
<1>8. TablesOK' /\ ReferencesOK'
  BY <1>3, <1>4, <1>5, <1>6, <1>7, ProxyRowChanges DEF FleetInv, ReferencesOK
<1>9. RequestsOK'
  BY <1>6, NoRequestMoves DEF FleetInv, nodeVars
<1> QED
  BY <1>8, <1>9 DEF FleetInv

LEMMA RestoreProxyKeeps ==
  ASSUME FleetInv, NEW p \in ProxyIDs, RestoreProxy(p)
  PROVE  FleetInv'
<1>1. proxies[p] # None /\ proxies' = [proxies EXCEPT ![p].deleted = FALSE] /\ UNCHANGED <<nodeVars, proxyAliases>>
  BY DEF RestoreProxy
<1>2. ProxyReplaced(p) /\ proxies'[p].node = proxies[p].node /\ ~proxies'[p].deleted
  BY <1>1, ProxyMarked
<1>3. requests' = requests /\ started < MaxRequests /\ started' = started + 1
  BY DEF RestoreProxy, Once
<1>4. started' \in 0..MaxRequests
  BY <1>3, RegistryConstants DEF FleetInv, TablesOK
<1>5. TablesOK' /\ ReferencesOK'
  <2>1. /\ proxyAliases' \in [ProxyNames -> ProxyIDs \cup {None}] /\ nodes[proxies'[p].node] # None
        /\ \A a \in ProxyNames : proxyAliases'[a] \in {proxyAliases[a], p, None}
    BY <1>1, <1>2 DEF FleetInv, TablesOK, ReferencesOK
  <2> QED
    BY <1>1, <1>2, <1>4, <2>1, ProxyRowChanges
<1>6. RequestsOK'
  BY <1>1, <1>3, NoRequestMoves DEF FleetInv, nodeVars
<1> QED
  BY <1>5, <1>6 DEF FleetInv

----------------------------------------------------------------------------
(* The invariant *)

LEMMA FleetInit == Init => FleetInv
<1> SUFFICES ASSUME Init PROVE FleetInv
  OBVIOUS
<1>1. TablesOK
  BY RegistryConstants DEF Init, TablesOK
<1>2. ReferencesOK
  BY DEF Init, ReferencesOK
<1>3. RequestsOK
  BY DEF Init, RequestsOK
<1> QED
  BY <1>1, <1>2, <1>3 DEF FleetInv

LEMMA FleetStep == FleetInv /\ [Next]_vars => FleetInv'
<1> SUFFICES ASSUME FleetInv, [Next]_vars PROVE FleetInv'
  OBVIOUS
<1>1. CASE UNCHANGED vars
  <2>1. TablesOK' /\ ReferencesOK'
    BY <1>1 DEF vars, nodeVars, proxyVars, FleetInv, TablesOK, ReferencesOK, Live, LiveProxy
  <2>2. RequestsOK'
    BY <1>1, NoRequestMoves DEF vars, nodeVars, FleetInv
  <2> QED
    BY <2>1, <2>2 DEF FleetInv
<1>2. ASSUME NEW r \in Requests, AdminRequest(r) PROVE FleetInv'
  BY <1>2, CreateNodeKeeps, ReenrollKeeps, UpdateNodeKeeps, CreateProxyKeeps, UpdateProxyKeeps DEF AdminRequest
<1>3. ASSUME NEW r \in Requests, Continue(r) PROVE FleetInv'
  BY <1>3, InsertNodeKeeps, SetNodeStatusKeeps, IssueNodeTokenKeeps, CreateNodeTokenKeeps, RevokeNodeTokensKeeps,
     GetHeartbeatNodeKeeps, RecordHeartbeatKeeps, UpdateNodeByNameKeeps, InsertProxyKeeps, UpdateProxyByNameKeeps
     DEF Continue
<1>4. ASSUME NEW r \in Requests, Abandon(r) PROVE FleetInv'
  BY <1>4, ProceedKeeps DEF Abandon, End
<1> QED
  BY <1>1, <1>2, <1>3, <1>4, authenticateNodeKeeps, SoftDeleteNodeKeeps, SoftDeleteProxyKeeps, RestoreProxyKeeps DEF Next

LEMMA FleetInvariant == Spec => []FleetInv
<1>1. Init => FleetInv
  BY FleetInit
<1>2. FleetInv /\ [Next]_vars => FleetInv'
  BY FleetStep
<1> QED
  BY <1>1, <1>2, PTL DEF Spec

(* Tables hold rows of their columns and rows only refer to rows, in every *)
(* state the handlers of nodes.go, node_tokens.go and proxies.go reach.    *)
THEOREM FleetTypeCorrect == Spec => []FleetTypeOK
<1>1. FleetInv => FleetTypeOK
  BY DEF FleetInv, TablesOK, ReferencesOK, FleetTypeOK, NodeRows
<1> QED
  BY <1>1, FleetInvariant, PTL

----------------------------------------------------------------------------
(* Deleted nodes *)

(* What a step leaves of the tokens: one that still admits its node's      *)
(* agent admitted it before, and its node was not deleted by this step.    *)
TokensLast ==
  \A t \in TokenIDs : tokens[t] # None /\ tokens'[t] # None /\ ~tokens'[t].revoked =>
    /\ ~tokens[t].revoked /\ tokens'[t].node = tokens[t].node
    /\ nodes'[tokens[t].node].deleted => nodes[tokens[t].node].deleted

(* No row becomes deleted, so the tokens matter alone.                     *)
LEMMA NothingDeleted ==
  ASSUME FleetInv, UNCHANGED tokens,
         \A n \in NodeIDs : nodes[n] # None => (nodes'[n].deleted => nodes[n].deleted)
  PROVE  TokensLast
<1>1. \A t \in TokenIDs : tokens[t] # None => tokens[t].node \in NodeIDs /\ nodes[tokens[t].node] # None
  BY DEF FleetInv, TablesOK, ReferencesOK, TokenRows
<1> QED
  BY <1>1 DEF TokensLast

(* The steps that write rows but not tokens.                               *)
LEMMA RowStepsKeepTokens ==
  ASSUME FleetInv, NEW r \in Requests, InsertNode(r) \/ SetNodeStatus(r) \/ RecordHeartbeat(r) \/ UpdateNodeByName(r)
  PROVE  TokensLast
<1> DEFINE kept == \A n \in NodeIDs : nodes[n] # None => (nodes'[n].deleted => nodes[n].deleted)
<1>0. UNCHANGED tokens
  BY DEF InsertNode, SetNodeStatus, RecordHeartbeat, UpdateNodeByName, nodeVars
<1>1. CASE InsertNode(r)
  <2>1. kept
    BY <1>1 DEF InsertNode, CreateNodeRow, FleetInv, TablesOK, nodeVars
  <2> QED
    BY <1>0, <2>1, NothingDeleted
<1>2. CASE SetNodeStatus(r)
  <2>1. CASE UNCHANGED nodes
    BY <1>0, <2>1, NothingDeleted
  <2>2. ASSUME NEW n \in resolveNode(requests[r].name), nodes' = SetNodeStatusByID(n, "pending") PROVE TokensLast
    <3> DEFINE row == [nodes[n] EXCEPT !.status = "pending"]
    <3>1. n \in NodeIDs /\ nodes[n] \in NodeRows
      BY Resolved DEF FleetInv
    <3>2. row.deleted = nodes[n].deleted
      BY <3>1 DEF NodeRows
    <3>3. nodes' = [nodes EXCEPT ![n] = row]
      BY <2>2 DEF SetNodeStatusByID
    <3> HIDE DEF row
    <3>4. kept
      BY <3>1, <3>2, <3>3 DEF FleetInv, TablesOK
    <3> QED
      BY <1>0, <3>4, NothingDeleted
  <2> QED
    BY <1>2, <2>1, <2>2 DEF SetNodeStatus
<1>3. CASE RecordHeartbeat(r)
  <2>1. kept
    BY <1>3, PromotedRows DEF RecordHeartbeat, FleetInv
  <2> QED
    BY <1>0, <2>1, NothingDeleted
<1>4. CASE UpdateNodeByName(r)
  <2> DEFINE req == requests[r]
  <2>1. req.name \in Names /\ req.status \in Statuses
    BY <1>4 DEF UpdateNodeByName, At, FleetInv, RequestsOK, RequestOK
  <2>2. CASE UNCHANGED nodes
    BY <1>0, <2>2, NothingDeleted
  <2>3. ASSUME NEW n \in resolveNode(req.ref), aliases' = renameNodeTx(n, req.name),
               nodes' = RenameNodeByID(SetNodeStatusByID(n, req.status), n, req.name)
        PROVE  TokensLast
    <3>1. n \in NodeIDs /\ Live(n)
      BY Resolved DEF FleetInv
    <3>2. Live(n)' /\ \A m \in NodeIDs \ {n} : nodes'[m] = nodes[m]
      BY <2>1, <2>3, <3>1, NodeUpdated
    <3>3. kept
      BY <3>2 DEF Live
    <3> QED
      BY <1>0, <3>3, NothingDeleted
  <2> QED
    BY <1>4, <2>2, <2>3 DEF UpdateNodeByName
<1> QED
  BY <1>1, <1>2, <1>3, <1>4

(* The steps that write tokens but not rows.                               *)
LEMMA TokenStepsKeepTokens ==
  ASSUME FleetInv, NEW r \in Requests, CreateNodeToken(r) \/ RevokeNodeTokens(r)
  PROVE  TokensLast
<1>0. UNCHANGED nodes
  BY DEF CreateNodeToken, RevokeNodeTokens
<1>1. CASE CreateNodeToken(r)
  <2>1. \A t \in TokenIDs : tokens[t] # None => tokens'[t] = tokens[t]
    BY <1>1 DEF CreateNodeToken, FleetInv, TablesOK
  <2> QED
    BY <1>0, <2>1 DEF TokensLast
<1>2. CASE RevokeNodeTokens(r)
  <2>1. \A t \in TokenIDs : tokens[t] # None /\ ~tokens'[t].revoked => tokens'[t] = tokens[t]
    BY <1>2 DEF RevokeNodeTokens, Revoked, FleetInv, TablesOK, TokenRows
  <2> QED
    BY <1>0, <2>1 DEF TokensLast
<1> QED
  BY <1>1, <1>2

(* SoftDeleteNode revokes every token of the node it deletes.              *)
LEMMA DeletionKeepsTokens ==
  ASSUME FleetInv, NEW ref \in NodeRefs, SoftDeleteNode(ref)
  PROVE  TokensLast
<1>1. PICK n \in resolveNode(ref) : nodes' = ArchiveNodeRow(n) /\ tokens' = Revoked(n)
  BY DEF SoftDeleteNode
<1>2. \A m \in NodeIDs \ {n} : nodes'[m] = nodes[m]
  BY <1>1 DEF ArchiveNodeRow, FleetInv, TablesOK
<1>3. \A t \in TokenIDs : tokens[t] # None /\ ~tokens'[t].revoked => tokens'[t] = tokens[t] /\ tokens[t].node # n
  BY <1>1 DEF Revoked, FleetInv, TablesOK, TokenRows
<1>4. \A t \in TokenIDs : tokens[t] # None => tokens[t].node \in NodeIDs
  BY DEF FleetInv, TablesOK, TokenRows
<1> QED
  BY <1>2, <1>3, <1>4 DEF TokensLast

LEMMA StepKeepsTokens == FleetInv /\ [Next]_vars => TokensLast
<1> SUFFICES ASSUME FleetInv, [Next]_vars PROVE TokensLast
  OBVIOUS
<1>1. UNCHANGED <<nodes, tokens>> => TokensLast
  BY DEF TokensLast
<1>2. CASE UNCHANGED vars
  BY <1>1, <1>2 DEF vars, nodeVars
<1>3. ASSUME NEW r \in Requests, AdminRequest(r) PROVE UNCHANGED <<nodes, tokens>>
  BY <1>3 DEF AdminRequest, CreateNode, Reenroll, UpdateNode, CreateProxy, UpdateProxy, nodeVars
<1>4. ASSUME NEW r \in Requests, Continue(r) PROVE TokensLast
  <2>1. IssueNodeToken(r) \/ GetHeartbeatNode(r) \/ InsertProxy(r) \/ UpdateProxyByName(r) => UNCHANGED <<nodes, tokens>>
    BY DEF IssueNodeToken, GetHeartbeatNode, InsertProxy, UpdateProxyByName, nodeVars
  <2> QED
    BY <1>1, <1>4, <2>1, RowStepsKeepTokens, TokenStepsKeepTokens DEF Continue
<1>5. ASSUME NEW r \in Requests, Abandon(r) PROVE UNCHANGED <<nodes, tokens>>
  BY <1>5 DEF Abandon, nodeVars
<1>6. ASSUME NEW r \in Requests, NEW ref \in NodeRefs, NEW t \in TokenIDs, authenticateNode(r, ref, t)
      PROVE  UNCHANGED <<nodes, tokens>>
  BY <1>6 DEF authenticateNode, nodeVars
<1>7. ASSUME NEW ref \in NodeRefs, NEW p \in ProxyRefs, SoftDeleteProxy(ref, p) PROVE UNCHANGED <<nodes, tokens>>
  BY <1>7 DEF SoftDeleteProxy, nodeVars
<1>8. ASSUME NEW p \in ProxyIDs, RestoreProxy(p) PROVE UNCHANGED <<nodes, tokens>>
  BY <1>8 DEF RestoreProxy, nodeVars
<1> QED
  BY <1>1, <1>2, <1>3, <1>4, <1>5, <1>6, <1>7, <1>8, DeletionKeepsTokens DEF Next

(* However issuing, re-enrolling, renaming and deleting interleave, no     *)
(* name or alias admits a token of a deleted node (an alias never outlives *)
(* its node), and its identifier admits no token that the deletion found   *)
(* (SoftDeleteNode revokes them): only one that IssueNodeToken inserted    *)
(* after it, on what it had read before, still authenticates.              *)
THEOREM DeletedCutOff == Spec => DeletionCutsOff
<1>1. FleetInv /\ FleetInv' /\ [Next]_vars => [OnlyLateTokens]_vars
  <2> SUFFICES ASSUME FleetInv, FleetInv', [Next]_vars, NEW ref \in NodeRefs, NEW t \in GetActiveNodeTokens(ref)',
                      nodes'[tokens'[t].node].deleted
               PROVE  /\ ref \in NodeIDs
                      /\ tokens[t] = None \/ (nodes[tokens[t].node].deleted /\ t \in GetActiveNodeTokens(ref))
    BY DEF OnlyLateTokens
  <2> DEFINE n == tokens'[t].node
  <2>1. /\ t \in TokenIDs /\ tokens'[t] # None /\ ~tokens'[t].revoked
        /\ n \in NodeIDs /\ nodes'[n] # None
        /\ n = ref \/ (nodes'[n].name = ref /\ ~nodes'[n].deleted) \/ (ref \in Names /\ aliases'[ref] = n)
    BY DEF GetActiveNodeTokens, TokenOwners, Aliased
  <2>2. ~(ref \in Names /\ aliases'[ref] = n)
    BY <2>1, RegistryConstants DEF FleetInv, ReferencesOK, Live
  <2>3. n = ref /\ ref \in NodeIDs
    BY <2>1, <2>2
  <2>4. ASSUME tokens[t] # None PROVE nodes[tokens[t].node].deleted /\ t \in GetActiveNodeTokens(ref)
    <3>1. ~tokens[t].revoked /\ tokens[t].node = n /\ nodes[n].deleted
      BY <2>1, <2>4, StepKeepsTokens DEF TokensLast
    <3>2. nodes[n] # None
      BY <2>1, <2>4, <3>1 DEF FleetInv, ReferencesOK
    <3> QED
      BY <2>1, <2>3, <2>4, <3>1, <3>2 DEF GetActiveNodeTokens, TokenOwners
  <2> QED
    BY <2>3, <2>4
<1>2. FleetInv /\ [Next]_vars => FleetInv'
  BY FleetStep
<1> QED
  BY <1>1, <1>2, FleetInvariant, PTL DEF Spec, DeletionCutsOff

----------------------------------------------------------------------------
(* References *)

(* Rows that keep their names, and aliases as they were.                   *)
LEMMA NamesKeepReferences ==
  ASSUME FleetInv, UNCHANGED aliases, \A n \in NodeIDs : nodes[n] # None => nodes'[n] # None /\ nodes'[n].name = nodes[n].name
  PROVE  NodeReferencesKept
BY DEF NodeReferencesKept, resolveNode, Live, Aliased

(* renameNodeTx keeps them: the old name is made an alias, and only where  *)
(* it is none yet.                                                         *)
LEMMA RenameKeepsReferences ==
  ASSUME FleetInv, NEW r \in Requests, UpdateNodeByName(r)
  PROVE  NodeReferencesKept
<1> DEFINE req == requests[r]
<1>1. req.ref \in NodeRefs /\ req.name \in Names /\ req.status \in Statuses
  BY DEF UpdateNodeByName, At, FleetInv, RequestsOK, RequestOK
<1>2. CASE UNCHANGED <<nodes, aliases>>
  BY <1>2, NamesKeepReferences
<1>3. ASSUME NEW n \in resolveNode(req.ref), Renamable(n, req.name), aliases' = renameNodeTx(n, req.name),
             nodes' = RenameNodeByID(SetNodeStatusByID(n, req.status), n, req.name)
      PROVE  NodeReferencesKept
  <2>1. n \in NodeIDs /\ Live(n) /\ nodes[n].name \in Names
    BY Resolved DEF FleetInv, NodeRows
  <2>2. nodes'[n].name = req.name /\ \A m \in NodeIDs \ {n} : nodes'[m] = nodes[m]
    BY <1>1, <1>3, <2>1, NodeUpdated
  <2>3. CASE nodes[n].name = req.name
    <3>1. aliases' = aliases
      BY <1>3, <2>3 DEF renameNodeTx
    <3> QED
      BY <2>1, <2>2, <2>3, <3>1 DEF NodeReferencesKept, resolveNode, Live, Aliased
  <2>4. CASE nodes[n].name # req.name
    <3>1. aliases[nodes[n].name] = None
      BY <1>3, <2>4 DEF Renamable
    <3>2. /\ aliases'[nodes[n].name] = n
          /\ \A a \in Names \ {nodes[n].name, req.name} : aliases'[a] = aliases[a]
          /\ aliases'[req.name] = IF aliases[req.name] = n THEN None ELSE aliases[req.name]
      BY <1>1, <1>3, <2>1, <2>4 DEF renameNodeTx, CreateNodeNameAlias, DeleteNodeNameAlias, FleetInv, TablesOK
    <3>3. ASSUME NEW ref \in Names, NEW m \in resolveNode(ref), Live(m)' PROVE m \in resolveNode(ref)'
      <4>1. m \in NodeIDs /\ m # None /\ (m = ref \/ nodes[m].name = ref \/ aliases[ref] = m)
        BY RegistryConstants DEF resolveNode, Aliased
      <4>2. CASE m # n
        BY <2>2, <3>1, <3>2, <3>3, <4>1, <4>2 DEF resolveNode, Aliased
      <4>3. CASE m = n
        BY <2>2, <3>1, <3>2, <3>3, <4>1, <4>3 DEF resolveNode, Aliased
      <4> QED
        BY <4>2, <4>3
    <3> QED
      BY <3>3 DEF NodeReferencesKept
  <2> QED
    BY <2>3, <2>4
<1> QED
  BY <1>2, <1>3 DEF UpdateNodeByName

LEMMA DeletionKeepsReferences ==
  ASSUME FleetInv, NEW ref \in NodeRefs, SoftDeleteNode(ref)
  PROVE  NodeReferencesKept /\ ProxyReferencesKept
<1>1. PICK n \in resolveNode(ref) :
         /\ nodes' = ArchiveNodeRow(n) /\ aliases' = DeleteNodeAliases(n)
         /\ proxies' = ArchiveNodeProxies(n) /\ proxyAliases' = DeleteArchivedProxyAliases(proxies')
  BY DEF SoftDeleteNode
<1>2. n \in NodeIDs /\ nodes[n] # None /\ nodes[n] \in NodeRows
  BY Resolved DEF FleetInv
<1>3. NodeReferencesKept
  <2> DEFINE row == [nodes[n] EXCEPT !.deleted = TRUE, !.status = "disabled"]
  <2>1. nodes' = [nodes EXCEPT ![n] = row]
    BY <1>1, <1>2 DEF ArchiveNodeRow, FleetInv, TablesOK
  <2>2. row.deleted = TRUE
    BY <1>2 DEF NodeRows
  <2> HIDE DEF row
  <2>3. ~Live(n)' /\ \A m \in NodeIDs \ {n} : nodes'[m] = nodes[m]
    BY <1>2, <2>1, <2>2 DEF FleetInv, TablesOK, Live
  <2>4. \A a \in Names : aliases[a] # n => aliases'[a] = aliases[a]
    BY <1>1 DEF DeleteNodeAliases
  <2> QED
    BY <2>3, <2>4 DEF NodeReferencesKept, resolveNode, Aliased
<1>4. ProxyReferencesKept
  <2>1. /\ \A p \in ProxyIDs : LiveProxy(p)' => proxies'[p] = proxies[p]
        /\ \A a \in ProxyNames : \A p \in ProxyIDs : proxyAliases[a] = p /\ LiveProxy(p)' => proxyAliases'[a] = p
    BY <1>1, <1>2, ArchivedProxies
  <2> QED
    BY <2>1 DEF ProxyReferencesKept, ProxyOwners, AliasedProxy
<1> QED
  BY <1>3, <1>4

(* An update keeps the references to a proxy unless it was overtaken: the  *)
(* name it read is then the proxy's own, as it is no alias of it.          *)
LEMMA UpdateKeepsReferences ==
  ASSUME FleetInv, NEW r \in Requests, UpdateProxyByName(r)
  PROVE  ProxyReferencesKept
<1> DEFINE req == requests[r]
<1>1. /\ req.node \in NodeIDs /\ req.name \in ProxyNames /\ req.was \in ProxyNames
      /\ req.listener \in Listeners /\ req.proxy \in ProxyIDs /\ requests'[r] = None /\ At(r, "write_proxy")
  BY DEF UpdateProxyByName, At, FleetInv, RequestsOK, RequestOK, End, Proceed
<1>2. CASE UNCHANGED proxyVars
  BY <1>2 DEF proxyVars, ProxyReferencesKept, ProxyOwners, AliasedProxy
<1>3. ASSUME req.proxy \in resolveProxy(req.node, req.ref), RenamableProxy(req.proxy, req.was, req.name),
             proxies' = IF req.was = req.name THEN [proxies EXCEPT ![req.proxy].listener = req.listener]
                        ELSE RenameProxyByID([proxies EXCEPT ![req.proxy].listener = req.listener], req.proxy, req.name),
             proxyAliases' = renameProxyTx(req.proxy, req.was, req.name)
      PROVE  ProxyReferencesKept
  <2>1. LiveProxy(req.proxy)
    BY <1>3 DEF resolveProxy, GetProxyByNodeAndName
  <2>2. /\ ProxyReplaced(req.proxy)
        /\ proxies'[req.proxy].name = IF req.was = req.name THEN proxies[req.proxy].name ELSE req.name
    <3>1. proxies' = IF req.was = req.name THEN Relistened(req.proxy, req.listener)
                     ELSE RenameProxyByID(Relistened(req.proxy, req.listener), req.proxy, req.name)
      BY <1>3 DEF Relistened
    <3> QED
      BY <1>1, <2>1, <3>1, ProxyUpdated
  <2>3. \A q \in ProxyIDs \ {req.proxy} : proxies'[q] = proxies[q]
    BY <2>2 DEF ProxyReplaced
  <2>4. CASE req.was = req.name
    <3>1. proxyAliases' = proxyAliases
      BY <1>3, <2>4 DEF renameProxyTx
    <3> QED
      BY <2>2, <2>3, <2>4, <3>1 DEF ProxyReferencesKept, ProxyOwners, AliasedProxy
  <2>5. CASE req.was # req.name
    <3>1. proxyAliases[req.was] = None
      BY <1>3, <2>5 DEF RenamableProxy
    <3>2. /\ proxyAliases'[req.was] = req.proxy
          /\ \A a \in ProxyNames \ {req.was, req.name} : proxyAliases'[a] = proxyAliases[a]
          /\ proxyAliases'[req.name] = IF proxyAliases[req.name] = req.proxy THEN None ELSE proxyAliases[req.name]
      BY <1>1, <1>3, <2>5, ProxyAliasesWritten
    <3>3. ASSUME NEW ref \in ProxyNames, NEW p \in ProxyOwners(ref), LiveProxy(p)'
          PROVE  p \in ProxyOwners(ref)' \/ (Overtaken(r) /\ req.proxy = p)
      <4>1. p \in ProxyIDs /\ p # None /\ (proxies[p].name = ref \/ proxyAliases[ref] = p)
        BY RegistryConstants DEF ProxyOwners, AliasedProxy
      <4>2. CASE p # req.proxy
        BY <1>1, <2>3, <3>1, <3>2, <3>3, <4>1, <4>2 DEF ProxyOwners, AliasedProxy
      <4>3. CASE p = req.proxy /\ ~Overtaken(r)
        <5>1. proxies[p].name = req.was
          BY <1>1, <3>1, <4>1, <4>3 DEF Overtaken, ProxyOwners, AliasedProxy
        <5>2. proxies'[p].name = req.name
          BY <2>2, <2>5, <4>3
        <5> QED
          BY <1>1, <3>2, <3>3, <4>1, <4>3, <5>1, <5>2 DEF ProxyOwners, AliasedProxy
      <4> QED
        BY <4>2, <4>3
    <3> QED
      BY <1>1, <3>3 DEF ProxyReferencesKept
  <2> QED
    BY <2>4, <2>5
<1> QED
  BY <1>2, <1>3 DEF UpdateProxyByName

(* Proxies are written by the four steps that say so, and of the rest only *)
(* deleting a node does.                                                   *)
LEMMA ProxyStepsKeepReferences ==
  ASSUME FleetInv
  PROVE  /\ \A r \in Requests : InsertProxy(r) => ProxyReferencesKept
         /\ \A n \in NodeRefs, ref \in ProxyRefs : SoftDeleteProxy(n, ref) => ProxyReferencesKept
         /\ \A p \in ProxyIDs : RestoreProxy(p) => ProxyReferencesKept
<1>1. ASSUME NEW r \in Requests, InsertProxy(r) PROVE ProxyReferencesKept
  <2>1. proxyAliases' = proxyAliases /\ \A q \in ProxyIDs : proxies[q] # None => proxies'[q] = proxies[q]
    BY <1>1 DEF InsertProxy, FleetInv, TablesOK
  <2> QED
    BY <2>1 DEF ProxyReferencesKept, ProxyOwners, LiveProxy, AliasedProxy
<1>2. ASSUME NEW nodeRef \in NodeRefs, NEW ref \in ProxyRefs, SoftDeleteProxy(nodeRef, ref) PROVE ProxyReferencesKept
  <2>1. PICK n \in resolveNode(nodeRef) : \E p \in resolveProxy(n, ref) :
           proxies' = [proxies EXCEPT ![p].deleted = TRUE] /\ proxyAliases' = DeleteProxyAliases(p)
    BY <1>2 DEF SoftDeleteProxy
  <2>2. PICK p \in resolveProxy(n, ref) :
           proxies' = [proxies EXCEPT ![p].deleted = TRUE] /\ proxyAliases' = DeleteProxyAliases(p)
    BY <2>1
  <2>3. p \in ProxyIDs /\ proxies[p] # None
    BY DEF resolveProxy, GetProxyByNodeAndName, LiveProxy
  <2>4. ~LiveProxy(p)' /\ \A q \in ProxyIDs \ {p} : proxies'[q] = proxies[q]
    BY <2>2, <2>3, ProxyMarked DEF ProxyReplaced, LiveProxy
  <2>5. \A a \in ProxyNames : proxyAliases[a] # p => proxyAliases'[a] = proxyAliases[a]
    BY <2>2 DEF DeleteProxyAliases
  <2> QED
    BY <2>4, <2>5 DEF ProxyReferencesKept, ProxyOwners, AliasedProxy
<1>3. ASSUME NEW p \in ProxyIDs, RestoreProxy(p) PROVE ProxyReferencesKept
  <2>1. proxies[p] # None /\ proxies' = [proxies EXCEPT ![p].deleted = FALSE] /\ proxyAliases' = proxyAliases
    BY <1>3 DEF RestoreProxy
  <2>2. proxies'[p].name = proxies[p].name /\ \A q \in ProxyIDs \ {p} : proxies'[q] = proxies[q]
    BY <2>1, ProxyMarked DEF ProxyReplaced
  <2> QED
    BY <2>1, <2>2 DEF ProxyReferencesKept, ProxyOwners, AliasedProxy
<1> QED
  BY <1>1, <1>2, <1>3

(* The node steps that keep names and aliases.                             *)
LEMMA NodeStepsKeepReferences ==
  ASSUME FleetInv, NEW r \in Requests, InsertNode(r) \/ SetNodeStatus(r) \/ RecordHeartbeat(r)
  PROVE  NodeReferencesKept
<1> DEFINE kept == \A n \in NodeIDs : nodes[n] # None => nodes'[n] # None /\ nodes'[n].name = nodes[n].name
<1>1. CASE InsertNode(r)
  <2>1. kept /\ UNCHANGED aliases
    BY <1>1 DEF InsertNode, CreateNodeRow, FleetInv, TablesOK, nodeVars
  <2> QED
    BY <2>1, NamesKeepReferences
<1>2. CASE SetNodeStatus(r)
  <2>1. UNCHANGED aliases
    BY <1>2 DEF SetNodeStatus
  <2>2. CASE UNCHANGED nodes
    BY <2>1, <2>2, NamesKeepReferences
  <2>3. ASSUME NEW n \in resolveNode(requests[r].name), nodes' = SetNodeStatusByID(n, "pending") PROVE NodeReferencesKept
    <3> DEFINE row == [nodes[n] EXCEPT !.status = "pending"]
    <3>1. n \in NodeIDs /\ nodes[n] \in NodeRows
      BY Resolved DEF FleetInv
    <3>2. row \in NodeRows /\ row.name = nodes[n].name
      BY <3>1 DEF NodeRows, Statuses
    <3>3. nodes' = [nodes EXCEPT ![n] = row]
      BY <2>3 DEF SetNodeStatusByID
    <3> HIDE DEF row
    <3>4. kept
      BY <3>1, <3>2, <3>3, RegistryConstants DEF FleetInv, TablesOK
    <3> QED
      BY <2>1, <3>4, NamesKeepReferences
  <2> QED
    BY <1>2, <2>2, <2>3 DEF SetNodeStatus
<1>3. CASE RecordHeartbeat(r)
  <2>1. UNCHANGED aliases
    BY <1>3 DEF RecordHeartbeat
  <2>2. kept
    BY <1>3, PromotedRows DEF RecordHeartbeat, FleetInv
  <2> QED
    BY <2>1, <2>2, NamesKeepReferences
<1> QED
  BY <1>1, <1>2, <1>3

(* Every other step writes neither the rows nor the aliases.               *)
LEMMA StepKeepsReferences == FleetInv /\ [Next]_vars => NodeReferencesKept /\ ProxyReferencesKept
<1> SUFFICES ASSUME FleetInv, [Next]_vars PROVE NodeReferencesKept /\ ProxyReferencesKept
  OBVIOUS
<1>1. UNCHANGED <<nodes, aliases>> => NodeReferencesKept
  BY NamesKeepReferences
<1>2. UNCHANGED proxyVars => ProxyReferencesKept
  BY DEF proxyVars, ProxyReferencesKept, ProxyOwners, AliasedProxy
<1>3. CASE UNCHANGED vars
  BY <1>1, <1>2, <1>3 DEF vars, nodeVars
<1>4. ASSUME NEW r \in Requests, AdminRequest(r) PROVE UNCHANGED <<nodes, aliases, proxyVars>>
  BY <1>4 DEF AdminRequest, CreateNode, Reenroll, UpdateNode, CreateProxy, UpdateProxy, nodeVars
<1>5. ASSUME NEW r \in Requests, Continue(r) PROVE NodeReferencesKept /\ ProxyReferencesKept
  <2>1. CASE InsertNode(r) \/ SetNodeStatus(r) \/ RecordHeartbeat(r)
    <3>1. UNCHANGED proxyVars
      BY <2>1 DEF InsertNode, SetNodeStatus, RecordHeartbeat
    <3> QED
      BY <1>2, <2>1, <3>1, NodeStepsKeepReferences
  <2>2. CASE UpdateNodeByName(r)
    <3>1. UNCHANGED proxyVars
      BY <2>2 DEF UpdateNodeByName
    <3> QED
      BY <1>2, <2>2, <3>1, RenameKeepsReferences
  <2>3. CASE IssueNodeToken(r) \/ CreateNodeToken(r) \/ RevokeNodeTokens(r) \/ GetHeartbeatNode(r)
    BY <1>1, <1>2, <2>3 DEF IssueNodeToken, CreateNodeToken, RevokeNodeTokens, GetHeartbeatNode, nodeVars
  <2>4. CASE InsertProxy(r)
    <3>1. UNCHANGED <<nodes, aliases>>
      BY <2>4 DEF InsertProxy, nodeVars
    <3> QED
      BY <1>1, <2>4, <3>1, ProxyStepsKeepReferences
  <2>5. CASE UpdateProxyByName(r)
    <3>1. UNCHANGED <<nodes, aliases>>
      BY <2>5 DEF UpdateProxyByName, nodeVars
    <3> QED
      BY <1>1, <2>5, <3>1, UpdateKeepsReferences
  <2> QED
    BY <1>5, <2>1, <2>2, <2>3, <2>4, <2>5 DEF Continue
<1>6. ASSUME NEW r \in Requests, Abandon(r) PROVE UNCHANGED <<nodes, aliases, proxyVars>>
  BY <1>6 DEF Abandon, nodeVars
<1>7. ASSUME NEW r \in Requests, NEW ref \in NodeRefs, NEW t \in TokenIDs, authenticateNode(r, ref, t)
      PROVE  UNCHANGED <<nodes, aliases, proxyVars>>
  BY <1>7 DEF authenticateNode, nodeVars
<1>8. ASSUME NEW ref \in NodeRefs, NEW p \in ProxyRefs, SoftDeleteProxy(ref, p) PROVE NodeReferencesKept /\ ProxyReferencesKept
  <2>1. UNCHANGED <<nodes, aliases>>
    BY <1>8 DEF SoftDeleteProxy, nodeVars
  <2> QED
    BY <1>1, <1>8, <2>1, ProxyStepsKeepReferences
<1>9. ASSUME NEW p \in ProxyIDs, RestoreProxy(p) PROVE NodeReferencesKept /\ ProxyReferencesKept
  <2>1. UNCHANGED <<nodes, aliases>>
    BY <1>9 DEF RestoreProxy, nodeVars
  <2> QED
    BY <1>1, <1>9, <2>1, ProxyStepsKeepReferences
<1> QED
  BY <1>1, <1>2, <1>3, <1>4, <1>5, <1>6, <1>7, <1>8, <1>9, DeletionKeepsReferences DEF Next

(* Renames retain aliases: whoever holds a reference to a node or a proxy  *)
(* finds it as long as it lives, whatever other requests do (renameNodeTx, *)
(* renameProxyTx), but for an update overtaken by a rename, a deletion and *)
(* a restoration of its proxy.                                             *)
THEOREM ReferencesKept == Spec => ReferencesSurvive
<1>1. FleetInv /\ [Next]_vars => [NodeReferencesKept /\ ProxyReferencesKept]_vars
  BY StepKeepsReferences
<1> QED
  BY <1>1, FleetInvariant, PTL DEF Spec, ReferencesSurvive

----------------------------------------------------------------------------
(* Heartbeats and disabled nodes *)

(* A request about to record a heartbeat is ended by that, or abandoned.   *)
LEMMA RecordEnds ==
  ASSUME FleetInv, [Next]_vars, NEW r \in Requests, At(r, "record"), requests'[r] = None
  PROVE  RecordHeartbeat(r) \/ UNCHANGED nodes
<1> USE DEF At
<1>0. requests[r] # None /\ requests[r].op = "record" /\ DOMAIN requests = Requests
  BY DEF FleetInv, RequestsOK
<1>2. CASE UNCHANGED vars
  BY <1>2 DEF vars, nodeVars
<1>3. ASSUME NEW s \in Requests, AdminRequest(s) PROVE UNCHANGED nodes
  BY <1>3 DEF AdminRequest, CreateNode, Reenroll, UpdateNode, CreateProxy, UpdateProxy, nodeVars
<1>4. ASSUME NEW s \in Requests, s # r, NEW q, Proceed(s, q) PROVE FALSE
  BY <1>0, <1>4 DEF Proceed, FleetInv, RequestsOK
<1>5. ASSUME NEW s \in Requests, Continue(s) PROVE RecordHeartbeat(r) \/ UNCHANGED nodes
  <2>1. CASE s = r
    <3>1. RecordHeartbeat(r)
      BY <1>0, <1>5, <2>1 DEF Continue, InsertNode, SetNodeStatus, IssueNodeToken, CreateNodeToken, RevokeNodeTokens,
         GetHeartbeatNode, UpdateNodeByName, InsertProxy, UpdateProxyByName
    <3> QED
      BY <3>1
  <2>2. CASE s # r
    <3>1. InsertNode(s) \/ SetNodeStatus(s) => FALSE
      BY <1>4, <2>2 DEF InsertNode, SetNodeStatus, End
    <3>2. RecordHeartbeat(s) \/ UpdateNodeByName(s) => FALSE
      BY <1>4, <2>2 DEF RecordHeartbeat, UpdateNodeByName, End
    <3> QED
      BY <1>5, <3>1, <3>2 DEF Continue, IssueNodeToken, CreateNodeToken, RevokeNodeTokens, GetHeartbeatNode,
         InsertProxy, UpdateProxyByName, nodeVars
  <2> QED
    BY <2>1, <2>2
<1>6. ASSUME NEW s \in Requests, Abandon(s) PROVE UNCHANGED nodes
  BY <1>6 DEF Abandon, nodeVars
<1>7. ASSUME NEW s \in Requests, NEW ref \in NodeRefs, NEW t \in TokenIDs, authenticateNode(s, ref, t) PROVE UNCHANGED nodes
  BY <1>7 DEF authenticateNode, nodeVars
<1>8. ASSUME NEW ref \in NodeRefs, SoftDeleteNode(ref) PROVE FALSE
  BY <1>0, <1>8 DEF SoftDeleteNode, Once
<1>9. ASSUME NEW ref \in NodeRefs, NEW p \in ProxyRefs, SoftDeleteProxy(ref, p) PROVE UNCHANGED nodes
  BY <1>9 DEF SoftDeleteProxy, nodeVars
<1>10. ASSUME NEW p \in ProxyIDs, RestoreProxy(p) PROVE UNCHANGED nodes
  BY <1>10 DEF RestoreProxy, nodeVars
<1> QED
  BY <1>2, <1>3, <1>5, <1>6, <1>7, <1>8, <1>9, <1>10 DEF Next

(* A heartbeat promotes a pending node only (PromotePendingNodeToActive),  *)
(* so one that arrives after its node was disabled, or replaced under its  *)
(* name, leaves every disabled node as it is.                              *)
THEOREM DisabledNodesStay == Spec => HeartbeatNeverReenables
<1>1. FleetInv /\ [Next]_vars => [DisabledStays]_vars
  <2> SUFFICES ASSUME FleetInv, [Next]_vars, NEW r \in Requests, At(r, "record"), requests'[r] = None,
                      NEW n \in NodeIDs, nodes[n] # None, nodes[n].status = "disabled"
               PROVE  nodes'[n] = nodes[n]
    BY DEF DisabledStays
  <2>1. CASE RecordHeartbeat(r)
    <3>1. nodes' = nodes \/ nodes' = PromotePendingNodeToActive(requests[r].name)
      BY <2>1 DEF RecordHeartbeat
    <3>2. PromotePendingNodeToActive(requests[r].name)[n] = nodes[n]
      BY PromotedRows DEF FleetInv
    <3> QED
      BY <3>1, <3>2
  <2> QED
    BY <2>1, RecordEnds
<1> QED
  BY <1>1, FleetInvariant, PTL DEF Spec, HeartbeatNeverReenables

================================================================================
