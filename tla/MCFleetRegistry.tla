---------------------------- MODULE MCFleetRegistry ----------------------------
(* A node with an agent and a proxy, and room for one more of each. *)
EXTENDS FleetRegistry, TLC

CONSTANTS n1, t1, p1, x, p, r1, r2

Listener(transport) == [address |-> 443, transport |-> transport, settings |-> "s"]
MCListener == {Listener("tcp")}
MCListeners == {Listener("tcp"), Listener("tcp_udp")}

MCInit ==
  /\ nodes \in {[n \in NodeIDs |-> IF n = n1 THEN [name |-> x, status |-> s, deleted |-> FALSE] ELSE None]
                  : s \in {"pending", "active"}}
  /\ aliases = [a \in Names |-> None]
  /\ tokens = [t \in TokenIDs |-> IF t = t1 THEN [node |-> n1, revoked |-> FALSE] ELSE None]
  /\ latest = [n \in NodeIDs |-> None]
  /\ proxies = [q \in ProxyIDs |-> IF q = p1 THEN [node |-> n1, name |-> p, listener |-> Listener("tcp"), deleted |-> FALSE]
                                    ELSE None]
  /\ proxyAliases = [a \in ProxyNames |-> None]
  /\ requests = [r \in Requests |-> None]
  /\ started = 0
MCSpec == MCInit /\ [][Next]_vars

\* Nothing tells requests, unused tokens or the other proxy names apart.
MCSymmetry == Permutations(Requests) \cup Permutations(TokenIDs \ {t1}) \cup Permutations(ProxyNames \ {p})
================================================================================
