---------------------------- MODULE MCAccessControl ----------------------------
(* Small fleets for AccessControl: two nodes, a proxy on each, one or two hosts. *)
EXTENDS AccessControl, TLC

CONSTANTS n1, n2, p1, p2, h1, h2, h3, u1, g1, d1, d2, d3, c1, c2

MCHomeNode == (p1 :> n1) @@ (p2 :> n2)
MCHostOrder == (n1 :> <<h1, h3>>) @@ (n2 :> <<h2>>)
MCDirectPath == (<<p1, h1>> :> d1) @@ (<<p1, h3>> :> d3) @@ (<<p2, h2>> :> d2)
MCDirectLabel == (<<p1, h1>> :> "p1") @@ (<<p1, h3>> :> "p1-h3") @@ (<<p2, h2>> :> "p2")
Form(e, v, l) == [enabled |-> e, visibility |-> v, label |-> l]
MCPathForms == {Form(TRUE, "selectable", "own"), Form(TRUE, "dependency", "hop"), Form(TRUE, "selectable", "p1")}

\* A fleet with two published proxies, a user holding the direct path of one
\* of them and a chained path from the other through it, and a group.
Published2 == EnsureDirectPathsForProxy(EnsureDirectPathsForProxy(
  [EnrolledFleet EXCEPT !.proxy = [p \in Proxies |-> "on"], !.user[u1] = "active"], p1).s, p2).s
Chained == CreatePath(Published2, c1,
  [proxy |-> p1, host |-> h1, dialer |-> d2, enabled |-> TRUE, visibility |-> "selectable",
   managed |-> FALSE, label |-> "own"]).s
InUse == CreatePathGroup(GrantPathToUser(GrantPathToUser(Chained, u1, d1).s, u1, c1).s, g1, {d1}, TRUE)

MCInit == Init \/ (db = InUse /\ pending = {} /\ preview = None /\ changes = 0)
MCSpec == MCInit /\ [][Next]_vars
================================================================================
