------------------------- MODULE OperationLifecycle -------------------------
(***************************************************************************)
(* What the operation store promises its users: every node has one slot.   *)
(* An operation takes the empty slot of a node, may be started any number  *)
(* of times while it holds the slot, and leaves it once, with an outcome   *)
(* that is never changed and never given to another operation.  Only an    *)
(* operation that was started can succeed or fail, and only one that was   *)
(* never started can expire.                                               *)
(***************************************************************************)
EXTENDS Naturals

CONSTANTS Nodes, Ops

VARIABLES
    slot,     \* slot[n]: the operations that occupy node n
    starts,   \* starts[o]: how often o was handed to an agent
    outcome   \* outcome[o]: "none" until o has ended

lifecycleVars == <<slot, starts, outcome>>

Outcomes == {"succeeded", "failed", "cancelled", "expired"}

LifecycleInit ==
    /\ slot = [n \in Nodes |-> {}]
    /\ starts = [o \in Ops |-> 0]
    /\ outcome = [o \in Ops |-> "none"]

Enter(o, n) ==
    /\ slot[n] = {}
    /\ \A m \in Nodes : o \notin slot[m]
    /\ outcome[o] = "none"
    /\ starts[o] = 0
    /\ slot' = [slot EXCEPT ![n] = {o}]
    /\ UNCHANGED <<starts, outcome>>

Start(o, n) ==
    /\ slot[n] = {o}
    /\ starts' = [starts EXCEPT ![o] = @ + 1]
    /\ UNCHANGED <<slot, outcome>>

Leave(o, n, result) ==
    /\ slot[n] = {o}
    /\ result \in {"succeeded", "failed"} => starts[o] > 0
    /\ result = "expired" => starts[o] = 0
    /\ outcome' = [outcome EXCEPT ![o] = result]
    /\ slot' = [slot EXCEPT ![n] = {}]
    /\ UNCHANGED starts

LifecycleNext ==
    \E o \in Ops, n \in Nodes :
        \/ Enter(o, n)
        \/ Start(o, n)
        \/ \E result \in Outcomes : Leave(o, n, result)

LifecycleSpec == LifecycleInit /\ [][LifecycleNext]_lifecycleVars
=============================================================================
