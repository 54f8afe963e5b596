-------------------------- MODULE MCNodeOperations --------------------------
(* The TLC instance of NodeOperations: OperationLeases.cfg puts one         *)
(* operation under two concurrent claim requests.                           *)
EXTENDS NodeOperations, TLC

CONSTANTS n1, o1, c1, c2, k1, x1

AllCapabilities == RequiredCapabilities("update.bundle")

OldAndNewAgents == {{"operations"}, AllCapabilities}

(* Identifiers, keys, contents and request slots are interchangeable.       *)
Symmetry ==
    UNION {Permutations(Ops), Permutations(Keys), Permutations(Contents),
           Permutations(Claimers), Permutations(Nodes)}
=============================================================================
