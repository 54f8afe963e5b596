------------------------- MODULE MCOperationProtocol ------------------------
(* TLC instances of OperationProtocol: one agent, its node, and one or two  *)
(* operations, with a bounded number of faults.                             *)
EXTENDS OperationProtocol, TLC

CONSTANTS n1, o1, o2, c1, c2, k1, k2

AllCapabilities == RequiredCapabilities("update.bundle")
AgentCapabilities == {AllCapabilities}

(* Only request slots are interchangeable: agent.slot names one of them and *)
(* nothing else tells them apart.                                           *)
Slots == Permutations(Claimers)
=============================================================================
