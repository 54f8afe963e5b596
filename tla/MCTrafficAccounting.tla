------------------------ MODULE MCTrafficAccounting -------------------------
(* TLC instances of TrafficAccounting.                                      *)
EXTENDS TrafficAccounting, TLC

CONSTANTS s1, b1, b2
=============================================================================
