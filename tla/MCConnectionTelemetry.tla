------------------------- MODULE MCConnectionTelemetry -------------------------
(* Two connections, with a ring of one closed connection and caps of one. *)
EXTENDS ConnectionTelemetry
================================================================================
