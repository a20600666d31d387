----------------------------- MODULE MCRawEcho -----------------------------
(* RawEcho for TLC. *)
EXTENDS RawEcho, TLC

CONSTANTS c1, c2, c3, p1, p2, p3

\* Every client is started with a port of its own.
OwnPorts == (c1 :> p1) @@ (c2 :> p2) @@ (c3 :> p3)
=============================================================================
