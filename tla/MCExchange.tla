---- MODULE MCExchange ----
(* Sessions of the greeting programs: two runs of the server and two of the client. *)
EXTENDS Exchange
====
