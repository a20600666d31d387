---------------------------- MODULE MCTimeQueue -----------------------------
(* TimeQueue for TLC: the configurations give its constants their values. *)
EXTENDS TimeQueue, TLC
=============================================================================
