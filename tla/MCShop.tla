------------------------------- MODULE MCShop -------------------------------
(* Shop for TLC: the configurations give its constants their values. *)
EXTENDS Shop, TLC
=============================================================================
