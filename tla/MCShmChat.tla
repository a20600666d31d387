----------------------------- MODULE MCShmChat ------------------------------
(* ShmChat for TLC: the configurations give its constants their values. *)
EXTENDS ShmChat, TLC
=============================================================================
