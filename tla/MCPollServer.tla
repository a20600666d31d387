---------------------------- MODULE MCPollServer ----------------------------
(* PollServer for TLC: the configurations give its constants their values. *)
EXTENDS PollServer, TLC
=============================================================================
