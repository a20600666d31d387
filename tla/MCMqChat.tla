---- MODULE MCMqChat ----
(* The message-queue chat for TLC: the first and the third user have the same name. *)
EXTENDS MqChat, TLC

CONSTANTS c1, c2, c3, ann, bob

TwoAnns == (c1 :> ann) @@ (c2 :> bob) @@ (c3 :> ann)
====
