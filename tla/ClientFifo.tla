----------------------------- MODULE ClientFifo -----------------------------
(***************************************************************************)
(* What the queue of labs/lab-16/part-2/3 promises, without a ring, a      *)
(* mutex or condition variables: a bounded FIFO queue through which every  *)
(* connection passes at most once, to one worker.                          *)
(***************************************************************************)
EXTENDS Naturals, Sequences

CONSTANTS Conns, Workers, None, QueueSize

VARIABLES
  pushed,   \* connections put in so far
  queue,    \* connections that wait, oldest first
  serving   \* per worker: the connection it has taken, or None

vars == <<pushed, queue, serving>>

Init ==
  /\ pushed = {}
  /\ queue = <<>>
  /\ serving = [w \in Workers |-> None]

Put(c) ==
  /\ c \in Conns \ pushed
  /\ Len(queue) < QueueSize
  /\ pushed' = pushed \union {c}
  /\ queue' = Append(queue, c)
  /\ UNCHANGED serving

Take(w) ==
  /\ serving[w] = None
  /\ queue # <<>>
  /\ serving' = [serving EXCEPT ![w] = Head(queue)]
  /\ queue' = Tail(queue)
  /\ UNCHANGED pushed

Finish(w) ==
  /\ serving' = [serving EXCEPT ![w] = None]
  /\ UNCHANGED <<pushed, queue>>

Next == (\E c \in Conns : Put(c)) \/ \E w \in Workers : Take(w) \/ Finish(w)

Spec == Init /\ [][Next]_vars
=============================================================================
