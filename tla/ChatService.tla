---------------------------- MODULE ChatService ----------------------------
(***************************************************************************)
(* What the shared-memory chat of labs/lab-14 promises, without locks,     *)
(* threads, a ring buffer or versions: commands wait in one bounded FIFO   *)
(* queue and are applied one at a time, each change of the room is seen    *)
(* whole, and what a client shows is a state the room has really been in,  *)
(* plus the client's own notes about sends that failed.                    *)
(***************************************************************************)
EXTENDS Naturals, Sequences, FiniteSets

CONSTANTS
  Clients,      \* client processes, named by their pid
  Texts,        \* what a user may type
  None,         \* the empty text
  MaxClients,   \* size of the user table
  MaxMessages,  \* lines kept in the history
  MaxCommands   \* commands the queue holds

VARIABLES
  queue,    \* accepted commands, oldest first
  log,      \* the last MaxMessages lines of the room
  members,  \* who is listed in the room
  view      \* per client: the lines and the members it shows

vars == <<queue, log, members, view>>

Commands == {"JOIN", "TEXT", "LEAVE"}

\* A line of the room: who did what.  "note" lines exist only in a client.
Line(kind, p, t) == [kind |-> kind, pid |-> p, text |-> t]

\* A history with one more line: only the last MaxMessages are kept.
Record(lines, line) ==
  LET all == Append(lines, line)
  IN  IF Len(all) <= MaxMessages THEN all ELSE Tail(all)

EmptyView == [lines |-> <<>>, users |-> {}]

Init ==
  /\ queue = <<>>
  /\ log = <<>>
  /\ members = {}
  /\ view = [c \in Clients |-> EmptyView]

\* A client's command is accepted while the queue has room for it.
Submit(c, command, t) ==
  /\ Len(queue) < MaxCommands
  /\ queue' = Append(queue, [command |-> command, pid |-> c, text |-> t])
  /\ UNCHANGED <<log, members, view>>

\* The oldest command takes effect, whole.
Apply ==
  /\ queue # <<>>
  /\ queue' = Tail(queue)
  /\ LET request == Head(queue)
         p == request.pid
     IN  \/ /\ request.command = "JOIN"
            /\ members' = IF Cardinality(members) < MaxClients
                          THEN members \union {p} ELSE members
            /\ log' = Record(log, Line("joined", p, None))
         \/ /\ request.command = "TEXT"
            /\ log' = Record(log, Line("text", p, request.text))
            /\ UNCHANGED members
         \/ /\ request.command = "LEAVE"
            /\ p \in members
            /\ members' = members \ {p}
            /\ log' = Record(log, Line("left", p, None))
         \/ /\ request.command = "LEAVE"
            /\ p \notin members
            /\ UNCHANGED <<log, members>>
  /\ UNCHANGED view

\* A client comes to show exactly the present state of the room.
Observe(c) ==
  /\ view' = [view EXCEPT ![c] = [lines |-> log, users |-> members]]
  /\ UNCHANGED <<queue, log, members>>

\* A client adds a line of its own about a send that failed.
Note(c) ==
  /\ view' = [view EXCEPT ![c].lines = Record(@, Line("note", c, None))]
  /\ UNCHANGED <<queue, log, members>>

\* A client ends.
Close(c) ==
  /\ view' = [view EXCEPT ![c] = EmptyView]
  /\ UNCHANGED <<queue, log, members>>

Next ==
  \/ \E c \in Clients, command \in Commands, t \in Texts \union {None} :
       Submit(c, command, t)
  \/ Apply
  \/ \E c \in Clients : Observe(c) \/ Note(c) \/ Close(c)

Spec == Init /\ [][Next]_vars
=============================================================================
