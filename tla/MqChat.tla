------------------------------- MODULE MqChat -------------------------------
(***************************************************************************)
(* The chat of labs/lab-13: one server with a POSIX message queue for all  *)
(* incoming commands, and one queue per client for everything the server   *)
(* sends to it.  Queues are bounded and mq_send blocks on a full one.      *)
(*                                                                         *)
(* The main thread of a client sends, its receiver thread takes from the   *)
(* client's queue; message_lock covers single steps of either.  The user   *)
(* list of a client is not sent as such but worked out from the lines, so  *)
(* that it confuses users of one name, and takes a text that ends in       *)
(* " joined the chat" or " left the chat" for a line about a user.         *)
(*                                                                         *)
(* A user's name is free text in the code (chat_ui.c:35).  Two kinds are   *)
(* left out: one that begins with "@@user ", whose lines every receiver    *)
(* would take for lines of the snapshot and not show                       *)
(* (chat_client.c:180, 191), and one with ": " in it, of which the user    *)
(* list keeps the part before (chat_client.c:152).                         *)
(***************************************************************************)
EXTENDS Naturals, Sequences, FiniteSets

CONSTANTS
  Clients,        \* client processes, named by their pid
  None,           \* no text
  Texts,          \* what a user may type
  JoinLike,       \* texts that end in JOIN_MESSAGE_SUFFIX
  LeaveLike,      \* texts that end in LEAVE_MESSAGE_SUFFIX
  NameOf,         \* the name a user enters; others may have the same
  MaxClients,     \* CHAT_MAX_CLIENTS
  MaxMessages,    \* CHAT_MAX_MESSAGES, lines a client keeps
  QueueMax,       \* CHAT_QUEUE_MAX_MESSAGES
  Writers,        \* clients whose user sends texts
  MaxTexts,       \* bound: texts one user sends
  Quitters,       \* clients whose user may quit
  Killable,       \* clients that may die at any point
  Interruptible,  \* clients whose mq_send may fail
  Stoppable       \* whether the server may get SIGINT or SIGTERM

ASSUME MqAssumption ==
  /\ None \notin Texts /\ JoinLike \subseteq Texts /\ LeaveLike \subseteq Texts \ JoinLike
  /\ DOMAIN NameOf = Clients
  /\ \A c, d \in Clients : NameOf[c] # <<NameOf[d]>>   \* no name reads "<name>: <text>"
  /\ MaxClients \in Nat \ {0} /\ MaxMessages \in Nat \ {0} /\ QueueMax \in Nat \ {0}
  /\ Writers \subseteq Clients
  /\ MaxTexts \in Nat
  /\ Quitters \subseteq Clients /\ Killable \subseteq Clients
  /\ Interruptible \subseteq Clients
  /\ Stoppable \in BOOLEAN

VARIABLES
  \* the server
  srvPc,       \* "start", "receive", "send" (in mq_send), "done"
  serverQueue, \* the common queue of commands
  clients,     \* pids of clients[0 .. client_count-1]
  out,         \* sends of the command in hand still to be done: <<pid, line>>
  \* the clients' queues
  queue,       \* per client: lines sent to it
  named,       \* clients whose queue can be opened by its name
  \* the clients
  cpc,         \* where the main thread is
  receiving,   \* clients whose receiver thread runs
  request,     \* per client: the command being sent
  messages,    \* per client: the lines it shows
  users,       \* per client: the names it lists
  typed,       \* per client: texts typed so far (bounds the model)
  log,         \* history: every line the server has broadcast
  unlisted     \* history, per client: names for which its list had no room

srvVars == <<srvPc, clients, out, log>>
clientVars == <<cpc, receiving, request, messages, users, typed, unlisted>>
vars == <<srvVars, serverQueue, queue, named, clientVars>>

Request(command, p, t) == [command |-> command, pid |-> p, text |-> t]
Requests == [command : {"JOIN", "TEXT", "LEAVE"}, pid : Clients, text : Texts \union {None}]
Line(kind, p, t) == [kind |-> kind, pid |-> p, text |-> t]
Lines == [kind : {"reset", "user", "joined", "left", "text"}, pid : Clients,
          text : Texts \union {None}]
Note == "note"   \* a line a client writes to itself
RoomLine == {l \in Lines : l.kind \in {"joined", "left", "text"}}

Init ==
  /\ srvPc = "start"
  /\ serverQueue = <<>>
  /\ clients = <<>>
  /\ out = <<>>
  /\ queue = [c \in Clients |-> <<>>]
  /\ named = {}
  /\ cpc = [c \in Clients |-> "init"]
  /\ receiving = {}
  /\ request = [c \in Clients |-> Request("JOIN", c, None)]
  /\ messages = [c \in Clients |-> <<>>]
  /\ users = [c \in Clients |-> {}]
  /\ typed = [c \in Clients |-> 0]
  /\ log = <<>>
  /\ unlisted = [c \in Clients |-> {}]

Members == {clients[i] : i \in DOMAIN clients}

-----------------------------------------------------------------------------
(* The server.                                                             *)

\* main: a stale queue is removed and a new one made.
ServerStart ==
  /\ srvPc = "start"
  /\ srvPc' = "receive"
  /\ UNCHANGED <<clients, out, log, serverQueue, queue, named, clientVars>>

\* cleanup: SIGINT or SIGTERM ends the server even inside mq_send.
Cleanup ==
  /\ Stoppable
  /\ srvPc # "done"
  /\ srvPc' = "done"
  /\ UNCHANGED <<clients, out, log, serverQueue, queue, named, clientVars>>

\* Defect: the last client of the table is left out.
BroadcastSkipsLast(cs, line) == [i \in 1 .. Len(cs) - 1 |-> <<cs[i], line>>]

\* broadcast: the line for every client of the table, in its order.
Broadcast(cs, line) == [i \in 1 .. Len(cs) |-> <<cs[i], line>>]

\* Defect: the reset comes after the names.
SnapshotResetLast(c, cs) ==
  [i \in 1 .. Len(cs) |-> <<c, Line("user", cs[i], None)>>] \o <<<<c, Line("reset", c, None)>>>>

\* send_user_snapshot: a reset and one line for each name.
Snapshot(c, cs) ==
  <<<<c, Line("reset", c, None)>>>> \o [i \in 1 .. Len(cs) |-> <<c, Line("user", cs[i], None)>>]

\* mq_receive takes the oldest command; its sends follow.
TakeCommand(cs, sends, lines) ==
  /\ serverQueue' = Tail(serverQueue)
  /\ clients' = cs
  /\ out' = sends
  /\ log' = log \o lines
  /\ srvPc' = IF sends = <<>> THEN "receive" ELSE "send"
  /\ UNCHANGED <<queue, named, clientVars>>

\* A client that is not in the table yet, and fits.
CanAdd(c) == c \notin Members /\ Len(clients) < MaxClients

\* CHAT_CMD_JOIN: a new client is added; one that cannot be added is announced as well,
\* but gets no snapshot.
HandleJoin(r) ==
  /\ r.command = "JOIN"
  /\ CanAdd(r.pid) => r.pid \in named
  /\ LET cs == IF CanAdd(r.pid) THEN Append(clients, r.pid) ELSE clients
         line == Line("joined", r.pid, None)
         welcome == IF \E i \in DOMAIN cs : cs[i] = r.pid THEN Snapshot(r.pid, cs) ELSE <<>>
     IN  TakeCommand(cs, welcome \o Broadcast(cs, line), <<line>>)

\* CHAT_CMD_JOIN: the client has gone already and its queue cannot be opened.
HandleJoinFails(r) ==
  /\ r.command = "JOIN"
  /\ CanAdd(r.pid)
  /\ r.pid \notin named
  /\ TakeCommand(clients, <<>>, <<>>)

\* CHAT_CMD_LEAVE of a client of the table: the clients behind it move down.
HandleLeave(r) ==
  /\ r.command = "LEAVE"
  /\ \E i \in DOMAIN clients :
       /\ clients[i] = r.pid
       /\ LET cs == SubSeq(clients, 1, i - 1) \o SubSeq(clients, i + 1, Len(clients))
              line == Line("left", r.pid, None)
          IN  TakeCommand(cs, Broadcast(cs, line), <<line>>)

\* CHAT_CMD_LEAVE of anybody else.
HandleLeaveUnknown(r) ==
  /\ r.command = "LEAVE"
  /\ r.pid \notin Members
  /\ TakeCommand(clients, <<>>, <<>>)

\* CHAT_CMD_TEXT: no membership is asked for.
HandleText(r) ==
  /\ r.command = "TEXT"
  /\ LET line == Line("text", r.pid, r.text)
     IN  TakeCommand(clients, Broadcast(clients, line), <<line>>)

Receive ==
  /\ srvPc = "receive"
  /\ serverQueue # <<>>
  /\ LET r == Head(serverQueue)
     IN  HandleJoin(r) \/ HandleJoinFails(r) \/ HandleLeave(r) \/ HandleLeaveUnknown(r)
         \/ HandleText(r)

\* One mq_send of the command in hand; it waits while that client's queue is full.
SendNext ==
  /\ srvPc = "send"
  /\ LET c == Head(out)[1]
     IN  /\ Len(queue[c]) < QueueMax
         /\ queue' = [queue EXCEPT ![c] = Append(@, Head(out)[2])]
  /\ out' = Tail(out)
  /\ srvPc' = IF Tail(out) = <<>> THEN "receive" ELSE "send"
  /\ UNCHANGED <<clients, log, serverQueue, named, clientVars>>

-----------------------------------------------------------------------------
(* A client.                                                               *)

Move(c, from, to) == cpc[c] = from /\ cpc' = [cpc EXCEPT ![c] = to]

\* client_push_message and the end of client_process_received_text.
Push(ms, line) == IF Len(ms) < MaxMessages THEN Append(ms, line) ELSE Append(Tail(ms), line)

\* client_add_user_locked: not twice, and not beyond the array.
AddUser(us, names) == IF Cardinality(us) < MaxClients THEN us \union names ELSE us

\* main: the interface, the name or client_connect fails.
ConnectFails(c) ==
  /\ Move(c, "init", "exited")
  /\ UNCHANGED <<srvVars, serverQueue, queue, named, receiving, request, messages, users,
                 typed, unlisted>>

\* main: the user's own name is listed, client_connect makes the queue and finds the
\* server's; JOIN is sent next.
Connect(c) ==
  /\ srvPc \in {"receive", "send"}
  /\ Move(c, "init", "sending")
  /\ named' = named \union {c}
  /\ users' = [users EXCEPT ![c] = {NameOf[c]}]
  /\ UNCHANGED <<srvVars, serverQueue, queue, receiving, request, messages, typed, unlisted>>

\* Where main goes after client_send_command.
AfterSend(c, ok) ==
  CASE request[c].command = "JOIN" -> IF ok THEN "start" ELSE "destroy"
    [] request[c].command = "TEXT" -> "loop"
    [] request[c].command = "LEAVE" -> "cancel"

\* client_send_command: mq_send waits while the server's queue is full.
Send(c) ==
  /\ Move(c, "sending", AfterSend(c, TRUE))
  /\ Len(serverQueue) < QueueMax
  /\ serverQueue' = Append(serverQueue, request[c])
  /\ UNCHANGED <<srvVars, queue, named, receiving, request, messages, users, typed, unlisted>>

\* client_send_command: mq_send fails; only a text leaves a note.
SendFails(c) ==
  /\ c \in Interruptible
  /\ Move(c, "sending", AfterSend(c, FALSE))
  /\ messages' = IF request[c].command = "TEXT"
                 THEN [messages EXCEPT ![c] = Push(@, Line(Note, c, None))] ELSE messages
  /\ UNCHANGED <<srvVars, serverQueue, queue, named, receiving, request, users, typed, unlisted>>

\* client_start_receiver, and the line "Connected to chat".
StartReceiver(c) ==
  /\ Move(c, "start", "loop")
  /\ receiving' = receiving \union {c}
  /\ messages' = [messages EXCEPT ![c] = Push(@, Line(Note, c, None))]
  /\ UNCHANGED <<srvVars, serverQueue, queue, named, request, users, typed, unlisted>>

\* main from `from': the command is sent next.
Begin(c, from, r) ==
  /\ Move(c, from, "sending")
  /\ request' = [request EXCEPT ![c] = r]
  /\ UNCHANGED <<srvVars, serverQueue, queue, named, receiving, messages, users, unlisted>>

\* client_start_receiver: pthread_create fails.
StartFails(c) ==
  /\ c \in Quitters
  /\ Begin(c, "start", Request("LEAVE", c, None))
  /\ UNCHANGED typed

\* client_run_event_loop: Enter on a text.
KeyText(c, t) ==
  /\ c \in Writers /\ typed[c] < MaxTexts
  /\ Begin(c, "loop", Request("TEXT", c, t))
  /\ typed' = [typed EXCEPT ![c] = @ + 1]

\* client_run_event_loop: F10 or "/exit".
KeyExit(c) ==
  /\ c \in Quitters
  /\ Begin(c, "loop", Request("LEAVE", c, None))
  /\ UNCHANGED typed

\* client_stop_receiver: cancelled in mq_receive, joined.
StopReceiver(c) ==
  /\ Move(c, "cancel", "destroy")
  /\ receiving' = receiving \ {c}
  /\ UNCHANGED <<srvVars, serverQueue, queue, named, request, messages, users, typed, unlisted>>

\* client_state_destroy: the queue loses its name; the server may still have it open.
Destroy(c) ==
  /\ Move(c, "destroy", "exited")
  /\ named' = named \ {c}
  /\ UNCHANGED <<srvVars, serverQueue, queue, receiving, request, messages, users, typed, unlisted>>

\* The process dies; its queue keeps its name and its lines.
Kill(c) ==
  /\ c \in Killable
  /\ cpc[c] \notin {"init", "exited", "dead"}
  /\ cpc' = [cpc EXCEPT ![c] = "dead"]
  /\ receiving' = receiving \ {c}
  /\ UNCHANGED <<srvVars, serverQueue, queue, named, request, messages, users, typed, unlisted>>

\* What client_extract_name_with_suffix makes of "<name>: ... joined the chat": no
\* user's name.  Texts differ in their ending only.
Ghost(p) == <<NameOf[p]>>

\* client_process_received_text: the name a line adds to the list of users, and the
\* one it takes off.  A text counts as a sign of life of its sender unless it reads like
\* a service line.
Enters(line) ==
  IF line.text \in JoinLike THEN {Ghost(line.pid)}
  ELSE IF line.kind \in {"reset", "left"} \/ line.text \in LeaveLike THEN {}
  ELSE {NameOf[line.pid]}
Leaves(line) ==
  IF line.text \in LeaveLike THEN {Ghost(line.pid)}
  ELSE IF line.kind = "left" THEN {NameOf[line.pid]} ELSE {}

UsersAfter(us, line) ==
  IF line.kind = "reset" THEN {} ELSE AddUser(us, Enters(line)) \ Leaves(line)

\* Defect: one thread both sends and receives.
ReceiverStepInMain(c) ==
  /\ c \in receiving
  /\ cpc[c] = "loop"
  /\ queue[c] # <<>>
  /\ queue' = [queue EXCEPT ![c] = Tail(@)]
  /\ users' = [users EXCEPT ![c] = UsersAfter(@, Head(queue[c]))]
  /\ messages' = IF Head(queue[c]).kind \in {"reset", "user"} THEN messages
                 ELSE [messages EXCEPT ![c] = Push(@, Head(queue[c]))]
  /\ unlisted' = [unlisted EXCEPT ![c] = (@ \union Enters(Head(queue[c]))) \ users'[c]]
  /\ UNCHANGED <<srvVars, serverQueue, named, cpc, receiving, request, typed>>

\* receiver_thread: one line is taken and processed; the snapshot's are not shown.
ReceiverStep(c) ==
  /\ c \in receiving
  /\ queue[c] # <<>>
  /\ queue' = [queue EXCEPT ![c] = Tail(@)]
  /\ users' = [users EXCEPT ![c] = UsersAfter(@, Head(queue[c]))]
  /\ messages' = IF Head(queue[c]).kind \in {"reset", "user"} THEN messages
                 ELSE [messages EXCEPT ![c] = Push(@, Head(queue[c]))]
  /\ unlisted' = [unlisted EXCEPT ![c] = (@ \union Enters(Head(queue[c]))) \ users'[c]]
  /\ UNCHANGED <<srvVars, serverQueue, named, cpc, receiving, request, typed>>

-----------------------------------------------------------------------------
ServerSteps == ServerStart \/ Receive \/ SendNext

MainSteps(c) == StartReceiver(c) \/ StopReceiver(c) \/ Destroy(c)

Environment ==
  \/ Cleanup
  \/ \E c \in Clients :
       \/ ConnectFails(c) \/ Connect(c) \/ SendFails(c) \/ StartFails(c) \/ KeyExit(c)
       \/ Kill(c)
       \/ \E t \in Texts : KeyText(c, t)

Next ==
  \/ ServerSteps
  \/ \E c \in Clients : MainSteps(c) \/ Send(c) \/ ReceiverStep(c)
  \/ Environment

Spec == Init /\ [][Next]_vars

\* Every thread runs; the kernel queues the senders that wait for a slot, so one that
\* finds slots free again and again gets one.
FairSpec ==
  /\ Spec
  /\ WF_vars(ServerSteps)
  /\ \A c \in Clients : WF_vars(MainSteps(c)) /\ SF_vars(Send(c)) /\ WF_vars(ReceiverStep(c))

-----------------------------------------------------------------------------
(* Properties.                                                             *)

\* What is left of s when only the elements of S are kept.
Only(s, S) ==
  LET kept[i \in 0 .. Len(s)] ==
        IF i = 0 THEN <<>>
        ELSE IF s[i] \in S THEN Append(kept[i - 1], s[i]) ELSE kept[i - 1]
  IN  kept[Len(s)]

\* The lines of the room in a sequence: no notes, no snapshot.
RoomLines(s) == Only(s, RoomLine)

\* The lines of the room still to be sent to c.
Pending(c) ==
  LET mine == Only(out, {c} \X RoomLine)
  IN  [i \in DOMAIN mine |-> mine[i][2]]

\* Every client in the table shows, or has on the way to it, the room's lines in the
\* one order the server broadcast them, without a gap, up to the last one; and from its
\* own "joined" on, unless its window has scrolled.
SameOrder ==
  \A c \in Members :
    LET all == RoomLines(messages[c]) \o RoomLines(queue[c]) \o Pending(c)
    IN  /\ Len(all) <= Len(log)
        /\ all = SubSeq(log, Len(log) - Len(all) + 1, Len(log))
        /\ Len(messages[c]) < MaxMessages => all # <<>> /\ Head(all) = Line("joined", c, None)

Namesakes(c) == {d \in Clients \ {c} : NameOf[d] = NameOf[c]}
HasLeft(c) == \E i \in DOMAIN log : log[i].kind = "left" /\ log[i].pid = c

\* A client that has taken everything the server sent lists every client in the table:
\* the list it works out from the lines misses nobody but one whose namesake has left
\* (chat_client.c:212), and one that came when the list was full of names that are
\* no members': users the table had no room for, and texts that read like a "joined"
\* (chat_client.c:98 and 210).  The table stays within clients[CHAT_MAX_CLIENTS],
\* although more come than it holds (chat_server.c:130-143).
UsersComplete ==
  /\ Len(clients) <= MaxClients
  /\ srvPc = "receive" =>
       \A c \in Members : c \in receiving /\ queue[c] = <<>> =>
         /\ \A d \in Members :
              NameOf[d] \in users[c] \union unlisted[c] \/ \E e \in Namesakes(d) : HasLeft(e)
         /\ unlisted[c] # {} =>
              \E i \in DOMAIN log : log[i].text \in JoinLike \/ log[i].pid \notin Members

\* c takes nothing out of its queue any more: it has cancelled its receiver thread, has
\* failed to start one, has left or has died.
Deaf(c) ==
  /\ c \notin receiving
  /\ cpc[c] # "start" /\ ~(cpc[c] = "sending" /\ request[c].command = "JOIN")

\* mq_send to a client in the table that no longer receives and whose queue is full.
SendsToDeaf ==
  srvPc = "send" /\ Deaf(Head(out)[1]) /\ Len(queue[Head(out)[1]]) = QueueMax

\* Server and clients wait for room in each other's queues (chat_server.c:54,
\* chat_client.c:321 and 472) and still go on, whoever quits, dies or fails: the only
\* things that block an mq_send for good are a client that has stopped receiving with
\* a full queue, and a server that has ended.
NobodyStuck ==
  /\ srvPc = "send" ~> (srvPc # "send" \/ SendsToDeaf)
  /\ \A c \in Clients :
       cpc[c] = "sending" ~> (cpc[c] # "sending" \/ srvPc = "done" \/ SendsToDeaf)

-----------------------------------------------------------------------------
(* What the proofs need besides.                                           *)

\* The types of the variables.
TypeOK ==
  /\ srvPc \in {"start", "receive", "send", "done"}
  /\ serverQueue \in Seq(Requests)
  /\ clients \in Seq(Clients)
  /\ out \in Seq(Clients \X Lines)
  /\ queue \in [Clients -> Seq(Lines)]
  /\ named \subseteq Clients /\ receiving \subseteq Clients
  /\ cpc \in [Clients -> {"init", "sending", "start", "loop", "cancel", "destroy", "exited",
                          "dead"}]
  /\ request \in [Clients -> Requests]
  /\ messages \in [Clients -> Seq(Lines \union {Line(Note, c, None) : c \in Clients})]
  /\ DOMAIN users = Clients /\ \A c \in Clients : IsFiniteSet(users[c])
  /\ typed \in [Clients -> Nat]
  /\ log \in Seq(RoomLine)
  /\ DOMAIN unlisted = Clients

\* The room has heard of c.
Came(c) == \E i \in DOMAIN log : log[i].pid = c

\* c has not yet sent its JOIN.
Joining(c) == cpc[c] = "init" \/ (cpc[c] = "sending" /\ request[c].command = "JOIN")

\* A client is in the table once, joins once, before anything else it sends, and does
\* not come back.
JoinInv ==
  /\ Len(clients) <= MaxClients
  /\ \A i, j \in DOMAIN clients : clients[i] = clients[j] => i = j
  /\ \A c \in Clients : /\ request[c].pid = c
                        /\ cpc[c] = "init" => request[c].command = "JOIN"
                        /\ Joining(c) => /\ c \notin Members /\ ~Came(c)
                                         /\ \A i \in DOMAIN serverQueue : serverQueue[i].pid # c
  /\ \A i \in DOMAIN serverQueue : serverQueue[i].command = "JOIN" =>
       /\ serverQueue[i].pid \notin Members /\ ~Came(serverQueue[i].pid)
       /\ \A j \in DOMAIN serverQueue : serverQueue[j].pid = serverQueue[i].pid => i <= j
  /\ \A c \in Members : Came(c) /\ ~HasLeft(c)

ReadsJoined == \E i \in DOMAIN log : log[i].text \in JoinLike

\* A line on its way is about what the room has seen.
Grounded(l) ==
  /\ Came(l.pid)
  /\ l.kind = "left" => HasLeft(l.pid)
  /\ l.text \in JoinLike => ReadsJoined

\* The server sends one command's lines at a time, and nothing to a client before its
\* "joined" is in the log; until then the client shows its own notes only.
LineInv ==
  /\ srvPc \in {"start", "receive"} => out = <<>>
  /\ srvPc = "send" => out # <<>>
  /\ \A i \in DOMAIN out : Came(out[i][1]) /\ Grounded(out[i][2])
  /\ \A c \in Clients : \A i \in DOMAIN queue[c] : Came(c) /\ Grounded(queue[c][i])
  /\ \A c \in Clients : ~Came(c) => \A i \in DOMAIN messages[c] : messages[c][i] \notin RoomLine

\* The names a client lists, and those it had no room for, come from these lines.
NameInv ==
  \A c \in Clients :
    /\ \A n \in users[c] :
         (\E p \in Clients : (p = c \/ Came(p)) /\ n = NameOf[p]) \/ ReadsJoined
    /\ unlisted[c] # {} => ReadsJoined \/ \E i \in DOMAIN log : log[i].pid \notin Members

Announces(l, d) == l.kind \in {"user", "joined"} /\ l.pid = d /\ l.text = None
NoReset(c) == \A i \in DOMAIN out : out[i][1] = c => out[i][2].kind # "reset"

\* c lists d, or a line about d is on its way and no reset behind it.
Told(c, d) ==
  \/ \E i \in DOMAIN out : /\ out[i][1] = c /\ Announces(out[i][2], d)
                          /\ \A j \in DOMAIN out : j > i /\ out[j][1] = c =>
                               out[j][2].kind # "reset"
  \/ /\ NoReset(c)
     /\ \E i \in DOMAIN queue[c] : /\ Announces(queue[c][i], d)
                                  /\ \A j \in DOMAIN queue[c] : j > i =>
                                       queue[c][j].kind # "reset"
  \/ /\ NoReset(c)
     /\ \A j \in DOMAIN queue[c] : queue[c][j].kind # "reset"
     /\ NameOf[d] \in users[c] \union unlisted[c]

\* Every client in the table is told of every other, but for namesakes who left.
ToldInv == \A c, d \in Members : Told(c, d) \/ \E e \in Namesakes(d) : HasLeft(e)
=============================================================================
