------------------------------ MODULE RawEcho ------------------------------
(***************************************************************************)
(* final-tasks/raw-echo: an echo server over raw UDP sockets that numbers  *)
(* the messages of every client, and its clients.                          *)
(*                                                                         *)
(* A raw socket gets a copy of every UDP packet of the machine; server and *)
(* clients skip what does not carry their port, so a socket's buffer is    *)
(* modelled by the packets that do.  Nothing but the port, a default one   *)
(* unless the user names another, tells clients apart.  A full buffer      *)
(* drops packets, and nobody sends again.                                  *)
(*                                                                         *)
(* Texts are shorter than MAX_TEXT and travel whole.  A client's port fits *)
(* into 16 bits and is not the server's own: client.c:136 would take both, *)
(* and on 7777 the server's answers come back to the server, which answers *)
(* them, while the client takes its own packet for its answer.             *)
(***************************************************************************)
EXTENDS Naturals, Sequences, FiniteSets

CONSTANTS
  Procs,          \* client processes
  Ports,          \* UDP ports other than SERVER_PORT
  client_port,    \* the port each process is started with
  Texts,          \* what a user may type
  Close,          \* the text "close"
  MaxClients,     \* MAX_CLIENTS
  MaxSaid,        \* bound: messages of one process
  Lossy,          \* processes whose packets and answers may be dropped
  Interruptible,  \* processes that may get SIGINT or SIGTERM
  Killable        \* processes that may die at any point

ASSUME EchoAssumption ==
  /\ Close \notin Texts
  /\ client_port \in [Procs -> Ports]
  /\ MaxClients \in Nat \ {0}
  /\ MaxSaid \in Nat
  /\ Lossy \subseteq Procs
  /\ Interruptible \subseteq Procs /\ Killable \subseteq Procs

VARIABLES
  \* the server
  clients,      \* clients[0 .. client_count-1]: port and count
  wire,         \* packets for the server's port, in the buffer of its socket
  \* the client processes
  inbox,        \* answers to its port, in the buffer of its socket
  cpc,          \* "init", "check", "prompt", "wait", "closing", "done", "dead"
  g_need_stop,
  said,         \* history: texts sent
  heard         \* history: answers printed

vars == <<clients, wire, inbox, cpc, g_need_stop, said, heard>>

Packet(p, t) == [port |-> p, text |-> t]
Answer(t, n) == [text |-> t, number |-> n]

Init ==
  /\ clients = <<>>
  /\ wire = <<>>
  /\ inbox = [c \in Procs |-> <<>>]
  /\ cpc = [c \in Procs |-> "init"]
  /\ g_need_stop = [c \in Procs |-> FALSE]
  /\ said = [c \in Procs |-> <<>>]
  /\ heard = [c \in Procs |-> <<>>]

Alive(c) == cpc[c] \notin {"init", "done", "dead"}

\* sendto the server: the packet is in its buffer, or dropped.
Send(c, text) ==
  \/ wire' = Append(wire, Packet(client_port[c], text))
  \/ c \in Lossy /\ UNCHANGED wire

-----------------------------------------------------------------------------
(* The server.                                                             *)

find_client(p) == {i \in DOMAIN clients : clients[i].port = p}

\* Defect: the last entry of the table is never used.
get_client_early(p) ==
  IF find_client(p) # {} \/ Len(clients) >= MaxClients - 1
  THEN clients ELSE Append(clients, [port |-> p, count |-> 0])

\* get_client: the table with an entry for the port, unless it is full.
get_client(p) ==
  IF find_client(p) # {} \/ Len(clients) = MaxClients
  THEN clients ELSE Append(clients, [port |-> p, count |-> 0])

\* Defect: the last entry is not moved into the gap.
remove_client_last(i) == SubSeq(clients, 1, Len(clients) - 1)

\* remove_client: the last entry takes the place of the removed one.
remove_client(i) ==
  SubSeq([clients EXCEPT ![i] = clients[Len(clients)]], 1, Len(clients) - 1)

\* Defect: an unknown sender of "close" gets an entry, a known one keeps its own.
HandleCloseKeeps ==
  /\ Head(wire).text = Close
  /\ clients' = get_client(Head(wire).port)
  /\ UNCHANGED inbox

\* main: "close" forgets the counter and is not answered.
HandleClose ==
  /\ Head(wire).text = Close
  /\ \/ \E i \in find_client(Head(wire).port) : clients' = remove_client(i)
     \/ find_client(Head(wire).port) = {} /\ UNCHANGED clients
  /\ UNCHANGED inbox

\* send_answer: a copy for every process of that port, each of which may be dropped.
send_answer(p, answer) ==
  \E lost \in SUBSET Lossy :
       inbox' = [c \in Procs |-> IF Alive(c) /\ client_port[c] = p /\ c \notin lost
                                 THEN Append(inbox[c], answer) ELSE inbox[c]]

\* main: any other text is counted and answered.
HandleText ==
  LET p == Head(wire).port
      cs == get_client(p)
  IN  /\ Head(wire).text # Close
      /\ \E i \in DOMAIN cs :
           /\ cs[i].port = p
           /\ clients' = [cs EXCEPT ![i].count = @ + 1]
           /\ send_answer(p, Answer(Head(wire).text, cs[i].count + 1))

\* main: no entry for the port, the packet is passed over.
HandleFull ==
  /\ Head(wire).text # Close
  /\ \A i \in DOMAIN get_client(Head(wire).port) :
       get_client(Head(wire).port)[i].port # Head(wire).port
  /\ UNCHANGED <<clients, inbox>>

Receive ==
  /\ wire # <<>>
  /\ wire' = Tail(wire)
  /\ HandleClose \/ HandleText \/ HandleFull
  /\ UNCHANGED <<cpc, g_need_stop, said, heard>>

-----------------------------------------------------------------------------
(* A client.                                                               *)

\* main: the socket is opened and the port chosen.
Start(c) ==
  /\ cpc[c] = "init"
  /\ cpc' = [cpc EXCEPT ![c] = "check"]
  /\ UNCHANGED <<clients, wire, inbox, g_need_stop, said, heard>>

\* main: the test of either loop.
Turn(c) ==
  /\ cpc[c] = "check"
  /\ cpc' = [cpc EXCEPT ![c] = IF g_need_stop[c] THEN "closing" ELSE "prompt"]
  /\ UNCHANGED <<clients, wire, inbox, g_need_stop, said, heard>>

\* main and send_message: a line typed, or the next argument.
Say(c, t) ==
  /\ cpc[c] = "prompt"
  /\ Len(said[c]) < MaxSaid
  /\ Send(c, t)
  /\ said' = [said EXCEPT ![c] = Append(@, t)]
  /\ cpc' = [cpc EXCEPT ![c] = "wait"]
  /\ UNCHANGED <<clients, inbox, g_need_stop, heard>>

\* wait_answer: the first answer to the port is printed.
WaitAnswer(c) ==
  /\ cpc[c] = "wait"
  /\ inbox[c] # <<>>
  /\ inbox' = [inbox EXCEPT ![c] = Tail(@)]
  /\ heard' = [heard EXCEPT ![c] = Append(@, Head(inbox[c]))]
  /\ cpc' = [cpc EXCEPT ![c] = "check"]
  /\ UNCHANGED <<clients, wire, g_need_stop, said>>

\* main: end of the input, "exit" or "close" typed, the last argument done, or a sendto
\* that failed.
End(c) ==
  /\ cpc[c] = "prompt"
  /\ cpc' = [cpc EXCEPT ![c] = "closing"]
  /\ UNCHANGED <<clients, wire, inbox, g_need_stop, said, heard>>

\* main: "close" is sent on every way out.
SendClose(c) ==
  /\ cpc[c] = "closing"
  /\ Send(c, Close)
  /\ cpc' = [cpc EXCEPT ![c] = "done"]
  /\ inbox' = [inbox EXCEPT ![c] = <<>>]
  /\ UNCHANGED <<clients, g_need_stop, said, heard>>

\* stop_handler: a recv or fgets that already sleeps fails with EINTR and the client
\* closes; one that has not begun yet sleeps on.
StopHandler(c) ==
  /\ c \in Interruptible
  /\ Alive(c)
  /\ g_need_stop' = [g_need_stop EXCEPT ![c] = TRUE]
  /\ \/ UNCHANGED cpc
     \/ /\ cpc[c] = "prompt" \/ (cpc[c] = "wait" /\ inbox[c] = <<>>)
        /\ cpc' = [cpc EXCEPT ![c] = "closing"]
  /\ UNCHANGED <<clients, wire, inbox, said, heard>>

Kill(c) ==
  /\ c \in Killable
  /\ Alive(c)
  /\ cpc' = [cpc EXCEPT ![c] = "dead"]
  /\ inbox' = [inbox EXCEPT ![c] = <<>>]
  /\ UNCHANGED <<clients, wire, g_need_stop, said, heard>>

-----------------------------------------------------------------------------
ClientSteps(c) == Turn(c) \/ WaitAnswer(c) \/ SendClose(c)

Environment ==
  \E c \in Procs :
    \/ Start(c)
    \/ \E t \in Texts \union {Close} : Say(c, t)
    \/ End(c) \/ StopHandler(c) \/ Kill(c)

Next == Receive \/ (\E c \in Procs : ClientSteps(c)) \/ Environment

Spec == Init /\ [][Next]_vars

\* Server and clients run; nobody has to type.
FairSpec == Spec /\ WF_vars(Receive) /\ \A c \in Procs : WF_vars(ClientSteps(c))

-----------------------------------------------------------------------------
(* Properties.                                                             *)

\* A client prints, as the answer to its i-th message, that message with the number i:
\* no answer is taken for another's, and no client's coming, going, dying or losing
\* packets disturbs the counter of another.  The table has one entry for a port and
\* stays within its array (server.c:25-56).  This needs a port for each process.
OwnEcho ==
  /\ Len(clients) <= MaxClients
  /\ \A i, j \in DOMAIN clients : clients[i].port = clients[j].port => i = j
  /\ \A c \in Procs :
       /\ Len(heard[c]) <= Len(said[c])
       /\ \A i \in DOMAIN heard[c] : heard[c][i] = Answer(said[c][i], i)

\* The table is full, without an entry for c, which waits: the server passes it over.
LeftOut(c) == cpc[c] = "wait" /\ Len(clients) = MaxClients /\ find_client(client_port[c]) = {}

\* Every message of a client that the table has room for is answered, although other
\* clients come, go, die and lose packets; but a "close" among the arguments is not
\* (server.c:134-154).
AnswerComes ==
  \A c \in Procs \ Lossy :
    []~LeftOut(c) =>
      (cpc[c] = "wait" ~> (cpc[c] # "wait" \/ said[c][Len(said[c])] = Close))

\* A client that has closed is forgotten: its counter starts anew (README.md:10).
CounterForgotten ==
  \A c \in Procs \ Lossy : cpc[c] = "done" ~> find_client(client_port[c]) = {}

-----------------------------------------------------------------------------
(* What the proofs need besides.                                           *)

\* Every process was started with a port of its own.
PortsDiffer == \A c, d \in Procs : client_port[c] = client_port[d] => c = d

Said == Texts \union {Close}
ClientEntry == [port : Ports, count : Nat]
Answers == [text : Said, number : Nat]

\* The types of the variables.
TypeOK ==
  /\ clients \in Seq(ClientEntry)
  /\ wire \in Seq([port : Ports, text : Said])
  /\ inbox \in [Procs -> Seq(Answers)]
  /\ cpc \in [Procs -> {"init", "check", "prompt", "wait", "closing", "done", "dead"}]
  /\ g_need_stop \in [Procs -> BOOLEAN]
  /\ said \in [Procs -> Seq(Said)]
  /\ heard \in [Procs -> Seq(Answers)]

\* A table with one entry for a port, within its array.
Table(cs) ==
  /\ cs \in Seq(ClientEntry)
  /\ Len(cs) <= MaxClients
  /\ \A i, j \in DOMAIN cs : cs[i].port = cs[j].port => i = j

\* The table's counter of a port is at n; before the first message it may be missing.
Counts(cs, p, n) ==
  /\ \A i \in DOMAIN cs : cs[i].port = p => cs[i].count = n
  /\ n > 0 => \E i \in DOMAIN cs : cs[i].port = p

OnWire(w, p) == {k \in DOMAIN w : w[k].port = p}

\* Between two messages nothing of the process is under way and its counter is at the
\* number of its answers.
Settled(c) ==
  /\ Len(said[c]) = Len(heard[c])
  /\ inbox[c] = <<>>
  /\ OnWire(wire, client_port[c]) = {}
  /\ Counts(clients, client_port[c], Len(heard[c]))

\* A process that waits has one message without an answer.  At most one of the two is
\* under way: the message, not counted yet, or its answer, counted.  Both may be lost.
Waiting(c) ==
  /\ Len(said[c]) = Len(heard[c]) + 1
  /\ OnWire(wire, client_port[c]) # {} =>
       /\ inbox[c] = <<>>
       /\ Counts(clients, client_port[c], Len(heard[c]))
       /\ \A k, l \in OnWire(wire, client_port[c]) : k = l
       /\ \A k \in OnWire(wire, client_port[c]) : wire[k].text = said[c][Len(said[c])]
  /\ inbox[c] # <<>> =>
       /\ inbox[c] = <<Answer(said[c][Len(said[c])], Len(said[c]))>>
       /\ Counts(clients, client_port[c], Len(said[c]))

\* Where each process is in its conversation.
Talk(c) ==
  /\ cpc[c] \in {"init", "check", "prompt"} => Settled(c)
  /\ cpc[c] = "wait" => Waiting(c)

TalkInv == \A c \in Procs : Talk(c)
=============================================================================
