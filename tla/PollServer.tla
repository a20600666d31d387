----------------------------- MODULE PollServer -----------------------------
(***************************************************************************)
(* labs/lab-16/part-2/4: one thread serves TCP and UDP clients with poll   *)
(* over an array of descriptors: the two listening sockets first, then the *)
(* accepted connections, which remove_fd keeps packed by moving the last   *)
(* one into the gap while main walks over the array.                       *)
(*                                                                         *)
(* fcntl on a fresh descriptor and the sends of short answers do not fail. *)
(***************************************************************************)
EXTENDS Naturals, Sequences, FiniteSets

CONSTANTS
  TcpClients, UdpClients,  \* client processes
  MaxClients,              \* MAX_CLIENTS
  Silent,                  \* TCP clients that may never write
  Killable,                \* TCP clients that may die at any point
  Lossy                    \* UDP clients whose datagrams and answers may be dropped

ASSUME PollAssumption ==
  /\ MaxClients \in Nat \ {0}
  /\ Silent \subseteq TcpClients /\ Killable \subseteq TcpClients
  /\ TcpClients \intersect UdpClients = {}
  /\ Lossy \subseteq UdpClients

VARIABLES
  \* the server
  spc,       \* "init", "poll", "tcp", "udp", "scan", "failed"
  ready,     \* revents of the two listening sockets: a subset of {"tcp", "udp"}
  fds,       \* fds[2 .. count-1]: the connection and whether its revents is set
  i,         \* main's index into them, from 1
  backlog,   \* connections waiting for accept
  datagrams, \* requests waiting for recvfrom
  \* the clients
  cpc        \* "init", "connected", "asked", "answered", "done", "dead"

vars == <<spc, ready, fds, i, backlog, datagrams, cpc>>

Clients == TcpClients \union UdpClients
Conn(c, revents) == [conn |-> c, revents |-> revents]

Init ==
  /\ spc = "init"
  /\ ready = {}
  /\ fds = <<>>
  /\ i = 1
  /\ backlog = <<>>
  /\ datagrams = <<>>
  /\ cpc = [c \in Clients |-> "init"]

-----------------------------------------------------------------------------
(* The server.                                                             *)

\* create_tcp_listener and bind_socket.
Listen ==
  /\ spc = "init"
  /\ spc' = "poll"
  /\ UNCHANGED <<ready, fds, i, backlog, datagrams, cpc>>

ListenFails ==
  /\ spc = "init"
  /\ spc' = "failed"
  /\ UNCHANGED <<ready, fds, i, backlog, datagrams, cpc>>

\* A connection's POLLIN, POLLHUP or POLLERR.
Readable(c) == cpc[c] \in {"asked", "dead"}

\* poll returns what is ready, once anything is.
Poll ==
  /\ spc = "poll"
  /\ ready' = {p \in {"tcp", "udp"} : \/ p = "tcp" /\ backlog # <<>>
                                      \/ p = "udp" /\ datagrams # <<>>}
  /\ fds' = [k \in DOMAIN fds |-> Conn(fds[k].conn, Readable(fds[k].conn))]
  /\ ready' # {} \/ \E k \in DOMAIN fds' : fds'[k].revents
  /\ spc' = "tcp"
  /\ UNCHANGED <<i, backlog, datagrams, cpc>>

\* handle_tcp_listener: one accept of its loop; the new entry has no revents yet.
AcceptOne ==
  /\ spc = "tcp"
  /\ "tcp" \in ready
  /\ Len(fds) < MaxClients
  /\ backlog # <<>>
  /\ fds' = Append(fds, Conn(Head(backlog), FALSE))
  /\ backlog' = Tail(backlog)
  /\ UNCHANGED <<spc, ready, i, datagrams, cpc>>

\* handle_tcp_listener has nothing to accept or no room, or was not called.
AcceptEnd ==
  /\ spc = "tcp"
  /\ "tcp" \notin ready \/ Len(fds) >= MaxClients \/ backlog = <<>>
  /\ spc' = "udp"
  /\ UNCHANGED <<ready, fds, i, backlog, datagrams, cpc>>

\* Defect: a datagram is read and not answered.
UdpOneDropped ==
  /\ spc = "udp"
  /\ "udp" \in ready
  /\ datagrams # <<>>
  /\ datagrams' = Tail(datagrams)
  /\ UNCHANGED <<spc, ready, fds, i, backlog, cpc>>

\* handle_udp: one recvfrom and its sendto.
UdpOne ==
  /\ spc = "udp"
  /\ "udp" \in ready
  /\ datagrams # <<>>
  /\ datagrams' = Tail(datagrams)
  /\ \/ cpc' = [cpc EXCEPT ![Head(datagrams)] = "answered"]
     \/ Head(datagrams) \in Lossy /\ UNCHANGED cpc
  /\ UNCHANGED <<spc, ready, fds, i, backlog>>

\* handle_udp meets EAGAIN, or was not called; the walk over the connections begins.
UdpEnd ==
  /\ spc = "udp"
  /\ "udp" \notin ready \/ datagrams = <<>>
  /\ spc' = "scan"
  /\ i' = 1
  /\ UNCHANGED <<ready, fds, backlog, datagrams, cpc>>

\* Defect: the last entry is dropped without being moved.
remove_fd_last(k) == SubSeq(fds, 1, Len(fds) - 1)

\* remove_fd: the last entry, its revents included, takes the place of the closed one.
remove_fd(k) == SubSeq([fds EXCEPT ![k] = fds[Len(fds)]], 1, Len(fds) - 1)

\* Defect: --i is missing.
HandleTcpClientSkips ==
  /\ spc = "scan"
  /\ i <= Len(fds)
  /\ fds[i].revents
  /\ cpc' = [cpc EXCEPT ![fds[i].conn] = IF @ = "asked" THEN "answered" ELSE @]
  /\ fds' = remove_fd(i)
  /\ i' = i + 1
  /\ UNCHANGED <<spc, ready, backlog, datagrams>>

\* handle_tcp_client: a request is answered, an end of file is not; the connection is
\* closed either way, and main looks at the same index again.
HandleTcpClient ==
  /\ spc = "scan"
  /\ i <= Len(fds)
  /\ fds[i].revents
  /\ cpc' = [cpc EXCEPT ![fds[i].conn] = IF @ = "asked" THEN "answered" ELSE @]
  /\ fds' = remove_fd(i)
  /\ UNCHANGED <<spc, ready, i, backlog, datagrams>>

\* main: nothing on this descriptor.
ScanNext ==
  /\ spc = "scan"
  /\ i <= Len(fds)
  /\ ~fds[i].revents
  /\ i' = i + 1
  /\ UNCHANGED <<spc, ready, fds, backlog, datagrams, cpc>>

\* main: the walk is over.
ScanEnd ==
  /\ spc = "scan"
  /\ i > Len(fds)
  /\ spc' = "poll"
  /\ i' = 1
  /\ ready' = {}
  /\ UNCHANGED <<fds, backlog, datagrams, cpc>>

-----------------------------------------------------------------------------
(* The clients.                                                            *)

Up == spc \notin {"init", "failed"}

\* run_tcp_client: connect, write "time", read, close.
Connect(c) ==
  /\ Up
  /\ cpc[c] = "init"
  /\ cpc' = [cpc EXCEPT ![c] = "connected"]
  /\ backlog' = Append(backlog, c)
  /\ UNCHANGED <<spc, ready, fds, i, datagrams>>

Write(c) ==
  /\ cpc[c] = "connected"
  /\ cpc' = [cpc EXCEPT ![c] = "asked"]
  /\ UNCHANGED <<spc, ready, fds, i, backlog, datagrams>>

\* run_udp_client: sendto, then recvfrom without a time limit.
SendUdp(c) ==
  /\ Up
  /\ cpc[c] = "init"
  /\ cpc' = [cpc EXCEPT ![c] = "asked"]
  /\ \/ datagrams' = Append(datagrams, c)
     \/ c \in Lossy /\ UNCHANGED datagrams
  /\ UNCHANGED <<spc, ready, fds, i, backlog>>

Read(c) ==
  /\ cpc[c] = "answered"
  /\ cpc' = [cpc EXCEPT ![c] = "done"]
  /\ UNCHANGED <<spc, ready, fds, i, backlog, datagrams>>

Kill(c) ==
  /\ c \in Killable
  /\ cpc[c] \in {"connected", "asked"}
  /\ cpc' = [cpc EXCEPT ![c] = "dead"]
  /\ UNCHANGED <<spc, ready, fds, i, backlog, datagrams>>

-----------------------------------------------------------------------------
ServerSteps ==
  \/ Listen \/ Poll \/ AcceptOne \/ AcceptEnd \/ UdpOne \/ UdpEnd
  \/ HandleTcpClient \/ ScanNext \/ ScanEnd

Next ==
  \/ ServerSteps
  \/ ListenFails
  \/ \E c \in TcpClients : Connect(c) \/ Write(c) \/ Kill(c)
  \/ \E c \in UdpClients : SendUdp(c)
  \/ \E c \in Clients : Read(c)

Spec == Init /\ [][Next]_vars

\* The server and the clients run; a silent client need not write.
FairSpec ==
  /\ Spec
  /\ WF_vars(ServerSteps)
  /\ \A c \in TcpClients \ Silent : WF_vars(Write(c))
  /\ \A c \in Clients : WF_vars(Read(c))

-----------------------------------------------------------------------------
(* Properties.                                                             *)

\* A turn of the loop handles every connection poll reported, although the array is
\* repacked under the walk: none is left over for the next poll.
TurnComplete == spc = "poll" => \A k \in DOMAIN fds : ~fds[k].revents

\* No descriptor leaks or is forgotten: a client whose connection is open and not yet
\* answered is in the backlog or in the array, once; one that has its answer is in
\* neither.  The array is never overrun (server.c:113).
EveryConnKept ==
  /\ Len(fds) <= MaxClients
  /\ \A c \in TcpClients :
       LET places == Cardinality({k \in DOMAIN backlog : backlog[k] = c})
                     + Cardinality({k \in DOMAIN fds : fds[k].conn = c})
       IN  /\ cpc[c] \in {"connected", "asked"} => places = 1
           /\ cpc[c] \in {"answered", "done"} => places = 0
           /\ places <= 1

\* The array is full of connections whose clients sit there without writing.
AllHeld == Len(fds) = MaxClients /\ \A k \in DOMAIN fds : cpc[fds[k].conn] = "connected"

\* Every client that asks is answered, over either protocol, although others are silent,
\* die or lose datagrams, and the array is full for a time.  A silent connection costs an
\* entry of the array, for poll has no time limit (server.c:168), and only when silent
\* clients fill the array for good does a TCP client go without, left in the backlog
\* (server.c:113); a UDP client never does.
EveryoneAnswered ==
  /\ \A c \in TcpClients : cpc[c] = "asked" ~> (cpc[c] # "asked" \/ []AllHeld)
  /\ \A c \in UdpClients \ Lossy : cpc[c] = "asked" ~> cpc[c] # "asked"

-----------------------------------------------------------------------------
(* What the proofs need besides.                                           *)

\* The types of the variables.
TypeOK ==
  /\ spc \in {"init", "poll", "tcp", "udp", "scan", "failed"}
  /\ ready \subseteq {"tcp", "udp"}
  /\ fds \in Seq([conn : TcpClients, revents : BOOLEAN])
  /\ i \in Nat \ {0}
  /\ backlog \in Seq(TcpClients)
  /\ datagrams \in Seq(UdpClients)
  /\ cpc \in [Clients -> {"init", "connected", "asked", "answered", "done", "dead"}]

\* What the walk has passed has nothing left to handle; before poll there is nothing at
\* all; and what poll reported still has a request or an end of file to read.
ScanInv ==
  /\ spc \in {"init", "poll", "failed"} => \A k \in DOMAIN fds : ~fds[k].revents
  /\ spc = "scan" => \A k \in DOMAIN fds : k < i => ~fds[k].revents
  /\ \A k \in DOMAIN fds : fds[k].revents => Readable(fds[k].conn)

Waits(c) == \E k \in DOMAIN backlog : backlog[k] = c
Held(c) == \E k \in DOMAIN fds : fds[k].conn = c

\* A connection is in one place of the backlog or of the array, from connect until it is
\* answered or found dead.
PlaceInv ==
  /\ Len(fds) <= MaxClients
  /\ \A k, l \in DOMAIN backlog : backlog[k] = backlog[l] => k = l
  /\ \A k, l \in DOMAIN fds : fds[k].conn = fds[l].conn => k = l
  /\ \A c \in TcpClients :
       /\ ~(Waits(c) /\ Held(c))
       /\ cpc[c] \in {"connected", "asked"} => Waits(c) \/ Held(c)
       /\ Waits(c) \/ Held(c) => cpc[c] \in {"connected", "asked", "dead"}
=============================================================================
