------------------------------- MODULE Exchange -------------------------------
(***************************************************************************)
(* The programs of the course that exchange one greeting: a server and a   *)
(* client over a FIFO (lab-12), message queues (lab-13), shared memory     *)
(* with semaphores (lab-14) and sockets (lab-16, parts 1, 3 and 4).  Each  *)
(* program is the sequence of its calls; a call that fails takes back what *)
(* the code takes back there and ends the program.  The objects of the     *)
(* kernel have an identity (who made them) apart from the name they are    *)
(* found by, and all but sockets outlive the processes.  Programs are      *)
(* started again after they have ended or been killed.                     *)
(***************************************************************************)
EXTENDS Integers, Sequences, FiniteSets

CONSTANTS Servers,      \* the runs of a server program, one at a time
          Clients,      \* the runs of a client program, started at any moment
          Pairs,        \* the pairs of programs to look at
          MaxTroubles,  \* how often something is killed, fails or is lost
          None

ASSUME ExchangeAssumption ==
  /\ Servers \cap Clients = {} /\ None \notin Servers \cup Clients
  /\ None \notin (Servers \cup Clients) \X {"a", "b", "conn"}
  /\ MaxTroubles \in Nat

VARIABLES pair,     \* the pair of programs that is run
          st,       \* off, run, ok, failed (exit 1) or killed
          pc,       \* the call each process is at
          h,        \* the objects each process holds, by their names
          link,     \* the object a name leads to
          obj,      \* the objects
          forgotten,   \* processes whose sleep sem_init wiped out of the semaphore
          heard,    \* what each process has received and prints
          troubles,
          calm,     \* history: nothing has disturbed the present session
          misled    \* history: clients that used an object before their server had
                    \* prepared it: an old post, an old message or memory without a size

vars == <<pair, st, pc, h, link, obj, forgotten, heard, troubles, calm, misled>>

Procs == Servers \cup Clients
Names == {"a", "b"}
Greetings == {"hi", "hello"}
Objects == Procs \X (Names \cup {"conn"})

\* A call whose failure is noticed, with the names taken back then; a call
\* whose result nobody looks at.
Try(op, n, undo) == [op |-> op, n |-> n, undo |-> undo, checked |-> TRUE]
Do(op, n) == [op |-> op, n |-> n, undo |-> {}, checked |-> FALSE]
-------------------------------------------------------------------------------
(* The programs *)

fifo_server == <<Do("unlink", "a"), Try("mkfifo", "a", {}), Try("open_write", "a", {}),
                 Do("fifo_write", "a")>>
fifo_client == <<Try("open_read", "a", {}), Try("fifo_read", "a", {}), Do("unlink", "a")>>

\* Defect: names left over are not removed first.
posix_mq_server_keeps ==
  <<Try("create", "a", {}), Try("create", "b", {"a"}),
    Try("send", "a", {}), Try("receive", "b", {}), Do("unlink", "a"), Do("unlink", "b")>>
posix_mq_server ==
  <<Try("unlink", "a", {}), Try("unlink", "b", {}),
    Try("create", "a", {}), Try("create", "b", {"a"}),
    Try("send", "a", {}), Try("receive", "b", {}), Do("unlink", "a"), Do("unlink", "b")>>
posix_mq_client == <<Try("attach", "a", {}), Try("attach", "b", {}),
                     Try("receive", "a", {}), Try("send", "b", {})>>

\* Defect: the queue is not removed at the end.
sysv_mq_server_leaves == <<Try("create", "a", {}), Try("send", "a", {"a"}),
                           Try("receive", "a", {"a"})>>
sysv_mq_server == <<Try("create", "a", {}), Try("send", "a", {"a"}),
                    Try("receive", "a", {"a"}), Try("remove", "a", {})>>
sysv_mq_client == <<Try("attach", "a", {}), Try("receive", "a", {}), Try("send", "a", {})>>

\* Defect: the name is removed as soon as the memory is mapped.
posix_shm_server_unnamed ==
  <<Do("unlink", "a"), Try("create", "a", {}), Try("ftruncate", "a", {"a"}),
    Do("unlink", "a"), Try("sem_init", "a", {}), Do("write", "a"), Do("post", "a"),
    Do("wait", "a"), Do("print", "a")>>
\* client_ready is the semaphore of the server's greeting, server_ready that of
\* the client's.
posix_shm_server ==
  <<Do("unlink", "a"), Try("create", "a", {}), Try("ftruncate", "a", {"a"}),
    Try("sem_init", "a", {"a"}), Do("write", "a"), Do("post", "a"),
    Do("wait", "a"), Do("print", "a"), Do("unlink", "a")>>
posix_shm_client == <<Try("attach", "a", {}), Do("wait", "a"), Do("print", "a"),
                      Do("write", "a"), Do("post", "a")>>

\* Defect: the semaphores are reset after the greeting has been announced.
sysv_shm_server_late_reset ==
  <<Try("create", "a", {}), Try("create", "b", {"a"}), Try("memset", "a", {"a", "b"}),
    Do("write", "a"), Try("post", "b", {"a", "b"}), Try("setall", "b", {"a", "b"}),
    Try("wait", "b", {"a", "b"}), Do("print", "a"), Do("remove", "b"), Do("remove", "a")>>
sysv_shm_server ==
  <<Try("create", "a", {}), Try("create", "b", {"a"}), Try("setall", "b", {"a", "b"}),
    Try("memset", "a", {"a", "b"}), Do("write", "a"), Try("post", "b", {"a", "b"}),
    Try("wait", "b", {"a", "b"}), Do("print", "a"), Do("remove", "b"), Do("remove", "a")>>
sysv_shm_client ==
  <<Try("attach", "a", {}), Try("attach", "b", {}), Try("shmat", "a", {}),
    Try("wait", "b", {}), Do("print", "a"), Do("write", "a"), Try("post", "b", {})>>

unix_dgram_server == <<Do("unlink", "a"), Try("bind", "a", {"a"}), Try("receive", "a", {"a"}),
                       Try("reply", "a", {"a"}), Do("unlink", "a")>>
unix_dgram_client == <<Do("unlink", "b"), Try("bind", "b", {"b"}), Try("sendto", "a", {"b"}),
                       Try("receive", "b", {"b"}), Do("unlink", "b")>>

unix_stream_server ==
  <<Do("unlink", "a"), Try("bind", "a", {"a"}), Try("listen", "a", {"a"}),
    Try("accept", "a", {"a"}), Try("read", "conn", {"a"}), Try("swrite", "conn", {"a"}),
    Do("unlink", "a")>>
unix_stream_client == <<Try("connect", "a", {}), Try("swrite", "conn", {}),
                        Try("read", "conn", {})>>

udp_server == <<Try("setsockopt", "a", {}), Try("bind", "a", {}), Try("receive", "a", {}),
                Try("reply", "a", {})>>
udp_client == <<Try("socket", "b", {}), Try("sendto", "a", {}), Try("receive", "b", {})>>

tcp_server == <<Try("setsockopt", "a", {}), Try("bind", "a", {}), Try("listen", "a", {}),
                Try("accept", "a", {}), Try("read", "conn", {}), Try("swrite", "conn", {})>>
tcp_client == <<Try("connect", "a", {}), Try("swrite", "conn", {}), Try("read", "conn", {})>>

broadcast_server == <<Try("setsockopt", "a", {}), Try("bind", "a", {}),
                      Try("receive", "a", {}), Try("reply", "a", {})>>
broadcast_client == <<Try("socket", "b", {}), Try("setsockopt", "b", {}),
                      Try("sendto", "a", {}), Try("receive", "b", {})>>

multicast_server == <<Try("setsockopt", "a", {}), Try("bind", "a", {}), Try("join", "a", {}),
                      Try("receive", "a", {}), Try("reply", "a", {})>>
multicast_client == <<Try("socket", "b", {}), Try("setsockopt", "b", {}),
                      Try("sendto", "a", {}), Try("receive", "b", {})>>

raw_server == <<Try("setsockopt", "a", {}), Try("bind", "a", {}), Try("receive", "a", {}),
                Try("reply", "a", {})>>
raw_udp_client == <<Try("sniff", "b", {}), Try("sendto", "a", {}), Try("receive", "b", {})>>
raw_ip_client == <<Try("setsockopt", "a", {}), Try("sniff", "b", {}),
                   Try("sendto", "a", {}), Try("receive", "b", {})>>
raw_eth_client == <<Try("setsockopt", "a", {}), Try("sniff", "b", {}),
                    Try("sendto", "a", {}), Try("receive", "b", {})>>

Programs ==
  [fifo        |-> [server |-> fifo_server,        client |-> fifo_client],
   posix_mq    |-> [server |-> posix_mq_server,    client |-> posix_mq_client],
   sysv_mq     |-> [server |-> sysv_mq_server,     client |-> sysv_mq_client],
   posix_shm   |-> [server |-> posix_shm_server,   client |-> posix_shm_client],
   sysv_shm    |-> [server |-> sysv_shm_server,    client |-> sysv_shm_client],
   unix_dgram  |-> [server |-> unix_dgram_server,  client |-> unix_dgram_client],
   unix_stream |-> [server |-> unix_stream_server, client |-> unix_stream_client],
   udp         |-> [server |-> udp_server,         client |-> udp_client],
   tcp         |-> [server |-> tcp_server,         client |-> tcp_client],
   broadcast   |-> [server |-> broadcast_server,   client |-> broadcast_client],
   multicast   |-> [server |-> multicast_server,   client |-> multicast_client],
   raw_udp     |-> [server |-> raw_server,         client |-> raw_udp_client],
   raw_ip      |-> [server |-> raw_server,         client |-> raw_ip_client],
   raw_eth     |-> [server |-> raw_server,         client |-> raw_eth_client]]

ASSUME PairsAssumption == Pairs \subseteq DOMAIN Programs

SysV == {"sysv_mq", "sysv_shm"}
Inet == {"udp", "tcp", "broadcast", "multicast", "raw_udp", "raw_ip", "raw_eth"}
Raw == {"raw_udp", "raw_ip", "raw_eth"}
-------------------------------------------------------------------------------
Role(p) == IF p \in Servers THEN "server" ELSE "client"
Script(p) == Programs[pair][Role(p)]
Live(p) == st[p] = "run"
Call(p) == Script(p)[pc[p]]
At(p, ops) == Live(p) /\ Call(p).op \in ops
Held(p) == h[p][Call(p).n]
Says(p) == IF p \in Servers THEN "hi" ELSE "hello"
Hears(p) == IF p \in Servers THEN "hello" ELSE "hi"
Msg(p, to) == [text |-> Says(p), from |-> p, to |-> to]

Fresh == [q |-> <<>>, sem |-> [g \in Greetings |-> 0], text |-> [g \in Greetings |-> None],
          up |-> FALSE, removed |-> FALSE]
Zeroed(o) == [o EXCEPT !.text = Fresh.text]
Reset(o) == [o EXCEPT !.sem = Fresh.sem]

\* Names the client finds the server by.
Shared == IF pair \in {"posix_mq", "sysv_shm"} THEN {"a", "b"} ELSE {"a"}
Met(s, c) == \A n \in Shared : h[s][n] # None /\ h[c][n] = h[s][n]

Advance(ps) ==
  /\ pc' = [q \in Procs |-> IF q \in ps THEN pc[q] + 1 ELSE pc[q]]
  /\ st' = [q \in Procs |-> IF q \in ps /\ pc[q] = Len(Script(q)) THEN "ok" ELSE st[q]]
Hold(p, n, o) == h' = [h EXCEPT ![p][n] = o]
Die(p, how) == st' = [st EXCEPT ![p] = how] /\ UNCHANGED pc
History == UNCHANGED <<pair, troubles, calm, misled>>

\* IPC_RMID acts on the object, unlink on the name.
Removal(p, ns) ==
  IF pair \in SysV
  THEN LET os == {h[p][n] : n \in ns}
       IN  /\ obj' = [o \in Objects |-> [obj[o] EXCEPT !.removed = @ \/ o \in os]]
           /\ link' = [n \in Names |-> IF link[n] \in os THEN None ELSE link[n]]
  ELSE /\ link' = [n \in Names |-> IF n \in ns THEN None ELSE link[n]]
       /\ UNCHANGED obj

\* A call fails: its error branch, and exit 1.
Fail(p) == Die(p, "failed") /\ Removal(p, Call(p).undo) /\ UNCHANGED <<h, forgotten, heard>>
-------------------------------------------------------------------------------
(* Names and objects *)

Unlink(p) ==
  /\ At(p, {"unlink"}) /\ Advance({p}) /\ link' = [link EXCEPT ![Call(p).n] = None]
  /\ History /\ UNCHANGED <<h, obj, forgotten, heard>>

\* O_CREAT or IPC_CREAT without O_EXCL: an object that is there is taken over.
Create(p) ==
  /\ At(p, {"create"}) /\ Advance({p})
  /\ LET n == Call(p).n
         o == IF link[n] = None THEN <<p, n>> ELSE link[n]
     IN  link' = [link EXCEPT ![n] = o] /\ Hold(p, n, o)
  /\ History /\ UNCHANGED <<obj, forgotten, heard>>

\* A port is free again when its process has ended, a path only when it is unlinked.
NameTaken(n) == link[n] # None /\ (pair \in Inet => Live(link[n][1]))

Bind(p) ==
  /\ At(p, {"mkfifo", "bind"})
  /\ LET n == Call(p).n
     IN  \/ NameTaken(n) /\ Fail(p)
         \/ /\ ~NameTaken(n) /\ Advance({p})
            /\ link' = [link EXCEPT ![n] = <<p, n>>]
            /\ IF Call(p).op = "bind" THEN Hold(p, n, <<p, n>>) ELSE UNCHANGED h
            /\ UNCHANGED <<obj, forgotten, heard>>
  /\ History

\* socket(): an unnamed datagram socket, or one that sees every packet of the interface.
Socket(p) ==
  /\ At(p, {"socket", "sniff"}) /\ Advance({p}) /\ Hold(p, "b", <<p, "b">>)
  /\ History /\ UNCHANGED <<link, obj, forgotten, heard>>

\* Steps that leave no trace but may fail.
SetOption(p) ==
  /\ At(p, {"setsockopt"}) /\ Advance({p})
  /\ History /\ UNCHANGED <<h, link, obj, forgotten, heard>>

Attach(p) ==
  /\ At(p, {"attach"})
  /\ LET n == Call(p).n
     IN  \/ link[n] = None /\ Fail(p)
         \/ /\ link[n] # None /\ Advance({p}) /\ Hold(p, n, link[n])
            /\ UNCHANGED <<link, obj, forgotten, heard>>
  /\ History

Shmat(p) ==
  /\ At(p, {"shmat"})
  /\ \/ obj[Held(p)].removed /\ Fail(p)
     \/ ~obj[Held(p)].removed /\ Advance({p}) /\ UNCHANGED <<h, link, obj, forgotten, heard>>
  /\ History

\* From here on the object can be used: sized, listening, member of the group.
MakeReady(p) ==
  /\ At(p, {"ftruncate", "listen", "join"}) /\ Advance({p})
  /\ obj' = [obj EXCEPT ![Held(p)].up = TRUE]
  /\ History /\ UNCHANGED <<h, link, forgotten, heard>>

Remove(p) ==
  /\ At(p, {"remove"}) /\ Advance({p}) /\ Removal(p, {Call(p).n})
  /\ History /\ UNCHANGED <<h, forgotten, heard>>
-------------------------------------------------------------------------------
(* Shared memory and semaphores *)

\* memset and sem_init.  A client may already sleep in sem_wait on the zeroed memory,
\* or be about to; one that sleeps is wiped out of the semaphore.
SemInit(p) ==
  /\ At(p, {"sem_init"}) /\ Advance({p})
  /\ obj' = [obj EXCEPT ![Held(p)] = Reset(Zeroed(@))]
  /\ \E Q \in SUBSET {q \in Procs : At(q, {"wait"}) /\ Held(q) = Held(p)} :
       forgotten' = forgotten \cup Q
  /\ History /\ UNCHANGED <<h, link, heard>>

SetAll(p) ==
  /\ At(p, {"setall"}) /\ Advance({p}) /\ obj' = [obj EXCEPT ![Held(p)] = Reset(@)]
  /\ History /\ UNCHANGED <<h, link, forgotten, heard>>

Memset(p) ==
  /\ At(p, {"memset"}) /\ Advance({p}) /\ obj' = [obj EXCEPT ![Held(p)] = Zeroed(@)]
  /\ History /\ UNCHANGED <<h, link, forgotten, heard>>

WriteText(p) ==
  /\ At(p, {"write"}) /\ Advance({p}) /\ obj' = [obj EXCEPT ![Held(p)].text[Says(p)] = p]
  /\ History /\ UNCHANGED <<h, link, forgotten, heard>>

PrintText(p) ==
  /\ At(p, {"print"}) /\ Advance({p})
  /\ LET w == obj[Held(p)].text[Hears(p)]
     IN  heard' = [heard EXCEPT ![p] = [text |-> IF w = None THEN "" ELSE Hears(p),
                                        from |-> w, to |-> None]]
  /\ History /\ UNCHANGED <<h, link, obj, forgotten>>

Post(p) ==
  /\ At(p, {"post"})
  /\ \/ obj[Held(p)].removed /\ Fail(p)
     \/ /\ ~obj[Held(p)].removed /\ Advance({p})
        /\ obj' = [obj EXCEPT ![Held(p)].sem[Says(p)] = @ + 1]
        /\ UNCHANGED <<h, link, forgotten, heard>>
  /\ History

\* What the server sets up is there, and cleared of what an earlier one has left.
Prepared(s) ==
  Live(s) /\ \A i \in pc[s]..Len(Script(s)) :
               Script(s)[i].op \notin {"create", "setall", "memset", "sem_init"}

\* p goes by what an ended process has left in its object, not by what its server put there.
GoesByOld(p) ==
  /\ ~obj[Held(p)].removed /\ ~Live(Held(p)[1])
  /\ ~\E s \in Servers : Prepared(s) /\ h[s][Call(p).n] = Held(p)
Mislead(p, really) == misled' = IF p \in Clients /\ really THEN misled \cup {p} ELSE misled

\* Memory that has no size yet raises SIGBUS; a removed set of semaphores wakes its
\* sleepers with an error.
Wait(p) ==
  /\ At(p, {"wait"}) /\ p \notin forgotten
  /\ LET o == obj[Held(p)]
         sigbus == pair = "posix_shm" /\ ~o.up
     IN  /\ \/ o.removed /\ Fail(p)
            \/ sigbus /\ Die(p, "killed") /\ UNCHANGED <<h, link, obj, forgotten, heard>>
            \/ /\ ~o.removed /\ ~sigbus /\ o.sem[Hears(p)] > 0 /\ Advance({p})
               /\ obj' = [obj EXCEPT ![Held(p)].sem[Hears(p)] = @ - 1]
               /\ UNCHANGED <<h, link, forgotten, heard>>
         /\ Mislead(p, sigbus \/ GoesByOld(p))
  /\ UNCHANGED <<pair, troubles, calm>>
-------------------------------------------------------------------------------
(* Messages and datagrams *)

Put(o, m) == [obj EXCEPT ![o].q = Append(@, m)]
Without(q, i) == SubSeq(q, 1, i - 1) \o SubSeq(q, i + 1, Len(q))

\* msgsnd goes to a type: 1 for the server's greeting, the server's pid for the answer.
SendMessage(p) ==
  /\ At(p, {"send"})
  /\ \/ obj[Held(p)].removed /\ Fail(p)
     \/ /\ ~obj[Held(p)].removed /\ Advance({p})
        /\ obj' = Put(Held(p), Msg(p, IF pair = "sysv_mq" /\ p \in Clients
                                      THEN heard[p].from ELSE None))
        /\ UNCHANGED <<h, link, forgotten, heard>>
  /\ History

\* msgrcv takes its type only; wait_response passes over every packet that is not from
\* the server's port to the client's.
Expects(p, m) ==
  CASE pair = "sysv_mq" -> m.to = IF p \in Servers THEN p ELSE None
    [] pair \in Raw -> m.text = Hears(p)
    [] OTHER -> TRUE

Receive(p) ==
  /\ At(p, {"receive"})
  /\ LET q == obj[Held(p)].q
         fit == {i \in 1..Len(q) : Expects(p, q[i])}
     IN  \/ obj[Held(p)].removed /\ Fail(p)
         \/ /\ ~obj[Held(p)].removed /\ Advance({p})
            /\ \E i \in fit :
                 /\ \A j \in fit : i <= j
                 /\ heard' = [heard EXCEPT ![p] = q[i]]
                 /\ obj' = [obj EXCEPT ![Held(p)].q = Without(q, i)]
            /\ UNCHANGED <<h, link, forgotten>>
  /\ Mislead(p, GoesByOld(p)) /\ UNCHANGED <<pair, troubles, calm>>

\* The sockets a datagram gets to: its addressee's and those that see all packets.
Delivered(m, os) ==
  LET sniffers == {h[q]["b"] : q \in {c \in Clients : pair \in Raw /\ Live(c)}} \ {None}
  IN  obj' = [o \in Objects |-> IF o \in os \cup sniffers
                                THEN [obj[o] EXCEPT !.q = Append(@, m)] ELSE obj[o]]

\* A datagram to a path nobody is bound to is refused, one to a port is lost in silence.
SendTo(p) ==
  /\ At(p, {"sendto"})
  /\ LET o == link["a"]
         open == o # None /\ Live(o[1]) /\ (pair = "multicast" => obj[o].up)
     IN  \/ ~open /\ pair \notin Inet /\ Fail(p)
         \/ /\ ~open /\ pair \in Inet /\ Advance({p}) /\ Delivered(Msg(p, None), {})
            /\ UNCHANGED <<h, link, forgotten, heard>>
         \/ /\ open /\ Advance({p}) /\ Delivered(Msg(p, None), {o}) /\ Hold(p, "a", o)
            /\ UNCHANGED <<link, forgotten, heard>>
  /\ History

\* The answer goes to the path or port the request came from.
Reply(p) ==
  /\ At(p, {"reply"})
  /\ LET c == heard[p].from
         path == link["b"]
     IN  \/ /\ pair \notin Inet /\ (path = None \/ (path # None /\ ~Live(path[1]))) /\ Fail(p)
         \/ /\ pair \notin Inet /\ path # None /\ Live(path[1])
            /\ Advance({p}) /\ Delivered(Msg(p, None), {path})
            /\ UNCHANGED <<h, link, forgotten, heard>>
         \/ /\ pair \in Inet /\ Advance({p})
            /\ Delivered(Msg(p, c), IF Live(c) /\ pair \notin Raw THEN {<<c, "b">>} ELSE {})
            /\ UNCHANGED <<h, link, forgotten, heard>>
  /\ History
-------------------------------------------------------------------------------
(* The FIFO: servers write, clients read *)

Partners(p, n, o) == {q \in Procs : Role(q) # Role(p) /\ Live(q) /\ h[q][n] = o}

\* open sleeps until the other end is opened too, and wakes those who sleep there.
OpenFifo(p) ==
  /\ At(p, {"open_read", "open_write"})
  /\ LET n == Call(p).n
         others == Partners(p, n, link[n])
         sleeping == {q \in others : At(q, {"open_read", "open_write"})}
     IN  /\ Held(p) = None
         /\ \/ link[n] = None /\ Fail(p)
            \/ /\ link[n] # None /\ Hold(p, n, link[n])
               /\ IF others = {} THEN UNCHANGED <<pc, st>> ELSE Advance({p} \cup sleeping)
               /\ UNCHANGED <<link, obj, forgotten, heard>>
  /\ History

\* Without a reader SIGPIPE ends the server.
WriteFifo(p) ==
  /\ At(p, {"fifo_write"})
  /\ \/ Partners(p, "a", Held(p)) = {} /\ Die(p, "killed") /\ UNCHANGED obj
     \/ Partners(p, "a", Held(p)) # {} /\ Advance({p}) /\ obj' = Put(Held(p), Msg(p, None))
  /\ History /\ UNCHANGED <<h, link, forgotten, heard>>

Nothing == [text |-> "", from |-> None, to |-> None]

ReadFifo(p) ==
  /\ At(p, {"fifo_read"}) /\ Advance({p})
  /\ LET q == obj[Held(p)].q
     IN  \/ /\ q # <<>> /\ heard' = [heard EXCEPT ![p] = Head(q)]
            /\ obj' = [obj EXCEPT ![Held(p)].q = Tail(@)]
         \/ /\ q = <<>> /\ Partners(p, "a", Held(p)) = {}
            /\ heard' = [heard EXCEPT ![p] = Nothing] /\ UNCHANGED obj
  /\ History /\ UNCHANGED <<h, link, forgotten>>
-------------------------------------------------------------------------------
(* Connections *)

Connect(p) ==
  /\ At(p, {"connect"})
  /\ LET o == link["a"]
         open == o # None /\ Live(o[1]) /\ obj[o].up
     IN  \/ ~open /\ Fail(p)
         \/ /\ open /\ Advance({p}) /\ obj' = Put(o, Msg(p, None))
            /\ h' = [h EXCEPT ![p]["a"] = o, ![p]["conn"] = <<p, "conn">>]
            /\ UNCHANGED <<link, forgotten, heard>>
  /\ History

Accept(p) ==
  /\ At(p, {"accept"}) /\ Advance({p})
  /\ LET q == obj[Held(p)].q
     IN  /\ q # <<>> /\ obj' = [obj EXCEPT ![Held(p)].q = Tail(@)]
         /\ Hold(p, "conn", <<Head(q).from, "conn">>)
  /\ History /\ UNCHANGED <<link, forgotten, heard>>

PeerGone(p) == ~Live(IF p \in Servers THEN Held(p)[1] ELSE h[p]["a"][1])

\* To a peer that has gone: SIGPIPE, or over TCP also a write that nobody reads.
WriteConn(p) ==
  /\ At(p, {"swrite"})
  /\ \/ PeerGone(p) /\ Die(p, "killed") /\ UNCHANGED obj
     \/ PeerGone(p) /\ pair = "tcp" /\ Advance({p}) /\ UNCHANGED obj
     \/ ~PeerGone(p) /\ Advance({p}) /\ obj' = Put(Held(p), Msg(p, None))
  /\ History /\ UNCHANGED <<h, link, forgotten, heard>>

\* End of file reads as an empty text; a reset connection is an error.
ReadConn(p) ==
  /\ At(p, {"read"})
  /\ LET q == obj[Held(p)].q
         mine == q # <<>> /\ Head(q).text = Hears(p)
     IN  \/ /\ mine /\ Advance({p}) /\ heard' = [heard EXCEPT ![p] = Head(q)]
            /\ obj' = [obj EXCEPT ![Held(p)].q = Tail(@)] /\ UNCHANGED <<h, link, forgotten>>
         \/ /\ ~mine /\ PeerGone(p) /\ Advance({p}) /\ heard' = [heard EXCEPT ![p] = Nothing]
            /\ UNCHANGED <<h, link, obj, forgotten>>
         \/ ~mine /\ PeerGone(p) /\ Fail(p)
  /\ History
-------------------------------------------------------------------------------
(* Sessions and troubles *)

Init ==
  /\ pair \in Pairs
  /\ st = [p \in Procs |-> "off"] /\ pc = [p \in Procs |-> 1]
  /\ h = [p \in Procs |-> [n \in Names \cup {"conn"} |-> None]]
  /\ link = [n \in Names |-> None] /\ obj = [o \in Objects |-> Fresh]
  /\ forgotten = {} /\ heard = [p \in Procs |-> None]
  /\ troubles = 0 /\ calm = FALSE /\ misled = {}

Idle == \A p \in Procs : ~Live(p)
Linked(o) == \E n \in Names : link[n] = o

\* The queue still holds what an earlier session has left in it.
LeftInQueue == pair = "sysv_mq" /\ link["a"] # None /\ obj[link["a"]].q # <<>>

\* When nobody runs a new session begins; what ended processes held is closed, and
\* objects without a name are gone.
StartServer(s) ==
  /\ st[s] = "off" /\ \A r \in Servers : ~Live(r)
  /\ st' = [st EXCEPT ![s] = "run"]
  /\ calm' = (Idle /\ ~LeftInQueue)
  /\ IF Idle
     THEN /\ h' = [p \in Procs |-> [n \in Names \cup {"conn"} |-> None]]
          /\ heard' = [p \in Procs |-> None]
          /\ obj' = [o \in Objects |-> IF Linked(o) THEN obj[o] ELSE Fresh]
          /\ misled' = {}
     ELSE UNCHANGED <<h, heard, obj, misled>>
  /\ UNCHANGED <<pair, pc, link, forgotten, troubles>>

\* One client belongs to a session.
StartClient(c) ==
  /\ st[c] = "off"
  /\ st' = [st EXCEPT ![c] = "run"]
  /\ calm' = (/\ calm
              /\ \E s \in Servers : Live(s)
              /\ \A d \in Clients : ~Live(d) /\ \A s \in Servers : ~Met(s, d))
  /\ UNCHANGED <<pair, pc, h, link, obj, forgotten, heard, troubles, misled>>

Trouble ==
  troubles < MaxTroubles /\ troubles' = troubles + 1 /\ calm' = FALSE /\ UNCHANGED <<pair, misled>>

Kill(p) ==
  /\ Trouble /\ Live(p) /\ Die(p, "killed")
  /\ UNCHANGED <<h, link, obj, forgotten, heard>>

\* A call fails for a reason of its own: no memory, no descriptors.
Fault(p) == Trouble /\ Live(p) /\ Call(p).checked /\ Fail(p)

Lose(p) ==
  /\ Trouble /\ pair \in Inet \ {"tcp"} /\ Live(p)
  /\ \E o \in Objects : /\ o[1] = p /\ obj[o].q # <<>>
                         /\ obj' = [obj EXCEPT ![o].q = Tail(@)]
  /\ UNCHANGED <<st, pc, h, link, forgotten, heard>>

Step(p) ==
  \/ Unlink(p) \/ Create(p) \/ Bind(p) \/ Socket(p) \/ SetOption(p) \/ Attach(p) \/ Shmat(p)
  \/ MakeReady(p) \/ Remove(p)
  \/ SemInit(p) \/ SetAll(p) \/ Memset(p) \/ WriteText(p) \/ PrintText(p) \/ Post(p) \/ Wait(p)
  \/ SendMessage(p) \/ Receive(p) \/ SendTo(p) \/ Reply(p)
  \/ OpenFifo(p) \/ WriteFifo(p) \/ ReadFifo(p)
  \/ Connect(p) \/ Accept(p) \/ WriteConn(p) \/ ReadConn(p)

Next ==
  \/ \E s \in Servers : StartServer(s)
  \/ \E c \in Clients : StartClient(c)
  \/ \E p \in Procs : Step(p) \/ Kill(p) \/ Fault(p) \/ Lose(p)

Spec == Init /\ [][Next]_vars

\* Running processes go on; nobody has to start, kill or lose anything.
FairSpec == Spec /\ \A p \in Procs : WF_vars(Step(p))
-------------------------------------------------------------------------------
(* Properties *)

\* What a program prints is its partner's greeting, never its own, and an empty text
\* only when somebody was killed, failed, or came in between; undisturbed, it was
\* sent in this session by the process it has met, whatever earlier sessions left in
\* queues, memory and semaphores (posix_server.c and sysv_server.c of lab-13, lab-14).
\* The exception is a client that comes before its server has cleared the old object and
\* goes by what it finds there, and the server it then answers.
Greeting ==
  \A p \in Procs : heard[p] # None =>
    LET partners == {q \in Procs : q = p \/ q = heard[p].from
                                  \/ (p \in Servers /\ q \in Clients /\ Met(p, q))}
    IN  /\ heard[p].text \in {Hears(p), ""}
        /\ calm /\ partners \cap misled = {} =>
             /\ heard[p].text = Hears(p)
             /\ IF p \in Servers THEN Met(p, heard[p].from) ELSE Met(heard[p].from, p)

\* The client started last has met the server of its session: undisturbed, both programs
\* end well, after any earlier session, also one that was killed.  A client that came too
\* early is excepted: one that went by what an earlier session had left in the object or
\* mapped memory without a size, and one whose sleep sem_init wiped out.  Its server may
\* then wait for ever (lab-14, sysv_server.c:100).
ExchangeCompletes ==
  \A s \in Servers, c \in Clients :
    (calm /\ Met(s, c))
      ~> (~calm \/ c \in misled \cup forgotten \/ (st[s] = "ok" /\ st[c] = "ok"))

\* After an undisturbed session nothing is left in the system, also of what earlier
\* ones that were killed or failed had left there.
NothingLeft ==
  (calm /\ Idle /\ \E s \in Servers, c \in Clients : Met(s, c) /\ st[s] = "ok" /\ st[c] = "ok")
    => \A n \in Names : ~NameTaken(n)

\* A server that waits for its client can be found: the names lead to its own objects.
\* A FIFO's client unlinks by name what may be the next server's FIFO (client.c:34 of
\* lab-12), so there it is asked of undisturbed sessions only.
ServerReachable ==
  \A s \in Servers :
    (/\ At(s, {"open_write", "receive", "wait", "accept"}) /\ \A c \in Clients : ~Met(s, c)
     /\ pair = "fifo" => calm)
      => \A n \in Shared : link[n] \in {h[s][n], <<s, n>>}
-------------------------------------------------------------------------------
(* What the proofs need besides. *)

Makers == {"create", "bind", "mkfifo"}
Removers == {"unlink", "remove"}

\* The calls of program S before its i-th that make, or remove, the name n.
Calls(S, i, ops, n) == {j \in 1..Len(S) : j < i /\ S[j].op \in ops /\ S[j].n = n}

\* By then S has made n and not removed it since; has removed n and not made it since.
HasAt(S, i, n) == \E j \in Calls(S, i, Makers, n) : \A k \in Calls(S, i, Removers, n) : k < j
RidAt(S, i, n) == \E j \in Calls(S, i, Removers, n) : \A k \in Calls(S, i, Makers, n) : k < j

Has(p, n) == HasAt(Script(p), pc[p], n)
Rid(p, n) == RidAt(Script(p), pc[p], n)

\* Processes are at their calls, one server at a time runs, and a name leads to an object
\* of that name, "a" to a server's.
RunInv ==
  /\ pair \in DOMAIN Programs
  /\ st \in [Procs -> {"off", "run", "ok", "failed", "killed"}]
  /\ pc \in [Procs -> Nat]
  /\ \A p \in Procs : /\ st[p] = "off" => pc[p] = 1
                      /\ Live(p) => pc[p] \in 1..Len(Script(p))
                      /\ st[p] = "ok" => pc[p] = Len(Script(p)) + 1
  /\ \A r, s \in Servers : Live(r) /\ Live(s) => r = s
  /\ DOMAIN h = Procs /\ \A p \in Procs : DOMAIN h[p] = Names \cup {"conn"}
  /\ \A p \in Procs, n \in Names : h[p][n] \in (Procs \X {n}) \cup {None}
  /\ DOMAIN link = Names /\ \A n \in Names : link[n] \in (Procs \X {n}) \cup {None}
  /\ link["a"] \in (Servers \X {"a"}) \cup {None}
  /\ calm \in BOOLEAN

\* Outside the FIFO a running server's names lead to what it holds until it removes them.
KeepInv ==
  pair # "fifo" => \A s \in Servers : Live(s) =>
    \A n \in Shared : Has(s, n) => link[n] = h[s][n] /\ link[n] # None

\* In an undisturbed session there is one server, and it has nothing before it runs.
SessionInv ==
  /\ calm => \A r, s \in Servers : (Live(r) \/ h[r]["a"] # None) /\ (Live(s) \/ h[s]["a"] # None)
                                      => r = s
  /\ \A p \in Procs : st[p] = "off" => h[p]["a"] = None /\ link["a"] # <<p, "a">>

\* What the session's server has removed stays removed, and names nobody makes are not there.
RidInv ==
  /\ (calm /\ pair # "fifo" /\ pair \notin Inet) =>
       \A s \in Servers : Live(s) \/ (st[s] = "ok" /\ h[s]["a"] # None) =>
         \A n \in Shared : Rid(s, n) => link[n] = None
  /\ ("b" \notin Shared /\ pair # "unix_dgram") => link["b"] = None

\* The FIFO: who is past its open has met the session's server, which has opened once;
\* the name leads to the server's FIFO until a client it has met removes it.
FifoInv ==
  pair = "fifo" =>
    /\ \A s \in Servers : Live(s) => (pc[s] < 3 => h[s]["a"] = None)
    /\ calm => \A c \in Clients :
         /\ pc[c] > 1 /\ h[c]["a"] # None => \E s \in Servers : h[s]["a"] = h[c]["a"]
         /\ Live(c) /\ pc[c] > 1 => h[c]["a"] # None
         /\ st[c] = "ok" /\ h[c]["a"] # None => link["a"] = None
    /\ calm => \A s \in Servers : Live(s) /\ pc[s] = 3 =>
         link["a"] = <<s, "a">> \/ \E c \in Clients : Met(s, c)

\* Datagrams by path: a client that has sent has met the server, no other client runs
\* then, and one that has ended well has removed its own path.
PathInv ==
  pair = "unix_dgram" =>
    /\ \A s \in Servers : /\ h[s]["a"] \in {None, <<s, "a">>}
                          /\ Live(s) /\ link["a"] = <<s, "a">> => h[s]["a"] = <<s, "a">>
    /\ calm => \A c \in Clients :
         /\ h[c]["a"] # None => \E s \in Servers : h[s]["a"] = h[c]["a"]
         /\ Live(c) => \A d \in Clients : Live(d) \/ h[d]["a"] # None => c = d
         /\ st[c] = "ok" /\ h[c]["a"] # None => link["b"] = None

Inv == RunInv /\ KeepInv /\ SessionInv /\ RidInv /\ FifoInv /\ PathInv
=============================================================================
