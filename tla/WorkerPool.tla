----------------------------- MODULE WorkerPool -----------------------------
(***************************************************************************)
(* labs/lab-16/part-2/2: a time server with a pool of workers, each with a *)
(* port of its own.  The listener reserves a free worker, tells the client *)
(* its port (or BUSY) and forgets about both; the client then connects to  *)
(* the worker, which clears the reservation when it has served it.         *)
(*                                                                         *)
(* What workers_mutex covers is one step.  Requests and answers are single *)
(* short writes; a write to a client that is gone fails silently.          *)
(***************************************************************************)
EXTENDS Naturals, Sequences

CONSTANTS
  Clients,      \* client processes
  WorkerCount,  \* WORKER_COUNT
  None,         \* nobody, BUSY
  Killable      \* clients that may die at any point

Workers == 1 .. WorkerCount

ASSUME PoolAssumption ==
  /\ WorkerCount \in Nat \ {0}
  /\ None \notin Clients \union Workers
  /\ Killable \subseteq Clients

VARIABLES
  \* the listener
  lpc,       \* "start", "accept", "read", "reserve", "write", "failed"
  lconn,     \* the client whose connection it has
  lport,     \* the worker it has reserved
  lbacklog,  \* connections waiting for its accept
  \* the workers
  busy,      \* workers[i].busy
  wpc,       \* "off", "accept", "serve", "free"
  wconn,     \* the client being served
  wbacklog,  \* connections waiting for the worker's accept
  \* the clients
  cpc,       \* "init", "connected", "asked", "told", "go", "atWorker", "asking",
             \* "answered", "done", "dead"
  goal       \* the worker a client was told

listenerVars == <<lpc, lconn, lport, lbacklog>>
workerVars == <<busy, wpc, wconn, wbacklog>>
clientVars == <<cpc, goal>>
vars == <<listenerVars, workerVars, clientVars>>

Init ==
  /\ lpc = "start" /\ lconn = None /\ lport = None /\ lbacklog = <<>>
  /\ busy = [w \in Workers |-> FALSE]
  /\ wpc = [w \in Workers |-> "off"]
  /\ wconn = [w \in Workers |-> None]
  /\ wbacklog = [w \in Workers |-> <<>>]
  /\ cpc = [c \in Clients |-> "init"]
  /\ goal = [c \in Clients |-> None]

-----------------------------------------------------------------------------
(* The main thread.                                                        *)

\* start_workers: the next listening socket and its thread.
StartWorker(w) ==
  /\ lpc = "start"
  /\ wpc[w] = "off"
  /\ \A v \in 1 .. w - 1 : wpc[v] # "off"
  /\ wpc' = [wpc EXCEPT ![w] = "accept"]
  /\ UNCHANGED <<listenerVars, busy, wconn, wbacklog, clientVars>>

\* main: the listener's own socket.
Listen ==
  /\ lpc = "start"
  /\ \A w \in Workers : wpc[w] # "off"
  /\ lpc' = "accept"
  /\ UNCHANGED <<lconn, lport, lbacklog, workerVars, clientVars>>

\* main: a socket or a thread cannot be made; nobody has connected yet.
StartFails ==
  /\ lpc = "start"
  /\ lpc' = "failed"
  /\ wpc' = [w \in Workers |-> "off"]
  /\ UNCHANGED <<lconn, lport, lbacklog, busy, wconn, wbacklog, clientVars>>

AcceptClient ==
  /\ lpc = "accept"
  /\ lbacklog # <<>>
  /\ lpc' = "read"
  /\ lconn' = Head(lbacklog)
  /\ lbacklog' = Tail(lbacklog)
  /\ UNCHANGED <<lport, workerVars, clientVars>>

\* main: read returns the request, or 0 when the client is gone: both are answered.
ReadRequest ==
  /\ lpc = "read"
  /\ cpc[lconn] \in {"asked", "dead"}
  /\ lpc' = "reserve"
  /\ UNCHANGED <<lconn, lport, lbacklog, workerVars, clientVars>>

\* reserve_worker: the first worker that is not busy, if there is one.
reserve_worker ==
  /\ lpc = "reserve"
  /\ lpc' = "write"
  /\ \/ \E w \in Workers :
          /\ ~busy[w] /\ \A v \in 1 .. w - 1 : busy[v]
          /\ busy' = [busy EXCEPT ![w] = TRUE]
          /\ lport' = w
     \/ /\ \A w \in Workers : busy[w]
        /\ lport' = None
        /\ UNCHANGED busy
  /\ UNCHANGED <<lconn, lbacklog, wpc, wconn, wbacklog, clientVars>>

\* main: "PORT ..." or "BUSY", and close.
WriteAnswer ==
  /\ lpc = "write"
  /\ lpc' = "accept"
  /\ lconn' = None
  /\ lport' = None
  /\ cpc' = [cpc EXCEPT ![lconn] = IF @ = "asked" THEN "told" ELSE @]
  /\ goal' = [goal EXCEPT ![lconn] = lport]
  /\ UNCHANGED <<lbacklog, workerVars>>

-----------------------------------------------------------------------------
(* A worker.                                                               *)

\* Defect: the worker declares itself free as soon as it has accepted.
WorkerAcceptFrees(w) ==
  /\ wpc[w] = "accept"
  /\ wbacklog[w] # <<>>
  /\ wpc' = [wpc EXCEPT ![w] = "serve"]
  /\ busy' = [busy EXCEPT ![w] = FALSE]
  /\ wconn' = [wconn EXCEPT ![w] = Head(wbacklog[w])]
  /\ wbacklog' = [wbacklog EXCEPT ![w] = Tail(@)]
  /\ UNCHANGED <<listenerVars, clientVars>>

\* worker_main: accept.
WorkerAccept(w) ==
  /\ wpc[w] = "accept"
  /\ wbacklog[w] # <<>>
  /\ wpc' = [wpc EXCEPT ![w] = "serve"]
  /\ wconn' = [wconn EXCEPT ![w] = Head(wbacklog[w])]
  /\ wbacklog' = [wbacklog EXCEPT ![w] = Tail(@)]
  /\ UNCHANGED <<listenerVars, busy, clientVars>>

\* serve_time and close.
serve_time(w) ==
  /\ wpc[w] = "serve"
  /\ cpc[wconn[w]] \in {"asking", "dead"}
  /\ cpc' = [cpc EXCEPT ![wconn[w]] = IF @ = "asking" THEN "answered" ELSE @]
  /\ wconn' = [wconn EXCEPT ![w] = None]
  /\ wpc' = [wpc EXCEPT ![w] = "free"]
  /\ UNCHANGED <<listenerVars, busy, wbacklog, goal>>

\* Defect: busy is never cleared.
FreeWorkerForgotten(w) ==
  /\ wpc[w] = "free"
  /\ wpc' = [wpc EXCEPT ![w] = "accept"]
  /\ UNCHANGED <<listenerVars, busy, wconn, wbacklog, clientVars>>

\* Defect: the thread ends after its first client.
FreeWorkerOnce(w) ==
  /\ wpc[w] = "free"
  /\ wpc' = [wpc EXCEPT ![w] = "off"]
  /\ busy' = [busy EXCEPT ![w] = FALSE]
  /\ UNCHANGED <<listenerVars, wconn, wbacklog, clientVars>>

\* worker_main: worker->busy = 0.
FreeWorker(w) ==
  /\ wpc[w] = "free"
  /\ wpc' = [wpc EXCEPT ![w] = "accept"]
  /\ busy' = [busy EXCEPT ![w] = FALSE]
  /\ UNCHANGED <<listenerVars, wconn, wbacklog, clientVars>>

-----------------------------------------------------------------------------
(* A client.                                                               *)

Client(c, from, to) == cpc[c] = from /\ cpc' = [cpc EXCEPT ![c] = to]

Connect(c) ==
  /\ lpc \notin {"start", "failed"}
  /\ Client(c, "init", "connected")
  /\ lbacklog' = Append(lbacklog, c)
  /\ UNCHANGED <<lpc, lconn, lport, workerVars, goal>>

Ask(c) == Client(c, "connected", "asked") /\ UNCHANGED <<listenerVars, workerVars, goal>>

\* main: BUSY is printed and ends the client.
ReadPort(c) ==
  /\ Client(c, "told", IF goal[c] = None THEN "done" ELSE "go")
  /\ UNCHANGED <<listenerVars, workerVars, goal>>

\* connect_to_port(worker_port).
ConnectWorker(c) ==
  /\ Client(c, "go", "atWorker")
  /\ wbacklog' = [wbacklog EXCEPT ![goal[c]] = Append(@, c)]
  /\ UNCHANGED <<listenerVars, busy, wpc, wconn, goal>>

AskWorker(c) == Client(c, "atWorker", "asking") /\ UNCHANGED <<listenerVars, workerVars, goal>>

ReadTime(c) == Client(c, "answered", "done") /\ UNCHANGED <<listenerVars, workerVars, goal>>

Kill(c) ==
  /\ c \in Killable
  /\ cpc[c] \notin {"init", "done", "dead"}
  /\ cpc' = [cpc EXCEPT ![c] = "dead"]
  /\ UNCHANGED <<listenerVars, workerVars, goal>>

-----------------------------------------------------------------------------
ListenerSteps ==
  \/ (\E w \in Workers : StartWorker(w)) \/ Listen
  \/ AcceptClient \/ ReadRequest \/ reserve_worker \/ WriteAnswer

WorkerSteps(w) == WorkerAccept(w) \/ serve_time(w) \/ FreeWorker(w)

ClientSteps(c) == Ask(c) \/ ReadPort(c) \/ ConnectWorker(c) \/ AskWorker(c) \/ ReadTime(c)

Next ==
  \/ ListenerSteps
  \/ \E w \in Workers : WorkerSteps(w)
  \/ \E c \in Clients : ClientSteps(c) \/ Connect(c) \/ Kill(c)
  \/ StartFails

Spec == Init /\ [][Next]_vars

\* Threads and client processes run; nobody has to connect.
FairSpec ==
  /\ Spec
  /\ WF_vars(ListenerSteps)
  /\ \A w \in Workers : WF_vars(WorkerSteps(w))
  /\ \A c \in Clients : WF_vars(ClientSteps(c))

-----------------------------------------------------------------------------
(* Properties.                                                             *)

\* The clients that worker w is for: on their way to it, waiting at its port, or being
\* served.
Holders(w) ==
  {c \in Clients : goal[c] = w /\ cpc[c] \in {"told", "go", "atWorker", "asking"}}
  \union {wbacklog[w][i] : i \in DOMAIN wbacklog[w]}
  \union ({wconn[w]} \ {None})
  \union (IF lport = w THEN {lconn} ELSE {})

\* A reservation is exclusive from reserve_worker to busy = 0, although it passes from
\* thread to process to thread: no worker is promised to two clients, and one that is
\* not busy is promised to none and is waiting in accept.
OneClientPerWorker ==
  \A w \in Workers :
    /\ \A c, d \in Holders(w) : c = d
    /\ ~busy[w] => Holders(w) = {} /\ wpc[w] \in {"off", "accept"}

\* Every client that connects is answered, the time or BUSY, although others die.
ClientsAnswered == \A c \in Clients : cpc[c] = "connected" ~> cpc[c] \in {"done", "dead"}

\* A reserved worker is given back, although other clients die: the client it was reserved
\* for has been served, or has died after it connected.  Only one that dies on its way,
\* told the port or not, takes the worker out of the pool: no one else clears busy
\* (server.c:199).
WorkerComesFree ==
  \A w \in Workers, c \in Clients :
    /\ (lport = w /\ lconn = c) ~> (~busy[w] \/ cpc[c] = "dead")
    /\ (\E i \in DOMAIN wbacklog[w] : wbacklog[w][i] = c) ~> ~busy[w]

-----------------------------------------------------------------------------
(* What the proofs need besides.                                           *)

\* The types of the variables.
TypeOK ==
  /\ lpc \in {"start", "accept", "read", "reserve", "write", "failed"}
  /\ lconn \in Clients \union {None}
  /\ lport \in Workers \union {None}
  /\ lbacklog \in Seq(Clients)
  /\ busy \in [Workers -> BOOLEAN]
  /\ wpc \in [Workers -> {"off", "accept", "serve", "free"}]
  /\ wconn \in [Workers -> Clients \union {None}]
  /\ wbacklog \in [Workers -> Seq(Clients)]
  /\ cpc \in [Clients -> {"init", "connected", "asked", "told", "go", "atWorker",
                          "asking", "answered", "done", "dead"}]
  /\ goal \in [Clients -> Workers \union {None}]

\* The listener's side: a client is with it once, without a worker, and until it is told;
\* a reservation in the listener's hand is for the client in its hand.
ListenerInv ==
  /\ lpc = "start" => \A c \in Clients : cpc[c] = "init"
  /\ lpc \in {"read", "reserve", "write"} => lconn \in Clients
  /\ lport # None => lpc = "write"
  /\ \A i, j \in DOMAIN lbacklog : lbacklog[i] = lbacklog[j] => i = j
  /\ \A i \in DOMAIN lbacklog :
       /\ lbacklog[i] # lconn
       /\ cpc[lbacklog[i]] \in {"connected", "asked", "dead"} /\ goal[lbacklog[i]] = None
  /\ lconn # None => cpc[lconn] \in {"connected", "asked", "dead"} /\ goal[lconn] = None
  /\ \A c \in Clients : (cpc[c] = "init" => goal[c] = None) /\ (cpc[c] = "go" => goal[c] # None)

\* A worker's port: who waits there or is served was sent there, one at a time, and a
\* worker serves when it has somebody.
PortInv ==
  \A w \in Workers :
    /\ Len(wbacklog[w]) <= 1
    /\ \A i \in DOMAIN wbacklog[w] :
         goal[wbacklog[w][i]] = w /\ cpc[wbacklog[w][i]] \in {"atWorker", "asking", "dead"}
    /\ wconn[w] # None =>
         /\ wbacklog[w] = <<>>
         /\ goal[wconn[w]] = w /\ cpc[wconn[w]] \in {"atWorker", "asking", "dead"}
    /\ wpc[w] = "serve" <=> wconn[w] # None

\* A worker is promised to one client at most, and to nobody when it is free or about to be.
PromiseInv ==
  \A w \in Workers :
    /\ \A c, d \in Holders(w) : c = d
    /\ ~busy[w] => Holders(w) = {} /\ wpc[w] \in {"off", "accept"}
    /\ wpc[w] = "free" => Holders(w) = {}
=============================================================================
