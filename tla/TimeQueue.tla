----------------------------- MODULE TimeQueue -----------------------------
(***************************************************************************)
(* labs/lab-16/part-2/3: a time server whose main thread accepts           *)
(* connections and hands them to a fixed set of workers through a bounded  *)
(* ring, guarded by queue.mutex and the condition variables not_empty and  *)
(* not_full.                                                               *)
(*                                                                         *)
(* Everything between lock and unlock (or cond_wait) is one step.          *)
(* pthread_cond_signal wakes at least one waiter, and a waiter may also    *)
(* wake by itself; a woken thread tests its condition again.               *)
(*                                                                         *)
(* An answer is written once and to a peer that has at worst sent its FIN, *)
(* so that write never raises SIGPIPE.                                     *)
(***************************************************************************)
EXTENDS Naturals, Sequences, FiniteSets

CONSTANTS
  Conns,      \* client processes, each with one connection
  Workers,    \* the worker threads, WORKER_COUNT of them
  None,       \* no connection
  QueueSize,  \* QUEUE_SIZE
  Backlog,    \* BACKLOG
  Killable,   \* clients that may die at any point
  Silent      \* clients that may connect and never write

ASSUME QueueAssumption ==
  /\ None \notin Conns
  /\ Workers # {}
  /\ QueueSize \in Nat \ {0}
  /\ Backlog \in Nat
  /\ Killable \subseteq Conns /\ Silent \subseteq Conns

VARIABLES
  \* the main thread
  mainPc,     \* "init", "start", "accept", "push", "wait" (on not_full), "failed"
  client_fd,  \* the connection it is about to push
  backlog,    \* connections the kernel holds for accept, oldest first
  \* queue
  items, head, tail, count,
  pushed,     \* history: connections pushed so far
  \* the workers
  wpc,        \* "off", "pop", "wait" (on not_empty), "serve"
  serving,    \* the connection in hand
  \* the clients
  cpc         \* "init", "connected", "sent", "answered", "done", "dead"

ringVars == <<items, head, tail, count, pushed>>
mainVars == <<mainPc, client_fd, backlog>>
workerVars == <<wpc, serving>>
vars == <<mainVars, ringVars, workerVars, cpc>>

Init ==
  /\ mainPc = "init"
  /\ client_fd = None
  /\ backlog = <<>>
  /\ items = [i \in 0 .. QueueSize - 1 |-> None]
  /\ head = 0
  /\ tail = 0
  /\ count = 0
  /\ pushed = {}
  /\ wpc = [w \in Workers |-> "off"]
  /\ serving = [w \in Workers |-> None]
  /\ cpc = [c \in Conns |-> "init"]

-----------------------------------------------------------------------------
(* The main thread.                                                        *)

\* create_listener.
Listen ==
  /\ mainPc = "init"
  /\ mainPc' = "start"
  /\ UNCHANGED <<client_fd, backlog, ringVars, workerVars, cpc>>

\* main: pthread_create for one more worker; after the last, the accept loop.
StartWorker(w) ==
  /\ mainPc = "start"
  /\ wpc[w] = "off"
  /\ wpc' = [wpc EXCEPT ![w] = "pop"]
  /\ mainPc' = IF \A v \in Workers \ {w} : wpc[v] # "off" THEN "accept" ELSE "start"
  /\ UNCHANGED <<client_fd, backlog, ringVars, serving, cpc>>

\* main: create_listener or pthread_create fails and main returns; so all threads end.
\* No connection has been accepted yet: the workers have nothing in hand.
StartFails ==
  /\ mainPc \in {"init", "start"}
  /\ mainPc' = "failed"
  /\ wpc' = [w \in Workers |-> "off"]
  /\ backlog' = <<>>
  /\ UNCHANGED <<client_fd, ringVars, serving, cpc>>

\* main: accept.  A failed accept only turns the loop.
Accept ==
  /\ mainPc = "accept"
  /\ backlog # <<>>
  /\ mainPc' = "push"
  /\ client_fd' = Head(backlog)
  /\ backlog' = Tail(backlog)
  /\ UNCHANGED <<ringVars, workerVars, cpc>>

\* The ring: one place on, modulo QUEUE_SIZE.
NextIndex(i) == (i + 1) % QueueSize

\* Defect: no signal.
signal_not_empty_forgotten == UNCHANGED wpc

\* pthread_cond_signal(&queue.not_empty).
signal_not_empty ==
  LET waiting == {w \in Workers : wpc[w] = "wait"}
  IN  \/ waiting = {} /\ UNCHANGED wpc
      \/ \E woken \in (SUBSET waiting) \ {{}} :
           wpc' = [w \in Workers |-> IF w \in woken THEN "pop" ELSE wpc[w]]

\* queue_push: the queue is full, pthread_cond_wait(&queue.not_full).
PushWait ==
  /\ mainPc = "push"
  /\ count = QueueSize
  /\ mainPc' = "wait"
  /\ UNCHANGED <<client_fd, backlog, ringVars, workerVars, cpc>>

\* Defect: a full queue is not waited for.
queue_push_unchecked ==
  /\ mainPc = "push"
  /\ items' = [items EXCEPT ![tail] = client_fd]
  /\ tail' = NextIndex(tail)
  /\ count' = IF count < QueueSize THEN count + 1 ELSE count
  /\ pushed' = pushed \union {client_fd}
  /\ signal_not_empty
  /\ mainPc' = "accept"
  /\ client_fd' = None
  /\ UNCHANGED <<head, backlog, serving, cpc>>

\* queue_push: there is room.
queue_push ==
  /\ mainPc = "push"
  /\ count # QueueSize
  /\ items' = [items EXCEPT ![tail] = client_fd]
  /\ tail' = NextIndex(tail)
  /\ count' = count + 1
  /\ pushed' = pushed \union {client_fd}
  /\ signal_not_empty
  /\ mainPc' = "accept"
  /\ client_fd' = None
  /\ UNCHANGED <<head, backlog, serving, cpc>>

-----------------------------------------------------------------------------
(* A worker.                                                               *)

\* queue_pop: nothing there, pthread_cond_wait(&queue.not_empty).
PopWait(w) ==
  /\ wpc[w] = "pop"
  /\ count = 0
  /\ wpc' = [wpc EXCEPT ![w] = "wait"]
  /\ UNCHANGED <<mainVars, ringVars, serving, cpc>>

\* Defect: head is not moved on.
queue_pop_same_head(w) ==
  /\ wpc[w] = "pop"
  /\ count # 0
  /\ serving' = [serving EXCEPT ![w] = items[head]]
  /\ count' = count - 1
  /\ mainPc' = IF mainPc = "wait" THEN "push" ELSE mainPc
  /\ wpc' = [wpc EXCEPT ![w] = "serve"]
  /\ UNCHANGED <<client_fd, backlog, items, head, tail, pushed, cpc>>

\* Defect: the main thread is not woken.
queue_pop_no_signal(w) ==
  /\ wpc[w] = "pop"
  /\ count # 0
  /\ serving' = [serving EXCEPT ![w] = items[head]]
  /\ head' = NextIndex(head)
  /\ count' = count - 1
  /\ wpc' = [wpc EXCEPT ![w] = "serve"]
  /\ UNCHANGED <<mainVars, items, tail, pushed, cpc>>

\* queue_pop: the oldest connection, and not_full is signalled: only main waits on it.
queue_pop(w) ==
  /\ wpc[w] = "pop"
  /\ count # 0
  /\ serving' = [serving EXCEPT ![w] = items[head]]
  /\ head' = NextIndex(head)
  /\ count' = count - 1
  /\ mainPc' = IF mainPc = "wait" THEN "push" ELSE mainPc
  /\ wpc' = [wpc EXCEPT ![w] = "serve"]
  /\ UNCHANGED <<client_fd, backlog, items, tail, pushed, cpc>>

\* serve_time and close: read waits until the client has written or is gone.
serve_time(w) ==
  /\ wpc[w] = "serve"
  /\ cpc[serving[w]] \in {"sent", "dead"}
  /\ cpc' = [cpc EXCEPT ![serving[w]] = IF @ = "sent" THEN "answered" ELSE @]
  /\ serving' = [serving EXCEPT ![w] = None]
  /\ wpc' = [wpc EXCEPT ![w] = "pop"]
  /\ UNCHANGED <<mainVars, ringVars>>

\* pthread_cond_wait returns without a signal.
WakeUp ==
  \/ /\ mainPc = "wait"
     /\ mainPc' = "push"
     /\ UNCHANGED <<client_fd, backlog, ringVars, workerVars, cpc>>
  \/ \E w \in Workers :
       /\ wpc[w] = "wait"
       /\ wpc' = [wpc EXCEPT ![w] = "pop"]
       /\ UNCHANGED <<mainVars, ringVars, serving, cpc>>

-----------------------------------------------------------------------------
(* A client.                                                               *)

Client(c, from, to) == cpc[c] = from /\ cpc' = [cpc EXCEPT ![c] = to]

\* connect succeeds as long as the kernel has room, accepted or not.
Connect(c) ==
  /\ mainPc \notin {"init", "failed"}
  /\ Len(backlog) <= Backlog
  /\ Client(c, "init", "connected")
  /\ backlog' = Append(backlog, c)
  /\ UNCHANGED <<mainPc, client_fd, ringVars, workerVars>>

ClientWrites(c) ==
  /\ Client(c, "connected", "sent")
  /\ UNCHANGED <<mainVars, ringVars, workerVars>>

\* read returns the answer, or fails because the server has ended.
ClientReads(c) ==
  /\ \/ Client(c, "answered", "done")
     \/ mainPc = "failed" /\ Client(c, "sent", "done")
  /\ UNCHANGED <<mainVars, ringVars, workerVars>>

Kill(c) ==
  /\ c \in Killable
  /\ cpc[c] \in {"connected", "sent", "answered"}
  /\ cpc' = [cpc EXCEPT ![c] = "dead"]
  /\ UNCHANGED <<mainVars, ringVars, workerVars>>

-----------------------------------------------------------------------------
MainSteps == Listen \/ (\E w \in Workers : StartWorker(w)) \/ Accept \/ PushWait \/ queue_push

WorkerSteps(w) == PopWait(w) \/ queue_pop(w) \/ serve_time(w)

ClientSteps(c) == ClientWrites(c) \/ ClientReads(c)

Next ==
  \/ MainSteps
  \/ \E w \in Workers : WorkerSteps(w)
  \/ \E c \in Conns : ClientSteps(c) \/ Connect(c) \/ Kill(c)
  \/ StartFails
  \/ WakeUp

Spec == Init /\ [][Next]_vars

\* Every thread and every client process runs, and gets the mutex in the end.  Nobody
\* has to connect, silent clients have to do nothing, and nothing wakes without a signal.
FairSpec ==
  /\ Spec
  /\ WF_vars(MainSteps)
  /\ \A w \in Workers : WF_vars(WorkerSteps(w))
  /\ \A c \in Conns \ Silent : WF_vars(ClientSteps(c))

-----------------------------------------------------------------------------
(* Properties.                                                             *)

\* The types of the variables; the ring's indices stay inside the array.
TypeOK ==
  /\ mainPc \in {"init", "start", "accept", "push", "wait", "failed"}
  /\ client_fd \in Conns \union {None}
  /\ backlog \in Seq(Conns)
  /\ items \in [0 .. QueueSize - 1 -> Conns \union {None}]
  /\ head \in 0 .. QueueSize - 1
  /\ tail \in 0 .. QueueSize - 1
  /\ count \in 0 .. QueueSize
  /\ pushed \subseteq Conns
  /\ wpc \in [Workers -> {"off", "pop", "wait", "serve"}]
  /\ serving \in [Workers -> Conns \union {None}]
  /\ cpc \in [Conns -> {"init", "connected", "sent", "answered", "done", "dead"}]

\* No wakeup is lost: the workers do not all sleep beside a filled queue, and main does
\* not sleep beside one with room.
NoLostWakeup ==
  /\ (\A w \in Workers : wpc[w] = "wait") => count = 0
  /\ mainPc = "wait" => count = QueueSize

\* The k-th waiting connection, from 0.
Slot(k) == (head + k) % QueueSize

\* The ring and its locks are a FIFO queue that gives every connection to one worker.
Fifo == INSTANCE ClientFifo WITH
  queue <- [k \in 1 .. count |-> items[Slot(k - 1)]]

ImplementsFifo == Fifo!Spec

\* A file descriptor has one owner: a connection is in the kernel's backlog, in main's
\* hand, in one slot or with one worker, never in two places, so that it is neither
\* answered nor closed twice.
OneOwner ==
  LET slots == {Slot(k) : k \in 0 .. count - 1}
  IN  \A c \in Conns :
        Cardinality({i \in DOMAIN backlog : backlog[i] = c})
        + (IF client_fd = c THEN 1 ELSE 0)
        + Cardinality({s \in slots : items[s] = c})
        + Cardinality({w \in Workers : serving[w] = c}) <= 1

\* Every worker sits in read on the connection of a silent client.
AllHeld == \A w \in Workers : wpc[w] = "serve" /\ serving[w] \in Silent

\* Every client that has asked gets its answer (or the server never came up), whatever
\* other clients do and however full the queue was.  A silent client costs one worker
\* (server.c:128 has no time limit), and only when all are taken for good does a client
\* go without.
EveryoneServed == \A c \in Conns \ Silent : cpc[c] = "sent" ~> (cpc[c] # "sent" \/ []AllHeld)

-----------------------------------------------------------------------------
(* What the proofs need besides.                                           *)

\* The ring's indices agree, its waiting slots are filled, a worker that is at work
\* has a connection in hand, and nobody has one before the accept loop.
RingInv ==
  /\ mainPc \in {"init", "start"} => count = 0 /\ \A w \in Workers : wpc[w] # "serve"
  /\ tail = Slot(count)
  /\ \A k \in 0 .. count - 1 : items[Slot(k)] \in Conns
  /\ \A w \in Workers : wpc[w] = "serve" <=> serving[w] # None

\* A connection that is still to be pushed has not been pushed, and is in one place.
FreshInv ==
  /\ mainPc \in {"push", "wait"} => client_fd \in Conns \ pushed
  /\ \A i \in DOMAIN backlog : backlog[i] \notin pushed /\ backlog[i] # client_fd
  /\ \A i, j \in DOMAIN backlog : backlog[i] = backlog[j] => i = j
  /\ \A c \in Conns : cpc[c] = "init" =>
       c \notin pushed /\ c # client_fd /\ \A i \in DOMAIN backlog : backlog[i] # c

\* Main has a connection in hand only while it pushes it; the connections in the ring and
\* with the workers have been pushed, and no two places hold the same one.
OwnerInv ==
  /\ client_fd # None => mainPc \in {"push", "wait"}
  /\ \A k \in 0 .. count - 1 : items[Slot(k)] \in pushed
  /\ \A j, k \in 0 .. count - 1 : items[Slot(j)] = items[Slot(k)] => j = k
  /\ \A w \in Workers : serving[w] # None =>
       /\ serving[w] \in pushed
       /\ \A k \in 0 .. count - 1 : items[Slot(k)] # serving[w]
       /\ \A v \in Workers : serving[v] = serving[w] => v = w
=============================================================================
