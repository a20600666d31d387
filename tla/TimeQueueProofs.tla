-------------------------- MODULE TimeQueueProofs --------------------------
(* Proofs about TimeQueue for every value of its constants.                *)
EXTENDS TimeQueue, FiniteSetTheorems, SequenceTheorems, TLAPS

-----------------------------------------------------------------------------
(* The ring.                                                               *)

\* The index after i stays inside the array.
LEMMA NextIndexRange ==
  ASSUME NEW i \in 0 .. QueueSize - 1
  PROVE  /\ NextIndex(i) \in 0 .. QueueSize - 1
         /\ NextIndex(i) = IF i + 1 = QueueSize THEN 0 ELSE i + 1
  BY QueueAssumption DEF NextIndex

\* The position k places behind h, without %.
LEMMA SlotStep ==
  ASSUME NEW h \in 0 .. QueueSize - 1, NEW k \in 0 .. QueueSize
  PROVE  (h + k) % QueueSize = IF h + k < QueueSize THEN h + k ELSE h + k - QueueSize
  BY QueueAssumption

-----------------------------------------------------------------------------
(* Types.                                                                  *)

\* The initial state is typed.
LEMMA TypeInit == Init => TypeOK
  BY QueueAssumption DEF Init, TypeOK

\* Every step keeps the types.
LEMMA TypeStep ==
  ASSUME TypeOK, FreshInv, [Next]_vars
  PROVE  TypeOK'
  <1> USE QueueAssumption
  <1>1. CASE Listen
    BY <1>1 DEF Listen, TypeOK, ringVars, workerVars
  <1>2. ASSUME NEW w \in Workers, StartWorker(w) PROVE TypeOK'
    BY <1>2 DEF StartWorker, TypeOK, ringVars
  <1>3. CASE Accept
    <2>1. Head(backlog) \in Conns /\ Tail(backlog) \in Seq(Conns)
      BY <1>3 DEF Accept, TypeOK
    <2> QED BY <1>3, <2>1 DEF Accept, TypeOK, ringVars, workerVars
  <1>4. CASE PushWait
    BY <1>4 DEF PushWait, TypeOK, ringVars, workerVars
  <1>5. CASE queue_push
    <2>1. tail' \in 0 .. QueueSize - 1
      BY <1>5, NextIndexRange DEF queue_push, TypeOK
    <2>2. wpc' \in [Workers -> {"off", "pop", "wait", "serve"}]
      BY <1>5 DEF queue_push, signal_not_empty, TypeOK
    <2>3. /\ items' \in [0 .. QueueSize - 1 -> Conns \union {None}]
          /\ count' \in 0 .. QueueSize
      BY <1>5 DEF queue_push, TypeOK
    <2>4. pushed' \subseteq Conns
      BY <1>5 DEF queue_push, TypeOK, FreshInv
    <2> QED BY <1>5, <2>1, <2>2, <2>3, <2>4 DEF queue_push, TypeOK
  <1>6. ASSUME NEW w \in Workers, PopWait(w) PROVE TypeOK'
    BY <1>6 DEF PopWait, TypeOK, mainVars, ringVars
  <1>7. ASSUME NEW w \in Workers, queue_pop(w) PROVE TypeOK'
    <2>1. head' \in 0 .. QueueSize - 1
      BY <1>7, NextIndexRange DEF queue_pop, TypeOK
    <2> QED BY <1>7, <2>1 DEF queue_pop, TypeOK
  <1>8. ASSUME NEW w \in Workers, serve_time(w) PROVE TypeOK'
    BY <1>8 DEF serve_time, TypeOK, mainVars, ringVars
  <1>9. ASSUME NEW c \in Conns, ClientWrites(c) \/ ClientReads(c) \/ Connect(c) \/ Kill(c)
        PROVE  TypeOK'
    <2>1. CASE Connect(c)
      <3>1. backlog' \in Seq(Conns)
        BY <2>1 DEF Connect, TypeOK
      <3> QED BY <2>1, <3>1 DEF Connect, Client, TypeOK, ringVars, workerVars
    <2>2. CASE ClientWrites(c) \/ ClientReads(c) \/ Kill(c)
      BY <2>2, SMTT(40) DEF ClientWrites, ClientReads, Kill, Client, TypeOK, mainVars, ringVars,
                  workerVars
    <2> QED BY <1>9, <2>1, <2>2
  <1>10. CASE StartFails
    BY <1>10 DEF StartFails, TypeOK, ringVars
  <1>11. CASE WakeUp
    BY <1>11 DEF WakeUp, TypeOK, mainVars, ringVars, workerVars
  <1>12. CASE UNCHANGED vars
    BY <1>12 DEF TypeOK, vars, mainVars, ringVars, workerVars
  <1> QED
    BY <1>1, <1>2, <1>3, <1>4, <1>5, <1>6, <1>7, <1>8, <1>9, <1>10, <1>11, <1>12
    DEF Next, MainSteps, WorkerSteps, ClientSteps

-----------------------------------------------------------------------------
(* The connections still to be pushed.                                     *)

\* Every step keeps the connections that are still to be pushed in one place.
LEMMA FreshStep ==
  ASSUME TypeOK, FreshInv, [Next]_vars
  PROVE  FreshInv'
  <1> USE QueueAssumption
  <1>1. CASE Accept
    <2>1. /\ client_fd' = backlog[1] /\ backlog # <<>>
          /\ DOMAIN backlog' = 1 .. Len(backlog) - 1
          /\ \A i \in DOMAIN backlog' : backlog'[i] = backlog[i + 1]
      BY <1>1 DEF Accept, TypeOK
    <2>2. DOMAIN backlog = 1 .. Len(backlog) /\ Len(backlog) \in Nat /\ 1 \in DOMAIN backlog
      BY <2>1 DEF TypeOK
    <2>3. UNCHANGED <<pushed, cpc>> /\ mainPc' = "push"
      BY <1>1 DEF Accept, ringVars
    <2>4. backlog[1] \in Conns \ pushed
      BY <2>2 DEF TypeOK, FreshInv
    <2>5. \A i \in DOMAIN backlog' : i + 1 \in DOMAIN backlog /\ i + 1 # 1 /\ i \in Nat
      BY <2>1, <2>2
    <2>6. \A i \in DOMAIN backlog' : backlog'[i] \notin pushed' /\ backlog'[i] # client_fd'
      BY <2>1, <2>2, <2>3, <2>5 DEF FreshInv
    <2>7. \A i, j \in DOMAIN backlog' : backlog'[i] = backlog'[j] => i = j
      <3> SUFFICES ASSUME NEW i \in DOMAIN backlog', NEW j \in DOMAIN backlog',
                          backlog'[i] = backlog'[j]
                   PROVE  i = j
        OBVIOUS
      <3>1. i + 1 = j + 1
        BY <2>1, <2>5 DEF FreshInv
      <3> QED BY <3>1, <2>5
    <2>8. ASSUME NEW c \in Conns, cpc'[c] = "init"
          PROVE  c \notin pushed' /\ c # client_fd' /\ \A i \in DOMAIN backlog' : backlog'[i] # c
      BY <2>1, <2>2, <2>3, <2>5, <2>8 DEF FreshInv
    <2> QED BY <2>1, <2>3, <2>4, <2>6, <2>7, <2>8 DEF FreshInv
  <1>2. CASE queue_push
    BY <1>2 DEF queue_push, FreshInv, TypeOK
  <1>3. ASSUME NEW c \in Conns, Connect(c) PROVE FreshInv'
    <2>1. /\ DOMAIN backlog = 1 .. Len(backlog) /\ Len(backlog) \in Nat
          /\ DOMAIN backlog' = 1 .. Len(backlog) + 1
          /\ backlog'[Len(backlog) + 1] = c
          /\ \A i \in DOMAIN backlog : backlog'[i] = backlog[i]
      BY <1>3 DEF Connect, TypeOK
    <2>2. /\ UNCHANGED <<mainPc, client_fd, pushed>> /\ cpc[c] = "init"
          /\ \A d \in Conns : cpc'[d] = "init" => cpc[d] = "init" /\ d # c
      BY <1>3 DEF Connect, Client, ringVars, TypeOK
    <2>3. \A i \in DOMAIN backlog' : i \in DOMAIN backlog \/ i = Len(backlog) + 1
      BY <2>1
    <2>4. c \notin pushed /\ c # client_fd /\ \A i \in DOMAIN backlog : backlog[i] # c
      BY <2>2 DEF FreshInv
    <2>5. \A i \in DOMAIN backlog' : backlog'[i] \notin pushed' /\ backlog'[i] # client_fd'
      BY <2>1, <2>2, <2>3, <2>4 DEF FreshInv
    <2>6. \A i, j \in DOMAIN backlog' : backlog'[i] = backlog'[j] => i = j
      BY <2>1, <2>3, <2>4 DEF FreshInv
    <2>7. \A d \in Conns : cpc'[d] = "init" =>
            d \notin pushed' /\ d # client_fd' /\ \A i \in DOMAIN backlog' : backlog'[i] # d
      BY <2>1, <2>2, <2>3 DEF FreshInv
    <2> QED BY <2>2, <2>5, <2>6, <2>7 DEF FreshInv
  <1>4. CASE StartFails
    BY <1>4 DEF StartFails, FreshInv, TypeOK, ringVars
  <1>5. CASE UNCHANGED <<client_fd, backlog, pushed>>
             /\ (mainPc' \in {"push", "wait"} => mainPc \in {"push", "wait"})
             /\ (\A c \in Conns : cpc'[c] = "init" => cpc[c] = "init")
    BY <1>5 DEF FreshInv
  <1>6. CASE Listen \/ (\E w \in Workers : StartWorker(w)) \/ PushWait
    BY <1>5, <1>6 DEF Listen, StartWorker, PushWait, ringVars
  <1>7. CASE \E w \in Workers : PopWait(w) \/ queue_pop(w)
    BY <1>5, <1>7 DEF PopWait, queue_pop, mainVars, ringVars
  <1>8. ASSUME NEW w \in Workers, serve_time(w) PROVE FreshInv'
    <2>1. \A c \in Conns : cpc'[c] = "init" => cpc[c] = "init"
      BY <1>8 DEF serve_time, TypeOK
    <2> QED BY <1>5, <1>8, <2>1 DEF serve_time, mainVars, ringVars
  <1>9. ASSUME NEW c \in Conns, ClientWrites(c) \/ ClientReads(c) \/ Kill(c) PROVE FreshInv'
    <2>1. \A d \in Conns : cpc'[d] = "init" => cpc[d] = "init"
      BY <1>9 DEF ClientWrites, ClientReads, Kill, Client, TypeOK
    <2> QED BY <1>5, <1>9, <2>1 DEF ClientWrites, ClientReads, Kill, mainVars, ringVars
  <1>10. CASE WakeUp
    BY <1>5, <1>10 DEF WakeUp, mainVars, ringVars
  <1>11. CASE UNCHANGED vars
    BY <1>5, <1>11 DEF vars, mainVars, ringVars
  <1> QED
    BY <1>1, <1>2, <1>3, <1>4, <1>6, <1>7, <1>8, <1>9, <1>10, <1>11
    DEF Next, MainSteps, WorkerSteps, ClientSteps

-----------------------------------------------------------------------------
(* Nobody sleeps for ever.                                                 *)

\* Every step keeps the sleepers right: who sleeps has been tested under the mutex, and
\* every change of count wakes somebody.
LEMMA WakeStep ==
  ASSUME TypeOK, NoLostWakeup, [Next]_vars
  PROVE  NoLostWakeup'
  <1> USE QueueAssumption
  <1>1. CASE Listen \/ Accept \/ PushWait
    BY <1>1 DEF Listen, Accept, PushWait, NoLostWakeup, ringVars, workerVars
  <1>2. ASSUME NEW w \in Workers, StartWorker(w) PROVE NoLostWakeup'
    BY <1>2 DEF StartWorker, NoLostWakeup, ringVars, TypeOK
  <1>3. CASE queue_push
    <2>1. mainPc' = "accept"
      BY <1>3 DEF queue_push
    <2>2. \E w \in Workers : wpc'[w] # "wait"
      BY <1>3 DEF queue_push, signal_not_empty, TypeOK
    <2> QED BY <2>1, <2>2 DEF NoLostWakeup
  <1>4. ASSUME NEW w \in Workers, PopWait(w) PROVE NoLostWakeup'
    BY <1>4 DEF PopWait, NoLostWakeup, mainVars, ringVars, TypeOK
  <1>5. ASSUME NEW w \in Workers, queue_pop(w) PROVE NoLostWakeup'
    BY <1>5 DEF queue_pop, NoLostWakeup, TypeOK
  <1>6. ASSUME NEW w \in Workers, serve_time(w) PROVE NoLostWakeup'
    BY <1>6 DEF serve_time, NoLostWakeup, TypeOK, mainVars, ringVars
  <1>7. ASSUME NEW c \in Conns, ClientSteps(c) \/ Connect(c) \/ Kill(c) PROVE NoLostWakeup'
    BY <1>7 DEF ClientSteps, ClientWrites, ClientReads, Connect, Kill, NoLostWakeup,
                mainVars, ringVars, workerVars
  <1>8. CASE StartFails
    BY <1>8 DEF StartFails, NoLostWakeup, ringVars, TypeOK
  <1>9. CASE WakeUp
    BY <1>9 DEF WakeUp, NoLostWakeup, mainVars, ringVars, workerVars, TypeOK
  <1>10. CASE UNCHANGED vars
    BY <1>10 DEF vars, mainVars, ringVars, workerVars, NoLostWakeup
  <1> QED
    BY <1>1, <1>2, <1>3, <1>4, <1>5, <1>6, <1>7, <1>8, <1>9, <1>10
    DEF Next, MainSteps, WorkerSteps

-----------------------------------------------------------------------------
(* The ring as a sequence.                                                 *)

\* A push fills the free slot behind the waiting ones and touches none of these.
LEMMA PushRing ==
  ASSUME TypeOK, RingInv, queue_push
  PROVE  /\ tail' = (head' + count') % QueueSize
         /\ items'[(head + count) % QueueSize] = client_fd
         /\ \A k \in 0 .. count - 1 :
              items'[(head + k) % QueueSize] = items[(head + k) % QueueSize]
  <1> USE QueueAssumption
  <1>1. /\ head \in 0 .. QueueSize - 1 /\ count \in 0 .. QueueSize - 1
        /\ head' = head /\ count' = count + 1 /\ count' \in 0 .. QueueSize
        /\ items' = [items EXCEPT ![tail] = client_fd]
        /\ items \in [0 .. QueueSize - 1 -> Conns \union {None}]
    BY DEF TypeOK, queue_push
  <1>2. tail = IF head + count < QueueSize THEN head + count ELSE head + count - QueueSize
    <2>1. tail = (head + count) % QueueSize
      BY DEF RingInv, Slot
    <2>2. count \in 0 .. QueueSize
      BY <1>1, QueueAssumption
    <2> QED BY <1>1, <2>1, <2>2, SlotStep
  <1>3. tail' = IF tail + 1 = QueueSize THEN 0 ELSE tail + 1
    BY NextIndexRange DEF TypeOK, queue_push
  <1>4. (head + count') % QueueSize =
          IF head + count' < QueueSize THEN head + count' ELSE head + count' - QueueSize
    BY <1>1, SlotStep
  <1>5. tail' = (head' + count') % QueueSize
    BY <1>1, <1>2, <1>3, <1>4
  <1>6. tail \in 0 .. QueueSize - 1 /\ tail = (head + count) % QueueSize
    BY DEF TypeOK, RingInv, Slot
  <1>7. items'[(head + count) % QueueSize] = client_fd
    BY <1>1, <1>6
  <1>8. ASSUME NEW k \in 0 .. count - 1
        PROVE  items'[(head + k) % QueueSize] = items[(head + k) % QueueSize]
    <2>1. (head + k) % QueueSize =
            IF head + k < QueueSize THEN head + k ELSE head + k - QueueSize
      BY <1>1, SlotStep
    <2>2. (head + k) % QueueSize \in 0 .. QueueSize - 1 /\ (head + k) % QueueSize # tail
      BY <1>1, <1>2, <2>1
    <2> QED BY <1>1, <2>2
  <1> QED BY <1>5, <1>7, <1>8

\* A pop moves every waiting connection one place forward.
LEMMA PopRing ==
  ASSUME TypeOK, RingInv, NEW w \in Workers, queue_pop(w)
  PROVE  /\ tail' = (head' + count') % QueueSize
         /\ items[head] = items[(head + 0) % QueueSize]
         /\ \A k \in 0 .. count' - 1 :
              (head' + k) % QueueSize = (head + (k + 1)) % QueueSize
  <1> USE QueueAssumption
  <1>1. /\ head \in 0 .. QueueSize - 1 /\ count \in 0 .. QueueSize /\ count # 0
        /\ count' = count - 1 /\ count' \in 0 .. QueueSize /\ tail' = tail
        /\ head' \in 0 .. QueueSize - 1
        /\ head' = IF head + 1 = QueueSize THEN 0 ELSE head + 1
    BY NextIndexRange DEF TypeOK, queue_pop
  <1>2. tail = IF head + count < QueueSize THEN head + count ELSE head + count - QueueSize
    BY <1>1, SlotStep DEF RingInv, Slot
  <1>3. (head' + count') % QueueSize =
          IF head' + count' < QueueSize THEN head' + count' ELSE head' + count' - QueueSize
    BY <1>1, SlotStep
  <1>4. tail' = (head' + count') % QueueSize
    BY <1>1, <1>2, <1>3
  <1>5. (head + 0) % QueueSize = head
    <2>1. head + 0 = head /\ head \in Nat /\ head < QueueSize
      BY <1>1
    <2> QED BY <2>1
  <1>6. ASSUME NEW k \in 0 .. count' - 1
        PROVE  (head' + k) % QueueSize = (head + (k + 1)) % QueueSize
    <2>1. k \in 0 .. QueueSize /\ k + 1 \in 0 .. QueueSize
      BY <1>1
    <2>2. (head' + k) % QueueSize =
            IF head' + k < QueueSize THEN head' + k ELSE head' + k - QueueSize
      BY <1>1, <2>1, SlotStep
    <2>3. (head + (k + 1)) % QueueSize =
            IF head + (k + 1) < QueueSize THEN head + (k + 1) ELSE head + (k + 1) - QueueSize
      BY <1>1, <2>1, SlotStep
    <2> QED BY <1>1, <2>1, <2>2, <2>3
  <1> QED BY <1>4, <1>5, <1>6

\* Every step keeps the ring in order and the workers' hands in step with it.
LEMMA RingStep ==
  ASSUME TypeOK, RingInv, FreshInv, [Next]_vars
  PROVE  RingInv'
  <1> USE QueueAssumption
  <1>1. CASE queue_push
    <2>1. count \in Nat /\ count' = count + 1 /\ head' = head /\ serving' = serving
      BY <1>1 DEF queue_push, TypeOK
    <2>2. client_fd \in Conns
      BY <1>1 DEF queue_push, FreshInv
    <2>3. ASSUME NEW k \in 0 .. count' - 1 PROVE items'[(head' + k) % QueueSize] \in Conns
      <3>1. CASE k = count
        BY <1>1, <2>1, <2>2, <3>1, PushRing
      <3>2. CASE k # count
        <4>1. k \in 0 .. count - 1
          BY <2>1, <3>2
        <4>2. items[(head + k) % QueueSize] \in Conns
          BY <4>1 DEF RingInv, Slot
        <4> QED BY <1>1, <2>1, <4>1, <4>2, PushRing
      <3> QED BY <3>1, <3>2
    <2>4. \A w \in Workers : wpc'[w] = "serve" <=> wpc[w] = "serve"
      BY <1>1 DEF queue_push, signal_not_empty, TypeOK
    <2>5. mainPc' = "accept"
      BY <1>1 DEF queue_push
    <2> QED BY <1>1, <2>1, <2>3, <2>4, <2>5, PushRing DEF RingInv, Slot
  <1>2. ASSUME NEW w \in Workers, queue_pop(w) PROVE RingInv'
    <2>1. count \in Nat /\ count # 0 /\ count' = count - 1 /\ items' = items
      BY <1>2 DEF queue_pop, TypeOK
    <2>2. ASSUME NEW k \in 0 .. count' - 1 PROVE items'[(head' + k) % QueueSize] \in Conns
      <3>1. k + 1 \in 0 .. count - 1
        BY <2>1
      <3>2. items[(head + (k + 1)) % QueueSize] \in Conns
        BY <3>1 DEF RingInv, Slot
      <3> QED BY <1>2, <2>1, <3>2, PopRing
    <2>3. items[head] \in Conns
      <3>1. items[(head + 0) % QueueSize] \in Conns
        BY <2>1 DEF RingInv, Slot
      <3> QED BY <1>2, <3>1, PopRing
    <2>4. \A v \in Workers : wpc'[v] = "serve" <=> serving'[v] # None
      BY <1>2, <2>3 DEF queue_pop, TypeOK, RingInv
    <2>5. mainPc' \notin {"init", "start"}
      BY <1>2, <2>1 DEF queue_pop, RingInv
    <2> QED BY <1>2, <2>2, <2>4, <2>5, PopRing DEF RingInv, Slot
  <1>3. ASSUME UNCHANGED <<items, head, tail, count>>,
               \A w \in Workers : wpc'[w] = "serve" <=> serving'[w] # None,
               mainPc' \in {"init", "start"} =>
                 mainPc \in {"init", "start"} /\ \A w \in Workers : wpc'[w] # "serve"
        PROVE  RingInv'
    BY <1>3 DEF RingInv, Slot
  <1>4. CASE Listen \/ Accept \/ PushWait
    BY <1>3, <1>4 DEF Listen, Accept, PushWait, ringVars, workerVars, RingInv
  <1>5. ASSUME NEW w \in Workers, StartWorker(w) \/ PopWait(w) \/ serve_time(w) PROVE RingInv'
    <2>1. \A v \in Workers : wpc'[v] = "serve" <=> serving'[v] # None
      BY <1>5 DEF StartWorker, PopWait, serve_time, TypeOK, RingInv
    <2>2. mainPc' \in {"init", "start"} =>
            mainPc \in {"init", "start"} /\ \A v \in Workers : wpc'[v] # "serve"
      BY <1>5 DEF StartWorker, PopWait, serve_time, TypeOK, RingInv, mainVars
    <2> QED BY <1>3, <1>5, <2>1, <2>2 DEF StartWorker, PopWait, serve_time, ringVars
  <1>6. ASSUME NEW c \in Conns, ClientSteps(c) \/ Connect(c) \/ Kill(c) PROVE RingInv'
    BY <1>3, <1>6 DEF ClientSteps, ClientWrites, ClientReads, Connect, Kill, mainVars,
                      ringVars, workerVars, RingInv
  <1>7. CASE StartFails
    <2>1. \A w \in Workers : wpc'[w] = "off" /\ serving'[w] = None
      BY <1>7 DEF StartFails, RingInv, TypeOK
    <2> QED BY <1>3, <1>7, <2>1 DEF StartFails, ringVars
  <1>8. CASE WakeUp
    <2>1. \A v \in Workers : wpc'[v] = "serve" <=> serving'[v] # None
      BY <1>8 DEF WakeUp, TypeOK, RingInv, workerVars
    <2>2. mainPc' \in {"init", "start"} =>
            mainPc \in {"init", "start"} /\ \A v \in Workers : wpc'[v] # "serve"
      BY <1>8 DEF WakeUp, TypeOK, RingInv, mainVars, workerVars
    <2> QED BY <1>3, <1>8, <2>1, <2>2 DEF WakeUp, ringVars
  <1>9. CASE UNCHANGED vars
    BY <1>3, <1>9 DEF vars, mainVars, ringVars, workerVars, RingInv
  <1> QED
    BY <1>1, <1>2, <1>4, <1>5, <1>6, <1>7, <1>8, <1>9
    DEF Next, MainSteps, WorkerSteps

-----------------------------------------------------------------------------
(* One owner for every connection.                                         *)

\* A step that leaves the ring and the workers' hands alone keeps OwnerInv.
LEMMA OwnerIdle ==
  ASSUME OwnerInv, UNCHANGED <<items, head, count, pushed, serving>>,
         client_fd' # None => mainPc' \in {"push", "wait"}
  PROVE  OwnerInv'
  BY DEF OwnerInv, Slot

\* A push adds a connection that was in no place of the ring and with no worker.
LEMMA OwnerPush ==
  ASSUME TypeOK, RingInv, FreshInv, OwnerInv, queue_push
  PROVE  OwnerInv'
  <1> USE QueueAssumption
  <1> DEFINE at(k) == items[(head + k) % QueueSize]
             new(k) == items'[(head' + k) % QueueSize]
  <1>1. /\ count \in Nat /\ count' = count + 1 /\ head' = head /\ serving' = serving
        /\ pushed' = pushed \union {client_fd} /\ client_fd' = None
        /\ client_fd \in Conns \ pushed
    BY DEF queue_push, TypeOK, FreshInv
  <1>2. new(count) = client_fd /\ \A k \in 0 .. count - 1 : new(k) = at(k)
    BY <1>1, PushRing
  <1>3. /\ \A k \in 0 .. count - 1 : at(k) \in pushed
        /\ \A j, k \in 0 .. count - 1 : at(j) = at(k) => j = k
        /\ \A w \in Workers : serving[w] # None =>
             /\ serving[w] \in pushed
             /\ \A k \in 0 .. count - 1 : at(k) # serving[w]
             /\ \A v \in Workers : serving[v] = serving[w] => v = w
    BY DEF OwnerInv, Slot
  <1>4. \A k \in 0 .. count' - 1 : k = count \/ k \in 0 .. count - 1
    BY <1>1
  <1> HIDE DEF at, new
  <1>5. \A k \in 0 .. count' - 1 : new(k) \in pushed'
    BY <1>1, <1>2, <1>3, <1>4
  <1>6. \A j, k \in 0 .. count' - 1 : new(j) = new(k) => j = k
    BY <1>1, <1>2, <1>3, <1>4
  <1>7. ASSUME NEW w \in Workers, serving'[w] # None
        PROVE  /\ serving'[w] \in pushed'
               /\ \A k \in 0 .. count' - 1 : new(k) # serving'[w]
               /\ \A v \in Workers : serving'[v] = serving'[w] => v = w
    BY <1>1, <1>2, <1>3, <1>4, <1>7
  <1> QED BY <1>1, <1>5, <1>6, <1>7 DEF OwnerInv, Slot, new

\* A pop takes a connection out of the ring and into one hand.
LEMMA OwnerPop ==
  ASSUME TypeOK, RingInv, OwnerInv, NEW w \in Workers, queue_pop(w)
  PROVE  OwnerInv'
  <1> USE QueueAssumption
  <1> DEFINE at(k) == items[(head + k) % QueueSize]
             new(k) == items'[(head' + k) % QueueSize]
  <1>1. /\ count \in Nat /\ count # 0 /\ count' = count - 1 /\ pushed' = pushed
        /\ client_fd' = client_fd /\ items' = items
        /\ mainPc \in {"push", "wait"} => mainPc' \in {"push", "wait"}
        /\ serving' = [serving EXCEPT ![w] = items[head]]
        /\ serving \in [Workers -> Conns \union {None}]
    BY DEF queue_pop, TypeOK
  <1>2. items[head] = at(0) /\ \A k \in 0 .. count' - 1 : new(k) = at(k + 1)
    BY <1>1, PopRing
  <1>3. /\ \A k \in 0 .. count - 1 : at(k) \in pushed
        /\ \A j, k \in 0 .. count - 1 : at(j) = at(k) => j = k
        /\ \A v \in Workers : serving[v] # None =>
             /\ serving[v] \in pushed
             /\ \A k \in 0 .. count - 1 : at(k) # serving[v]
             /\ \A u \in Workers : serving[u] = serving[v] => u = v
        /\ client_fd # None => mainPc \in {"push", "wait"}
    BY DEF OwnerInv, Slot
  <1>4. /\ \A k \in 0 .. count' - 1 : k + 1 \in 0 .. count - 1 /\ k + 1 # 0 /\ k \in Int
        /\ 0 \in 0 .. count - 1
    BY <1>1
  <1>5. at(0) # None
    BY <1>4, QueueAssumption DEF RingInv, Slot
  <1> HIDE DEF at, new
  <1>6. \A k \in 0 .. count' - 1 : new(k) \in pushed'
    BY <1>1, <1>2, <1>3, <1>4
  <1>7. ASSUME NEW j \in 0 .. count' - 1, NEW k \in 0 .. count' - 1, new(j) = new(k)
        PROVE  j = k
    <2>1. j + 1 = k + 1
      BY <1>2, <1>3, <1>4, <1>7
    <2> QED BY <1>4, <2>1
  <1>8. ASSUME NEW v \in Workers, serving'[v] # None
        PROVE  /\ serving'[v] \in pushed'
               /\ \A k \in 0 .. count' - 1 : new(k) # serving'[v]
               /\ \A u \in Workers : serving'[u] = serving'[v] => u = v
    <2>1. CASE v = w
      <3>1. serving'[v] = at(0)
        BY <1>1, <1>2, <2>1
      <3>2. \A u \in Workers \ {w} : serving'[u] # at(0)
        BY <1>1, <1>3, <1>4, <1>5
      <3> QED BY <1>1, <1>2, <1>3, <1>4, <2>1, <3>1, <3>2
    <2>2. CASE v # w
      <3>1. serving'[v] = serving[v] /\ serving[v] # None /\ serving'[w] = at(0)
        BY <1>1, <1>2, <1>8, <2>2
      <3>2. at(0) # serving[v]
        BY <1>3, <1>4, <3>1
      <3>3. \A u \in Workers \ {w} : serving'[u] = serving[u]
        BY <1>1
      <3> QED BY <1>1, <1>2, <1>3, <1>4, <2>2, <3>1, <3>2, <3>3
    <2> QED BY <2>1, <2>2
  <1>9. client_fd' # None => mainPc' \in {"push", "wait"}
    BY <1>1, <1>3
  <1> QED BY <1>6, <1>7, <1>8, <1>9 DEF OwnerInv, Slot, new

\* Every step keeps every connection in one place.
LEMMA OwnerStep ==
  ASSUME TypeOK, RingInv, FreshInv, OwnerInv, [Next]_vars
  PROVE  OwnerInv'
  <1>1. CASE queue_push
    BY <1>1, OwnerPush
  <1>2. ASSUME NEW w \in Workers, queue_pop(w) PROVE OwnerInv'
    BY <1>2, OwnerPop
  <1>3. ASSUME NEW w \in Workers, serve_time(w) PROVE OwnerInv'
    <2>1. /\ UNCHANGED <<items, head, count, pushed, mainPc, client_fd>>
          /\ serving' = [serving EXCEPT ![w] = None]
          /\ serving \in [Workers -> Conns \union {None}]
      BY <1>3 DEF serve_time, mainVars, ringVars, TypeOK
    <2>2. \A v \in Workers : serving'[v] # None => v # w /\ serving'[v] = serving[v]
      BY <2>1
    <2>3. \A v \in Workers : serving'[v] = None \/ serving'[v] = serving[v]
      BY <2>1
    <2> QED BY <2>1, <2>2, <2>3 DEF OwnerInv, Slot
  <1>4. CASE Listen \/ Accept \/ PushWait \/ StartFails \/ WakeUp
    <2>1. client_fd' # None => mainPc' \in {"push", "wait"}
      BY <1>4 DEF Listen, Accept, PushWait, StartFails, WakeUp, mainVars, OwnerInv
    <2> QED
      BY <1>4, <2>1, OwnerIdle
      DEF Listen, Accept, PushWait, StartFails, WakeUp, ringVars, workerVars
  <1>5. ASSUME NEW w \in Workers, StartWorker(w) \/ PopWait(w) PROVE OwnerInv'
    <2>1. client_fd' # None => mainPc' \in {"push", "wait"}
      BY <1>5 DEF StartWorker, PopWait, mainVars, OwnerInv
    <2> QED BY <1>5, <2>1, OwnerIdle DEF StartWorker, PopWait, ringVars
  <1>6. ASSUME NEW c \in Conns, ClientSteps(c) \/ Connect(c) \/ Kill(c) PROVE OwnerInv'
    <2>1. client_fd' # None => mainPc' \in {"push", "wait"}
      BY <1>6 DEF ClientSteps, ClientWrites, ClientReads, Connect, Kill, mainVars, OwnerInv
    <2> QED
      BY <1>6, <2>1, OwnerIdle
      DEF ClientSteps, ClientWrites, ClientReads, Connect, Kill, ringVars, workerVars
  <1>7. CASE UNCHANGED vars
    BY <1>7, OwnerIdle DEF vars, mainVars, ringVars, workerVars, OwnerInv
  <1> QED
    BY <1>1, <1>2, <1>3, <1>4, <1>5, <1>6, <1>7 DEF Next, MainSteps, WorkerSteps

\* A set without two different elements counts at most one.
LEMMA AtMostOne ==
  ASSUME NEW S, \A x, y \in S : x = y
  PROVE  Cardinality(S) \in {0, 1} /\ (Cardinality(S) = 1 <=> S # {})
  <1>1. CASE S = {}
    BY <1>1, FS_EmptySet
  <1>2. CASE S # {}
    <2>1. PICK x \in S : TRUE
      BY <1>2
    <2>2. S = {x}
      BY <2>1
    <2> QED BY <1>2, <2>2, FS_Singleton
  <1> QED BY <1>1, <1>2

-----------------------------------------------------------------------------
(* The theorems.                                                           *)

\* The inductive invariant.
Inv == TypeOK /\ RingInv /\ FreshInv /\ NoLostWakeup /\ OwnerInv

\* It holds at the start and is kept by every step.
LEMMA InvAlways == Spec => []Inv
  <1>1. Init => Inv
    <2> SUFFICES ASSUME Init PROVE Inv
      OBVIOUS
    <2>1. TypeOK
      BY TypeInit
    <2>2. Slot(0) = 0
      BY QueueAssumption DEF Init, Slot
    <2> QED
      BY <2>1, <2>2, QueueAssumption DEF Inv, Init, RingInv, FreshInv, NoLostWakeup, OwnerInv
  <1>2. Inv /\ [Next]_vars => Inv'
    BY TypeStep, RingStep, FreshStep, WakeStep, OwnerStep DEF Inv
  <1> QED BY <1>1, <1>2, PTL DEF Spec

\* The types are kept and the ring's indices stay inside the array, for every number of
\* clients, workers and slots.
THEOREM QueueTypes == Spec => []TypeOK
  BY InvAlways, PTL DEF Inv

\* No interleaving of queue_push, queue_pop and spurious wakeups leaves the workers all
\* asleep beside a filled queue, or main asleep beside one with room.
THEOREM WakeupsNeverLost == Spec => []NoLostWakeup
  BY InvAlways, PTL DEF Inv

\* A file descriptor has one owner at every moment, from accept to close, for every number
\* of clients, workers and slots: it is neither answered nor closed twice.
THEOREM ConnectionsOwnedOnce == Spec => []OneOwner
  <1>1. Inv => OneOwner
    <2> SUFFICES ASSUME Inv, NEW c \in Conns
                 PROVE  LET slots == {Slot(k) : k \in 0 .. count - 1}
                        IN  Cardinality({i \in DOMAIN backlog : backlog[i] = c})
                            + (IF client_fd = c THEN 1 ELSE 0)
                            + Cardinality({s \in slots : items[s] = c})
                            + Cardinality({w \in Workers : serving[w] = c}) <= 1
      BY DEF OneOwner
    <2> DEFINE waiting == {i \in DOMAIN backlog : backlog[i] = c}
               ring == {s \in {Slot(k) : k \in 0 .. count - 1} : items[s] = c}
               hands == {w \in Workers : serving[w] = c}
    <2>1. c # None
      BY QueueAssumption
    <2>2. Cardinality(waiting) \in {0, 1} /\ (Cardinality(waiting) = 1 <=> waiting # {})
      <3>1. \A i, j \in waiting : i = j
        BY DEF Inv, FreshInv
      <3> HIDE DEF waiting
      <3> QED BY <3>1, AtMostOne
    <2>3. Cardinality(ring) \in {0, 1} /\ (Cardinality(ring) = 1 <=> ring # {})
      <3>1. \A s, t \in ring : s = t
        BY DEF Inv, OwnerInv
      <3> HIDE DEF ring
      <3> QED BY <3>1, AtMostOne
    <2>4. Cardinality(hands) \in {0, 1} /\ (Cardinality(hands) = 1 <=> hands # {})
      <3>1. \A v, w \in hands : v = w
        BY <2>1 DEF Inv, OwnerInv
      <3> HIDE DEF hands
      <3> QED BY <3>1, AtMostOne
    <2>5. waiting # {} => c \notin pushed /\ client_fd # c
      BY DEF Inv, FreshInv
    <2>6. client_fd = c => c \notin pushed
      BY <2>1 DEF Inv, FreshInv, OwnerInv
    <2>7. ring # {} => c \in pushed /\ hands = {}
      BY <2>1 DEF Inv, OwnerInv
    <2>8. hands # {} => c \in pushed
      BY <2>1 DEF Inv, OwnerInv
    <2> HIDE DEF waiting, ring, hands
    <2>9. Cardinality(waiting) + (IF client_fd = c THEN 1 ELSE 0) + Cardinality(ring)
          + Cardinality(hands) <= 1
      BY <2>2, <2>3, <2>4, <2>5, <2>6, <2>7, <2>8
    <2> QED BY <2>9 DEF waiting, ring, hands
  <1> QED BY <1>1, InvAlways, PTL

\* A step of the ring is a step of the queue it stands for.
LEMMA FifoStep ==
  ASSUME Inv, Inv', [Next]_vars
  PROVE  [Fifo!Next]_(Fifo!vars)
  <1> USE QueueAssumption
  <1> DEFINE q == [k \in 1 .. count |-> items[Slot(k - 1)]]
  <1>0. /\ count \in Nat /\ count' \in Nat /\ count <= QueueSize
        /\ \A k \in 1 .. count : items[Slot(k - 1)] \in Conns
    <2>1. \A k \in 1 .. count : k - 1 \in 0 .. count - 1
      BY DEF Inv, TypeOK
    <2> QED BY <2>1 DEF Inv, TypeOK, RingInv
  <1>1. /\ q \in Seq(Conns) /\ Len(q) = count
        /\ \A k \in 1 .. count : q[k] = items[Slot(k - 1)]
    BY <1>0
  <1>2. CASE queue_push
    <2>1. /\ count' = count + 1 /\ head' = head /\ serving' = serving
          /\ pushed' = pushed \union {client_fd} /\ client_fd \in Conns \ pushed
          /\ count < QueueSize
      BY <1>0, <1>2 DEF queue_push, Inv, FreshInv
    <2>2. ASSUME NEW k \in 1 .. count + 1
          PROVE  items'[(head' + (k - 1)) % QueueSize] = Append(q, client_fd)[k]
      <3>1. CASE k = count + 1
        <4>1. k - 1 = count
          BY <1>0, <3>1
        <4> QED BY <1>1, <1>2, <2>1, <3>1, <4>1, PushRing DEF Inv
      <3>2. CASE k # count + 1
        <4>1. k \in 1 .. count /\ k - 1 \in 0 .. count - 1
          BY <1>0, <3>2
        <4>2. Append(q, client_fd)[k] = items[Slot(k - 1)]
          <5> HIDE DEF q
          <5> QED BY <1>1, <2>1, <4>1
        <4> QED BY <1>2, <2>1, <4>1, <4>2, PushRing DEF Inv, Slot
      <3> QED BY <3>1, <3>2
    <2>3. q' = Append(q, client_fd)
      <3>1. Append(q, client_fd) \in Seq(Conns) /\ Len(Append(q, client_fd)) = count + 1
        <4> HIDE DEF q
        <4> QED BY <1>1, <2>1
      <3>2. q' = [k \in 1 .. count + 1 |-> items'[(head' + (k - 1)) % QueueSize]]
        BY <2>1 DEF Slot
      <3>3. Append(q, client_fd) = [k \in 1 .. count + 1 |-> Append(q, client_fd)[k]]
        <4>1. Append(q, client_fd) \in [1 .. count + 1 -> Conns]
          <5> HIDE DEF q
          <5> QED BY <3>1, LenProperties
        <4> HIDE DEF q
        <4> QED BY <4>1
      <3> HIDE DEF q
      <3> QED BY <2>2, <3>2, <3>3
    <2>4. Fifo!Put(client_fd)
      <3> HIDE DEF q
      <3> QED BY <1>1, <2>1, <2>3 DEF Fifo!Put, q
    <2> QED BY <2>1, <2>4 DEF Fifo!Next
  <1>3. ASSUME NEW w \in Workers, queue_pop(w) PROVE Fifo!Take(w)
    <2>1. /\ count # 0 /\ count' = count - 1 /\ items' = items /\ pushed' = pushed
          /\ serving' = [serving EXCEPT ![w] = items[head]]
          /\ serving[w] = None
      BY <1>3 DEF queue_pop, Inv, RingInv
    <2>2. q # <<>> /\ Head(q) = items[head]
      <3>1. q[1] = items[(head + 0) % QueueSize]
        BY <1>0, <2>1 DEF Slot
      <3> QED BY <1>0, <1>1, <1>3, <2>1, <3>1, PopRing DEF Inv
    <2>3. ASSUME NEW k \in 1 .. count - 1
          PROVE  items'[(head' + (k - 1)) % QueueSize] = Tail(q)[k]
      <3>1. k - 1 \in 0 .. count' - 1 /\ k + 1 \in 1 .. count /\ (k - 1) + 1 = (k + 1) - 1
        BY <1>0, <2>1
      <3>2. Tail(q)[k] = items[Slot((k + 1) - 1)]
        <4> HIDE DEF q
        <4> QED BY <1>1, <2>2, <3>1
      <3>3. (head' + (k - 1)) % QueueSize = (head + ((k - 1) + 1)) % QueueSize
        BY <1>3, <3>1, PopRing DEF Inv
      <3> QED BY <2>1, <3>1, <3>2, <3>3 DEF Slot
    <2>4. q' = Tail(q)
      <3>1. Tail(q) \in Seq(Conns) /\ Len(Tail(q)) = count - 1
        <4> HIDE DEF q
        <4> QED BY <1>1, <2>2
      <3>2. q' = [k \in 1 .. count - 1 |-> items'[(head' + (k - 1)) % QueueSize]]
        BY <2>1 DEF Slot
      <3>3. Tail(q) = [k \in 1 .. count - 1 |-> Tail(q)[k]]
        <4>1. Tail(q) \in [1 .. count - 1 -> Conns]
          <5> HIDE DEF q
          <5> QED BY <3>1, LenProperties
        <4> HIDE DEF q
        <4> QED BY <4>1
      <3> HIDE DEF q
      <3> QED BY <2>3, <3>2, <3>3
    <2> HIDE DEF q
    <2> QED BY <2>1, <2>2, <2>4 DEF Fifo!Take, q
  <1>4. ASSUME NEW w \in Workers, serve_time(w) PROVE Fifo!Finish(w)
    BY <1>4 DEF serve_time, Fifo!Finish, ringVars, Slot
  <1>5. CASE UNCHANGED <<items, head, count, pushed, serving>>
    BY <1>5 DEF Fifo!vars, Slot
  <1>6. CASE Listen \/ Accept \/ PushWait \/ StartFails \/ WakeUp
    BY <1>5, <1>6 DEF Listen, Accept, PushWait, StartFails, WakeUp, ringVars, workerVars
  <1>7. ASSUME NEW w \in Workers, StartWorker(w) \/ PopWait(w)
        PROVE  [Fifo!Next]_(Fifo!vars)
    BY <1>5, <1>7 DEF StartWorker, PopWait, ringVars
  <1>8. ASSUME NEW c \in Conns, ClientSteps(c) \/ Connect(c) \/ Kill(c)
        PROVE  [Fifo!Next]_(Fifo!vars)
    BY <1>5, <1>8 DEF ClientSteps, ClientWrites, ClientReads, Connect, Kill, ringVars,
                      workerVars
  <1>9. CASE UNCHANGED vars
    BY <1>5, <1>9 DEF vars, ringVars, workerVars
  <1> QED
    BY <1>2, <1>3, <1>4, <1>6, <1>7, <1>8, <1>9
    DEF Next, MainSteps, WorkerSteps, Fifo!Next

\* The ring with its mutex and condition variables implements the bounded FIFO queue of
\* ClientFifo: order kept, nothing lost, nothing handed out twice.
THEOREM RingIsFifo == Spec => ImplementsFifo
  <1>1. Init => Fifo!Init
    <2> SUFFICES ASSUME Init PROVE Fifo!Init
      OBVIOUS
    <2>1. [k \in 1 .. count |-> items[Slot(k - 1)]] = <<>>
      BY DEF Init
    <2> QED BY <2>1 DEF Init, Fifo!Init
  <1>2. Inv /\ Inv' /\ [Next]_vars => [Fifo!Next]_(Fifo!vars)
    BY FifoStep
  <1> QED BY <1>1, <1>2, InvAlways, PTL DEF Spec, ImplementsFifo, Fifo!Spec
=============================================================================
