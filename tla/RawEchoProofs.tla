---------------------------- MODULE RawEchoProofs ----------------------------
(* Proofs about RawEcho for every number of clients, table and text.       *)
EXTENDS RawEcho, FiniteSetTheorems, SequenceTheorems, TLAPS

-----------------------------------------------------------------------------
(* Arrays and queues.                                                      *)

\* What a sequence holds.
LEMMA SeqDomain ==
  ASSUME NEW S, NEW q \in Seq(S)
  PROVE  Len(q) \in Nat /\ DOMAIN q = 1 .. Len(q) /\ \A k \in DOMAIN q : q[k] \in S
  BY LenProperties

\* What taking the head of a queue leaves.
LEMMA SeqTail ==
  ASSUME NEW S, NEW q \in Seq(S), q # <<>>
  PROVE  /\ 1 \in DOMAIN q /\ Head(q) = q[1] /\ Head(q) \in S /\ Tail(q) \in Seq(S)
         /\ \A k \in DOMAIN Tail(q) : k \in Nat \ {0} /\ k + 1 \in DOMAIN q
                                      /\ Tail(q)[k] = q[k + 1]
         /\ \A k \in DOMAIN q : k # 1 => k - 1 \in DOMAIN Tail(q) /\ Tail(q)[k - 1] = q[k]
  <1>1. Len(q) \in Nat \ {0} /\ DOMAIN q = 1 .. Len(q) /\ Head(q) = q[1] /\ q[1] \in S
    BY LenProperties, EmptySeq
  <1>2. Tail(q) \in Seq(S) /\ Len(Tail(q)) = Len(q) - 1
    BY <1>1
  <1> QED BY <1>1, <1>2

\* What an entry at the end adds.
LEMMA SeqAppend ==
  ASSUME NEW S, NEW q \in Seq(S), NEW x \in S
  PROVE  /\ Append(q, x) \in Seq(S) /\ Len(q) \in Nat /\ Len(Append(q, x)) = Len(q) + 1
         /\ DOMAIN Append(q, x) = DOMAIN q \union {Len(q) + 1}
         /\ Len(q) + 1 \notin DOMAIN q
         /\ Append(q, x)[Len(q) + 1] = x
         /\ \A k \in DOMAIN q : Append(q, x)[k] = q[k]
  <1>1. Len(q) \in Nat /\ DOMAIN q = 1 .. Len(q)
    BY LenProperties
  <1>2. Append(q, x) \in Seq(S) /\ Len(Append(q, x)) = Len(q) + 1
        /\ DOMAIN Append(q, x) = 1 .. Len(q) + 1
    BY <1>1
  <1> QED BY <1>1, <1>2

\* The last index fills the gap at k.
LEMMA Gap ==
  ASSUME NEW n \in Nat, NEW k \in 1 .. n
  PROVE  /\ \A j \in 1 .. n - 1 : (IF j = k THEN n ELSE j) \in (1 .. n) \ {k}
         /\ \A l \in (1 .. n) \ {k} : IF l = n THEN k \in 1 .. n - 1 ELSE l \in 1 .. n - 1
  OBVIOUS

\* What remove_client leaves: one entry less, the last one in the gap.
LEMMA Packed ==
  ASSUME NEW S, NEW q \in Seq(S), NEW k \in DOMAIN q,
         NEW r, r = SubSeq([q EXCEPT ![k] = q[Len(q)]], 1, Len(q) - 1)
  PROVE  /\ r \in Seq(S) /\ Len(q) \in Nat \ {0} /\ DOMAIN q = 1 .. Len(q)
         /\ Len(r) = Len(q) - 1 /\ DOMAIN r = 1 .. Len(q) - 1
         /\ \A j \in DOMAIN r : r[j] = IF j = k THEN q[Len(q)] ELSE q[j]
  <1> DEFINE e == [q EXCEPT ![k] = q[Len(q)]]
  <1>1. Len(q) \in Nat /\ DOMAIN q = 1 .. Len(q) /\ Len(q) # 0 /\ Len(q) \in DOMAIN q
    <2>1. Len(q) \in Nat /\ DOMAIN q = 1 .. Len(q)
      BY LenProperties
    <2> QED BY <2>1
  <1>2. e \in Seq(S) /\ Len(e) = Len(q)
    <2>1. q[Len(q)] \in S
      BY <1>1, LenProperties
    <2> QED BY <2>1, ExceptSeq
  <1>3. \A j \in DOMAIN q : e[j] = IF j = k THEN q[Len(q)] ELSE q[j]
    OBVIOUS
  <1> HIDE DEF e
  <1>4. r = SubSeq(e, 1, Len(q) - 1)
    BY DEF e
  <1>5. r \in Seq(S) /\ Len(r) = Len(q) - 1 /\ \A j \in 1 .. Len(q) - 1 : r[j] = e[j]
    BY <1>1, <1>2, <1>4, SubSeqProperties
  <1>6. DOMAIN r = 1 .. Len(q) - 1
    BY <1>5, LenProperties
  <1> QED BY <1>1, <1>3, <1>5, <1>6

-----------------------------------------------------------------------------
(* The server's table.                                                     *)

\* get_client keeps the table in order and every counter where it was.
LEMMA GetClient ==
  ASSUME Table(clients), NEW p \in Ports
  PROVE  /\ Table(get_client(p))
         /\ \A q \in Ports, n \in Nat : Counts(clients, q, n) => Counts(get_client(p), q, n)
  <1> DEFINE e == [port |-> p, count |-> 0]
             cs == Append(clients, e)
             m == Len(clients) + 1
  <1>1. CASE find_client(p) # {} \/ Len(clients) = MaxClients
    BY <1>1 DEF get_client
  <1>2. CASE find_client(p) = {} /\ Len(clients) # MaxClients
    <2>1. e \in ClientEntry /\ e.port = p /\ e.count = 0 /\ get_client(p) = cs
      BY <1>2 DEF ClientEntry, get_client
    <2>2. \A i \in DOMAIN clients : clients[i].port # p
      BY <1>2 DEF find_client
    <2>3. /\ cs \in Seq(ClientEntry) /\ Len(clients) \in Nat /\ Len(cs) = m
          /\ DOMAIN cs = DOMAIN clients \union {m} /\ m \notin DOMAIN clients /\ cs[m] = e
          /\ \A k \in DOMAIN clients : cs[k] = clients[k]
      <3> HIDE DEF e
      <3> QED BY <2>1, SeqAppend DEF Table
    <2>4. Len(cs) <= MaxClients
      BY <1>2, <2>3, EchoAssumption DEF Table
    <2> HIDE DEF e, cs, m
    <2>5. Table(cs)
      BY <2>1, <2>2, <2>3, <2>4 DEF Table
    <2>6. ASSUME NEW q \in Ports, NEW n \in Nat, Counts(clients, q, n) PROVE Counts(cs, q, n)
      <3>1. CASE q = p
        <4>1. n = 0
          BY <2>2, <2>6, <3>1 DEF Counts
        <4> QED BY <2>1, <2>2, <2>3, <3>1, <4>1 DEF Counts
      <3>2. CASE q # p
        BY <2>1, <2>3, <2>6, <3>2 DEF Counts
      <3> QED BY <3>1, <3>2
    <2> QED BY <2>1, <2>5, <2>6
  <1> QED BY <1>1, <1>2

\* Counting a message moves the counter of its port and no other.
LEMMA CountOne ==
  ASSUME NEW cs, Table(cs), NEW i \in DOMAIN cs, NEW ds, ds = [cs EXCEPT ![i].count = @ + 1]
  PROVE  /\ Table(ds)
         /\ \A q \in Ports, n \in Nat :
              Counts(cs, q, n) => Counts(ds, q, IF q = cs[i].port THEN n + 1 ELSE n)
  <1>1. Len(cs) \in Nat /\ DOMAIN cs = 1 .. Len(cs) /\ \A k \in DOMAIN cs : cs[k] \in ClientEntry
    BY SeqDomain DEF Table
  <1> DEFINE e == [cs[i] EXCEPT !.count = @ + 1]
  <1>2. e \in ClientEntry /\ e.port = cs[i].port /\ e.count = cs[i].count + 1
    BY <1>1 DEF ClientEntry
  <1>3. ds = [cs EXCEPT ![i] = e]
    OBVIOUS
  <1> HIDE DEF e
  <1>4. /\ ds \in Seq(ClientEntry) /\ Len(ds) = Len(cs) /\ DOMAIN ds = DOMAIN cs
        /\ ds[i] = e /\ \A k \in DOMAIN cs \ {i} : ds[k] = cs[k]
    BY <1>1, <1>2, <1>3, ExceptSeq DEF Table
  <1>5. \A k \in DOMAIN cs : ds[k].port = cs[k].port
    BY <1>2, <1>4
  <1>6. Table(ds)
    BY <1>4, <1>5 DEF Table
  <1>7. ASSUME NEW q \in Ports, NEW n \in Nat, Counts(cs, q, n)
        PROVE  Counts(ds, q, IF q = cs[i].port THEN n + 1 ELSE n)
    <2>1. CASE q = cs[i].port
      <3>1. \A k \in DOMAIN ds : ds[k].port = q => k = i
        BY <1>4, <1>5, <2>1 DEF Table
      <3>2. ds[i].count = n + 1
        BY <1>2, <1>4, <1>7, <2>1 DEF Counts
      <3>3. Counts(ds, q, n + 1)
        BY <1>4, <1>5, <2>1, <3>1, <3>2 DEF Counts
      <3> QED BY <2>1, <3>3
    <2>2. CASE q # cs[i].port
      BY <1>4, <1>5, <1>7, <2>2 DEF Counts
    <2> QED BY <2>1, <2>2
  <1> QED BY <1>6, <1>7

\* remove_client takes out the counter of one port.
LEMMA RemoveOne ==
  ASSUME Table(clients), NEW i \in DOMAIN clients, NEW r, r = remove_client(i)
  PROVE  /\ Table(r)
         /\ \A q \in Ports, n \in Nat :
              q # clients[i].port /\ Counts(clients, q, n) => Counts(r, q, n)
  <1> DEFINE At(j) == IF j = i THEN Len(clients) ELSE j
  <1>1. r = SubSeq([clients EXCEPT ![i] = clients[Len(clients)]], 1, Len(clients) - 1)
    BY DEF remove_client
  <1>2. /\ r \in Seq(ClientEntry) /\ Len(clients) \in Nat \ {0}
        /\ DOMAIN clients = 1 .. Len(clients)
        /\ Len(r) = Len(clients) - 1 /\ DOMAIN r = 1 .. Len(clients) - 1
        /\ \A j \in DOMAIN r : r[j] = IF j = i THEN clients[Len(clients)] ELSE clients[j]
    <2>1. clients \in Seq(ClientEntry)
      BY DEF Table
    <2>2. Len(clients) \in Nat \ {0} /\ DOMAIN clients = 1 .. Len(clients)
      BY <2>1, SeqDomain
    <2>3. /\ r \in Seq(ClientEntry)
          /\ Len(r) = Len(clients) - 1 /\ DOMAIN r = 1 .. Len(clients) - 1
          /\ \A j \in DOMAIN r : r[j] = IF j = i THEN clients[Len(clients)] ELSE clients[j]
      BY <1>1, <2>1, <2>2, Packed
    <2> QED BY <2>2, <2>3
  <1>3. \A j \in DOMAIN r : At(j) \in DOMAIN clients /\ r[j] = clients[At(j)]
    BY <1>2, Gap
  <1>4. ASSUME NEW j \in DOMAIN r, NEW l \in DOMAIN r, At(j) = At(l) PROVE j = l
    BY <1>2, <1>4
  <1>5. Len(r) <= MaxClients
    BY <1>2, EchoAssumption DEF Table
  <1>6. ASSUME NEW k \in DOMAIN clients, k # i PROVE \E j \in DOMAIN r : r[j] = clients[k]
    <2>1. CASE k = Len(clients)
      BY <1>2, <1>6, <2>1, Gap
    <2>2. CASE k # Len(clients)
      BY <1>2, <1>6, <2>2, Gap
    <2> QED BY <2>1, <2>2
  <1> HIDE DEF At
  <1>7. Table(r)
    BY <1>2, <1>3, <1>4, <1>5 DEF Table
  <1>8. ASSUME NEW q \in Ports, NEW n \in Nat, q # clients[i].port, Counts(clients, q, n)
        PROVE  Counts(r, q, n)
    <2>1. \A j \in DOMAIN r : r[j].port = q => r[j].count = n
      BY <1>3, <1>8 DEF Counts
    <2>2. ASSUME n > 0 PROVE \E j \in DOMAIN r : r[j].port = q
      <3>1. PICK k \in DOMAIN clients : clients[k].port = q
        BY <1>8, <2>2 DEF Counts
      <3> QED BY <1>6, <1>8, <3>1
    <2> QED BY <2>1, <2>2 DEF Counts
  <1> QED BY <1>7, <1>8

-----------------------------------------------------------------------------
(* What a packet does.                                                     *)

\* The packet the server reads.
LEMMA HeadPacket ==
  ASSUME TypeOK, wire # <<>>
  PROVE  /\ 1 \in DOMAIN wire /\ Head(wire) = wire[1]
         /\ Head(wire).port \in Ports /\ Head(wire).text \in Said
         /\ Tail(wire) \in Seq([port : Ports, text : Said])
         /\ \A k \in DOMAIN Tail(wire) : k \in Nat \ {0} /\ k + 1 \in DOMAIN wire
                                         /\ Tail(wire)[k] = wire[k + 1]
  <1> DEFINE S == [port : Ports, text : Said]
  <1>1. wire \in Seq(S)
    BY DEF TypeOK
  <1>2. Head(wire) \in S => Head(wire).port \in Ports /\ Head(wire).text \in Said
    OBVIOUS
  <1> HIDE DEF S
  <1>3. /\ 1 \in DOMAIN wire /\ Head(wire) = wire[1] /\ Head(wire) \in S /\ Tail(wire) \in Seq(S)
        /\ \A k \in DOMAIN Tail(wire) : k \in Nat \ {0} /\ k + 1 \in DOMAIN wire
                                        /\ Tail(wire)[k] = wire[k + 1]
    BY <1>1, SeqTail
  <1> QED BY <1>2, <1>3 DEF S

\* A text moves the counter of its port, m, to m + 1, the number in its answer.
LEMMA TextResult ==
  ASSUME TypeOK, Table(clients), wire # <<>>, HandleText,
         NEW p \in Ports, p = Head(wire).port
  PROVE  /\ Table(clients')
         /\ \A q \in Ports, n \in Nat :
              Counts(clients, q, n) => Counts(clients', q, IF q = p THEN n + 1 ELSE n)
         /\ \E m \in Nat, lost \in SUBSET Lossy :
              /\ \A n \in Nat : Counts(clients, p, n) => m = n
              /\ inbox' = [c \in Procs |-> IF Alive(c) /\ client_port[c] = p /\ c \notin lost
                                           THEN Append(inbox[c], Answer(Head(wire).text, m + 1))
                                           ELSE inbox[c]]
  <1> DEFINE cs == get_client(p)
  <1>1. PICK i \in DOMAIN cs : /\ cs[i].port = p
                              /\ clients' = [cs EXCEPT ![i].count = @ + 1]
                              /\ send_answer(p, Answer(Head(wire).text, cs[i].count + 1))
    BY DEF HandleText
  <1>2. /\ Table(cs)
        /\ \A q \in Ports, n \in Nat : Counts(clients, q, n) => Counts(cs, q, n)
    BY GetClient
  <1> HIDE DEF cs
  <1>3. /\ Table(clients')
        /\ \A q \in Ports, n \in Nat :
             Counts(cs, q, n) => Counts(clients', q, IF q = p THEN n + 1 ELSE n)
    BY <1>1, <1>2, CountOne
  <1>4. cs[i].count \in Nat
    <2>1. cs[i] \in ClientEntry
      BY <1>2, SeqDomain DEF Table
    <2> QED BY <2>1 DEF ClientEntry
  <1>5. \A n \in Nat : Counts(clients, p, n) => cs[i].count = n
    BY <1>1, <1>2 DEF Counts
  <1> QED BY <1>1, <1>2, <1>3, <1>4, <1>5 DEF send_answer

\* "close" takes out the counter of its port.
LEMMA CloseResult ==
  ASSUME TypeOK, Table(clients), wire # <<>>, HandleClose,
         NEW p \in Ports, p = Head(wire).port
  PROVE  /\ Table(clients')
         /\ \A q \in Ports, n \in Nat :
              q # p /\ Counts(clients, q, n) => Counts(clients', q, n)
  <1>1. ASSUME NEW i \in find_client(p), clients' = remove_client(i)
        PROVE  /\ Table(clients')
               /\ \A q \in Ports, n \in Nat :
                    q # p /\ Counts(clients, q, n) => Counts(clients', q, n)
    <2>1. i \in DOMAIN clients /\ clients[i].port = p
      BY DEF find_client
    <2> QED BY <1>1, <2>1, RemoveOne
  <1> QED BY <1>1 DEF HandleClose

\* Both, and a packet that is passed over, as a process sees them: its counter, its inbox
\* and what is left on the wire.
LEMMA ReceiveResult ==
  ASSUME TypeOK, Table(clients), Receive
  PROVE  /\ Table(clients')
         /\ inbox' \in [Procs -> Seq(Answers)]
         /\ \A c \in Procs : client_port[c] # Head(wire).port =>
              /\ inbox'[c] = inbox[c]
              /\ \A n \in Nat : Counts(clients, client_port[c], n) =>
                                Counts(clients', client_port[c], n)
         /\ \A c \in Procs : client_port[c] = Head(wire).port =>
              \/ inbox'[c] = inbox[c]
              \/ \A n \in Nat : Counts(clients, client_port[c], n) =>
                   /\ inbox'[c] = Append(inbox[c], Answer(Head(wire).text, n + 1))
                   /\ Counts(clients', client_port[c], n + 1)
  <1>1. wire # <<>>
    BY DEF Receive
  <1>2. PICK p \in Ports : p = Head(wire).port
    BY <1>1, HeadPacket
  <1>3. \A c \in Procs : client_port[c] \in Ports /\ inbox[c] \in Seq(Answers)
    BY EchoAssumption DEF TypeOK
  <1>4. CASE HandleText
    <2>1. PICK m \in Nat, lost \in SUBSET Lossy :
            /\ \A n \in Nat : Counts(clients, p, n) => m = n
            /\ inbox' = [c \in Procs |-> IF Alive(c) /\ client_port[c] = p /\ c \notin lost
                                         THEN Append(inbox[c], Answer(Head(wire).text, m + 1))
                                         ELSE inbox[c]]
      BY <1>1, <1>2, <1>4, TextResult
    <2>2. /\ Table(clients')
          /\ \A q \in Ports, n \in Nat :
               Counts(clients, q, n) => Counts(clients', q, IF q = p THEN n + 1 ELSE n)
      BY <1>1, <1>2, <1>4, TextResult
    <2> DEFINE a == Answer(Head(wire).text, m + 1)
    <2>3. a \in Answers
      BY <1>1, HeadPacket DEF Answer, Answers
    <2> HIDE DEF a
    <2>4. \A c \in Procs : Append(inbox[c], a) \in Seq(Answers)
      BY <1>3, <2>3, SeqAppend
    <2>5. inbox' \in [Procs -> Seq(Answers)]
      BY <1>3, <2>1, <2>4 DEF a
    <2>6. \A c \in Procs : client_port[c] # p =>
            /\ inbox'[c] = inbox[c]
            /\ \A n \in Nat : Counts(clients, client_port[c], n) =>
                              Counts(clients', client_port[c], n)
      BY <1>3, <2>1, <2>2
    <2>7. ASSUME NEW c \in Procs, client_port[c] = p, inbox'[c] # inbox[c],
                 NEW n \in Nat, Counts(clients, client_port[c], n)
          PROVE  /\ inbox'[c] = Append(inbox[c], Answer(Head(wire).text, n + 1))
                 /\ Counts(clients', client_port[c], n + 1)
      BY <2>1, <2>2, <2>7
    <2> QED BY <1>2, <2>2, <2>5, <2>6, <2>7
  <1>5. CASE HandleClose
    BY <1>1, <1>2, <1>3, <1>5, CloseResult DEF HandleClose, TypeOK
  <1>6. CASE HandleFull
    BY <1>6 DEF HandleFull, TypeOK
  <1> QED BY <1>4, <1>5, <1>6 DEF Receive

-----------------------------------------------------------------------------
(* Types.                                                                  *)

\* The initial state is typed.
LEMMA TypeInit == Init => TypeOK
  BY EchoAssumption DEF Init, TypeOK

\* sendto puts a packet of the process's port at the end of the wire, or nothing.
LEMMA SendResult ==
  ASSUME TypeOK, NEW c \in Procs, NEW t \in Said, Send(c, t)
  PROVE  /\ wire' \in Seq([port : Ports, text : Said])
         /\ \/ wire' = wire
            \/ /\ DOMAIN wire' = DOMAIN wire \union {Len(wire) + 1}
               /\ wire'[Len(wire) + 1] = Packet(client_port[c], t)
               /\ \A k \in DOMAIN wire : wire'[k] = wire[k]
  <1> DEFINE S == [port : Ports, text : Said]
             e == Packet(client_port[c], t)
  <1>1. wire \in Seq(S) /\ e \in S
    BY EchoAssumption DEF TypeOK, Packet
  <1>2. wire' = Append(wire, e) \/ wire' = wire
    BY DEF Send
  <1> HIDE DEF S, e
  <1>3. CASE wire' = Append(wire, e)
    BY <1>1, <1>3, SeqAppend DEF S, e
  <1> QED BY <1>1, <1>2, <1>3 DEF S

\* Every step keeps the types.
LEMMA TypeStep ==
  ASSUME TypeOK, Table(clients), [Next]_vars
  PROVE  TypeOK'
  <1>1. CASE Receive
    BY <1>1, HeadPacket, ReceiveResult DEF Receive, TypeOK, Table
  <1>2. ASSUME NEW c \in Procs, Start(c) \/ Turn(c) \/ End(c) \/ StopHandler(c) \/ Kill(c)
        PROVE  TypeOK'
    <2>1. UNCHANGED <<clients, wire, said, heard>>
      BY <1>2 DEF Start, Turn, End, StopHandler, Kill
    <2>2. cpc' \in [Procs -> {"init", "check", "prompt", "wait", "closing", "done", "dead"}]
      BY <1>2 DEF Start, Turn, End, StopHandler, Kill, TypeOK
    <2>3. g_need_stop' \in [Procs -> BOOLEAN]
      BY <1>2 DEF Start, Turn, End, StopHandler, Kill, TypeOK
    <2>4. inbox' \in [Procs -> Seq(Answers)]
      <3>1. <<>> \in Seq(Answers)
        OBVIOUS
      <3> QED BY <1>2, <3>1 DEF Start, Turn, End, StopHandler, Kill, TypeOK
    <2> QED BY <2>1, <2>2, <2>3, <2>4 DEF TypeOK
  <1>3. ASSUME NEW c \in Procs, NEW t \in Said, Say(c, t) PROVE TypeOK'
    <2>1. Append(said[c], t) \in Seq(Said)
      BY SeqAppend DEF TypeOK
    <2>2. wire' \in Seq([port : Ports, text : Said])
      BY <1>3, SendResult DEF Say
    <2> QED BY <1>3, <2>1, <2>2 DEF Say, TypeOK
  <1>4. ASSUME NEW c \in Procs, WaitAnswer(c) PROVE TypeOK'
    <2>1. inbox[c] \in Seq(Answers) /\ heard[c] \in Seq(Answers) /\ inbox[c] # <<>>
      BY <1>4 DEF WaitAnswer, TypeOK
    <2>2. Head(inbox[c]) \in Answers /\ Tail(inbox[c]) \in Seq(Answers)
      BY <2>1, SeqTail
    <2>3. Append(heard[c], Head(inbox[c])) \in Seq(Answers)
      BY <2>1, <2>2, SeqAppend
    <2> QED BY <1>4, <2>2, <2>3 DEF WaitAnswer, TypeOK
  <1>5. ASSUME NEW c \in Procs, SendClose(c) PROVE TypeOK'
    <2>1. wire' \in Seq([port : Ports, text : Said])
      BY <1>5, SendResult DEF SendClose, Said
    <2> QED BY <1>5, <2>1 DEF SendClose, TypeOK
  <1>6. CASE UNCHANGED vars
    BY <1>6 DEF vars, TypeOK
  <1> QED
    BY <1>1, <1>2, <1>3, <1>4, <1>5, <1>6 DEF Next, ClientSteps, Environment, Said

-----------------------------------------------------------------------------
(* The conversations.                                                      *)

\* A step that leaves a process alone: it may go on to another point of the same kind,
\* and what is on the wire of its port may only be read, its counter not moved.
LEMMA TalkIdle ==
  ASSUME TypeOK, NEW c \in Procs, Talk(c),
         cpc'[c] \in {"init", "check", "prompt"} => cpc[c] \in {"init", "check", "prompt"},
         cpc'[c] = "wait" => cpc[c] = "wait",
         said'[c] = said[c], heard'[c] = heard[c], inbox'[c] = inbox[c],
         \A k \in OnWire(wire', client_port[c]) :
           \E l \in OnWire(wire, client_port[c]) : wire'[k] = wire[l],
         (\A k, l \in OnWire(wire, client_port[c]) : k = l) =>
           \A k, l \in OnWire(wire', client_port[c]) : k = l,
         \A n \in Nat : Counts(clients, client_port[c], n) => Counts(clients', client_port[c], n)
  PROVE  Talk(c)'
  <1>1. Len(said[c]) \in Nat /\ Len(heard[c]) \in Nat
    BY SeqDomain DEF TypeOK
  <1>2. Settled(c) => Settled(c)'
    BY <1>1 DEF Settled
  <1>3. Waiting(c) => Waiting(c)'
    BY <1>1 DEF Waiting
  <1> QED BY <1>2, <1>3 DEF Talk

\* So a step that leaves everything but control alone.
LEMMA TalkControl ==
  ASSUME TypeOK, NEW c \in Procs, Talk(c), UNCHANGED <<clients, wire>>,
         cpc'[c] \in {"init", "check", "prompt"} => cpc[c] \in {"init", "check", "prompt"},
         cpc'[c] = "wait" => cpc[c] = "wait",
         said'[c] = said[c], heard'[c] = heard[c], inbox'[c] = inbox[c]
  PROVE  Talk(c)'
  BY TalkIdle

\* A packet of another port.
LEMMA TalkSend ==
  ASSUME TypeOK, NEW c \in Procs, NEW d \in Procs, client_port[c] # client_port[d],
         NEW t \in Said, Send(c, t), Talk(d),
         cpc'[d] = cpc[d], said'[d] = said[d], heard'[d] = heard[d], inbox'[d] = inbox[d],
         clients' = clients
  PROVE  Talk(d)'
  <1>1. OnWire(wire', client_port[d]) = OnWire(wire, client_port[d])
        /\ \A k \in OnWire(wire, client_port[d]) : wire'[k] = wire[k]
    <2>1. Packet(client_port[c], t).port # client_port[d]
      BY DEF Packet
    <2>2. \/ wire' = wire
          \/ /\ DOMAIN wire' = DOMAIN wire \union {Len(wire) + 1}
             /\ wire'[Len(wire) + 1].port # client_port[d]
             /\ \A k \in DOMAIN wire : wire'[k] = wire[k]
      BY <2>1, SendResult
    <2> QED BY <2>2 DEF OnWire
  <1> QED BY <1>1, TalkIdle

\* The server's step and each process.
LEMMA TalkReceive ==
  ASSUME TypeOK, Table(clients), Receive, NEW c \in Procs, Talk(c)
  PROVE  Talk(c)'
  <1> DEFINE p == client_port[c]
             n == Len(heard[c])
  <1>1. /\ UNCHANGED <<cpc, said, heard>> /\ wire' = Tail(wire) /\ wire # <<>>
        /\ n \in Nat /\ Len(said[c]) \in Nat
    BY SeqDomain DEF Receive, TypeOK
  <1>2. /\ 1 \in DOMAIN wire /\ Head(wire) = wire[1]
        /\ \A k \in DOMAIN wire' : k \in Nat \ {0} /\ k + 1 \in DOMAIN wire
                                    /\ wire'[k] = wire[k + 1]
    BY <1>1, HeadPacket
  <1>3. \A k \in OnWire(wire', p) : k \in Nat \ {0} /\ k + 1 \in OnWire(wire, p)
                                    /\ wire'[k] = wire[k + 1]
    BY <1>2 DEF OnWire
  <1>4. (\A k, l \in OnWire(wire, p) : k = l) => \A k, l \in OnWire(wire', p) : k = l
    <2> SUFFICES ASSUME \A k, l \in OnWire(wire, p) : k = l,
                        NEW k \in OnWire(wire', p), NEW l \in OnWire(wire', p)
                 PROVE  k = l
      OBVIOUS
    <2>1. k + 1 = l + 1
      BY <1>3
    <2> QED BY <1>3, <2>1
  <1>5. CASE p # Head(wire).port
    <2>1. inbox'[c] = inbox[c] /\ \A m \in Nat : Counts(clients, p, m) => Counts(clients', p, m)
      BY <1>5, ReceiveResult
    <2> QED BY <1>1, <1>3, <1>4, <2>1, TalkIdle
  <1>6. CASE p = Head(wire).port
    <2>1. 1 \in OnWire(wire, p)
      BY <1>2, <1>6 DEF OnWire
    <2>2. cpc[c] \notin {"init", "check", "prompt"}
      BY <2>1 DEF Talk, Settled
    <2>3. ASSUME cpc[c] = "wait" PROVE Waiting(c)'
      <3>1. /\ Len(said[c]) = n + 1 /\ inbox[c] = <<>> /\ Counts(clients, p, n)
            /\ \A k, l \in OnWire(wire, p) : k = l
            /\ Head(wire).text = said[c][Len(said[c])]
        BY <1>2, <2>1, <2>3 DEF Talk, Waiting
      <3>2. OnWire(wire', p) = {}
        <4>1. ASSUME NEW k \in OnWire(wire', p) PROVE FALSE
          <5>1. k + 1 = 1 /\ k \in Nat \ {0}
            BY <1>3, <2>1, <3>1
          <5> QED BY <5>1
        <4> QED BY <4>1
      <3>3. \/ inbox'[c] = <<>>
            \/ /\ inbox'[c] = Append(<<>>, Answer(said[c][Len(said[c])], n + 1))
               /\ Counts(clients', p, n + 1)
        BY <1>1, <1>6, <3>1, ReceiveResult
      <3>4. \/ inbox'[c] = <<>>
            \/ /\ inbox'[c] = <<Answer(said[c][Len(said[c])], Len(said[c]))>>
               /\ Counts(clients', p, Len(said[c]))
        BY <3>1, <3>3
      <3> QED BY <1>1, <3>1, <3>2, <3>4 DEF Waiting
    <2> QED BY <1>1, <2>2, <2>3 DEF Talk
  <1> QED BY <1>5, <1>6

\* Every step keeps every conversation in order, when no two processes share a port.
LEMMA TalkStep ==
  ASSUME PortsDiffer, TypeOK, Table(clients), TalkInv, [Next]_vars
  PROVE  TalkInv'
  <1> SUFFICES ASSUME NEW d \in Procs, Talk(d) PROVE Talk(d)'
    BY DEF TalkInv
  <1>1. CASE Receive
    BY <1>1, TalkReceive
  <1>2. ASSUME NEW c \in Procs, Start(c) \/ Turn(c) \/ End(c) \/ StopHandler(c) PROVE Talk(d)'
    <2>1. UNCHANGED <<clients, wire, said, heard, inbox>>
      BY <1>2 DEF Start, Turn, End, StopHandler
    <2>2. /\ cpc'[d] \in {"init", "check", "prompt"} => cpc[d] \in {"init", "check", "prompt"}
          /\ cpc'[d] = "wait" => cpc[d] = "wait"
      BY <1>2 DEF Start, Turn, End, StopHandler, TypeOK
    <2> QED BY <2>1, <2>2, TalkControl
  <1>3. ASSUME NEW c \in Procs, NEW t \in Said, Say(c, t) PROVE Talk(d)'
    <2>1. CASE d # c
      <3>1. client_port[c] # client_port[d]
        BY <2>1 DEF PortsDiffer
      <3>2. UNCHANGED <<clients, inbox, heard>> /\ cpc'[d] = cpc[d] /\ said'[d] = said[d]
        BY <1>3, <2>1 DEF Say, TypeOK
      <3> QED BY <1>3, <3>1, <3>2, TalkSend DEF Say
    <2>2. CASE d = c
      <3> DEFINE p == client_port[c]
      <3>1. /\ cpc[c] = "prompt" /\ cpc'[c] = "wait" /\ UNCHANGED <<clients, inbox, heard>>
            /\ said'[c] = Append(said[c], t) /\ said[c] \in Seq(Said)
        BY <1>3 DEF Say, TypeOK
      <3>2. Settled(c)
        BY <2>2, <3>1 DEF Talk
      <3>3. /\ Len(said'[c]) = Len(said[c]) + 1 /\ said'[c][Len(said[c]) + 1] = t
        BY <3>1, SeqAppend
      <3>4. /\ \A k, l \in OnWire(wire', p) : k = l
            /\ \A k \in OnWire(wire', p) : wire'[k].text = t
        <4>1. \/ OnWire(wire', p) = {}
              \/ /\ OnWire(wire', p) \subseteq {Len(wire) + 1}
                 /\ wire'[Len(wire) + 1] = Packet(p, t)
          BY <1>3, <3>2, SendResult DEF Say, Settled, OnWire
        <4>2. Packet(p, t).text = t
          BY DEF Packet
        <4> QED BY <4>1, <4>2
      <3>5. Waiting(c)'
        BY <3>1, <3>2, <3>3, <3>4 DEF Settled, Waiting
      <3> QED BY <2>2, <3>1, <3>5 DEF Talk
    <2> QED BY <2>1, <2>2
  <1>4. ASSUME NEW c \in Procs, WaitAnswer(c) PROVE Talk(d)'
    <2>1. CASE d # c
      <3>1. UNCHANGED <<clients, wire, said>> /\ cpc'[d] = cpc[d] /\ heard'[d] = heard[d]
            /\ inbox'[d] = inbox[d]
        BY <1>4, <2>1 DEF WaitAnswer, TypeOK
      <3> QED BY <3>1, TalkControl
    <2>2. CASE d = c
      <3> DEFINE a == Answer(said[c][Len(said[c])], Len(said[c]))
      <3>1. /\ cpc[c] = "wait" /\ cpc'[c] = "check" /\ UNCHANGED <<clients, wire, said>>
            /\ inbox[c] # <<>> /\ inbox'[c] = Tail(inbox[c]) /\ heard[c] \in Seq(Answers)
            /\ heard'[c] = Append(heard[c], Head(inbox[c])) /\ inbox[c] \in Seq(Answers)
        BY <1>4 DEF WaitAnswer, TypeOK
      <3>2. /\ Len(said[c]) = Len(heard[c]) + 1 /\ OnWire(wire, client_port[c]) = {}
            /\ inbox[c] = <<a>> /\ Counts(clients, client_port[c], Len(said[c]))
        BY <2>2, <3>1 DEF Talk, Waiting
      <3> HIDE DEF a
      <3>3. inbox'[c] = <<>>
        BY <3>1, <3>2
      <3>4. Len(heard'[c]) = Len(heard[c]) + 1
        <4>1. Head(inbox[c]) \in Answers
          BY <3>1, SeqTail
        <4> QED BY <3>1, <4>1, SeqAppend
      <3>5. Settled(c)'
        BY <3>1, <3>2, <3>3, <3>4 DEF Settled
      <3> QED BY <2>2, <3>1, <3>5 DEF Talk
    <2> QED BY <2>1, <2>2
  <1>5. ASSUME NEW c \in Procs, SendClose(c) PROVE Talk(d)'
    <2>1. CASE d # c
      <3>1. client_port[c] # client_port[d]
        BY <2>1 DEF PortsDiffer
      <3>2. UNCHANGED <<clients, said, heard>> /\ cpc'[d] = cpc[d] /\ inbox'[d] = inbox[d]
        BY <1>5, <2>1 DEF SendClose, TypeOK
      <3> QED BY <1>5, <3>1, <3>2, TalkSend DEF SendClose, Said
    <2>2. CASE d = c
      BY <1>5, <2>2 DEF SendClose, TypeOK, Talk
    <2> QED BY <2>1, <2>2
  <1>6. ASSUME NEW c \in Procs, Kill(c) PROVE Talk(d)'
    <2>1. CASE d # c
      <3>1. UNCHANGED <<clients, wire, said, heard>> /\ cpc'[d] = cpc[d] /\ inbox'[d] = inbox[d]
        BY <1>6, <2>1 DEF Kill, TypeOK
      <3> QED BY <3>1, TalkControl
    <2>2. CASE d = c
      BY <1>6, <2>2 DEF Kill, TypeOK, Talk
    <2> QED BY <2>1, <2>2
  <1>7. CASE UNCHANGED vars
    BY <1>7, TalkControl DEF vars
  <1> QED
    BY <1>1, <1>2, <1>3, <1>4, <1>5, <1>6, <1>7 DEF Next, ClientSteps, Environment, Said

-----------------------------------------------------------------------------
(* The theorem.                                                            *)

\* Every step keeps the printed answers those of the process's own messages, in order.
LEMMA EchoStep ==
  ASSUME TypeOK, TalkInv, OwnEcho, [Next]_vars
  PROVE  OwnEcho'
  <1>1. Table(clients)
    BY DEF TypeOK, OwnEcho, Table
  <1>2. Table(clients')
    <2>1. CASE Receive
      BY <1>1, <2>1, ReceiveResult
    <2>2. CASE ~Receive
      <3>1. clients' = clients
        BY <2>2 DEF Next, ClientSteps, Environment, Start, Turn, Say, WaitAnswer, End, SendClose,
                    StopHandler, Kill, vars
      <3> QED BY <1>1, <3>1
    <2> QED BY <2>1, <2>2
  <1> SUFFICES ASSUME NEW d \in Procs
               PROVE  /\ Len(heard'[d]) <= Len(said'[d])
                      /\ \A i \in DOMAIN heard'[d] : heard'[d][i] = Answer(said'[d][i], i)
    BY <1>2 DEF OwnEcho, Table
  <1> DEFINE h == heard[d]
             s == said[d]
  <1>3. /\ h \in Seq(Answers) /\ s \in Seq(Said)
        /\ Len(h) \in Nat /\ DOMAIN h = 1 .. Len(h) /\ Len(s) \in Nat /\ DOMAIN s = 1 .. Len(s)
    BY SeqDomain DEF TypeOK
  <1>4. Len(h) <= Len(s) /\ \A i \in DOMAIN h : i \in DOMAIN s /\ h[i] = Answer(s[i], i)
    BY <1>3 DEF OwnEcho
  <1>5. CASE \E t \in Said : Say(d, t)
    <2>1. PICK t \in Said : Say(d, t)
      BY <1>5
    <2>2. heard'[d] = h /\ said'[d] = Append(s, t)
      BY <2>1 DEF Say, TypeOK
    <2> HIDE DEF h, s
    <2>3. Len(Append(s, t)) = Len(s) + 1 /\ \A i \in DOMAIN s : Append(s, t)[i] = s[i]
      BY <1>3, SeqAppend
    <2>4. Len(h) <= Len(Append(s, t))
      BY <1>3, <1>4, <2>3
    <2> QED BY <1>4, <2>2, <2>3, <2>4
  <1>6. CASE WaitAnswer(d)
    <2> DEFINE a == Answer(s[Len(s)], Len(s))
    <2>1. /\ cpc[d] = "wait" /\ inbox[d] # <<>> /\ said'[d] = s
          /\ heard'[d] = Append(h, Head(inbox[d])) /\ inbox[d] \in Seq(Answers)
      BY <1>6 DEF WaitAnswer, TypeOK
    <2>2. Head(inbox[d]) \in Answers
      BY <2>1, SeqTail
    <2>3. Len(s) = Len(h) + 1 /\ inbox[d] = <<a>>
      BY <2>1 DEF TalkInv, Talk, Waiting
    <2> HIDE DEF h, s, a
    <2>4. Head(inbox[d]) = a
      BY <2>3
    <2> DEFINE g == Append(h, a)
    <2>5. /\ Len(g) = Len(h) + 1 /\ DOMAIN g = DOMAIN h \union {Len(h) + 1}
          /\ g[Len(h) + 1] = a /\ \A i \in DOMAIN h : g[i] = h[i]
      BY <1>3, <2>2, <2>4, SeqAppend
    <2>6. heard'[d] = g
      BY <2>1, <2>4
    <2> HIDE DEF g
    <2>7. a = Answer(s[Len(h) + 1], Len(h) + 1)
      BY <2>3 DEF a
    <2>8. Len(g) <= Len(s)
      BY <1>3, <2>3, <2>5
    <2> QED BY <1>4, <2>1, <2>5, <2>6, <2>7, <2>8
  <1>7. CASE ~WaitAnswer(d) /\ ~\E t \in Said : Say(d, t)
    <2>1. heard'[d] = h /\ said'[d] = s
      <3>1. ASSUME NEW c \in Procs, NEW t \in Said, Say(c, t)
            PROVE  heard'[d] = h /\ said'[d] = s
        <4>1. c # d
          BY <1>7, <3>1
        <4> QED BY <3>1, <4>1 DEF Say, TypeOK
      <3>2. ASSUME NEW c \in Procs, WaitAnswer(c) PROVE heard'[d] = h /\ said'[d] = s
        <4>1. c # d
          BY <1>7, <3>2
        <4> QED BY <3>2, <4>1 DEF WaitAnswer, TypeOK
      <3>3. CASE Receive \/ UNCHANGED vars
        BY <3>3 DEF Receive, vars
      <3>4. ASSUME NEW c \in Procs, Turn(c) \/ SendClose(c)
            PROVE  heard'[d] = h /\ said'[d] = s
        BY <3>4 DEF Turn, SendClose
      <3>5. ASSUME NEW c \in Procs, Start(c) \/ End(c) \/ StopHandler(c) \/ Kill(c)
            PROVE  heard'[d] = h /\ said'[d] = s
        BY <3>5 DEF Start, End, StopHandler, Kill
      <3> HIDE DEF h, s
      <3> QED
        BY <3>1, <3>2, <3>3, <3>4, <3>5 DEF Next, ClientSteps, Environment, Said
    <2> HIDE DEF h, s
    <2> QED BY <1>4, <2>1
  <1> QED BY <1>5, <1>6, <1>7

\* A client prints the echo of its own messages, numbered in order, for every number of
\* clients, size of the table and texts, whatever is lost and whoever is interrupted or
\* dies, as long as no two clients were started with the same port.
THEOREM EchoesOwn ==
  ASSUME PortsDiffer
  PROVE  Spec => []OwnEcho
  <1> DEFINE Inv == TypeOK /\ TalkInv /\ OwnEcho
  <1>1. Init => Inv
    <2> SUFFICES ASSUME Init PROVE Inv
      OBVIOUS
    <2>1. OwnEcho
      BY EchoAssumption DEF Init, OwnEcho
    <2>2. ASSUME NEW c \in Procs PROVE Settled(c) /\ cpc[c] = "init"
      BY DEF Init, Settled, OnWire, Counts
    <2>3. TalkInv
      BY <2>2 DEF TalkInv, Talk
    <2> QED BY <2>1, <2>3, TypeInit
  <1>2. Inv /\ [Next]_vars => Inv'
    <2> SUFFICES ASSUME Inv, [Next]_vars PROVE Inv'
      OBVIOUS
    <2>1. Table(clients)
      BY DEF TypeOK, OwnEcho, Table
    <2> QED BY <2>1, TypeStep, TalkStep, EchoStep
  <1>3. Inv => OwnEcho
    OBVIOUS
  <1> QED BY <1>1, <1>2, <1>3, PTL DEF Spec
=============================================================================
