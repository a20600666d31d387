-------------------------- MODULE EventLoopProofs --------------------------
(***************************************************************************)
(* Proofs about two programs of one loop each, for every value of their    *)
(* constants: the server that polls its descriptors (PollServer, lab-16    *)
(* part-2/4) and the file manager that takes one key after the other       *)
(* (FileManager, lab-9).                                                   *)
(***************************************************************************)
EXTENDS PollServer, FileManager, FiniteSetTheorems, SequenceTheorems, WellFoundedInduction, TLAPS

Entry == [conn : TcpClients, revents : BOOLEAN]

-----------------------------------------------------------------------------
(* Arrays and queues.                                                      *)

\* What a sequence holds.
LEMMA SeqDomain ==
  ASSUME NEW S, NEW q \in Seq(S)
  PROVE  Len(q) \in Nat /\ DOMAIN q = 1 .. Len(q) /\ \A k \in DOMAIN q : q[k] \in S
  BY LenProperties

\* What taking the head of a queue leaves.
LEMMA SeqTail ==
  ASSUME NEW S, NEW q \in Seq(S), q # <<>>
  PROVE  /\ 1 \in DOMAIN q /\ Head(q) = q[1] /\ Head(q) \in S /\ Tail(q) \in Seq(S)
         /\ \A k \in DOMAIN Tail(q) : k \in Nat \ {0} /\ k + 1 \in DOMAIN q
                                      /\ Tail(q)[k] = q[k + 1]
         /\ \A k \in DOMAIN q : k # 1 => k - 1 \in DOMAIN Tail(q) /\ Tail(q)[k - 1] = q[k]
  <1>1. Len(q) \in Nat \ {0} /\ DOMAIN q = 1 .. Len(q) /\ Head(q) = q[1] /\ q[1] \in S
    BY LenProperties, EmptySeq
  <1>2. Tail(q) \in Seq(S) /\ Len(Tail(q)) = Len(q) - 1
    BY <1>1
  <1> QED BY <1>1, <1>2

\* What an entry at the end adds.
LEMMA SeqAppend ==
  ASSUME NEW S, NEW q \in Seq(S), NEW x \in S
  PROVE  /\ Append(q, x) \in Seq(S) /\ Len(q) \in Nat /\ Len(Append(q, x)) = Len(q) + 1
         /\ DOMAIN Append(q, x) = DOMAIN q \union {Len(q) + 1}
         /\ Len(q) + 1 \notin DOMAIN q
         /\ Append(q, x)[Len(q) + 1] = x
         /\ \A k \in DOMAIN q : Append(q, x)[k] = q[k]
  <1>1. Len(q) \in Nat /\ DOMAIN q = 1 .. Len(q)
    BY LenProperties
  <1>2. Append(q, x) \in Seq(S) /\ Len(Append(q, x)) = Len(q) + 1
        /\ DOMAIN Append(q, x) = 1 .. Len(q) + 1
    BY <1>1
  <1> QED BY <1>1, <1>2

\* What comes last then.
LEMMA LastAppended ==
  ASSUME NEW S, NEW q \in Seq(S), NEW x \in S
  PROVE  Append(q, x) # <<>> /\ Append(q, x)[Len(Append(q, x))] = x
  <1>1. Len(q) \in Nat /\ Len(Append(q, x)) = Len(q) + 1 /\ Append(q, x)[Len(q) + 1] = x
    BY SeqAppend
  <1> QED BY <1>1, EmptySeq

\* The last index fills the gap at k.
LEMMA Gap ==
  ASSUME NEW n \in Nat, NEW k \in 1 .. n
  PROVE  /\ \A j \in 1 .. n - 1 : (IF j = k THEN n ELSE j) \in (1 .. n) \ {k}
         /\ \A l \in (1 .. n) \ {k} : IF l = n THEN k \in 1 .. n - 1 ELSE l \in 1 .. n - 1
  OBVIOUS

\* What remove_fd leaves: one entry less, the last one in the gap.
LEMMA Packed ==
  ASSUME NEW S, NEW q \in Seq(S), NEW k \in DOMAIN q,
         NEW r, r = SubSeq([q EXCEPT ![k] = q[Len(q)]], 1, Len(q) - 1)
  PROVE  /\ r \in Seq(S) /\ Len(q) \in Nat \ {0} /\ DOMAIN q = 1 .. Len(q)
         /\ Len(r) = Len(q) - 1 /\ DOMAIN r = 1 .. Len(q) - 1
         /\ \A j \in DOMAIN r : r[j] = IF j = k THEN q[Len(q)] ELSE q[j]
  <1> DEFINE e == [q EXCEPT ![k] = q[Len(q)]]
  <1>1. Len(q) \in Nat /\ DOMAIN q = 1 .. Len(q) /\ Len(q) # 0 /\ Len(q) \in DOMAIN q
    <2>1. Len(q) \in Nat /\ DOMAIN q = 1 .. Len(q)
      BY LenProperties
    <2> QED BY <2>1
  <1>2. e \in Seq(S) /\ Len(e) = Len(q)
    <2>1. q[Len(q)] \in S
      BY <1>1, LenProperties
    <2> QED BY <2>1, ExceptSeq
  <1>3. \A j \in DOMAIN q : e[j] = IF j = k THEN q[Len(q)] ELSE q[j]
    OBVIOUS
  <1> HIDE DEF e
  <1>4. r = SubSeq(e, 1, Len(q) - 1)
    BY DEF e
  <1>5. r \in Seq(S) /\ Len(r) = Len(q) - 1 /\ \A j \in 1 .. Len(q) - 1 : r[j] = e[j]
    BY <1>1, <1>2, <1>4, SubSeqProperties
  <1>6. DOMAIN r = 1 .. Len(q) - 1
    BY <1>5, LenProperties
  <1> QED BY <1>1, <1>3, <1>5, <1>6

-----------------------------------------------------------------------------
(* The types of the polling server.                                        *)

\* The initial state is typed.
LEMMA TypeInit == Init => TypeOK
  BY DEF Init, TypeOK

\* What the types say of the array.
LEMMA Array ==
  ASSUME TypeOK
  PROVE  /\ fds \in Seq(Entry) /\ Len(fds) \in Nat /\ DOMAIN fds = 1 .. Len(fds)
         /\ i \in Nat \ {0}
         /\ \A k \in DOMAIN fds : fds[k] \in Entry /\ fds[k].conn \in TcpClients
                                  /\ fds[k].conn \in Clients
  <1>1. fds \in Seq(Entry) /\ i \in Nat \ {0}
    BY DEF TypeOK, Entry
  <1>2. Len(fds) \in Nat /\ DOMAIN fds = 1 .. Len(fds) /\ \A k \in DOMAIN fds : fds[k] \in Entry
    BY <1>1, SeqDomain
  <1> QED BY <1>1, <1>2 DEF Entry, Clients

\* An accepted connection goes to the end of the array, nothing reported for it.
LEMMA AcceptResult ==
  ASSUME TypeOK, AcceptOne
  PROVE  /\ backlog[1] \in TcpClients /\ fds' \in Seq(Entry) /\ Len(fds') = Len(fds) + 1
         /\ DOMAIN fds' = DOMAIN fds \union {Len(fds) + 1} /\ Len(fds) + 1 \notin DOMAIN fds
         /\ fds'[Len(fds) + 1].conn = backlog[1] /\ ~fds'[Len(fds) + 1].revents
         /\ \A k \in DOMAIN fds : fds'[k] = fds[k]
  <1> DEFINE e == Conn(Head(backlog), FALSE)
  <1>1. Head(backlog) = backlog[1] /\ Head(backlog) \in TcpClients
    BY SeqTail DEF AcceptOne, TypeOK
  <1>2. e \in Entry /\ ~e.revents /\ e.conn = backlog[1]
    BY <1>1 DEF Conn, Entry
  <1>3. fds' = Append(fds, e) /\ fds \in Seq(Entry)
    BY Array DEF AcceptOne
  <1> HIDE DEF e
  <1> QED BY <1>1, <1>2, <1>3, SeqAppend

\* handle_tcp_client takes the entry under the walk out of the array and no other.
LEMMA HandleResult ==
  ASSUME TypeOK, HandleTcpClient
  PROVE  /\ i \in DOMAIN fds /\ fds' \in Seq(Entry) /\ Len(fds') = Len(fds) - 1
         /\ DOMAIN fds' = 1 .. Len(fds) - 1
         /\ \A j \in DOMAIN fds' : fds'[j] = fds[IF j = i THEN Len(fds) ELSE j]
         /\ \A j \in DOMAIN fds' : (IF j = i THEN Len(fds) ELSE j) \in DOMAIN fds \ {i}
         /\ \A k \in DOMAIN fds \ {i} : \E j \in DOMAIN fds' : fds'[j] = fds[k]
  <1>1. fds \in Seq(Entry) /\ Len(fds) \in Nat /\ DOMAIN fds = 1 .. Len(fds) /\ i \in Nat \ {0}
    BY Array
  <1>2. i \in DOMAIN fds /\ fds' = SubSeq([fds EXCEPT ![i] = fds[Len(fds)]], 1, Len(fds) - 1)
    BY <1>1 DEF HandleTcpClient, remove_fd
  <1>3. /\ fds' \in Seq(Entry) /\ Len(fds') = Len(fds) - 1 /\ DOMAIN fds' = 1 .. Len(fds) - 1
        /\ \A j \in DOMAIN fds' : fds'[j] = IF j = i THEN fds[Len(fds)] ELSE fds[j]
    BY <1>1, <1>2, Packed
  <1>4. \A j \in DOMAIN fds' : (IF j = i THEN Len(fds) ELSE j) \in DOMAIN fds \ {i}
    BY <1>1, <1>2, <1>3, Gap
  <1>5. ASSUME NEW k \in DOMAIN fds \ {i} PROVE \E j \in DOMAIN fds' : fds'[j] = fds[k]
    <2>1. CASE k = Len(fds)
      <3>1. i # Len(fds) /\ i \in 1 .. Len(fds)
        BY <1>1, <1>2, <2>1
      <3>2. i \in 1 .. Len(fds) - 1
        BY <1>1, <3>1, Gap
      <3>3. i \in DOMAIN fds'
        BY <1>3, <3>2
      <3> QED BY <1>3, <2>1, <3>3
    <2>2. CASE k # Len(fds)
      <3>1. k \in DOMAIN fds'
        BY <1>1, <1>3, <2>2
      <3> QED BY <1>3, <3>1
    <2> QED BY <2>1, <2>2
  <1> QED BY <1>2, <1>3, <1>4, <1>5

\* poll only writes the revents.
LEMMA PollResult ==
  ASSUME TypeOK, Poll
  PROVE  /\ fds' \in Seq(Entry) /\ Len(fds') = Len(fds) /\ DOMAIN fds' = DOMAIN fds
         /\ \A k \in DOMAIN fds : fds[k].conn \in TcpClients /\ fds'[k].conn = fds[k].conn
                                  /\ fds'[k].revents = Readable(fds[k].conn)
  <1>1. Len(fds) \in Nat /\ DOMAIN fds = 1 .. Len(fds) /\ \A k \in DOMAIN fds : fds[k] \in Entry
    BY Array
  <1>2. \A k \in DOMAIN fds : Conn(fds[k].conn, Readable(fds[k].conn)) \in Entry
    BY <1>1 DEF Conn, Readable, Entry
  <1>3. fds' = [k \in 1 .. Len(fds) |-> Conn(fds[k].conn, Readable(fds[k].conn))]
    BY <1>1 DEF Poll
  <1>4. fds' \in Seq(Entry) /\ Len(fds') = Len(fds)
    BY <1>1, <1>2, <1>3
  <1> QED BY <1>1, <1>3, <1>4 DEF Conn, Entry

\* Every step keeps the types.
LEMMA TypeStep ==
  ASSUME TypeOK, [Next]_vars
  PROVE  TypeOK'
  <1> USE PollAssumption
  <1>1. CASE Listen \/ ListenFails \/ AcceptEnd \/ UdpEnd \/ ScanNext \/ ScanEnd
    <2>1. UNCHANGED <<fds, backlog, datagrams, cpc>>
      BY <1>1 DEF Listen, ListenFails, AcceptEnd, UdpEnd, ScanNext, ScanEnd
    <2>2. /\ spc' \in {"init", "poll", "tcp", "udp", "scan", "failed"}
          /\ ready' \subseteq {"tcp", "udp"}
      BY <1>1 DEF Listen, ListenFails, AcceptEnd, UdpEnd, ScanNext, ScanEnd, TypeOK
    <2>3. i' \in Nat \ {0}
      BY <1>1 DEF Listen, ListenFails, AcceptEnd, UdpEnd, ScanNext, ScanEnd, TypeOK
    <2> QED BY <2>1, <2>2, <2>3 DEF TypeOK
  <1>2. CASE Poll
    BY <1>2, PollResult DEF Poll, TypeOK, Entry
  <1>3. CASE AcceptOne
    <2>1. Tail(backlog) \in Seq(TcpClients)
      BY <1>3, SeqTail DEF AcceptOne, TypeOK
    <2> QED BY <1>3, <2>1, AcceptResult DEF AcceptOne, TypeOK, Entry
  <1>4. CASE UdpOne
    <2>1. Head(datagrams) \in UdpClients /\ Tail(datagrams) \in Seq(UdpClients)
      BY <1>4, SeqTail DEF UdpOne, TypeOK
    <2> QED BY <1>4, <2>1 DEF UdpOne, TypeOK, Clients
  <1>5. CASE HandleTcpClient
    <2>1. fds' \in Seq(Entry) /\ fds[i].conn \in Clients
      BY <1>5, Array, HandleResult
    <2>2. cpc' \in [Clients -> {"init", "connected", "asked", "answered", "done", "dead"}]
      BY <1>5, <2>1 DEF HandleTcpClient, TypeOK
    <2> QED BY <1>5, <2>1, <2>2 DEF HandleTcpClient, TypeOK, Entry
  <1>6. ASSUME NEW c \in TcpClients, Connect(c) PROVE TypeOK'
    <2>1. Append(backlog, c) \in Seq(TcpClients)
      BY SeqAppend DEF TypeOK
    <2> QED BY <1>6, <2>1 DEF Connect, TypeOK, Clients
  <1>7. ASSUME NEW c \in UdpClients, SendUdp(c) PROVE TypeOK'
    <2>1. Append(datagrams, c) \in Seq(UdpClients)
      BY SeqAppend DEF TypeOK
    <2> QED BY <1>7, <2>1 DEF SendUdp, TypeOK, Clients
  <1>8. ASSUME NEW c \in Clients, Write(c) \/ Kill(c) \/ Read(c) PROVE TypeOK'
    BY <1>8 DEF Write, Kill, Read, TypeOK
  <1>9. CASE UNCHANGED vars
    BY <1>9 DEF vars, TypeOK
  <1> QED
    BY <1>1, <1>2, <1>3, <1>4, <1>5, <1>6, <1>7, <1>8, <1>9 DEF Next, ServerSteps, Clients

-----------------------------------------------------------------------------
(* The walk over the array.                                                *)

\* The steps that leave the array alone: what poll found readable stays so, for a client
\* that has asked can only die, and a datagram's answer goes to no connection.
LEMMA StaysReadable ==
  ASSUME TypeOK, NEW d \in TcpClients, Readable(d),
         \/ UNCHANGED cpc
         \/ UdpOne
         \/ \E c \in TcpClients : Connect(c) \/ Write(c) \/ Kill(c)
         \/ \E c \in UdpClients : SendUdp(c)
         \/ \E c \in Clients : Read(c)
  PROVE  Readable(d)'
  <1>1. d \in Clients /\ cpc[d] \in {"asked", "dead"}
    BY DEF Readable, Clients
  <1>2. CASE UdpOne
    <2>1. Head(datagrams) \in UdpClients
      BY <1>2, SeqTail DEF UdpOne, TypeOK
    <2>2. Head(datagrams) # d
      BY <2>1, PollAssumption
    <2> QED BY <1>1, <1>2, <2>2 DEF UdpOne, TypeOK, Readable
  <1>3. ASSUME NEW c \in Clients, Connect(c) \/ Write(c) \/ Kill(c) \/ SendUdp(c) \/ Read(c)
        PROVE  Readable(d)'
    BY <1>1, <1>3 DEF Connect, Write, Kill, SendUdp, Read, TypeOK, Readable
  <1> QED BY <1>2, <1>3 DEF Readable, Clients

\* Every step keeps what the walk has passed clean.
LEMMA ScanStep ==
  ASSUME TypeOK, ScanInv, PlaceInv, [Next]_vars
  PROVE  ScanInv'
  <1> USE PollAssumption
  <1>1. Len(fds) \in Nat /\ DOMAIN fds = 1 .. Len(fds) /\ i \in Nat \ {0}
        /\ \A k \in DOMAIN fds : fds[k].conn \in TcpClients /\ fds[k].conn \in Clients
    BY Array
  <1>2. CASE Poll
    <2>1. \A k \in DOMAIN fds' : fds'[k].revents => cpc'[fds'[k].conn] \in {"asked", "dead"}
      BY <1>2, PollResult DEF Poll, Readable
    <2> QED BY <1>2, <2>1 DEF Poll, ScanInv, Readable
  <1>3. CASE AcceptOne
    BY <1>3, AcceptResult DEF AcceptOne, ScanInv, Readable
  <1>4. CASE HandleTcpClient
    <2>1. i \in DOMAIN fds /\ fds[i].conn \in Clients
      BY <1>4, Array, HandleResult
    <2>2. \A d \in Clients \ {fds[i].conn} : cpc'[d] = cpc[d]
      BY <1>4, <2>1 DEF HandleTcpClient, TypeOK
    <2>3. ASSUME NEW j \in DOMAIN fds'
          PROVE  /\ j < i => ~fds'[j].revents
                 /\ fds'[j].revents => cpc'[fds'[j].conn] \in {"asked", "dead"}
      <3> DEFINE k == IF j = i THEN Len(fds) ELSE j
      <3>1. k \in DOMAIN fds \ {i} /\ fds'[j] = fds[k]
        BY <1>4, HandleResult
      <3>2. j < i => k = j
        BY <1>1
      <3> HIDE DEF k
      <3>3. fds[k].conn # fds[i].conn
        BY <2>1, <3>1 DEF PlaceInv
      <3>4. cpc'[fds[k].conn] = cpc[fds[k].conn]
        BY <1>1, <2>2, <3>1, <3>3
      <3>5. fds'[j].revents => cpc'[fds'[j].conn] \in {"asked", "dead"}
        BY <3>1, <3>4 DEF ScanInv, Readable
      <3> QED BY <1>4, <3>1, <3>2, <3>5 DEF ScanInv, HandleTcpClient
    <2> QED BY <1>4, <2>3 DEF HandleTcpClient, ScanInv, Readable
  <1>5. CASE ScanNext
    <2>1. UNCHANGED <<fds, cpc, spc>> /\ i' = i + 1 /\ ~fds[i].revents
      BY <1>5 DEF ScanNext
    <2>2. \A k \in DOMAIN fds : k < i + 1 => k < i \/ k = i
      BY <1>1
    <2> QED BY <1>5, <2>1, <2>2 DEF ScanNext, ScanInv, Readable
  <1>6. CASE ScanEnd
    <2>1. \A k \in DOMAIN fds : k < i
      BY <1>1, <1>6 DEF ScanEnd
    <2> QED BY <1>6, <2>1 DEF ScanEnd, ScanInv, Readable
  <1>7. CASE Listen \/ ListenFails \/ AcceptEnd
    BY <1>7 DEF Listen, ListenFails, AcceptEnd, ScanInv, Readable
  <1>8. CASE UdpEnd
    <2>1. \A k \in DOMAIN fds : ~(k < 1)
      BY <1>1
    <2> QED BY <1>8, <2>1 DEF UdpEnd, ScanInv, Readable
  <1>9. CASE \/ UdpOne
             \/ \E c \in TcpClients : Connect(c) \/ Write(c) \/ Kill(c)
             \/ \E c \in UdpClients : SendUdp(c)
             \/ \E c \in Clients : Read(c)
    <2>1. UNCHANGED <<spc, fds, i>>
      BY <1>9 DEF UdpOne, Connect, Write, Kill, SendUdp, Read
    <2>2. \A d \in TcpClients : Readable(d) => Readable(d)'
      BY <1>9, StaysReadable
    <2> QED BY <1>1, <2>1, <2>2 DEF ScanInv
  <1>10. CASE UNCHANGED vars
    BY <1>10 DEF vars, ScanInv, Readable
  <1> QED
    BY <1>2, <1>3, <1>4, <1>5, <1>6, <1>7, <1>8, <1>9, <1>10 DEF Next, ServerSteps

-----------------------------------------------------------------------------
(* The places of the connections.                                          *)

\* Every step keeps each connection in its one place.
LEMMA PlaceStep ==
  ASSUME TypeOK, ScanInv, PlaceInv, [Next]_vars
  PROVE  PlaceInv'
  <1> USE PollAssumption
  <1>1. Len(fds) \in Nat /\ DOMAIN fds = 1 .. Len(fds) /\ i \in Nat \ {0}
        /\ \A k \in DOMAIN fds : fds[k].conn \in TcpClients /\ fds[k].conn \in Clients
    BY Array
  <1>2. CASE Poll
    <2>1. \A c \in TcpClients : (Held(c)' <=> Held(c)) /\ (Waits(c)' <=> Waits(c))
      BY <1>2, PollResult DEF Poll, Held, Waits
    <2>2. \A k, l \in DOMAIN fds' : fds'[k].conn = fds'[l].conn => k = l
      BY <1>2, PollResult DEF PlaceInv
    <2>3. Len(fds') <= MaxClients /\ UNCHANGED <<backlog, cpc>>
      BY <1>2, PollResult DEF PlaceInv, Poll
    <2> QED BY <2>1, <2>2, <2>3 DEF PlaceInv
  <1>3. CASE AcceptOne
    <2> DEFINE n == Len(fds) + 1
    <2>0. PICK h \in TcpClients : h = backlog[1]
      BY <1>3, AcceptResult
    <2>1. /\ 1 \in DOMAIN backlog
          /\ \A k \in DOMAIN backlog' : k \in Nat \ {0} /\ k + 1 \in DOMAIN backlog
                                         /\ backlog'[k] = backlog[k + 1]
          /\ \A k \in DOMAIN backlog : k # 1 => k - 1 \in DOMAIN backlog'
                                                 /\ backlog'[k - 1] = backlog[k]
      BY <1>3, SeqTail DEF AcceptOne, TypeOK
    <2>2. /\ DOMAIN fds' = DOMAIN fds \union {n} /\ n \notin DOMAIN fds
          /\ fds'[n].conn = h /\ \A k \in DOMAIN fds : fds'[k] = fds[k]
          /\ Len(fds') = Len(fds) + 1
      BY <1>3, <2>0, AcceptResult
    <2>3. Len(fds') <= MaxClients /\ cpc' = cpc
      BY <1>1, <1>3, <2>2 DEF AcceptOne
    <2>4. \A k, l \in DOMAIN backlog' : backlog'[k] = backlog'[l] => k = l
      <3> SUFFICES ASSUME NEW k \in DOMAIN backlog', NEW l \in DOMAIN backlog',
                          backlog'[k] = backlog'[l]
                   PROVE  k = l
        OBVIOUS
      <3>1. k + 1 = l + 1
        BY <2>1 DEF PlaceInv
      <3> QED BY <2>1, <3>1
    <2>5. ~Waits(h)' /\ Waits(h) /\ Held(h)'
      <3>1. ASSUME NEW k \in DOMAIN backlog', backlog'[k] = h PROVE FALSE
        <4>1. k + 1 = 1
          BY <2>0, <2>1, <3>1 DEF PlaceInv
        <4>2. k \in Nat \ {0}
          BY <2>1
        <4> QED BY <4>1, <4>2
      <3> QED BY <2>0, <2>1, <2>2, <3>1 DEF Waits, Held
    <2>6. ASSUME NEW c \in TcpClients \ {h}
          PROVE  (Waits(c)' <=> Waits(c)) /\ (Held(c)' <=> Held(c))
      BY <2>0, <2>1, <2>2 DEF Waits, Held
    <2>7. \A k \in DOMAIN fds : fds[k].conn # h
      BY <2>2, <2>5 DEF PlaceInv, Held
    <2>8. \A k, l \in DOMAIN fds' : fds'[k].conn = fds'[l].conn => k = l
      BY <2>2, <2>7 DEF PlaceInv
    <2> QED BY <2>2, <2>3, <2>4, <2>5, <2>6, <2>8 DEF PlaceInv
  <1>4. CASE HandleTcpClient
    <2>0. PICK h \in TcpClients : h = fds[i].conn
      BY <1>1, <1>4, HandleResult
    <2>1. i \in DOMAIN fds /\ h \in Clients /\ cpc[h] \in {"asked", "dead"}
      BY <1>1, <1>4, <2>0, HandleResult DEF HandleTcpClient, ScanInv, Readable
    <2>2. /\ cpc'[h] \in {"answered", "dead"} /\ backlog' = backlog
          /\ \A d \in Clients \ {h} : cpc'[d] = cpc[d]
      BY <1>4, <2>0, <2>1 DEF HandleTcpClient, TypeOK
    <2>3. /\ \A j \in DOMAIN fds' : \E k \in DOMAIN fds \ {i} : fds'[j] = fds[k]
          /\ \A k \in DOMAIN fds \ {i} : \E j \in DOMAIN fds' : fds'[j] = fds[k]
      BY <1>4, HandleResult
    <2>4. \A j, l \in DOMAIN fds' : fds'[j].conn = fds'[l].conn => j = l
      <3> SUFFICES ASSUME NEW j \in DOMAIN fds', NEW l \in DOMAIN fds',
                          fds'[j].conn = fds'[l].conn
                   PROVE  j = l
        OBVIOUS
      <3>1. (IF j = i THEN Len(fds) ELSE j) = (IF l = i THEN Len(fds) ELSE l)
        BY <1>4, HandleResult DEF PlaceInv
      <3>2. j \in 1 .. Len(fds) - 1 /\ l \in 1 .. Len(fds) - 1
        BY <1>4, HandleResult
      <3> QED BY <1>1, <3>1, <3>2
    <2>5. Held(h) /\ ~Held(h)'
      <3>1. \A k \in DOMAIN fds \ {i} : fds[k].conn # h
        BY <2>0, <2>1 DEF PlaceInv
      <3> QED BY <2>0, <2>1, <2>3, <3>1 DEF Held
    <2>6. ASSUME NEW c \in TcpClients \ {h} PROVE Held(c)' <=> Held(c)
      BY <2>0, <2>1, <2>3 DEF Held
    <2>7. \A c \in TcpClients : (Waits(c)' <=> Waits(c)) /\ c \in Clients
      BY <2>2 DEF Waits, Clients
    <2>8. Len(fds') <= MaxClients
      <3>1. Len(fds') = Len(fds) - 1 /\ Len(fds) <= MaxClients
        BY <1>4, HandleResult DEF PlaceInv
      <3> QED BY <1>1, <3>1
    <2> QED BY <2>1, <2>2, <2>3, <2>4, <2>5, <2>6, <2>7, <2>8 DEF PlaceInv
  <1>5. ASSUME NEW c \in TcpClients, Connect(c) PROVE PlaceInv'
    <2>1. /\ cpc[c] = "init" /\ cpc'[c] = "connected" /\ fds' = fds
          /\ \A d \in Clients \ {c} : cpc'[d] = cpc[d]
      BY <1>5 DEF Connect, TypeOK, Clients
    <2>2. /\ Len(backlog) + 1 \notin DOMAIN backlog
          /\ DOMAIN backlog' = DOMAIN backlog \union {Len(backlog) + 1}
          /\ backlog'[Len(backlog) + 1] = c
          /\ \A k \in DOMAIN backlog : backlog'[k] = backlog[k]
      BY <1>5, SeqAppend DEF Connect, TypeOK
    <2>3. ~Waits(c) /\ ~Held(c) /\ Waits(c)' /\ ~Held(c)'
      BY <2>1, <2>2 DEF PlaceInv, Waits, Held
    <2>4. \A k, l \in DOMAIN backlog' : backlog'[k] = backlog'[l] => k = l
      BY <2>2, <2>3 DEF PlaceInv, Waits
    <2>5. \A d \in TcpClients \ {c} : /\ (Waits(d)' <=> Waits(d)) /\ (Held(d)' <=> Held(d))
                                      /\ d \in Clients
      BY <2>1, <2>2 DEF Waits, Held, Clients
    <2> QED BY <2>1, <2>3, <2>4, <2>5 DEF PlaceInv
  <1>6. CASE \/ UNCHANGED cpc /\ UNCHANGED <<fds, backlog>>
             \/ UdpOne
             \/ \E c \in TcpClients : Write(c) \/ Kill(c)
             \/ \E c \in UdpClients : SendUdp(c)
             \/ \E c \in Clients : Read(c)
    <2>1. UNCHANGED <<fds, backlog>>
      BY <1>6 DEF UdpOne, Write, Kill, SendUdp, Read
    <2>2. \A c \in TcpClients : (Waits(c)' <=> Waits(c)) /\ (Held(c)' <=> Held(c))
      BY <2>1 DEF Waits, Held
    <2>3. \A c \in TcpClients :
            \/ cpc'[c] = cpc[c]
            \/ cpc[c] \in {"connected", "asked"} /\ cpc'[c] \in {"asked", "dead"}
            \/ cpc[c] = "answered" /\ cpc'[c] = "done"
      <3> SUFFICES ASSUME NEW c \in TcpClients
                   PROVE  \/ cpc'[c] = cpc[c]
                          \/ cpc[c] \in {"connected", "asked"} /\ cpc'[c] \in {"asked", "dead"}
                          \/ cpc[c] = "answered" /\ cpc'[c] = "done"
        OBVIOUS
      <3>1. c \in Clients /\ c \notin UdpClients
        BY DEF Clients
      <3>2. CASE UdpOne
        <4>1. Head(datagrams) # c
          BY <3>1, <3>2, SeqTail DEF UdpOne, TypeOK
        <4> QED BY <3>1, <3>2, <4>1 DEF UdpOne, TypeOK
      <3>3. ASSUME NEW d \in Clients, Write(d) \/ Kill(d) \/ Read(d) \/ (SendUdp(d) /\ d # c)
            PROVE  \/ cpc'[c] = cpc[c]
                   \/ cpc[c] \in {"connected", "asked"} /\ cpc'[c] \in {"asked", "dead"}
                   \/ cpc[c] = "answered" /\ cpc'[c] = "done"
        BY <3>1, <3>3 DEF Write, Kill, Read, SendUdp, TypeOK
      <3> QED BY <1>6, <3>1, <3>2, <3>3 DEF Clients
    <2> QED BY <2>1, <2>2, <2>3 DEF PlaceInv
  <1>7. CASE Listen \/ ListenFails \/ AcceptEnd \/ UdpEnd \/ ScanNext \/ ScanEnd \/ UNCHANGED vars
    BY <1>6, <1>7 DEF Listen, ListenFails, AcceptEnd, UdpEnd, ScanNext, ScanEnd, vars
  <1> QED BY <1>2, <1>3, <1>4, <1>5, <1>6, <1>7 DEF Next, ServerSteps

-----------------------------------------------------------------------------
(* The theorems.                                                           *)

\* The inductive invariant.
Inv == TypeOK /\ ScanInv /\ PlaceInv

\* It holds at the start and is kept by every step.
LEMMA InvAlways == Spec => []Inv
  <1>1. Init => Inv
    <2> SUFFICES ASSUME Init PROVE Inv
      OBVIOUS
    <2>1. DOMAIN fds = {} /\ DOMAIN backlog = {} /\ Len(fds) = 0
      BY DEF Init
    <2>2. ScanInv
      BY <2>1 DEF ScanInv
    <2>3. \A c \in TcpClients : ~Waits(c) /\ ~Held(c) /\ cpc[c] = "init"
      BY <2>1 DEF Init, Waits, Held, Clients
    <2>4. PlaceInv
      BY <2>1, <2>3, PollAssumption DEF PlaceInv
    <2> QED BY <2>2, <2>4, TypeInit DEF Inv
  <1>2. Inv /\ [Next]_vars => Inv'
    BY TypeStep, ScanStep, PlaceStep DEF Inv
  <1> QED BY <1>1, <1>2, PTL DEF Spec

\* main's walk, which remove_fd repacks under it, leaves no connection that poll reported
\* for the next turn, whatever the size of the array and the clients' timing.
THEOREM NoneSkipped == Spec => []TurnComplete
  <1>1. Inv => TurnComplete
    BY DEF Inv, ScanInv, TurnComplete
  <1> QED BY <1>1, InvAlways, PTL

\* A set whose members are all equal has one member or none.
LEMMA Places ==
  ASSUME NEW S, \A k, l \in S : k = l
  PROVE  Cardinality(S) = IF S = {} THEN 0 ELSE 1
  <1>1. CASE S = {}
    BY <1>1, FS_EmptySet
  <1>2. CASE S # {}
    <2>1. PICK k \in S : S = {k}
      BY <1>2
    <2> QED BY <1>2, <2>1, FS_Singleton
  <1> QED BY <1>1, <1>2

\* Neither accept nor the repacking of remove_fd loses, doubles or leaks a connection,
\* and the array is never overrun.
THEOREM ConnectionsKept == Spec => []EveryConnKept
  <1>1. Inv => EveryConnKept
    <2> SUFFICES ASSUME Inv, NEW c \in TcpClients
                 PROVE  LET b == {k \in DOMAIN backlog : backlog[k] = c}
                            f == {k \in DOMAIN fds : fds[k].conn = c}
                        IN  /\ cpc[c] \in {"connected", "asked"} =>
                                 Cardinality(b) + Cardinality(f) = 1
                            /\ cpc[c] \in {"answered", "done"} =>
                                 Cardinality(b) + Cardinality(f) = 0
                            /\ Cardinality(b) + Cardinality(f) <= 1
      BY DEF Inv, PlaceInv, EveryConnKept
    <2> DEFINE b == {k \in DOMAIN backlog : backlog[k] = c}
               f == {k \in DOMAIN fds : fds[k].conn = c}
    <2>1. (\A k, l \in b : k = l) /\ (\A k, l \in f : k = l)
      BY DEF Inv, PlaceInv
    <2>2. (b = {} <=> ~Waits(c)) /\ (f = {} <=> ~Held(c))
      BY DEF Waits, Held
    <2>3. /\ Cardinality(b) = IF Waits(c) THEN 1 ELSE 0
          /\ Cardinality(f) = IF Held(c) THEN 1 ELSE 0
      <3> HIDE DEF b, f
      <3> QED BY <2>1, <2>2, Places
    <2> QED BY <2>3 DEF Inv, PlaceInv
  <1> QED BY <1>1, InvAlways, PTL

-----------------------------------------------------------------------------
(* The panels of the file manager.                                         *)

\* A panel as load_dir leaves it, before and after the cursor has moved.
PanelType == [path : Seq(Names), files : Seq(Names), cursor : Nat, top : Nat, wild : BOOLEAN]

\* The cursor is on an entry, and list and path fit; a panel that lists anything has
\* room for one more component.  top may have to follow.
CursorOK(p) ==
  /\ p \in PanelType
  /\ p.cursor < Len(p.files) \/ (p.cursor = 0 /\ p.files = <<>>)
  /\ Len(p.files) <= MAX_FILES /\ Len(p.path) <= MAX_PATH
  /\ p.files # <<>> => Len(p.path) < MAX_PATH

PanelOK(p) == CursorOK(p) /\ p.top <= p.cursor

\* The inductive invariant: both panels are in order whatever the directories have become.
PanelsInv ==
  /\ panels \in [{0, 1} -> PanelType] /\ PanelOK(panels[0]) /\ PanelOK(panels[1])
  /\ active \in {0, 1} /\ rows \in Int

-----------------------------------------------------------------------------
(* What the panels list                                                    *)

\* A sorted arrangement of a set of names is a sequence of them, as long as the set.
LEMMA SortedType ==
  ASSUME NEW S \in SUBSET Names, NEW f \in Sorted(S)
  PROVE  f \in Seq(Names) /\ Len(f) = Cardinality(S)
  <1>1. IsFiniteSet(Names)
    BY FileManagerAssumption, FS_AddElement DEF Names
  <1>2. Cardinality(S) \in Nat
    BY <1>1, FS_Subset, FS_CardinalityType
  <1>3. f \in [1..Cardinality(S) -> S]
    BY DEF Sorted
  <1>4. f \in Seq(S)
    BY <1>2, <1>3, SeqDef
  <1>5. f \in Seq(Names)
    BY <1>4, SeqMonotonic
  <1>6. Len(f) = Cardinality(S)
    BY <1>2, <1>3, <1>4
  <1> QED BY <1>5, <1>6

\* What load_dir reads is a list of names within files[MAX_FILES]; every name in it fits
\* behind the path.
LEMMA ListsType ==
  ASSUME NEW path, NEW f \in Lists(path)
  PROVE  /\ f \in Seq(Names) /\ Len(f) <= MAX_FILES
         /\ f # <<>> => Len(path) < MAX_PATH
  <1>1. CASE ~CanOpen(path)
    <2>1. f = <<>>
      BY <1>1 DEF Lists
    <2> QED BY <2>1, FileManagerAssumption, EmptySeq
  <1>2. CASE CanOpen(path)
    <2> DEFINE all == UpEntry(path) \cup Entries(path)
    <2>1. PICK S \in SUBSET all : f \in Sorted(S) /\ Cardinality(S) <= MAX_FILES
      <3>1. PICK S \in SUBSET all :
              /\ f \in Sorted(S)
              /\ \/ S = all /\ Cardinality(S) <= MAX_FILES
                 \/ S # all /\ Cardinality(S) = MAX_FILES
        BY <1>2 DEF Lists
      <3> QED BY <3>1, FileManagerAssumption
    <2>2. all \subseteq Names
      BY DEF UpEntry, Entries, Names
    <2>3. S \in SUBSET Names
      BY <2>1, <2>2
    <2>4. f \in Seq(Names) /\ Len(f) = Cardinality(S)
      BY <2>1, <2>3, SortedType
    <2>5. ASSUME f # <<>> PROVE Len(path) < MAX_PATH
      <3>1. Cardinality(S) # 0
        BY <2>4, <2>5, EmptySeq
      <3>2. S # {}
        BY <3>1, FS_EmptySet
      <3>3. \E n : join_path_safe(path, n) # {}
        BY <2>1, <3>2 DEF UpEntry, Entries
      <3> QED BY <3>3 DEF join_path_safe
    <2> QED BY <2>1, <2>4, <2>5
  <1> QED BY <1>1, <1>2

\* load_dir leaves a panel in order and its first row in view.
LEMMA LoadOK ==
  ASSUME NEW path \in Seq(Names), Len(path) <= MAX_PATH, NEW p, NEW q \in load_dir(path, p)
  PROVE  PanelOK(q) /\ q.top = 0 /\ q.cursor = 0
  <1>1. PICK f \in Lists(path), w \in WildTimes(path) :
          q = [path |-> path, files |-> f, cursor |-> 0, top |-> 0, wild |-> w]
    BY DEF load_dir
  <1>2. f \in Seq(Names) /\ Len(f) <= MAX_FILES /\ (f # <<>> => Len(path) < MAX_PATH)
    BY ListsType
  <1>3. w \in BOOLEAN
    BY DEF WildTimes
  <1>4. f = <<>> \/ 0 < Len(f)
    BY <1>2, EmptySeq
  <1>5. q \in PanelType
    BY <1>1, <1>2, <1>3 DEF PanelType
  <1> QED BY <1>1, <1>2, <1>4, <1>5 DEF PanelOK, CursorOK

-----------------------------------------------------------------------------
(* The window of the file manager                                          *)

\* At least one row is shown.
LEMMA RowsShown ==
  ASSUME rows \in Int
  PROVE  file_rows \in Nat \ {0}
  BY DEF file_rows, TOP_LINES, BOTTOM_LINES, PANEL_NON_LIST_ROWS

\* scroll_into_view moves nothing but top, and brings the cursor into the window.
LEMMA ScrollOK ==
  ASSUME rows \in Int, NEW p, CursorOK(p)
  PROVE  PanelOK(scroll_into_view(p)) /\ Visible(scroll_into_view(p))
  <1> DEFINE q == scroll_into_view(p)
  <1>1. file_rows \in Nat \ {0}
    BY RowsShown
  <1>2. p \in PanelType /\ p.cursor \in Nat /\ p.top \in Nat
    BY DEF CursorOK, PanelType
  <1>3. q.cursor = p.cursor /\ q.files = p.files /\ q.path = p.path
    BY <1>2 DEF scroll_into_view, PanelType
  <1>4. q.top = IF p.cursor < p.top THEN p.cursor
                ELSE IF p.cursor >= p.top + file_rows THEN p.cursor - file_rows + 1
                ELSE p.top
    BY <1>2 DEF scroll_into_view, PanelType
  <1>5. q.top \in Nat /\ q.top <= q.cursor /\ q.cursor < q.top + file_rows
    BY <1>1, <1>2, <1>3, <1>4
  <1>6. q = [p EXCEPT !.top = q.top]
    BY <1>2, <1>4 DEF scroll_into_view, PanelType
  <1>7. q \in PanelType
    BY <1>2, <1>5, <1>6 DEF PanelType
  <1> QED BY <1>3, <1>5, <1>7 DEF PanelOK, CursorOK, Visible

\* Putting the cursor on an entry keeps the panel in order.
LEMMA MoveOK ==
  ASSUME NEW p, CursorOK(p), NEW k \in Nat, k < Len(p.files) \/ k = p.cursor
  PROVE  CursorOK([p EXCEPT !.cursor = k])
  BY DEF CursorOK, PanelType

\* The jump to an entry keeps the panel in order, and in view when it was.
LEMMA FocusOK ==
  ASSUME rows \in Int, NEW p, PanelOK(p), NEW name
  PROVE  /\ PanelOK(focus_entry_by_name(p, name))
         /\ Visible(p) => Visible(focus_entry_by_name(p, name))
  <1> DEFINE found == {e \in 1..Len(p.files) : p.files[e] = name}
             e == CHOOSE k \in found : TRUE
  <1>1. CASE found = {}
    BY <1>1 DEF focus_entry_by_name
  <1>2. CASE found # {}
    <2>1. Len(p.files) \in Nat
      BY LenProperties DEF PanelOK, CursorOK, PanelType
    <2>3. e \in 1..Len(p.files)
      BY <1>2
    <2>4. e - 1 \in Nat /\ e - 1 < Len(p.files)
      BY <2>1, <2>3
    <2>5. CursorOK([p EXCEPT !.cursor = e - 1])
      BY <2>4, MoveOK DEF PanelOK
    <2> QED BY <1>2, <2>5, ScrollOK DEF focus_entry_by_name
  <1> QED BY <1>1, <1>2

-----------------------------------------------------------------------------
(* The keys of the file manager                                            *)

\* The first row of a panel just loaded is in view.
LEMMA LoadVisible ==
  ASSUME rows \in Int, NEW q, q.top = 0, q.cursor = 0
  PROVE  Visible(q)
  BY RowsShown DEF Visible

\* Going up, also from a path at its limit, leaves the panel in order and in view.
LEMMA GoParentOK ==
  ASSUME rows \in Int, NEW p, PanelOK(p), NEW q \in go_parent_keep_selection(p)
  PROVE  PanelOK(q) /\ Visible(q)
  <1> DEFINE up == IF join_path_safe(p.path, "..") = {} THEN <<>> ELSE Append(p.path, "..")
  <1>1. PICK r \in load_dir(up, p) : q = focus_entry_by_name(r, extract_last_component(p.path))
    BY DEF go_parent_keep_selection
  <1>2. p.path \in Seq(Names) /\ ".." \in Names
    BY DEF PanelOK, CursorOK, PanelType, Names
  <1>3. up \in Seq(Names) /\ Len(up) <= MAX_PATH
    <2>1. CASE join_path_safe(p.path, "..") = {}
      BY <2>1, EmptySeq, FileManagerAssumption
    <2>2. CASE join_path_safe(p.path, "..") # {}
      BY <2>2, <1>2, FileManagerAssumption DEF join_path_safe
    <2> QED BY <2>1, <2>2
  <1>4. PanelOK(r) /\ r.top = 0 /\ r.cursor = 0
    BY <1>1, <1>3, LoadOK
  <1> QED BY <1>1, <1>4, LoadVisible, FocusOK

\* Enter either does nothing or loads a folder into a panel in order.
LEMMA EnterOK ==
  ASSUME rows \in Int, NEW p, PanelOK(p), NEW q \in enter_directory_at_cursor(p)
  PROVE  PanelOK(q) /\ (q # p => Visible(q))
  <1>1. CASE p.files = <<>> \/ ~is_dir(Current(p))
    <2>1. q = p
      BY <1>1 DEF enter_directory_at_cursor
    <2> QED BY <2>1
  <1>2. CASE p.files # <<>> /\ Current(p) = ".."
    <2>1. q \in go_parent_keep_selection(p)
      BY <1>2 DEF enter_directory_at_cursor, is_dir
    <2> QED BY <2>1, GoParentOK
  <1>3. CASE p.files # <<>> /\ is_dir(Current(p)) /\ Current(p) # ".."
    <2>1. q \in load_dir(Append(p.path, Current(p)), p)
      BY <1>3 DEF enter_directory_at_cursor
    <2>2. p.path \in Seq(Names) /\ Len(p.path) < MAX_PATH
      BY <1>3 DEF PanelOK, CursorOK, PanelType
    <2>3. Current(p) \in Names
      BY <1>3, FileManagerAssumption DEF Names, is_dir
    <2>4. Append(p.path, Current(p)) \in Seq(Names) /\ Len(Append(p.path, Current(p))) <= MAX_PATH
      BY <2>2, <2>3, FileManagerAssumption
    <2>5. PanelOK(q) /\ q.top = 0 /\ q.cursor = 0
      BY <2>1, <2>4, LoadOK
    <2> QED BY <2>5, LoadVisible
  <1> QED BY <1>1, <1>2, <1>3

\* The handler of a key puts a panel in order in the place of the active one.
LEMMA PutOK ==
  ASSUME PanelsInv, NEW q, PanelOK(q), Put(q)
  PROVE  /\ panels' \in [{0, 1} -> PanelType] /\ PanelOK(panels'[0]) /\ PanelOK(panels'[1])
         /\ panels'[active] = q
         /\ \A e \in {0, 1} : e # active => panels'[e] = panels[e]
  <1>1. panels' = [panels EXCEPT ![active] = q]
    BY DEF Put, Draw
  <1>2. q \in PanelType
    BY DEF PanelOK, CursorOK
  <1> QED BY <1>1, <1>2 DEF PanelsInv

\* What a step does to the panels: nothing, or a panel in order and in view in the place
\* of the active one.
LEMMA StepOK ==
  ASSUME PanelsInv, [FilesNext]_filesVars
  PROVE  /\ PanelsInv'
         /\ panels' # panels => Visible(panels'[active])
  <1> USE DEF PanelsInv
  <1>1. PanelOK(ap)
    BY DEF ap
  <1>2. CursorOK(ap) /\ ap \in PanelType /\ ap.cursor \in Nat /\ Len(ap.files) \in Nat
    BY <1>1, LenProperties DEF PanelOK, CursorOK, PanelType
  <1>3. rows' \in Int /\ active' \in {0, 1}
    BY FileManagerAssumption
    DEF FilesNext, filesVars, fsVars, KEY_UP, KEY_DOWN, KEY_ENTER, KEY_TAB, GoUp, Erase, Letter, KEY_RESIZE,
        Quit, MakeEntry, RemoveEntry, ChangeMode, Outside
  <1>4. ASSUME NEW q, Put(q), PanelOK(q), q # ap => Visible(q)
        PROVE  PanelsInv' /\ (panels' # panels => Visible(panels'[active]))
    <2>1. /\ panels' \in [{0, 1} -> PanelType] /\ PanelOK(panels'[0]) /\ PanelOK(panels'[1])
          /\ panels'[active] = q
          /\ \A e \in {0, 1} : e # active => panels'[e] = panels[e]
      BY <1>4, PutOK
    <2>2. PanelsInv'
      BY <1>3, <2>1 DEF PanelOK, CursorOK
    <2>3. ASSUME panels' # panels PROVE Visible(panels'[active])
      <3>1. q # ap
        BY <2>1, <2>3 DEF ap
      <3> QED BY <1>4, <2>1, <3>1
    <2> QED BY <2>2, <2>3
  <1>5. ASSUME UNCHANGED panels
        PROVE  PanelsInv' /\ (panels' # panels => Visible(panels'[active]))
    BY <1>3, <1>5 DEF PanelOK, CursorOK
  <1>6. CASE KEY_UP
    <2> DEFINE k == IF ap.cursor > 0 THEN ap.cursor - 1 ELSE ap.cursor
               p == [ap EXCEPT !.cursor = k]
    <2>1. k \in Nat /\ (k < Len(ap.files) \/ k = ap.cursor)
      BY <1>2 DEF CursorOK
    <2>2. CursorOK(p)
      BY <1>2, <2>1, MoveOK
    <2>3. PanelOK(scroll_into_view(p)) /\ Visible(scroll_into_view(p))
      BY <2>2, ScrollOK
    <2>4. Put(scroll_into_view(p))
      BY <1>6, <1>2 DEF KEY_UP, PanelType
    <2> QED BY <1>4, <2>3, <2>4
  <1>7. CASE KEY_DOWN
    <2> DEFINE k == IF ap.cursor < Len(ap.files) - 1 THEN ap.cursor + 1 ELSE ap.cursor
               p == [ap EXCEPT !.cursor = k]
    <2>1. k \in Nat /\ (k < Len(ap.files) \/ k = ap.cursor)
      BY <1>2 DEF CursorOK
    <2>2. CursorOK(p)
      BY <1>2, <2>1, MoveOK
    <2>3. PanelOK(scroll_into_view(p)) /\ Visible(scroll_into_view(p))
      BY <2>2, ScrollOK
    <2>4. Put(scroll_into_view(p))
      BY <1>7, <1>2 DEF KEY_DOWN, PanelType
    <2> QED BY <1>4, <2>3, <2>4
  <1>8. CASE KEY_ENTER
    <2>1. PICK q \in enter_directory_at_cursor(ap) : Put(q)
      BY <1>8 DEF KEY_ENTER
    <2> QED BY <1>1, <1>4, <2>1, EnterOK
  <1>9. CASE GoUp
    <2>1. PICK q \in go_parent_keep_selection(ap) : Put(q)
      BY <1>9 DEF GoUp
    <2> QED BY <1>1, <1>4, <2>1, GoParentOK
  <1>10. CASE KEY_TAB \/ Erase \/ Letter \/ KEY_RESIZE
    BY <1>10, <1>5 DEF KEY_TAB, Erase, Letter, KEY_RESIZE, Draw
  <1>11. CASE Quit \/ UNCHANGED filesVars
    BY <1>11, <1>5 DEF Quit, filesVars
  <1>12. ASSUME NEW n \in Nodes, MakeEntry(n) \/ RemoveEntry(n) PROVE UNCHANGED panels
    BY <1>12 DEF MakeEntry, RemoveEntry, Outside
  <1>13. ASSUME NEW d \in Dirs, NEW m, ChangeMode(d, m) PROVE UNCHANGED panels
    BY <1>13 DEF ChangeMode, Outside
  <1> QED BY <1>5, <1>6, <1>7, <1>8, <1>9, <1>10, <1>11, <1>12, <1>13 DEF FilesNext

\* At the start both panels show the directory given.
LEMMA InitOK == FilesInit => PanelsInv
  <1> SUFFICES ASSUME FilesInit PROVE PanelsInv
    OBVIOUS
  <1>1. StartPath \in Seq(Names) /\ Len(StartPath) <= MAX_PATH
    BY FileManagerAssumption, SeqMonotonic DEF Names
  <1>2. \A e \in {0, 1} : panels[e] \in load_dir(StartPath, Blank)
    BY DEF FilesInit
  <1>3. \A e \in {0, 1} : PanelOK(panels[e])
    BY <1>1, <1>2, LoadOK
  <1>4. panels \in [{0, 1} -> PanelType]
    <2>1. \A e \in {0, 1} : panels[e] \in PanelType
      BY <1>3 DEF PanelOK, CursorOK
    <2>2. panels \in [{0, 1} -> load_dir(StartPath, Blank)]
      BY DEF FilesInit
    <2> QED BY <2>1, <2>2
  <1> QED BY <1>3, <1>4, FileManagerAssumption DEF FilesInit, PanelsInv

-----------------------------------------------------------------------------
\* The panels are in order in every state.
LEMMA PanelsAlwaysInOrder == FilesSpec => []PanelsInv
  <1>1. PanelsInv /\ [FilesNext]_filesVars => PanelsInv'
    BY StepOK
  <1> QED BY <1>1, InitOK, PTL DEF FilesSpec

\* files[cursor] is always an entry that has been read, and list and path stay within
\* their arrays, for every tree and whatever becomes of it (my_mc_input.c:56,
\* my_mc_ui.c:204).
THEOREM CursorAlwaysInList == FilesSpec => []CursorInList
  <1>1. PanelsInv => CursorInList
    <2> SUFFICES ASSUME PanelsInv, NEW e \in {0, 1}, PanelOK(panels[e])
                 PROVE  LET p == panels[e]
                        IN  /\ 0 <= p.top /\ p.top <= p.cursor
                            /\ p.cursor < Len(p.files) \/ (p.cursor = 0 /\ p.files = <<>>)
                            /\ Len(p.files) <= MAX_FILES /\ Len(p.path) <= MAX_PATH
      BY DEF CursorInList, PanelsInv
    <2> QED BY DEF PanelOK, CursorOK, PanelType
  <1> QED BY <1>1, PanelsAlwaysInOrder, PTL

\* Every key that changes a panel leaves its cursor in the window, for every size of the
\* window and however it has changed since (my_mc_fs.c:102-119).
THEOREM CursorAlwaysVisible == FilesSpec => CursorVisible
  <1>1. PanelsInv /\ [FilesNext]_filesVars => [panels' # panels => Visible(panels'[active])]_filesVars
    BY StepOK
  <1> QED BY <1>1, PanelsAlwaysInOrder, PTL DEF FilesSpec, CursorVisible

-----------------------------------------------------------------------------
(* Where a path leads.                                                     *)

\* Every set of naturals that is not empty has a least member: induction over paths.
LEMMA LeastNumber ==
  ASSUME NEW T \in SUBSET Nat, T # {}
  PROVE  \E m \in T : \A k \in T : m <= k
  <1> DEFINE R == {ss \in Nat \X Nat : ss[1] < ss[2]}
  <1>1. IsWellFoundedOn(R, Nat)
    BY NatLessThanWellFounded DEF OpToRel
  <1>2. PICK m \in T : \A k \in T : ~(<<k, m>> \in R)
    <2> HIDE DEF R
    <2> QED BY <1>1, WFMin
  <1>3. \A k \in T : ~(k < m)
    BY <1>2
  <1> QED BY <1>3

\* The directories at the first n components of a path, as Resolve follows it.
IsWalk(at, path, n) ==
  at = [e \in 0..n |-> IF e = 0 THEN Root ELSE Walk(at[e - 1], path[e])]

\* What a walk is, place by place.
LEMMA WalkSteps ==
  ASSUME NEW path, NEW n \in Nat, NEW at
  PROVE  IsWalk(at, path, n) <=>
           /\ at = [e \in 0..n |-> at[e]]
           /\ at[0] = Root
           /\ \A e \in 1..n : at[e] = Walk(at[e - 1], path[e])
  <1>1. ASSUME IsWalk(at, path, n)
        PROVE  /\ at = [e \in 0..n |-> at[e]]
               /\ at[0] = Root
               /\ \A e \in 1..n : at[e] = Walk(at[e - 1], path[e])
    <2>1. at = [e \in 0..n |-> IF e = 0 THEN Root ELSE Walk(at[e - 1], path[e])]
      BY <1>1 DEF IsWalk
    <2>2. \A e \in 0..n : at[e] = IF e = 0 THEN Root ELSE Walk(at[e - 1], path[e])
      BY <2>1
    <2>3. at = [e \in 0..n |-> at[e]]
      BY <2>1
    <2>4. at[0] = Root /\ \A e \in 1..n : at[e] = Walk(at[e - 1], path[e])
      <3>1. 0 \in 0..n /\ \A e \in 1..n : e \in 0..n /\ e # 0
        OBVIOUS
      <3> QED BY <2>2, <3>1
    <2> QED BY <2>3, <2>4
  <1>2. ASSUME at = [e \in 0..n |-> at[e]], at[0] = Root,
               \A e \in 1..n : at[e] = Walk(at[e - 1], path[e])
        PROVE  IsWalk(at, path, n)
    <2>1. ASSUME NEW e \in 0..n
          PROVE  at[e] = IF e = 0 THEN Root ELSE Walk(at[e - 1], path[e])
      <3>1. CASE e = 0
        BY <1>2, <3>1
      <3>2. CASE e # 0
        <4>1. e \in 1..n
          BY <3>2
        <4> QED BY <1>2, <3>2, <4>1
      <3> QED BY <3>1, <3>2
    <2>2. [e \in 0..n |-> at[e]]
            = [e \in 0..n |-> IF e = 0 THEN Root ELSE Walk(at[e - 1], path[e])]
      BY <2>1
    <2> QED BY <1>2, <2>2 DEF IsWalk
  <1> QED BY <1>1, <1>2

\* Every path can be walked: the recursion of Resolve is a definition.
LEMMA WalkExists ==
  ASSUME NEW path, NEW n \in Nat
  PROVE  \E at : IsWalk(at, path, n)
  <1> DEFINE B == {k \in Nat : ~\E at : IsWalk(at, path, k)}
  <1> SUFFICES ASSUME B # {} PROVE FALSE
    OBVIOUS
  <1>1. PICK m \in B : \A k \in B : m <= k
    <2>1. B \in SUBSET Nat
      OBVIOUS
    <2> HIDE DEF B
    <2> QED BY <2>1, LeastNumber
  <1>2. m \in Nat /\ ~\E at : IsWalk(at, path, m)
    BY <1>1
  <1>3. m # 0
    <2> DEFINE a == [e \in 0..0 |-> Root]
    <2>1. a = [e \in 0..0 |-> a[e]] /\ a[0] = Root
      OBVIOUS
    <2> HIDE DEF a
    <2>2. 0 \in Nat /\ \A e \in 1..0 : a[e] = Walk(a[e - 1], path[e])
      OBVIOUS
    <2>3. IsWalk(a, path, 0)
      BY <2>1, <2>2, WalkSteps
    <2> QED BY <1>2, <2>3
  <1>4. m - 1 \in Nat /\ m - 1 \notin B
    BY <1>1, <1>2, <1>3
  <1>5. PICK b : IsWalk(b, path, m - 1)
    BY <1>4
  <1>6. /\ b[0] = Root
        /\ \A e \in 1..(m - 1) : b[e] = Walk(b[e - 1], path[e])
    BY <1>4, <1>5, WalkSteps
  <1> DEFINE a == [e \in 0..m |-> IF e = m THEN Walk(b[m - 1], path[m]) ELSE b[e]]
  <1>7. \A e \in 0..m : a[e] = IF e = m THEN Walk(b[m - 1], path[m]) ELSE b[e]
    OBVIOUS
  <1>8. a = [e \in 0..m |-> a[e]]
    OBVIOUS
  <1> HIDE DEF a
  <1>9. a[0] = Root
    BY <1>2, <1>3, <1>6, <1>7
  <1>10. ASSUME NEW e \in 1..m PROVE a[e] = Walk(a[e - 1], path[e])
    <2>1. e - 1 \in 0..m /\ e - 1 # m /\ e \in 0..m
      BY <1>2
    <2>2. a[e - 1] = b[e - 1]
      BY <1>7, <2>1
    <2>3. CASE e = m
      BY <1>7, <2>1, <2>2, <2>3
    <2>4. CASE e # m
      <3>1. e \in 1..(m - 1)
        BY <1>2, <2>4
      <3> QED BY <1>6, <1>7, <2>1, <2>2, <2>4, <3>1
    <2> QED BY <2>3, <2>4
  <1>11. IsWalk(a, path, m)
    BY <1>2, <1>8, <1>9, <1>10, WalkSteps
  <1> QED BY <1>2, <1>11

\* Paths that begin alike lead through the same directories.
LEMMA WalkUnique ==
  ASSUME NEW n \in Nat, NEW m \in Nat, n <= m, NEW p, NEW q,
         \A e \in 1..n : p[e] = q[e],
         NEW a, NEW b, IsWalk(a, p, n), IsWalk(b, q, m)
  PROVE  \A e \in 0..n : a[e] = b[e]
  <1> DEFINE B == {e \in 0..n : a[e] # b[e]}
  <1> SUFFICES ASSUME B # {} PROVE FALSE
    OBVIOUS
  <1>1. /\ a[0] = Root /\ \A e \in 1..n : a[e] = Walk(a[e - 1], p[e])
        /\ b[0] = Root /\ \A e \in 1..m : b[e] = Walk(b[e - 1], q[e])
    BY WalkSteps
  <1>2. PICK k \in B : \A e \in B : k <= e
    <2>1. B \in SUBSET Nat
      OBVIOUS
    <2> HIDE DEF B
    <2> QED BY <2>1, LeastNumber
  <1>3. k \in 0..n /\ a[k] # b[k] /\ k # 0
    BY <1>1, <1>2
  <1>4. k \in 1..n /\ k \in 1..m /\ k - 1 \in 0..n /\ k - 1 \notin B
    BY <1>2, <1>3
  <1>5. a[k - 1] = b[k - 1]
    BY <1>4
  <1> QED BY <1>1, <1>3, <1>4, <1>5

\* Resolve is the end of the walk.
LEMMA ResolveWalk ==
  ASSUME NEW path \in Seq(Names)
  PROVE  \E at : IsWalk(at, path, Len(path)) /\ Resolve(path) = at[Len(path)]
  <1> DEFINE at == CHOOSE at : at = [e \in 0..Len(path) |->
                                       IF e = 0 THEN Root ELSE Walk(at[e - 1], path[e])]
  <1>1. Resolve(path) = at[Len(path)]
    BY DEF Resolve
  <1>2. \E f : f = [e \in 0..Len(path) |-> IF e = 0 THEN Root ELSE Walk(f[e - 1], path[e])]
    <2>1. Len(path) \in Nat
      OBVIOUS
    <2> QED BY <2>1, WalkExists, Zenon DEF IsWalk
  <1>3. IsWalk(at, path, Len(path))
    BY <1>2, Zenon DEF IsWalk
  <1> QED BY <1>1, <1>3

\* One component more is one step more.
LEMMA ResolveAppend ==
  ASSUME NEW path \in Seq(Names), NEW name \in Names
  PROVE  Resolve(Append(path, name)) = Walk(Resolve(path), name)
  <1> DEFINE up == Append(path, name)
             n == Len(path)
  <1>1. /\ up \in Seq(Names) /\ Len(up) = n + 1 /\ up[n + 1] = name /\ n \in Nat
        /\ \A e \in 1..n : path[e] = up[e]
    OBVIOUS
  <1> HIDE DEF up
  <1>2. PICK a : IsWalk(a, path, n) /\ Resolve(path) = a[n]
    BY ResolveWalk
  <1>3. PICK b : IsWalk(b, up, n + 1) /\ Resolve(up) = b[n + 1]
    BY <1>1, ResolveWalk
  <1> HIDE DEF n
  <1>4. n + 1 \in Nat /\ n <= n + 1 /\ n \in 0..n /\ n + 1 \in 1..(n + 1) /\ (n + 1) - 1 = n
    BY <1>1
  <1>5. a[n] = b[n]
    BY <1>1, <1>2, <1>3, <1>4, WalkUnique
  <1>6. b[n + 1] = Walk(b[n], name)
    BY <1>1, <1>3, <1>4, WalkSteps
  <1> QED BY <1>2, <1>3, <1>5, <1>6 DEF up

\* The last component is looked up in some directory.
LEMMA ResolveLast ==
  ASSUME NEW path \in Seq(Names), path # <<>>
  PROVE  \E d : Resolve(path) = Walk(d, path[Len(path)])
  <1>1. Len(path) \in Nat /\ Len(path) \in 1..Len(path)
    OBVIOUS
  <1>2. PICK a : IsWalk(a, path, Len(path)) /\ Resolve(path) = a[Len(path)]
    BY ResolveWalk
  <1>3. a[Len(path)] = Walk(a[Len(path) - 1], path[Len(path)])
    BY <1>1, <1>2, WalkSteps
  <1> QED BY <1>2, <1>3

-----------------------------------------------------------------------------
(* Enter and then Backspace.                                               *)

\* qsort loses nothing: every entry of the set is in the sorted list.
LEMMA SortedAll ==
  ASSUME NEW S \in SUBSET Names, NEW f \in Sorted(S), NEW x \in S
  PROVE  \E e \in 1..Len(f) : f[e] = x
  <1>1. IsFiniteSet(S) /\ Cardinality(S) \in Nat
    <2>1. IsFiniteSet(Names)
      BY FileManagerAssumption, FS_AddElement DEF Names
    <2> QED BY <2>1, FS_Subset, FS_CardinalityType
  <1> DEFINE n == Cardinality(S)
  <1>2. f \in [1..n -> S] /\ \A e, j \in 1..n : e < j => f[e] # f[j]
    BY DEF Sorted
  <1>3. Len(f) = n
    BY SortedType
  <1>4. Cardinality(1..n) = n
    BY <1>1, FS_Interval
  <1> HIDE DEF n
  <1>5. n \in Nat
    BY <1>1 DEF n
  <1>6. \A e, j \in 1..n : f[e] = f[j] => e = j
    BY <1>2, <1>5
  <1>7. f \in Injection(1..n, S)
    BY <1>2, <1>6 DEF Injection, IsInjective
  <1>8. f \in Surjection(1..n, S)
    BY <1>1, <1>4, <1>7, FS_Injection DEF n
  <1>9. \E e \in 1..n : f[e] = x
    BY <1>8 DEF Surjection
  <1> QED BY <1>3, <1>9

\* A directory that fits into files[MAX_FILES] is listed whole.
LEMMA ListedWhole ==
  ASSUME NEW path \in Seq(Names), CanOpen(path), NEW n \in Entries(path),
         Cardinality(Entries(path)) < MAX_FILES, NEW f \in Lists(path)
  PROVE  \E e \in 1..Len(f) : f[e] = n
  <1> USE FileManagerAssumption
  <1> DEFINE E == Entries(path)
             W == UpEntry(path) \cup E
  <1>1. E \in SUBSET Nodes /\ UpEntry(path) \in SUBSET {".."} /\ W \in SUBSET Names
    BY DEF Entries, UpEntry, Names
  <1>2. IsFiniteSet(E) /\ Cardinality(E) \in Nat
    BY <1>1, FS_Subset, FS_CardinalityType
  <1>3. IsFiniteSet(W) /\ Cardinality(W) \in Nat /\ Cardinality(W) <= MAX_FILES
    <2>1. UpEntry(path) = {} \/ UpEntry(path) = {".."}
      BY DEF UpEntry
    <2>2. CASE UpEntry(path) = {}
      <3>1. W = E
        BY <2>2
      <3> HIDE DEF W
      <3> QED BY <1>2, <3>1
    <2>3. CASE UpEntry(path) = {".."}
      <3>1. W = E \cup {".."}
        BY <2>3
      <3> HIDE DEF W, E
      <3>2. IsFiniteSet(W) /\ Cardinality(W) \in {Cardinality(E), Cardinality(E) + 1}
        BY <1>2, <3>1, FS_AddElement
      <3>3. Cardinality(E) < MAX_FILES
        BY DEF E
      <3> QED BY <1>2, <3>2, <3>3
    <2> QED BY <2>1, <2>2, <2>3
  <1>4. PICK T \in SUBSET W :
          /\ f \in Sorted(T)
          /\ \/ T = W
             \/ T # W /\ Cardinality(T) = MAX_FILES
    BY DEF Lists
  <1>5. T = W
    <2> HIDE DEF W
    <2>1. Cardinality(T) <= Cardinality(W) /\ (Cardinality(W) = Cardinality(T) => W = T)
      BY <1>3, FS_Subset
    <2> QED BY <1>3, <1>4, <2>1
  <1>6. n \in W
    OBVIOUS
  <1> HIDE DEF W, E
  <1>7. T \in SUBSET Names /\ f \in Sorted(T) /\ n \in T
    BY <1>1, <1>4, <1>5, <1>6
  <1> QED BY <1>7, SortedAll

\* The jump to an entry that is in the list puts the cursor on it.
LEMMA FocusFinds ==
  ASSUME NEW p \in PanelType, NEW name, \E e \in 1..Len(p.files) : p.files[e] = name
  PROVE  LET q == focus_entry_by_name(p, name)
         IN  q.path = p.path /\ Current(q) = name
  <1> DEFINE found == {e \in 1..Len(p.files) : p.files[e] = name}
             e == CHOOSE k \in found : TRUE
             r == [p EXCEPT !.cursor = e - 1]
  <1>1. e \in found
    OBVIOUS
  <1>2. e \in 1..Len(p.files) /\ p.files[e] = name /\ Len(p.files) \in Nat
    BY <1>1, LenProperties DEF PanelType
  <1>3. focus_entry_by_name(p, name) = scroll_into_view(r)
    BY <1>1 DEF focus_entry_by_name
  <1> HIDE DEF found, e
  <1>4. r.path = p.path /\ r.files = p.files /\ r.cursor = e - 1
    BY DEF PanelType
  <1>5. r \in [path : {p.path}, files : {p.files}, cursor : {e - 1}, top : {p.top}, wild : {p.wild}]
    BY DEF PanelType
  <1> HIDE DEF r
  <1>6. /\ scroll_into_view(r).path = p.path /\ scroll_into_view(r).files = p.files
        /\ scroll_into_view(r).cursor = e - 1
    BY <1>5 DEF scroll_into_view
  <1>7. (e - 1) + 1 = e
    BY <1>2
  <1> QED BY <1>2, <1>3, <1>6, <1>7 DEF Current

\* The last component of a path that leads to a directory is a folder's own name or a
\* link to it, and the directory it is in can be searched.
LEMMA LastComponent ==
  ASSUME NEW path \in Seq(Names), path # <<>>, NEW n \in Dirs \cup Links,
         extract_last_component(path) = n, Resolve(path) # None
  PROVE  /\ parent[n] # None /\ mode[parent[n]] = "open"
         /\ n \in Dirs => Resolve(path) = n
         /\ n \in Links => Resolve(path) = Followed(n)
  <1> USE FileManagerAssumption
  <1>1. PICK e : Resolve(path) = Walk(e, path[Len(path)])
    BY ResolveLast
  <1>2. Walk(e, n) # None /\ Resolve(path) = Walk(e, n) /\ n # ".."
    BY <1>1 DEF extract_last_component
  <1>3. CASE n \in Dirs
    <2>1. Hop(e, n) # None /\ Resolve(path) = Hop(e, n)
      BY <1>2, <1>3 DEF Walk
    <2> QED BY <1>2, <1>3, <2>1 DEF Hop
  <1>4. CASE n \in Links
    BY <1>2, <1>4 DEF Walk
  <1> QED BY <1>3, <1>4

\* Going up leads to the directory above the one the panel shows, and to the folder the
\* path's last component names if it is there.
LEMMA BackToFolder ==
  ASSUME NEW p, PanelOK(p), NEW n \in Dirs \cup Links, p.path # <<>>,
         extract_last_component(p.path) = n,
         Resolve(p.path) # None, mode[Resolve(p.path)] = "open",
         Len(p.path) + 1 < MAX_PATH, Cardinality(Entries(Append(p.path, ".."))) < MAX_FILES,
         NEW q \in go_parent_keep_selection(p)
  PROVE  /\ Resolve(q.path) = Above(Resolve(p.path))
         /\ parent[n] = Above(Resolve(p.path)) => Current(q) = n
  <1> USE FileManagerAssumption
  <1> DEFINE up == Append(p.path, "..")
  <1>1. p.path \in Seq(Names) /\ Len(p.path) \in Nat /\ ".." \in Names /\ ".." \notin Links
    BY DEF PanelOK, CursorOK, PanelType, Names
  <1>2. /\ parent[n] # None /\ mode[parent[n]] = "open"
        /\ n \in Links => Followed(n) # None
    BY <1>1, LastComponent
  <1>3. Resolve(up) = Above(Resolve(p.path))
    <2>1. Resolve(up) = Walk(Resolve(p.path), "..")
      BY <1>1, ResolveAppend
    <2> QED BY <1>1, <2>1 DEF Walk, Hop, Above
  <1>4. up \in Seq(Names) /\ Len(up) = Len(p.path) + 1 /\ Len(up) <= MAX_PATH
    BY <1>1
  <1>5. join_path_safe(p.path, "..") # {} /\ Cardinality(Entries(up)) < MAX_FILES
    <2>1. Len(p.path) < MAX_PATH
      BY <1>1
    <2> QED BY <2>1 DEF join_path_safe
  <1>6. PICK r \in load_dir(up, p) : q = focus_entry_by_name(r, n)
    BY <1>5 DEF go_parent_keep_selection
  <1> HIDE DEF up
  <1>7. PanelOK(r) /\ r.path = up /\ r.files \in Lists(up)
    BY <1>4, <1>6, LoadOK DEF load_dir
  <1>8. r \in PanelType
    BY <1>7 DEF PanelOK, CursorOK
  <1>9. CASE ~\E e \in 1..Len(r.files) : r.files[e] = n
    <2>1. q = r
      BY <1>6, <1>9 DEF focus_entry_by_name
    <2>2. parent[n] # Above(Resolve(p.path))
      <3> SUFFICES ASSUME parent[n] = Above(Resolve(p.path)) PROVE FALSE
        OBVIOUS
      <3>1. CanOpen(up)
        BY <1>2, <1>3 DEF CanOpen
      <3>2. n \in Entries(up)
        BY <1>1, <1>2, <1>3, <1>4 DEF Entries, join_path_safe
      <3>3. up \in Seq(Names) /\ Cardinality(Entries(up)) < MAX_FILES /\ r.files \in Lists(up)
        BY <1>4, <1>5, <1>7
      <3> QED BY <1>9, <3>1, <3>2, <3>3, ListedWhole
    <2> QED BY <1>3, <1>7, <2>1, <2>2
  <1>10. CASE \E e \in 1..Len(r.files) : r.files[e] = n
    BY <1>3, <1>6, <1>7, <1>8, <1>10, FocusFinds
  <1> QED BY <1>9, <1>10

\* came is the last component of the active panel's path after every step.
LEMMA CameStep ==
  ASSUME PanelsInv, CameInv, [FilesNext]_filesVars
  PROVE  CameInv'
  <1> USE FileManagerAssumption
  <1>1. CASE came' = None
    BY <1>1 DEF CameInv
  <1>2. CASE UNCHANGED <<panels, active, came>>
    BY <1>2 DEF CameInv, ap
  <1>3. CASE KEY_ENTER
    <2> SUFFICES ASSUME came' # None PROVE CameInv'
      BY DEF CameInv
    <2>1. PICK q \in enter_directory_at_cursor(ap) : Put(q)
      BY <1>3 DEF KEY_ENTER
    <2>2. ap.files # <<>> /\ Current(ap) \in Dirs \cup Links /\ came' = Current(ap)
      BY <1>3 DEF KEY_ENTER
    <2>3. q.path = Append(ap.path, Current(ap))
      <3>1. q \in load_dir(Append(ap.path, Current(ap)), ap)
        BY <2>1, <2>2 DEF enter_directory_at_cursor, is_dir
      <3> QED BY <3>1 DEF load_dir
    <2>4. ap.path \in Seq(Names) /\ Current(ap) \in Names
      BY <2>2 DEF PanelsInv, PanelOK, CursorOK, PanelType, ap, Names
    <2>5. q.path # <<>> /\ extract_last_component(q.path) = Current(ap)
      <3>0. \A w \in Seq(Names), x \in Names : Append(w, x) # <<>> /\ Append(w, x)[Len(Append(w, x))] = x
        BY LastAppended
      <3>1. /\ Append(ap.path, Current(ap)) # <<>>
            /\ Append(ap.path, Current(ap))[Len(Append(ap.path, Current(ap)))] = Current(ap)
        BY <2>4, <3>0, Zenon
      <3> QED BY <2>3, <3>1 DEF extract_last_component
    <2>6. ap' = q
      BY <1>3, <2>1 DEF KEY_ENTER, Put, Draw, ap, PanelsInv
    <2> QED BY <2>2, <2>5, <2>6 DEF CameInv
  <1>4. CASE KEY_UP \/ KEY_DOWN \/ KEY_TAB \/ GoUp
    BY <1>1, <1>4 DEF KEY_UP, KEY_DOWN, KEY_TAB, GoUp
  <1>5. CASE Erase \/ Letter \/ KEY_RESIZE \/ Quit
    BY <1>2, <1>5 DEF Erase, Letter, KEY_RESIZE, Quit, Draw
  <1>6. ASSUME NEW n \in Nodes, MakeEntry(n) \/ RemoveEntry(n) PROVE CameInv'
    BY <1>1, <1>6 DEF MakeEntry, RemoveEntry, Outside
  <1>7. ASSUME NEW d \in Dirs, NEW m, ChangeMode(d, m) PROVE CameInv'
    BY <1>1, <1>7 DEF ChangeMode, Outside
  <1>8. CASE UNCHANGED filesVars
    BY <1>2, <1>8 DEF filesVars
  <1> QED BY <1>3, <1>4, <1>5, <1>6, <1>7, <1>8 DEF FilesNext

\* Enter and then Backspace lead back to the directory and put the cursor on the folder
\* that was entered, in every tree of directories, files and links to directories,
\* whatever the path goes through and whatever changed before, as long as list and path
\* are below their limits; out of a link they lead to the directory above the one it leads
\* to (my_mc_input.c:38-48).
THEOREM AlwaysReturns == FilesSpec => ReturnsToFolder
  <1> DEFINE Back == IF came \in Dirs THEN parent[came] ELSE Above(Followed(came))
             P == /\ GoUp /\ came # None
                  /\ Resolve(ap.path) # None /\ mode[Resolve(ap.path)] = "open"
                  /\ Len(ap.path) + 1 < MAX_PATH
                  /\ Cardinality(Entries(Append(ap.path, ".."))) < MAX_FILES
             A == P => LET q == panels'[active]
                           back == Back
                       IN  Resolve(q.path) = back /\ (parent[came] = back => Current(q) = came)
  <1>1. FilesInit => CameInv
    BY DEF FilesInit, CameInv
  <1>2. PanelsInv /\ CameInv /\ [FilesNext]_filesVars => CameInv'
    BY CameStep
  <1>3. ASSUME PanelsInv, CameInv PROVE A
    <2> SUFFICES ASSUME P
                 PROVE  LET q == panels'[active]
                        IN  Resolve(q.path) = Back /\ (parent[came] = Back => Current(q) = came)
      OBVIOUS
    <2>1. PICK q \in go_parent_keep_selection(ap) : Put(q)
      BY DEF GoUp
    <2>2. PanelOK(ap) /\ came \in Dirs \cup Links /\ ap.path # <<>>
          /\ extract_last_component(ap.path) = came
      BY <1>3 DEF PanelsInv, CameInv, ap
    <2>3. Resolve(q.path) = Above(Resolve(ap.path))
          /\ (parent[came] = Above(Resolve(ap.path)) => Current(q) = came)
      BY <2>1, <2>2, BackToFolder
    <2>4. Above(Resolve(ap.path)) = Back
      <3>1. ap.path \in Seq(Names)
        BY <2>2 DEF PanelOK, CursorOK, PanelType
      <3>2. /\ came \in Dirs => Resolve(ap.path) = came
            /\ came \in Links => Resolve(ap.path) = Followed(came)
        BY <2>2, <3>1, LastComponent
      <3> QED BY <2>2, <3>2, FileManagerAssumption DEF Above
    <2>5. panels'[active] = q
      BY <1>3, <2>1 DEF Put, Draw, PanelsInv
    <2> QED BY <2>3, <2>4, <2>5
  <1>4. PanelsInv /\ CameInv /\ [FilesNext]_filesVars => [A]_filesVars
    BY <1>3
  <1> QED BY <1>1, <1>2, <1>4, PanelsAlwaysInOrder, PTL DEF FilesSpec, ReturnsToFolder
=============================================================================
