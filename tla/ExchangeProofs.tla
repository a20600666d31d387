---------------------------- MODULE ExchangeProofs ----------------------------
(***************************************************************************)
(* Proofs about Exchange for every set of servers and clients and every    *)
(* number of troubles: a waiting server can be found, and an undisturbed   *)
(* session leaves nothing behind.                                          *)
(***************************************************************************)
EXTENDS Exchange, TLAPS

-------------------------------------------------------------------------------
(* What the programs are like, one by one. *)

\* Calls by which a process comes to hold what it has not made under a name.
Strange == {"attach", "socket", "sniff", "sendto", "connect", "open_read"}

ServerFits(S) ==
  /\ Len(S) \in Nat \ {0}
  /\ \A i \in 1..Len(S) :
       /\ S[i].op \notin Strange
       /\ S[i].op \in Makers \cup Removers => S[i].n \in Shared
       /\ S[i].op = "mkfifo" => pair = "fifo"
       /\ S[i].op \in {"receive", "wait", "accept"} =>
            pair # "fifo" /\ \A n \in Shared : HasAt(S, i, n)
       /\ S[i].op = "open_write" => pair = "fifo" /\ i = 3
       /\ S[i].op = "remove" => pair \in SysV /\ HasAt(S, i, S[i].n)
       /\ S[i].op = "unlink" => pair \notin SysV
  /\ pair \notin Inet \cup {"fifo"} => \A n \in Shared : RidAt(S, Len(S) + 1, n)

ClientFits(S) ==
  /\ Len(S) \in Nat \ {0}
  /\ \A i \in 1..Len(S) :
       /\ S[i].op \notin {"create", "mkfifo", "remove", "open_write"}
       /\ S[i].op = "bind" => pair = "unix_dgram" /\ S[i].n = "b"
       /\ S[i].op = "unlink" => \/ pair = "fifo" /\ i = 3 /\ S[i].n = "a"
                                \/ pair = "unix_dgram" /\ S[i].n = "b"
       /\ S[i].op = "open_read" => pair = "fifo" /\ i = 1
       /\ S[i].undo \subseteq {"b"} /\ (S[i].undo # {} => pair = "unix_dgram")
       /\ pair = "unix_dgram" => S[i].op \notin {"attach", "socket", "sniff", "connect"}
  /\ pair = "unix_dgram" => S[Len(S)].op = "unlink" /\ S[Len(S)].n = "b"
  /\ pair = "fifo" => Len(S) = 3 /\ S[3].op = "unlink"

\* Every server fits, whichever pair of programs is run.
LEMMA ServersFit ==
  ASSUME pair \in DOMAIN Programs, NEW p \in Servers
  PROVE  ServerFits(Script(p))
  <1> USE DEF ServerFits, HasAt, RidAt, Calls, Makers, Removers, Shared, Strange, SysV, Inet
  <1>1. CASE pair = "fifo"
    <2>1. Script(p) = fifo_server
      BY <1>1 DEF Script, Programs, Role
    <2> QED BY <1>1, <2>1
         DEF fifo_server, Try, Do
  <1>2. CASE pair = "posix_mq"
    <2>1. Script(p) = posix_mq_server
      BY <1>2 DEF Script, Programs, Role
    <2> QED BY <1>2, <2>1
         DEF posix_mq_server, Try, Do
  <1>3. CASE pair = "sysv_mq"
    <2>1. Script(p) = sysv_mq_server
      BY <1>3 DEF Script, Programs, Role
    <2> QED BY <1>3, <2>1
         DEF sysv_mq_server, Try, Do
  <1>4. CASE pair = "posix_shm"
    <2>1. Script(p) = posix_shm_server
      BY <1>4 DEF Script, Programs, Role
    <2> QED BY <1>4, <2>1
         DEF posix_shm_server, Try, Do
  <1>5. CASE pair = "sysv_shm"
    <2>1. Script(p) = sysv_shm_server
      BY <1>5 DEF Script, Programs, Role
    <2> QED BY <1>5, <2>1
         DEF sysv_shm_server, Try, Do
  <1>6. CASE pair = "unix_dgram"
    <2>1. Script(p) = unix_dgram_server
      BY <1>6 DEF Script, Programs, Role
    <2> QED BY <1>6, <2>1
         DEF unix_dgram_server, Try, Do
  <1>7. CASE pair = "unix_stream"
    <2>1. Script(p) = unix_stream_server
      BY <1>7 DEF Script, Programs, Role
    <2> QED BY <1>7, <2>1
         DEF unix_stream_server, Try, Do
  <1>8. CASE pair = "udp"
    <2>1. Script(p) = udp_server
      BY <1>8 DEF Script, Programs, Role
    <2> QED BY <1>8, <2>1
         DEF udp_server, Try, Do
  <1>9. CASE pair = "tcp"
    <2>1. Script(p) = tcp_server
      BY <1>9 DEF Script, Programs, Role
    <2> QED BY <1>9, <2>1
         DEF tcp_server, Try, Do
  <1>10. CASE pair = "broadcast"
    <2>1. Script(p) = broadcast_server
      BY <1>10 DEF Script, Programs, Role
    <2> QED BY <1>10, <2>1
         DEF broadcast_server, Try, Do
  <1>11. CASE pair = "multicast"
    <2>1. Script(p) = multicast_server
      BY <1>11 DEF Script, Programs, Role
    <2> QED BY <1>11, <2>1
         DEF multicast_server, Try, Do
  <1>12. CASE pair = "raw_udp"
    <2>1. Script(p) = raw_server
      BY <1>12 DEF Script, Programs, Role
    <2> QED BY <1>12, <2>1
         DEF raw_server, Try, Do
  <1>13. CASE pair = "raw_ip"
    <2>1. Script(p) = raw_server
      BY <1>13 DEF Script, Programs, Role
    <2> QED BY <1>13, <2>1
         DEF raw_server, Try, Do
  <1>14. CASE pair = "raw_eth"
    <2>1. Script(p) = raw_server
      BY <1>14 DEF Script, Programs, Role
    <2> QED BY <1>14, <2>1
         DEF raw_server, Try, Do
  <1> QED BY <1>1, <1>2, <1>3, <1>4, <1>5, <1>6, <1>7, <1>8, <1>9, <1>10, <1>11, <1>12,
             <1>13, <1>14 DEF Programs

\* Every client fits, whichever pair of programs is run.
LEMMA ClientsFit ==
  ASSUME pair \in DOMAIN Programs, NEW p \in Clients
  PROVE  ClientFits(Script(p))
  <1>0. p \notin Servers
    BY ExchangeAssumption
  <1>1. CASE pair = "fifo"
    <2>1. Script(p) = fifo_client
      BY <1>1, <1>0 DEF Script, Programs, Role
    <2> QED BY <1>1, <2>1
         DEF ClientFits, fifo_client, Try, Do
  <1>2. CASE pair = "posix_mq"
    <2>1. Script(p) = posix_mq_client
      BY <1>2, <1>0 DEF Script, Programs, Role
    <2> QED BY <1>2, <2>1
         DEF ClientFits, posix_mq_client, Try, Do
  <1>3. CASE pair = "sysv_mq"
    <2>1. Script(p) = sysv_mq_client
      BY <1>3, <1>0 DEF Script, Programs, Role
    <2> QED BY <1>3, <2>1
         DEF ClientFits, sysv_mq_client, Try, Do
  <1>4. CASE pair = "posix_shm"
    <2>1. Script(p) = posix_shm_client
      BY <1>4, <1>0 DEF Script, Programs, Role
    <2> QED BY <1>4, <2>1
         DEF ClientFits, posix_shm_client, Try, Do
  <1>5. CASE pair = "sysv_shm"
    <2>1. Script(p) = sysv_shm_client
      BY <1>5, <1>0 DEF Script, Programs, Role
    <2> QED BY <1>5, <2>1
         DEF ClientFits, sysv_shm_client, Try, Do
  <1>6. CASE pair = "unix_dgram"
    <2>1. Script(p) = unix_dgram_client
      BY <1>6, <1>0 DEF Script, Programs, Role
    <2> QED BY <1>6, <2>1
         DEF ClientFits, unix_dgram_client, Try, Do
  <1>7. CASE pair = "unix_stream"
    <2>1. Script(p) = unix_stream_client
      BY <1>7, <1>0 DEF Script, Programs, Role
    <2> QED BY <1>7, <2>1
         DEF ClientFits, unix_stream_client, Try, Do
  <1>8. CASE pair = "udp"
    <2>1. Script(p) = udp_client
      BY <1>8, <1>0 DEF Script, Programs, Role
    <2> QED BY <1>8, <2>1
         DEF ClientFits, udp_client, Try, Do
  <1>9. CASE pair = "tcp"
    <2>1. Script(p) = tcp_client
      BY <1>9, <1>0 DEF Script, Programs, Role
    <2> QED BY <1>9, <2>1
         DEF ClientFits, tcp_client, Try, Do
  <1>10. CASE pair = "broadcast"
    <2>1. Script(p) = broadcast_client
      BY <1>10, <1>0 DEF Script, Programs, Role
    <2> QED BY <1>10, <2>1
         DEF ClientFits, broadcast_client, Try, Do
  <1>11. CASE pair = "multicast"
    <2>1. Script(p) = multicast_client
      BY <1>11, <1>0 DEF Script, Programs, Role
    <2> QED BY <1>11, <2>1
         DEF ClientFits, multicast_client, Try, Do
  <1>12. CASE pair = "raw_udp"
    <2>1. Script(p) = raw_udp_client
      BY <1>12, <1>0 DEF Script, Programs, Role
    <2> QED BY <1>12, <2>1
         DEF ClientFits, raw_udp_client, Try, Do
  <1>13. CASE pair = "raw_ip"
    <2>1. Script(p) = raw_ip_client
      BY <1>13, <1>0 DEF Script, Programs, Role
    <2> QED BY <1>13, <2>1
         DEF ClientFits, raw_ip_client, Try, Do
  <1>14. CASE pair = "raw_eth"
    <2>1. Script(p) = raw_eth_client
      BY <1>14, <1>0 DEF Script, Programs, Role
    <2> QED BY <1>14, <2>1
         DEF ClientFits, raw_eth_client, Try, Do
  <1> QED BY <1>1, <1>2, <1>3, <1>4, <1>5, <1>6, <1>7, <1>8, <1>9, <1>10, <1>11, <1>12,
             <1>13, <1>14 DEF Programs

\* How what a program has made and removed changes with the call it passes.
LEMMA PassCall ==
  ASSUME NEW S, Len(S) \in Nat, NEW i \in 1..Len(S), NEW n
  PROVE  /\ HasAt(S, i + 1, n) => \/ S[i].op \in Makers /\ S[i].n = n
                                  \/ HasAt(S, i, n) /\ ~(S[i].op \in Removers /\ S[i].n = n)
         /\ RidAt(S, i + 1, n) => \/ S[i].op \in Removers /\ S[i].n = n
                                  \/ RidAt(S, i, n) /\ ~(S[i].op \in Makers /\ S[i].n = n)
         /\ ~HasAt(S, 1, n) /\ ~RidAt(S, 1, n)
  <1>1. ASSUME NEW M, NEW R,
               NEW j \in Calls(S, i + 1, M, n), \A k \in Calls(S, i + 1, R, n) : k < j
        PROVE  \/ S[i].op \in M /\ S[i].n = n
               \/ /\ \E l \in Calls(S, i, M, n) : \A k \in Calls(S, i, R, n) : k < l
                  /\ ~(S[i].op \in R /\ S[i].n = n)
    <2>1. CASE j = i
      BY <2>1 DEF Calls
    <2>2. CASE j # i
      <3>1. j \in Calls(S, i, M, n) /\ j < i /\ j \in Int
        BY <1>1, <2>2 DEF Calls
      <3>2. \A k \in Calls(S, i, R, n) : k < j
        BY <1>1 DEF Calls
      <3>3. i \notin Calls(S, i + 1, R, n)
        BY <1>1, <3>1
      <3> QED BY <3>1, <3>2, <3>3 DEF Calls
    <2> QED BY <2>1, <2>2
  <1>2. ~HasAt(S, 1, n) /\ ~RidAt(S, 1, n)
    BY DEF HasAt, RidAt, Calls
  <1> QED BY <1>1, <1>2 DEF HasAt, RidAt

-------------------------------------------------------------------------------
(* The kinds of steps: all that the invariant sees of the calls. *)

\* The names of ns that process p takes back.
TakenBack(p, ns) ==
  link' = [n \in Names |-> IF pair \in SysV /\ link[n] \in {h[p][m] : m \in ns} THEN None
                           ELSE IF pair \notin SysV /\ n \in ns THEN None ELSE link[n]]

\* It fails or is killed.
Ends(p) ==
  /\ Die(p, "failed") \/ Die(p, "killed")
  /\ h' = h /\ (link' = link \/ TakenBack(p, Call(p).undo))

\* It passes a call that makes and removes nothing, and may come to hold an object.
Passes(p) ==
  /\ Call(p).op \notin Makers \cup Removers \cup {"open_read", "open_write"}
  /\ Advance({p}) /\ link' = link
  /\ DOMAIN h' = Procs /\ DOMAIN h'[p] = DOMAIN h[p]
  /\ \A q \in Procs \ {p} : h'[q] = h[q]
  /\ \A n \in Names : \/ h'[p][n] = h[p][n]
                      \/ Call(p).op \in Strange /\ h'[p][n] \in {link[n], <<p, n>>}
  /\ pair = "unix_dgram" /\ h'[p]["a"] # h[p]["a"] =>
       \/ Call(p).op \in Strange \ {"sendto"}
       \/ h'[p]["a"] = link["a"] /\ link["a"] # None /\ Live(link["a"][1])

\* It makes a name, or takes over what the name leads to.
Makes(p) ==
  LET n == Call(p).n
  IN  /\ Call(p).op \in Makers /\ Advance({p})
      /\ \E o \in {<<p, n>>, link[n]} \ {None} :
           /\ link' = [link EXCEPT ![n] = o]
           /\ IF Call(p).op = "mkfifo" THEN h' = h ELSE Hold(p, n, o)
           /\ Call(p).op # "create" => o = <<p, n>>

\* It removes a name, or the object it holds under it.
Removes(p) ==
  LET n == Call(p).n
  IN  /\ Call(p).op \in Removers /\ Advance({p}) /\ h' = h
      /\ \/ Call(p).op = "unlink" /\ link' = [link EXCEPT ![n] = None]
         \/ Call(p).op = "remove" /\ TakenBack(p, {n})

\* It opens a FIFO, and wakes those who sleep there.
Opens(p) ==
  LET n == Call(p).n
      others == Partners(p, n, link[n])
      sleeping == {q \in others : At(q, {"open_read", "open_write"})}
  IN  /\ Call(p).op \in {"open_read", "open_write"}
      /\ Held(p) = None /\ link[n] # None /\ Hold(p, n, link[n]) /\ link' = link
      /\ IF others = {} THEN UNCHANGED <<pc, st>> ELSE Advance({p} \cup sleeping)

Acts(p) ==
  /\ Live(p) /\ pair' = pair /\ calm' \in BOOLEAN /\ (calm' => calm)
  /\ Ends(p) \/ Passes(p) \/ Makes(p) \/ Removes(p) \/ Opens(p)

Rests ==
  /\ st' = st /\ pc' = pc /\ h' = h /\ link' = link /\ pair' = pair
  /\ calm' \in BOOLEAN /\ (calm' => calm)

\* What a removal does to the names.
LEMMA RemovalTakesBack ==
  ASSUME NEW p, NEW ns, Removal(p, ns)
  PROVE  TakenBack(p, ns)
  BY DEF Removal, TakenBack

\* A call that fails ends its process.
LEMMA FailEnds ==
  ASSUME NEW p, Fail(p)
  PROVE  Ends(p)
  BY RemovalTakesBack DEF Fail, Ends

\* A name that is made is one of the two, and what it then leads to is something.
LEMMA MadeName ==
  ASSUME RunInv, NEW p \in Procs, Live(p), Call(p).op \in Makers
  PROVE  <<p, Call(p).n>> # None
  <1>1. pair \in DOMAIN Programs /\ pc[p] \in 1..Len(Script(p))
    BY DEF RunInv
  <1>2. CASE p \in Servers
    BY <1>1, <1>2, ServersFit, ExchangeAssumption DEF ServerFits, Call, Shared, Procs
  <1>3. CASE p \in Clients
    BY <1>1, <1>3, ClientsFit, ExchangeAssumption DEF ClientFits, Call, Makers
  <1> QED BY <1>2, <1>3 DEF Procs

\* Every call is a step of one of these kinds.
LEMMA StepActs ==
  ASSUME RunInv, NEW p \in Procs, Step(p)
  PROVE  Acts(p)
  <1> DEFINE Frame == Live(p) /\ pair' = pair /\ calm' \in BOOLEAN /\ (calm' => calm)
  <1>0. DOMAIN h = Procs /\ DOMAIN h[p] = Names \cup {"conn"} /\ calm \in BOOLEAN
    BY DEF RunInv
  <1>1. CASE Unlink(p)
    <2>1. Frame
      BY <1>0, <1>1 DEF Unlink, At, History
    <2>2. Removes(p)
      BY <1>0, <1>1 DEF Unlink, At, Removes, Removers
    <2> QED BY <2>1, <2>2 DEF Acts
  <1>2. CASE Create(p)
    <2>1. Frame
      BY <1>0, <1>2 DEF Create, At, History
    <2>2. Makes(p)
      BY <1>0, <1>2, MadeName DEF Create, At, Makes, Makers
    <2> QED BY <2>1, <2>2 DEF Acts
  <1>3. CASE Bind(p)
    <2>1. Frame
      BY <1>0, <1>3 DEF Bind, At, History
    <2>2. Ends(p) \/ Makes(p)
      BY <1>0, <1>3, FailEnds, MadeName DEF Bind, At, Makes, Makers
    <2> QED BY <2>1, <2>2 DEF Acts
  <1>4. CASE Socket(p)
    <2>1. Frame
      BY <1>0, <1>4 DEF Socket, At, History
    <2>2. Passes(p)
      BY <1>0, <1>4 DEF Socket, At, Passes, Makers, Removers, Strange, Names, Hold
    <2> QED BY <2>1, <2>2 DEF Acts
  <1>5. CASE SetOption(p)
    <2>1. Frame
      BY <1>0, <1>5 DEF SetOption, At, History
    <2>2. Passes(p)
      BY <1>0, <1>5 DEF SetOption, At, Passes, Makers, Removers
    <2> QED BY <2>1, <2>2 DEF Acts
  <1>6. CASE Attach(p)
    <2>1. Frame
      BY <1>0, <1>6 DEF Attach, At, History
    <2>2. Ends(p) \/ Passes(p)
      BY <1>0, <1>6, FailEnds DEF Attach, At, Passes, Makers, Removers, Strange, Names, Hold
    <2> QED BY <2>1, <2>2 DEF Acts
  <1>7. CASE Shmat(p)
    <2>1. Frame
      BY <1>0, <1>7 DEF Shmat, At, History
    <2>2. Ends(p) \/ Passes(p)
      BY <1>0, <1>7, FailEnds DEF Shmat, At, Passes, Makers, Removers
    <2> QED BY <2>1, <2>2 DEF Acts
  <1>8. CASE MakeReady(p)
    <2>1. Frame
      BY <1>0, <1>8 DEF MakeReady, At, History
    <2>2. Passes(p)
      BY <1>0, <1>8 DEF MakeReady, At, Passes, Makers, Removers
    <2> QED BY <2>1, <2>2 DEF Acts
  <1>9. CASE Remove(p)
    <2>1. Frame
      BY <1>0, <1>9 DEF Remove, At, History
    <2>2. Removes(p)
      BY <1>0, <1>9, RemovalTakesBack DEF Remove, At, Removes, Removers
    <2> QED BY <2>1, <2>2 DEF Acts
  <1>10. CASE SemInit(p)
    <2>1. Frame
      BY <1>0, <1>10 DEF SemInit, At, History
    <2>2. Passes(p)
      BY <1>0, <1>10 DEF SemInit, At, Passes, Makers, Removers
    <2> QED BY <2>1, <2>2 DEF Acts
  <1>11. CASE SetAll(p)
    <2>1. Frame
      BY <1>0, <1>11 DEF SetAll, At, History
    <2>2. Passes(p)
      BY <1>0, <1>11 DEF SetAll, At, Passes, Makers, Removers
    <2> QED BY <2>1, <2>2 DEF Acts
  <1>12. CASE Memset(p)
    <2>1. Frame
      BY <1>0, <1>12 DEF Memset, At, History
    <2>2. Passes(p)
      BY <1>0, <1>12 DEF Memset, At, Passes, Makers, Removers
    <2> QED BY <2>1, <2>2 DEF Acts
  <1>13. CASE WriteText(p)
    <2>1. Frame
      BY <1>0, <1>13 DEF WriteText, At, History
    <2>2. Passes(p)
      BY <1>0, <1>13 DEF WriteText, At, Passes, Makers, Removers
    <2> QED BY <2>1, <2>2 DEF Acts
  <1>14. CASE PrintText(p)
    <2>1. Frame
      BY <1>0, <1>14 DEF PrintText, At, History
    <2>2. Passes(p)
      BY <1>0, <1>14 DEF PrintText, At, Passes, Makers, Removers
    <2> QED BY <2>1, <2>2 DEF Acts
  <1>15. CASE Post(p)
    <2>1. Frame
      BY <1>0, <1>15 DEF Post, At, History
    <2>2. Ends(p) \/ Passes(p)
      BY <1>0, <1>15, FailEnds DEF Post, At, Passes, Makers, Removers
    <2> QED BY <2>1, <2>2 DEF Acts
  <1>16. CASE Wait(p)
    <2>1. Frame
      BY <1>0, <1>16 DEF Wait, At
    <2>2. Ends(p) \/ Passes(p)
      BY <1>0, <1>16, FailEnds DEF Wait, At, Passes, Makers, Removers, Ends
    <2> QED BY <2>1, <2>2 DEF Acts
  <1>17. CASE SendMessage(p)
    <2>1. Frame
      BY <1>0, <1>17 DEF SendMessage, At, History
    <2>2. Ends(p) \/ Passes(p)
      BY <1>0, <1>17, FailEnds DEF SendMessage, At, Passes, Makers, Removers
    <2> QED BY <2>1, <2>2 DEF Acts
  <1>18. CASE Receive(p)
    <2>1. Frame
      BY <1>0, <1>18 DEF Receive, At, History
    <2>2. Ends(p) \/ Passes(p)
      BY <1>0, <1>18, FailEnds DEF Receive, At, Passes, Makers, Removers
    <2> QED BY <2>1, <2>2 DEF Acts
  <1>19. CASE SendTo(p)
    <2>1. Frame
      BY <1>0, <1>19 DEF SendTo, At, History
    <2>2. Ends(p) \/ Passes(p)
      BY <1>0, <1>19, FailEnds DEF SendTo, At, Passes, Makers, Removers, Strange, Names, Hold
    <2> QED BY <2>1, <2>2 DEF Acts
  <1>20. CASE Reply(p)
    <2>1. Frame
      BY <1>0, <1>20 DEF Reply, At, History
    <2>2. Ends(p) \/ Passes(p)
      BY <1>0, <1>20, FailEnds DEF Reply, At, Passes, Makers, Removers
    <2> QED BY <2>1, <2>2 DEF Acts
  <1>21. CASE OpenFifo(p)
    <2>1. Frame
      BY <1>0, <1>21 DEF OpenFifo, At, History
    <2>2. Ends(p) \/ Opens(p)
      BY <1>0, <1>21, FailEnds DEF OpenFifo, At, Opens
    <2> QED BY <2>1, <2>2 DEF Acts
  <1>22. CASE WriteFifo(p)
    <2>1. Frame
      BY <1>0, <1>22 DEF WriteFifo, At, History
    <2>2. Ends(p) \/ Passes(p)
      BY <1>0, <1>22 DEF WriteFifo, At, Passes, Makers, Removers, Ends
    <2> QED BY <2>1, <2>2 DEF Acts
  <1>23. CASE ReadFifo(p)
    <2>1. Frame
      BY <1>0, <1>23 DEF ReadFifo, At, History
    <2>2. Passes(p)
      BY <1>0, <1>23 DEF ReadFifo, At, Passes, Makers, Removers
    <2> QED BY <2>1, <2>2 DEF Acts
  <1>24. CASE Connect(p)
    <2>1. Frame
      BY <1>0, <1>24 DEF Connect, At, History
    <2>2. Ends(p) \/ Passes(p)
      BY <1>0, <1>24, FailEnds DEF Connect, At, Passes, Makers, Removers, Strange, Names, Hold
    <2> QED BY <2>1, <2>2 DEF Acts
  <1>25. CASE Accept(p)
    <2>1. Frame
      BY <1>0, <1>25 DEF Accept, At, History
    <2>2. Passes(p)
      BY <1>0, <1>25 DEF Accept, At, Passes, Makers, Removers, Names, Hold
    <2> QED BY <2>1, <2>2 DEF Acts
  <1>26. CASE WriteConn(p)
    <2>1. Frame
      BY <1>0, <1>26 DEF WriteConn, At, History
    <2>2. Ends(p) \/ Passes(p)
      BY <1>0, <1>26 DEF WriteConn, At, Passes, Makers, Removers, Ends
    <2> QED BY <2>1, <2>2 DEF Acts
  <1>27. CASE ReadConn(p)
    <2>1. Frame
      BY <1>0, <1>27 DEF ReadConn, At, History
    <2>2. Ends(p) \/ Passes(p)
      BY <1>0, <1>27, FailEnds DEF ReadConn, At, Passes, Makers, Removers
    <2> QED BY <2>1, <2>2 DEF Acts
  <1> QED BY <1>1, <1>2, <1>3, <1>4, <1>5, <1>6, <1>7, <1>8, <1>9, <1>10, <1>11, <1>12,
             <1>13, <1>14, <1>15, <1>16, <1>17, <1>18, <1>19, <1>20, <1>21, <1>22, <1>23,
             <1>24, <1>25, <1>26, <1>27 DEF Step

\* So every step is one of these kinds, the start of a process, or of no consequence.
LEMMA NextKinds ==
  ASSUME RunInv, [Next]_vars
  PROVE  \/ \E s \in Servers : StartServer(s)
         \/ \E c \in Clients : StartClient(c)
         \/ \E p \in Procs : Acts(p)
         \/ Rests
  <1>0. calm \in BOOLEAN
    BY DEF RunInv
  <1>1. ASSUME NEW p \in Procs, Kill(p) PROVE Acts(p)
    BY <1>1 DEF Kill, Trouble, Acts, Ends
  <1>2. ASSUME NEW p \in Procs, Fault(p) PROVE Acts(p)
    BY <1>2, FailEnds DEF Fault, Trouble, Acts
  <1>3. ASSUME NEW p \in Procs, Lose(p) PROVE Rests
    BY <1>3 DEF Lose, Trouble, Rests
  <1>4. CASE UNCHANGED vars
    BY <1>0, <1>4 DEF vars, Rests
  <1> QED BY <1>1, <1>2, <1>3, <1>4, StepActs DEF Next

\* A process at its call.
LEMMA ServerCall ==
  ASSUME RunInv, NEW s \in Servers, Live(s)
  PROVE  /\ Call(s).op \notin Strange
         /\ Call(s).op \in Makers \cup Removers => Call(s).n \in Shared
         /\ Call(s).op = "mkfifo" => pair = "fifo"
         /\ Call(s).op \in {"receive", "wait", "accept"} =>
              pair # "fifo" /\ \A n \in Shared : Has(s, n)
         /\ Call(s).op = "open_write" => pair = "fifo" /\ pc[s] = 3
         /\ Call(s).op = "remove" => pair \in SysV /\ Has(s, Call(s).n)
         /\ Call(s).op = "unlink" => pair \notin SysV
  BY ServersFit DEF ServerFits, RunInv, Call, Has, Procs

\* The same for a client.
LEMMA ClientCall ==
  ASSUME RunInv, NEW c \in Clients, Live(c)
  PROVE  /\ Call(c).op \notin {"create", "mkfifo", "remove", "open_write"}
         /\ Call(c).op = "bind" => pair = "unix_dgram" /\ Call(c).n = "b"
         /\ Call(c).op = "unlink" => \/ pair = "fifo" /\ pc[c] = 3 /\ Call(c).n = "a"
                                     \/ pair = "unix_dgram" /\ Call(c).n = "b"
         /\ Call(c).op = "open_read" => pair = "fifo" /\ pc[c] = 1
         /\ Call(c).undo \subseteq {"b"} /\ (Call(c).undo # {} => pair = "unix_dgram")
         /\ pair = "unix_dgram" => /\ Call(c).op \notin Strange \ {"sendto"}
                                   /\ pc[c] = Len(Script(c)) => Call(c).op = "unlink"
         /\ pair = "fifo" => /\ Len(Script(c)) = 3
                             /\ pc[c] = 3 => Call(c).op = "unlink"
  BY ClientsFit DEF ClientFits, RunInv, Call, Procs, Strange

\* The program stays the same while it runs.
LEMMA SameProgram ==
  ASSUME pair' = pair
  PROVE  /\ Shared' = Shared
         /\ \A q : Script(q)' = Script(q)
  BY DEF Shared, Script, Role

\* What a process has made and removed after a call, and while it does not move.
LEMMA HasNext ==
  ASSUME RunInv, pair' = pair, NEW p \in Procs, NEW n
  PROVE  /\ Live(p) /\ pc'[p] = pc[p] + 1 =>
              /\ Has(p, n)' => \/ Call(p).op \in Makers /\ Call(p).n = n
                               \/ Has(p, n) /\ ~(Call(p).op \in Removers /\ Call(p).n = n)
              /\ Rid(p, n)' => \/ Call(p).op \in Removers /\ Call(p).n = n
                               \/ Rid(p, n) /\ ~(Call(p).op \in Makers /\ Call(p).n = n)
         /\ pc'[p] = pc[p] => (Has(p, n)' => Has(p, n)) /\ (Rid(p, n)' => Rid(p, n))
         /\ pc'[p] = 1 => ~Has(p, n)' /\ ~Rid(p, n)'
  <1>1. Script(p)' = Script(p)
    BY SameProgram
  <1>2. pair \in DOMAIN Programs /\ Len(Script(p)) \in Nat \ {0}
    BY ServersFit, ClientsFit DEF RunInv, Procs, ServerFits, ClientFits
  <1>3. ASSUME Live(p), pc'[p] = pc[p] + 1
        PROVE  /\ Has(p, n)' => \/ Call(p).op \in Makers /\ Call(p).n = n
                                \/ Has(p, n) /\ ~(Call(p).op \in Removers /\ Call(p).n = n)
               /\ Rid(p, n)' => \/ Call(p).op \in Removers /\ Call(p).n = n
                                \/ Rid(p, n) /\ ~(Call(p).op \in Makers /\ Call(p).n = n)
    <2>1. pc[p] \in 1..Len(Script(p))
      BY <1>3 DEF RunInv
    <2> QED BY <1>1, <1>2, <1>3, <2>1, PassCall DEF Has, Rid, Call
  <1>4. ASSUME pc'[p] = pc[p]
        PROVE  (Has(p, n)' => Has(p, n)) /\ (Rid(p, n)' => Rid(p, n))
    BY <1>1, <1>4 DEF Has, Rid
  <1>5. ASSUME pc'[p] = 1
        PROVE  ~Has(p, n)' /\ ~Rid(p, n)'
    BY <1>1, <1>2, <1>5, PassCall DEF Has, Rid
  <1> QED BY <1>3, <1>4, <1>5

-------------------------------------------------------------------------------
(* What a step does to each process and each name. *)

\* Processes that advance.
LEMMA Advanced ==
  ASSUME RunInv, pair' = pair, NEW ps \in SUBSET {q \in Procs : Live(q)}, Advance(ps)
  PROVE  /\ st' \in [Procs -> {"off", "run", "ok", "failed", "killed"}] /\ pc' \in [Procs -> Nat]
         /\ \A q \in Procs \ ps : st'[q] = st[q] /\ pc'[q] = pc[q]
         /\ \A q \in ps : /\ pc'[q] = pc[q] + 1
                          /\ \/ st'[q] = "run" /\ pc'[q] \in 1..Len(Script(q))
                             \/ st'[q] = "ok" /\ pc[q] = Len(Script(q))
  <1>1. \A q \in Procs : pc[q] \in Nat /\ st[q] \in {"off", "run", "ok", "failed", "killed"}
    BY DEF RunInv
  <1>2. \A q \in ps : /\ q \in Procs /\ st[q] = "run" /\ pc[q] \in 1..Len(Script(q))
                      /\ Len(Script(q)) \in Nat
    BY ServersFit, ClientsFit DEF RunInv, Live, Procs, ServerFits, ClientFits
  <1>3. /\ pc' = [q \in Procs |-> IF q \in ps THEN pc[q] + 1 ELSE pc[q]]
        /\ st' = [q \in Procs |-> IF q \in ps /\ pc[q] = Len(Script(q)) THEN "ok" ELSE st[q]]
    BY DEF Advance
  <1> QED BY <1>1, <1>2, <1>3

\* A step of p moves p, and others only out of their sleep in open.
Moves(p) ==
  /\ st' \in [Procs -> {"off", "run", "ok", "failed", "killed"}] /\ pc' \in [Procs -> Nat]
  /\ \A q \in Procs :
       \/ st'[q] = st[q] /\ pc'[q] = pc[q]
       \/ q = p /\ Ends(p) /\ st'[p] \in {"failed", "killed"} /\ pc'[p] = pc[p]
       \/ /\ Live(q) /\ pc'[q] = pc[q] + 1
          /\ \/ st'[q] = "run" /\ pc'[q] \in 1..Len(Script(q))
             \/ st'[q] = "ok" /\ pc[q] = Len(Script(q))
          /\ \/ q = p
             \/ /\ Opens(p) /\ At(q, {"open_read", "open_write"})
                /\ q \in Partners(p, Call(p).n, link[Call(p).n])

\* So does every step.
LEMMA ActsMoves ==
  ASSUME RunInv, NEW p \in Procs, Acts(p)
  PROVE  /\ Moves(p)
         /\ Passes(p) \/ Makes(p) \/ Removes(p) => pc'[p] = pc[p] + 1
         /\ Opens(p) => \/ pc' = pc /\ st' = st /\ Partners(p, Call(p).n, link[Call(p).n]) = {}
                        \/ pc'[p] = pc[p] + 1 /\ Partners(p, Call(p).n, link[Call(p).n]) # {}
  <1>0. /\ pair' = pair /\ Live(p)
        /\ st \in [Procs -> {"off", "run", "ok", "failed", "killed"}] /\ pc \in [Procs -> Nat]
    BY DEF RunInv, Acts
  <1>1. ASSUME Ends(p) PROVE Moves(p)
    BY <1>0, <1>1 DEF Ends, Die, Moves
  <1>2. ASSUME Advance({p}) PROVE Moves(p) /\ pc'[p] = pc[p] + 1
    BY <1>0, <1>2, Advanced DEF Moves
  <1>3. ASSUME Opens(p)
        PROVE  /\ Moves(p)
               /\ \/ pc' = pc /\ st' = st /\ Partners(p, Call(p).n, link[Call(p).n]) = {}
                  \/ pc'[p] = pc[p] + 1 /\ Partners(p, Call(p).n, link[Call(p).n]) # {}
    <2> DEFINE n == Call(p).n
               others == Partners(p, n, link[n])
               sleeping == {q \in others : At(q, {"open_read", "open_write"})}
    <2>1. CASE others = {}
      BY <1>0, <1>3, <2>1 DEF Opens, Moves
    <2>2. CASE others # {}
      <3>1. {p} \cup sleeping \in SUBSET {q \in Procs : Live(q)}
        BY <1>0 DEF Partners
      <3>2. Advance({p} \cup sleeping)
        BY <1>3, <2>2 DEF Opens
      <3> QED BY <1>0, <1>3, <2>2, <3>1, <3>2, Advanced DEF Moves
    <2> QED BY <2>1, <2>2
  <1>4. Passes(p) \/ Makes(p) \/ Removes(p) => Advance({p})
    BY DEF Passes, Makes, Removes
  <1>5. Moves(p)
    BY <1>1, <1>2, <1>3, <1>4 DEF Acts
  <1> QED BY <1>2, <1>3, <1>4, <1>5

\* What a step of p makes p hold.
LEMMA ActsHolds ==
  ASSUME RunInv, NEW p \in Procs, Acts(p)
  PROVE  /\ DOMAIN h' = Procs /\ DOMAIN h'[p] = Names \cup {"conn"}
         /\ \A q \in Procs \ {p} : h'[q] = h[q]
         /\ \A n \in Names : \/ h'[p][n] = h[p][n]
                             \/ Passes(p) /\ Call(p).op \in Strange /\ h'[p][n] \in {link[n], <<p, n>>}
                             \/ Makes(p) /\ n = Call(p).n /\ h'[p][n] = link'[n]
                             \/ Opens(p) /\ n = Call(p).n /\ h'[p][n] = link[n]
  <1>0. DOMAIN h = Procs /\ DOMAIN h[p] = Names \cup {"conn"} /\ DOMAIN link = Names
    BY DEF RunInv
  <1>1. CASE Ends(p)
    BY <1>0, <1>1 DEF Ends
  <1>2. CASE Passes(p)
    BY <1>0, <1>2 DEF Passes
  <1>3. CASE Makes(p)
    <2>1. PICK o : /\ link' = [link EXCEPT ![Call(p).n] = o]
                   /\ h' = h \/ h' = [h EXCEPT ![p][Call(p).n] = o]
      BY <1>3 DEF Makes, Hold
    <2>2. /\ DOMAIN h' = Procs /\ DOMAIN h'[p] = Names \cup {"conn"}
          /\ \A q \in Procs \ {p} : h'[q] = h[q]
      BY <1>0, <2>1
    <2>3. ASSUME NEW n \in Names, h'[p][n] # h[p][n] PROVE n = Call(p).n /\ h'[p][n] = link'[n]
      BY <1>0, <2>1, <2>3
    <2> QED BY <1>3, <2>2, <2>3
  <1>4. CASE Removes(p)
    BY <1>0, <1>4 DEF Removes
  <1>5. CASE Opens(p)
    BY <1>0, <1>5 DEF Opens, Hold
  <1> QED BY <1>1, <1>2, <1>3, <1>4, <1>5 DEF Acts

\* What a step of p does to the names.
LEMMA ActsLinks ==
  ASSUME RunInv, NEW p \in Procs, Acts(p)
  PROVE  /\ DOMAIN link' = Names
         /\ \A n \in Names :
              \/ link'[n] = link[n]
              \/ /\ link'[n] = None
                 /\ \/ /\ Ends(p)
                       /\ \/ pair \in SysV /\ \E m \in Call(p).undo : link[n] = h[p][m]
                          \/ pair \notin SysV /\ n \in Call(p).undo
                    \/ Removes(p) /\ Call(p).op = "unlink" /\ n = Call(p).n
                    \/ /\ Removes(p) /\ Call(p).op = "remove"
                       /\ \/ pair \in SysV /\ link[n] = h[p][Call(p).n]
                          \/ pair \notin SysV /\ n = Call(p).n
              \/ Makes(p) /\ n = Call(p).n /\ link'[n] = <<p, n>>
  <1>0. DOMAIN link = Names
    BY DEF RunInv
  <1>1. CASE Ends(p)
    BY <1>0, <1>1 DEF Ends, TakenBack
  <1>2. CASE Passes(p)
    BY <1>0, <1>2 DEF Passes
  <1>3. CASE Makes(p)
    BY <1>0, <1>3 DEF Makes
  <1>4. CASE Removes(p)
    BY <1>0, <1>4 DEF Removes, TakenBack
  <1>5. CASE Opens(p)
    BY <1>0, <1>5 DEF Opens
  <1> QED BY <1>1, <1>2, <1>3, <1>4, <1>5 DEF Acts

\* In short: a step leaves a name, removes it or makes it.
LEMMA ActsNames ==
  ASSUME RunInv, NEW p \in Procs, Acts(p)
  PROVE  /\ DOMAIN link' = Names
         /\ \A n \in Names : \/ link'[n] \in {link[n], None}
                             \/ Makes(p) /\ Call(p).n = n /\ link'[n] = <<p, n>>
  BY ActsLinks

\* A name that is made leads to something, and what is removed is not there any more.
LEMMA MadeOrGone ==
  ASSUME RunInv, NEW p \in Procs, Acts(p), Call(p).n \in Names
  PROVE  /\ Makes(p) => /\ link'[Call(p).n] # None
                        /\ Call(p).op # "mkfifo" => h'[p][Call(p).n] = link'[Call(p).n]
         /\ Removes(p) => \/ link'[Call(p).n] = None
                          \/ /\ pair \in SysV /\ Call(p).op = "remove"
                             /\ link[Call(p).n] # h[p][Call(p).n]
  <1>0. /\ DOMAIN h = Procs /\ DOMAIN h[p] = Names \cup {"conn"} /\ DOMAIN link = Names
    BY DEF RunInv
  <1>1. CASE Makes(p)
    BY <1>0, <1>1 DEF Makes, Hold, Makers, Removes, Removers
  <1>2. CASE Removes(p)
    BY <1>0, <1>2 DEF Removes, TakenBack, Makers, Makes, Removers
  <1> QED BY <1>1, <1>2

-------------------------------------------------------------------------------
(* The invariant holds in every step, one part after the other. *)

\* Processes stay at their calls, and names lead to objects of their kind.
LEMMA RunActs ==
  ASSUME RunInv, NEW p \in Procs, Acts(p)
  PROVE  RunInv'
  <1>0. pair' = pair /\ calm' \in BOOLEAN /\ Live(p) /\ pair \in DOMAIN Programs
    BY DEF Acts, RunInv
  <1>1. \A q \in Procs : Script(q)' = Script(q)
    BY <1>0, SameProgram
  <1>2. /\ st' \in [Procs -> {"off", "run", "ok", "failed", "killed"}]
        /\ pc' \in [Procs -> Nat]
        /\ \A q \in Procs : /\ st'[q] = "off" => pc'[q] = 1
                            /\ st'[q] = "run" => Live(q) /\ pc'[q] \in 1..Len(Script(q))
                            /\ st'[q] = "ok" => pc'[q] = Len(Script(q)) + 1
    BY ActsMoves DEF Moves, RunInv, Live
  <1>3. \A r, s \in Servers : Live(r)' /\ Live(s)' => r = s
    BY <1>2 DEF Live, RunInv, Procs
  <1>5. DOMAIN link' = Names /\ \A n \in Names : link'[n] \in (Procs \X {n}) \cup {None}
    <2>1. \A n \in Names : link[n] \in (Procs \X {n}) \cup {None}
      BY DEF RunInv
    <2> QED BY <2>1, ActsNames
  <1>4. /\ DOMAIN h' = Procs /\ \A q \in Procs : DOMAIN h'[q] = Names \cup {"conn"}
        /\ \A q \in Procs, n \in Names : h'[q][n] \in (Procs \X {n}) \cup {None}
    <2>1. /\ \A n \in Names : link[n] \in (Procs \X {n}) \cup {None}
          /\ \A q \in Procs : DOMAIN h[q] = Names \cup {"conn"}
          /\ \A q \in Procs, n \in Names : h[q][n] \in (Procs \X {n}) \cup {None}
      BY DEF RunInv
    <2>2. \A n \in Names : h'[p][n] \in {h[p][n], link[n], link'[n], <<p, n>>}
      BY ActsHolds
    <2>3. \A n \in Names : h'[p][n] \in (Procs \X {n}) \cup {None}
      BY <1>5, <2>1, <2>2
    <2>4. /\ DOMAIN h' = Procs /\ DOMAIN h'[p] = Names \cup {"conn"}
          /\ \A q \in Procs \ {p} : h'[q] = h[q]
      BY ActsHolds
    <2> QED BY <2>1, <2>3, <2>4
  <1>6. link'["a"] \in (Servers \X {"a"}) \cup {None}
    <2>0. /\ link["a"] \in (Servers \X {"a"}) \cup {None}
          /\ link'["a"] \in {link["a"], None} \/ (Makes(p) /\ Call(p).n = "a" /\ link'["a"] = <<p, "a">>)
      BY ActsNames DEF RunInv, Names
    <2>1. CASE p \in Servers
      BY <2>0, <2>1
    <2>2. CASE p \in Clients
      <3>1. ~(Makes(p) /\ Call(p).n = "a")
        BY <1>0, <2>2, ClientCall DEF Makes, Makers
      <3> QED BY <2>0, <3>1
    <2> QED BY <2>1, <2>2 DEF Procs
  <1> QED BY <1>0, <1>1, <1>2, <1>3, <1>4, <1>5, <1>6 DEF RunInv, Live

\* So they do when one is started.
LEMMA RunStart ==
  ASSUME RunInv, (\E s \in Servers : StartServer(s)) \/ (\E c \in Clients : StartClient(c))
  PROVE  RunInv'
  <1>0. pair' = pair /\ pc' = pc /\ link' = link
    BY DEF StartServer, StartClient
  <1>1. \A q \in Procs : Script(q)' = Script(q) /\ Len(Script(q)) \in Nat \ {0}
    BY <1>0, SameProgram, ServersFit, ClientsFit DEF RunInv, Procs, ServerFits, ClientFits
  <1>2. calm' \in BOOLEAN
    BY DEF StartServer, StartClient
  <1>3. \E p \in Procs : /\ st[p] = "off" /\ st' = [st EXCEPT ![p] = "run"]
                         /\ p \in Servers => \A r \in Servers : ~Live(r)
    BY ExchangeAssumption DEF StartServer, StartClient, Procs
  <1>4. /\ DOMAIN h' = Procs /\ \A q \in Procs : DOMAIN h'[q] = Names \cup {"conn"}
        /\ \A q \in Procs, n \in Names : h'[q][n] \in (Procs \X {n}) \cup {None}
    <2>1. h' = h \/ h' = [q \in Procs |-> [n \in Names \cup {"conn"} |-> None]]
      BY DEF StartServer, StartClient
    <2> QED BY <2>1 DEF RunInv
  <1>5. /\ st' \in [Procs -> {"off", "run", "ok", "failed", "killed"}]
        /\ \A q \in Procs : /\ st'[q] = "off" => pc'[q] = 1
                            /\ st'[q] = "run" => pc'[q] \in 1..Len(Script(q))
                            /\ st'[q] = "ok" => pc'[q] = Len(Script(q)) + 1
        /\ \A r, s \in Servers : st'[r] = "run" /\ st'[s] = "run" => r = s
    <2>1. /\ st \in [Procs -> {"off", "run", "ok", "failed", "killed"}]
          /\ \A q \in Procs : /\ st[q] = "off" => pc[q] = 1
                              /\ st[q] = "run" => pc[q] \in 1..Len(Script(q))
                              /\ st[q] = "ok" => pc[q] = Len(Script(q)) + 1
          /\ \A r, s \in Servers : st[r] = "run" /\ st[s] = "run" => r = s
      BY DEF RunInv, Live
    <2> QED BY <1>0, <1>1, <1>3, <2>1 DEF Live, Procs
  <1> QED BY <1>0, <1>1, <1>2, <1>4, <1>5 DEF RunInv, Live

\* The server that is started has done nothing yet, and an undisturbed session
\* begins with nothing held.
LEMMA ServerStarts ==
  ASSUME RunInv, NEW s \in Servers, StartServer(s)
  PROVE  /\ pair' = pair /\ pc' = pc /\ link' = link /\ st[s] = "off" /\ pc'[s] = 1
         /\ \A q \in Procs \ {s} : st'[q] = st[q]
         /\ \A q \in Servers : Live(q)' => q = s
         /\ calm' => \A q \in Procs : (Live(q)' => q = s) /\ \A n \in Names : h'[q][n] = None
         /\ \A q \in Procs : h'[q] = h[q] \/ \A n \in Names : h'[q][n] = None
  <1>1. /\ pair' = pair /\ pc' = pc /\ link' = link /\ st[s] = "off"
        /\ st' = [st EXCEPT ![s] = "run"] /\ \A r \in Servers : ~Live(r)
    BY DEF StartServer
  <1>2. /\ Idle => h' = [q \in Procs |-> [n \in Names \cup {"conn"} |-> None]]
        /\ ~Idle => h' = h
        /\ calm' => Idle
    BY DEF StartServer
  <1>3. st \in [Procs -> {"off", "run", "ok", "failed", "killed"}] /\ pc[s] = 1 /\ s \in Procs
    BY <1>1 DEF RunInv, Procs
  <1>4. /\ \A q \in Procs \ {s} : st'[q] = st[q]
        /\ \A q \in Servers : Live(q)' => q = s
    BY <1>1, <1>3 DEF Live, Procs
  <1>5. calm' => \A q \in Procs : (Live(q)' => q = s) /\ \A n \in Names : h'[q][n] = None
    BY <1>2, <1>4 DEF Idle, Live
  <1>6. \A q \in Procs : h'[q] = h[q] \/ \A n \in Names : h'[q][n] = None
    BY <1>2
  <1> QED BY <1>1, <1>3, <1>4, <1>5, <1>6

\* Outside the FIFO a client leaves the server's names alone.
LEMMA ClientKeeps ==
  ASSUME RunInv, pair # "fifo", NEW c \in Clients, Acts(c)
  PROVE  ~Opens(c) /\ \A n \in Shared : link'[n] = link[n]
  <1>0. Live(c) /\ c \in Procs /\ Shared \subseteq Names
        /\ ("b" \in Shared => pair # "unix_dgram")
    BY DEF Acts, Procs, Shared, Names
  <1>1. ~Opens(c)
    BY <1>0, ClientCall DEF Opens
  <1>2. ASSUME NEW n \in Shared PROVE link'[n] = link[n]
    <2>1. ~(Makes(c) /\ Call(c).n = n)
      BY <1>0, ClientCall DEF Makes, Makers
    <2>2. ~(Removes(c) /\ Call(c).op = "unlink" /\ Call(c).n = n) /\ Call(c).op # "remove"
      BY <1>0, ClientCall
    <2>3. n \notin Call(c).undo /\ (pair \in SysV => Call(c).undo = {})
      BY <1>0, ClientCall DEF SysV
    <2> QED BY <1>0, <2>1, <2>2, <2>3, ActsLinks
  <1> QED BY <1>1, <1>2

\* Nobody but the server itself takes its names away.
LEMMA KeepActs ==
  ASSUME RunInv, KeepInv, NEW p \in Procs, Acts(p)
  PROVE  KeepInv'
  <1>0. /\ pair' = pair /\ Live(p) /\ Shared' = Shared /\ Shared \subseteq Names
        /\ DOMAIN h = Procs /\ DOMAIN h[p] = Names \cup {"conn"} /\ DOMAIN link = Names
    BY SameProgram DEF Acts, RunInv, Shared, Names
  <1> SUFFICES ASSUME pair # "fifo", NEW s \in Servers, Live(s)', NEW n \in Shared, Has(s, n)'
               PROVE  link'[n] = h'[s][n] /\ link'[n] # None
    BY <1>0 DEF KeepInv
  <1>1. Live(s) /\ s \in Procs /\ n \in Names
    BY <1>0, ActsMoves DEF Moves, Live, Procs
  <1>2. Has(s, n) => link[n] = h[s][n] /\ link[n] # None
    BY <1>1 DEF KeepInv
  <1>3. CASE p = s
    <2>0. Call(s).op \in Makers \cup Removers => Call(s).n \in Names
      BY <1>0, <1>1, ServerCall
    <2>1. ~Ends(p) /\ ~Opens(p)
      <3>1. ~Ends(p)
        BY <1>0, <1>3 DEF Ends, Die, Live, RunInv
      <3>2. ~Opens(p)
        BY <1>1, <1>3, ServerCall DEF Opens, Strange
      <3> QED BY <3>1, <3>2
    <2>2. pc'[s] = pc[s] + 1
      BY <1>3, <2>1, ActsMoves DEF Acts
    <2>3. \/ Call(s).op \in Makers /\ Call(s).n = n
          \/ Has(s, n) /\ ~(Call(s).op \in Removers /\ Call(s).n = n)
      BY <1>0, <1>1, <2>2, HasNext
    <2>4. CASE Passes(p)
      BY <1>1, <1>2, <1>3, <2>3, <2>4, ServerCall DEF Passes
    <2>5. CASE Makes(p)
      <3>1. CASE Call(s).n = n
        BY <1>1, <1>3, <2>5, <3>1, MadeOrGone, ServerCall
      <3>2. CASE Call(s).n # n
        BY <1>0, <1>1, <1>2, <1>3, <2>3, <2>5, <3>2 DEF Makes, Hold
      <3> QED BY <3>1, <3>2
    <2>6. CASE Removes(p)
      <3>1. Call(s).n # n /\ link[n] = h[s][n] /\ link[n] # None /\ h' = h
        BY <1>2, <1>3, <2>3, <2>6 DEF Removes, Makers, Removers
      <3>2. Call(s).n \in Names
        BY <1>3, <2>0, <2>6 DEF Removes
      <3>3. link[n] # h[s][Call(s).n]
        BY <1>1, <3>1, <3>2 DEF RunInv
      <3> QED BY <1>1, <1>3, <2>1, <2>6, <3>1, <3>3, ActsLinks DEF Removes, Makes, Makers,
                 Removers
    <2> QED BY <2>1, <2>4, <2>5, <2>6 DEF Acts
  <1>4. CASE p # s
    <2>1. p \in Clients
      BY <1>0, <1>1, <1>4 DEF RunInv, Procs
    <2>2. ~Opens(p) /\ link'[n] = link[n]
      BY <2>1, ClientKeeps
    <2>3. h'[s] = h[s] /\ pc'[s] = pc[s]
      BY <1>1, <1>4, <2>2, ActsHolds, ActsMoves DEF Moves
    <2> QED BY <1>0, <1>1, <1>2, <2>2, <2>3, HasNext
  <1> QED BY <1>3, <1>4

\* A server that is started has no names yet.
LEMMA KeepStart ==
  ASSUME RunInv, KeepInv, (\E s \in Servers : StartServer(s)) \/ (\E c \in Clients : StartClient(c))
  PROVE  KeepInv'
  <1>1. ASSUME NEW s \in Servers, StartServer(s) PROVE KeepInv'
    <2>1. pair' = pair /\ pc'[s] = 1 /\ s \in Procs /\ \A q \in Servers : Live(q)' => q = s
      BY <1>1, ServerStarts DEF Procs
    <2>2. \A n : ~Has(s, n)'
      BY <2>1, HasNext
    <2> QED BY <2>1, <2>2 DEF KeepInv
  <1>2. ASSUME NEW c \in Clients, StartClient(c) PROVE KeepInv'
    <2>1. /\ pair' = pair /\ pc' = pc /\ h' = h /\ link' = link /\ Shared' = Shared
          /\ st' = [st EXCEPT ![c] = "run"]
      BY <1>2, SameProgram DEF StartClient
    <2>2. \A s \in Servers : s \in Procs /\ (Live(s)' => Live(s))
      BY <2>1, ExchangeAssumption DEF Live, RunInv, Procs
    <2>3. \A s \in Servers : \A n : Has(s, n)' => Has(s, n)
      BY <2>1, <2>2, HasNext
    <2> QED BY <2>1, <2>2, <2>3 DEF KeepInv
  <1> QED BY <1>1, <1>2

\* Only running processes come to hold and to make something.
LEMMA SessionActs ==
  ASSUME RunInv, SessionInv, NEW p \in Procs, Acts(p)
  PROVE  SessionInv'
  <1>0. Live(p) /\ calm' \in BOOLEAN /\ (calm' => calm) /\ "a" \in Names
    BY DEF Acts, Names
  <1>1. \A q \in Procs : (Live(q)' => Live(q)) /\ (st'[q] = "off" => st[q] = "off")
    BY ActsMoves DEF Moves, Live
  <1>2. \A q \in Procs : h'[q]["a"] = h[q]["a"] \/ q = p
    BY ActsHolds
  <1>3. link'["a"] \in {link["a"], None, <<p, "a">>}
    BY <1>0, ActsNames
  <1>4. \A q \in Procs : (Live(q) \/ h[q]["a"] # None)' => Live(q) \/ h[q]["a"] # None
    BY <1>0, <1>1, <1>2
  <1>5. \A q \in Procs : st[q] = "off" => q # p
    BY <1>0 DEF Live
  <1>6. \A q \in Procs : st'[q] = "off" => h'[q]["a"] = None /\ link'["a"] # <<q, "a">>
    <2>1. \A q \in Procs : <<q, "a">> # None
      BY ExchangeAssumption DEF Procs
    <2>2. \A q \in Procs : st[q] = "off" => h[q]["a"] = None /\ link["a"] # <<q, "a">>
      BY DEF SessionInv
    <2>3. ASSUME NEW q \in Procs, st'[q] = "off"
          PROVE  h'[q]["a"] = None /\ link'["a"] # <<q, "a">>
      <3>1. st[q] = "off" /\ q # p
        BY <1>1, <1>5, <2>3
      <3>2. h'[q]["a"] = None
        BY <1>2, <2>2, <3>1
      <3>3. <<p, "a">> # <<q, "a">>
        BY <3>1
      <3> QED BY <1>3, <2>1, <2>2, <3>1, <3>2, <3>3
    <2> QED BY <2>3
  <1> QED BY <1>0, <1>4, <1>6 DEF SessionInv, Procs

\* The server of a new session is alone.
LEMMA SessionStart ==
  ASSUME RunInv, SessionInv,
         (\E s \in Servers : StartServer(s)) \/ (\E c \in Clients : StartClient(c))
  PROVE  SessionInv'
  <1>1. ASSUME NEW s \in Servers, StartServer(s) PROVE SessionInv'
    <2>1. \A q \in Procs : st'[q] = "off" => st[q] = "off"
      BY <1>1, ServerStarts
    <2>2. link' = link /\ \A q \in Procs : h[q]["a"] = None => h'[q]["a"] = None
      BY <1>1, ServerStarts DEF Names
    <2>3. calm' => \A q \in Servers : (Live(q)' => q = s) /\ h'[q]["a"] = None
      BY <1>1, ServerStarts DEF Names, Procs
    <2> QED BY <2>1, <2>2, <2>3 DEF SessionInv
  <1>2. ASSUME NEW c \in Clients, StartClient(c) PROVE SessionInv'
    <2>1. h' = h /\ link' = link /\ st' = [st EXCEPT ![c] = "run"] /\ (calm' => calm)
      BY <1>2 DEF StartClient
    <2>2. \A q \in Procs : /\ st'[q] = "off" => st[q] = "off"
                           /\ q \in Servers => (Live(q)' => Live(q))
      BY <2>1, ExchangeAssumption DEF Live, RunInv
    <2> QED BY <2>1, <2>2 DEF SessionInv, Procs
  <1> QED BY <1>1, <1>2

\* In an undisturbed session nobody brings back what the server has removed.
LEMMA RidActs ==
  ASSUME RunInv, KeepInv, SessionInv, RidInv, NEW p \in Procs, Acts(p)
  PROVE  RidInv'
  <1>0. /\ pair' = pair /\ Live(p) /\ Shared' = Shared /\ Shared \subseteq Names
        /\ calm' \in BOOLEAN /\ (calm' => calm) /\ Names = {"a", "b"}
        /\ DOMAIN h = Procs /\ DOMAIN h[p] = Names \cup {"conn"} /\ DOMAIN link = Names
    BY SameProgram DEF Acts, RunInv, Shared, Names
  <1>1. ASSUME "b" \notin Shared, pair # "unix_dgram" PROVE link'["b"] = None
    <2>1. link["b"] = None
      BY <1>1 DEF RidInv
    <2>2. ~(Makes(p) /\ Call(p).n = "b")
      BY <1>0, <1>1, ServerCall, ClientCall DEF Makes, Makers, Procs
    <2> QED BY <1>0, <2>1, <2>2, ActsNames
  <1>2. ASSUME calm', pair # "fifo", pair \notin Inet, NEW s \in Servers,
               (Live(s) \/ (st[s] = "ok" /\ h[s]["a"] # None))',
               NEW n \in Shared, Rid(s, n)'
        PROVE  link'[n] = None
    <2>0. s \in Procs /\ n \in Names /\ calm
      BY <1>0, <1>2 DEF Procs
    <2>1. CASE p = s
      <3>0. Call(s).op \in Makers \cup Removers => Call(s).n \in Names
        BY <1>0, <2>1, ServerCall
      <3>1. Rid(s, n) => link[n] = None
        BY <1>0, <1>2, <2>0, <2>1 DEF RidInv
      <3>2. ~Ends(p) /\ ~Opens(p)
        <4>1. ~Ends(p)
          BY <1>0, <1>2, <2>1 DEF Ends, Die, Live, RunInv
        <4>2. ~Opens(p)
          BY <1>0, <1>2, <2>1, ServerCall DEF Opens, Strange
        <4> QED BY <4>1, <4>2
      <3>3. pc'[s] = pc[s] + 1
        BY <2>1, <3>2, ActsMoves DEF Acts
      <3>4. \/ Call(s).op \in Removers /\ Call(s).n = n
            \/ Rid(s, n) /\ ~(Call(s).op \in Makers /\ Call(s).n = n)
        BY <1>0, <1>2, <2>0, <2>1, <3>3, HasNext
      <3>5. CASE Rid(s, n) /\ ~(Call(s).op \in Makers /\ Call(s).n = n)
        <4>1. ~(Makes(p) /\ Call(p).n = n)
          BY <2>1, <3>5 DEF Makes
        <4> QED BY <2>0, <3>1, <3>5, <4>1, ActsNames
      <3>6. CASE Call(s).op \in Removers /\ Call(s).n = n
        <4>1. Removes(p)
          BY <2>1, <3>2, <3>6 DEF Acts, Passes, Makes, Makers, Removers
        <4>2. Call(s).op = "remove" => link[n] = h[s][n]
          BY <1>0, <1>2, <2>1, <3>6, ServerCall DEF KeepInv
        <4> QED BY <2>0, <2>1, <3>6, <4>1, <4>2, MadeOrGone
      <3> QED BY <3>4, <3>5, <3>6
    <2>2. CASE p # s
      <3>1. p \notin Servers
        <4>1. Live(s) \/ h[s]["a"] # None
          BY <1>0, <1>2, <2>0, <2>2, ActsMoves, ActsHolds DEF Moves, Live
        <4> QED BY <1>0, <2>0, <2>2, <4>1 DEF SessionInv
      <3>2. p \in Clients
        BY <3>1 DEF Procs
      <3>3. ~Opens(p) /\ link'[n] = link[n]
        BY <1>2, <3>2, ClientKeeps
      <3>4. pc'[s] = pc[s] /\ st'[s] = st[s] /\ h'[s] = h[s]
        BY <2>0, <2>2, <3>3, ActsMoves, ActsHolds DEF Moves
      <3>5. Rid(s, n)
        BY <1>0, <1>2, <2>0, <3>4, HasNext
      <3> QED BY <1>2, <2>0, <3>3, <3>4, <3>5 DEF RidInv, Live
    <2> QED BY <2>1, <2>2
  <1> QED BY <1>0, <1>1, <1>2 DEF RidInv

\* A server that is started has removed nothing yet.
LEMMA RidStart ==
  ASSUME RunInv, RidInv, (\E s \in Servers : StartServer(s)) \/ (\E c \in Clients : StartClient(c))
  PROVE  RidInv'
  <1>1. ASSUME NEW s \in Servers, StartServer(s) PROVE RidInv'
    <2>1. pair' = pair /\ link' = link /\ pc'[s] = 1 /\ s \in Procs /\ Shared' = Shared
      BY <1>1, ServerStarts, SameProgram DEF Procs
    <2>2. calm' => \A q \in Servers : (Live(q)' => q = s) /\ h'[q]["a"] = None
      BY <1>1, ServerStarts DEF Names, Procs
    <2>3. \A n : ~Rid(s, n)'
      BY <2>1, HasNext
    <2> QED BY <2>1, <2>2, <2>3 DEF RidInv
  <1>2. ASSUME NEW c \in Clients, StartClient(c) PROVE RidInv'
    <2>1. /\ pair' = pair /\ pc' = pc /\ h' = h /\ link' = link /\ Shared' = Shared
          /\ st' = [st EXCEPT ![c] = "run"] /\ (calm' => calm)
      BY <1>2, SameProgram DEF StartClient
    <2>2. \A s \in Servers : s \in Procs /\ st'[s] = st[s]
      BY <2>1, ExchangeAssumption DEF RunInv, Procs
    <2>3. \A s \in Servers : \A n : Rid(s, n)' => Rid(s, n)
      BY <2>1, <2>2, HasNext
    <2> QED BY <2>1, <2>2, <2>3 DEF RidInv, Live
  <1> QED BY <1>1, <1>2

\* The FIFO's programs, call by call.
LEMMA FifoCall ==
  ASSUME RunInv, pair = "fifo", NEW p \in Procs, Live(p)
  PROVE  /\ Call(p).n = "a" /\ Call(p).undo = {}
         /\ p \in Servers => /\ Len(Script(p)) = 4 /\ pc[p] \in 1..4
                             /\ Call(p).op = <<"unlink", "mkfifo", "open_write", "fifo_write">>[pc[p]]
         /\ p \in Clients => /\ Len(Script(p)) = 3 /\ pc[p] \in 1..3
                             /\ Call(p).op = <<"open_read", "fifo_read", "unlink">>[pc[p]]
  <1>0. pc[p] \in 1..Len(Script(p))
    BY DEF RunInv
  <1>1. CASE p \in Servers
    <2>1. p \notin Clients /\ Script(p) = fifo_server
      BY <1>1, ExchangeAssumption DEF Script, Programs, Role
    <2> QED BY <1>0, <1>1, <2>1 DEF Call, fifo_server, Try, Do
  <1>2. CASE p \in Clients
    <2>1. p \notin Servers
      BY <1>2, ExchangeAssumption
    <2>2. Script(p) = fifo_client
      BY <2>1 DEF Script, Programs, Role
    <2> QED BY <1>0, <1>2, <2>1, <2>2 DEF Call, fifo_client, Try, Do
  <1> QED BY <1>1, <1>2 DEF Procs

\* Who has met whom at the FIFO.
LEMMA FifoMet ==
  ASSUME pair \in {"fifo", "unix_dgram"}, NEW s, NEW c
  PROVE  Met(s, c) <=> h[s]["a"] # None /\ h[c]["a"] = h[s]["a"]
  BY DEF Met, Shared

\* At the FIFO who is past open has met the server; the client that removes the name
\* has, too.
LEMMA FifoActs ==
  ASSUME RunInv, SessionInv, FifoInv, NEW p \in Procs, Acts(p)
  PROVE  FifoInv'
  <1>0. pair' = pair /\ Live(p) /\ calm' \in BOOLEAN /\ (calm' => calm) /\ "a" \in Names
        /\ DOMAIN h = Procs /\ DOMAIN h[p] = Names \cup {"conn"} /\ DOMAIN link = Names
    BY DEF Acts, Names, RunInv
  <1> SUFFICES ASSUME pair = "fifo" PROVE FifoInv'
    BY <1>0 DEF FifoInv
  <1> DEFINE A == \A s \in Servers : Live(s) => (pc[s] < 3 => h[s]["a"] = None)
             B(c) == /\ pc[c] > 1 /\ h[c]["a"] # None =>
                          \E s \in Servers : h[s]["a"] = h[c]["a"]
                     /\ Live(c) /\ pc[c] > 1 => h[c]["a"] # None
                     /\ st[c] = "ok" /\ h[c]["a"] # None => link["a"] = None
             C(s) == Live(s) /\ pc[s] = 3 =>
                       \/ link["a"] = <<s, "a">>
                       \/ \E c \in Clients : h[s]["a"] # None /\ h[c]["a"] = h[s]["a"]
  <1>1. A /\ (calm => (\A c \in Clients : B(c)) /\ \A s \in Servers : C(s))
    BY FifoMet DEF FifoInv
  <1>2. SUFFICES A' /\ (calm' => (\A c \in Clients : B(c)') /\ \A s \in Servers : C(s)')
    <2>1. \A s, c : Met(s, c)' <=> h'[s]["a"] # None /\ h'[c]["a"] = h'[s]["a"]
      BY <1>0 DEF Met, Shared
    <2> QED BY <1>0, <1>2, <2>1 DEF FifoInv
  <1>3. /\ \A q \in Procs : pc[q] \in Nat
        /\ Servers \subseteq Procs /\ Clients \subseteq Procs /\ Servers \cap Clients = {}
        /\ \A r, s \in Servers : Live(r) /\ Live(s) => r = s
    BY ExchangeAssumption DEF RunInv, Procs
  <1>4. CASE Ends(p)
    <2>1. h' = h /\ pc' = pc /\ link'["a"] = link["a"]
      BY <1>0, <1>4, FifoCall DEF Ends, Die, TakenBack
    <2>2. \A q \in Procs : (st'[q] = "run" => st[q] = "run") /\ (st'[q] = "ok" => st[q] = "ok")
      BY <1>4 DEF Ends, Die, RunInv
    <2> QED BY <1>0, <1>1, <1>3, <2>1, <2>2 DEF Live
  <1>5. CASE Passes(p)
    <2>1. (p \in Servers /\ pc[p] = 4) \/ (p \in Clients /\ pc[p] = 2 /\ Len(Script(p)) = 3)
      BY <1>0, <1>5, FifoCall DEF Passes, Makers, Removers, Procs
    <2>2. link' = link /\ \A q \in Procs : h'[q]["a"] = h[q]["a"]
      <3>1. Call(p).op \notin Strange
        BY <1>0, <1>5, <2>1, FifoCall DEF Strange
      <3> QED BY <1>0, <1>5, <3>1 DEF Passes
    <2>3. /\ pc'[p] = pc[p] + 1 /\ (p \in Clients => st'[p] = "run") /\ st[p] = "run"
          /\ \A q \in Procs \ {p} : st'[q] = st[q] /\ pc'[q] = pc[q]
      <3>1. Advance({p}) /\ {p} \in SUBSET {q \in Procs : Live(q)}
        BY <1>0, <1>5 DEF Passes
      <3>2. /\ pc'[p] = pc[p] + 1 /\ (st'[p] = "run" \/ pc[p] = Len(Script(p)))
            /\ \A q \in Procs \ {p} : st'[q] = st[q] /\ pc'[q] = pc[q]
        BY <1>0, <3>1, Advanced
      <3>3. p \in Clients => pc[p] # Len(Script(p))
        <4>1. ~(p \in Servers /\ p \in Clients)
          BY <1>3
        <4> QED BY <2>1, <4>1
      <3> QED BY <1>0, <3>2, <3>3 DEF Live
    <2>4. A'
      BY <1>1, <1>3, <2>1, <2>2, <2>3 DEF Live
    <2>5. ASSUME calm, NEW c \in Clients PROVE B(c)'
      BY <1>1, <1>3, <2>1, <2>2, <2>3, <2>5 DEF Live
    <2>6. ASSUME calm, NEW s \in Servers PROVE C(s)'
      BY <1>1, <1>3, <2>1, <2>2, <2>3, <2>6 DEF Live
    <2> QED BY <1>0, <2>4, <2>5, <2>6
  <1>6. CASE Makes(p)
    <2>1. p \in Servers /\ pc[p] = 2 /\ Call(p).op = "mkfifo" /\ Call(p).n = "a"
      BY <1>0, <1>6, FifoCall DEF Makes, Makers, Procs
    <2>2. link'["a"] = <<p, "a">> /\ h' = h
      BY <1>0, <1>6, <2>1 DEF Makes
    <2>3. /\ pc'[p] = 3 /\ \A q \in Procs \ {p} : st'[q] = st[q] /\ pc'[q] = pc[q]
      BY <1>0, <1>6, <2>1, Advanced DEF Makes
    <2>4. ASSUME calm PROVE \A c \in Clients : pc[c] > 1 => h[c]["a"] = None
      <3>1. h[p]["a"] = None
        BY <1>0, <1>1, <2>1
      <3>2. \A s \in Servers : h[s]["a"] # None => s = p
        BY <1>0, <2>1, <2>4 DEF SessionInv
      <3> QED BY <1>1, <2>4, <3>1, <3>2
    <2>5. \A c \in Clients : st[c] = "ok" => pc[c] > 1
      <3>1. \A c \in Clients : st[c] = "ok" => pc[c] = Len(Script(c)) + 1 /\ Len(Script(c)) \in Nat \ {0}
        BY <1>3, ClientsFit DEF RunInv, ClientFits
      <3> QED BY <3>1
    <2>6. A'
      BY <1>1, <1>3, <2>1, <2>2, <2>3 DEF Live
    <2>7. ASSUME calm, NEW c \in Clients PROVE B(c)'
      BY <1>1, <1>3, <2>1, <2>2, <2>3, <2>4, <2>5, <2>7 DEF Live
    <2>8. ASSUME calm, NEW s \in Servers PROVE C(s)'
      BY <1>0, <1>3, <2>1, <2>2, <2>3, <2>8 DEF Live
    <2> QED BY <1>0, <2>6, <2>7, <2>8
  <1>7. CASE Removes(p)
    <2>1. /\ Call(p).n = "a" /\ Call(p).op = "unlink"
          /\ (p \in Servers /\ pc[p] = 1) \/ (p \in Clients /\ pc[p] = 3)
      BY <1>0, <1>7, FifoCall DEF Removes, Removers, Procs
    <2>2. link'["a"] = None /\ h' = h
      BY <1>0, <1>7, <2>1 DEF Removes
    <2>3. /\ pc'[p] = pc[p] + 1 /\ \A q \in Procs \ {p} : st'[q] = st[q] /\ pc'[q] = pc[q]
      BY <1>0, <1>7, <2>1, Advanced DEF Removes
    <2>4. CASE p \in Servers
      BY <1>0, <1>1, <1>3, <2>1, <2>2, <2>3, <2>4 DEF Live
    <2>5. CASE p \in Clients
      <3>1. calm => h[p]["a"] # None /\ \E s \in Servers : h[s]["a"] = h[p]["a"]
        BY <1>0, <1>1, <1>3, <2>1, <2>5
      <3>2. ASSUME calm, NEW s \in Servers, Live(s)
            PROVE  h[s]["a"] # None /\ h[p]["a"] = h[s]["a"]
        BY <3>1, <3>2 DEF SessionInv
      <3>3. A'
        BY <1>1, <1>3, <2>2, <2>3, <2>5 DEF Live
      <3>4. ASSUME calm, NEW c \in Clients PROVE B(c)'
        BY <1>1, <1>3, <2>1, <2>2, <2>3, <3>1, <3>4 DEF Live
      <3>5. ASSUME calm, NEW s \in Servers PROVE C(s)'
        BY <1>3, <2>2, <2>3, <2>5, <3>2, <3>5 DEF Live
      <3> QED BY <1>0, <3>3, <3>4, <3>5
    <2> QED BY <2>1, <2>4, <2>5
  <1>8. CASE Opens(p)
    <2>1. /\ Call(p).n = "a" /\ h[p]["a"] = None /\ link["a"] # None
          /\ (p \in Servers /\ pc[p] = 3) \/ (p \in Clients /\ pc[p] = 1)
      BY <1>0, <1>8, FifoCall DEF Opens, Held, Procs
    <2>2. /\ link' = link /\ h'[p]["a"] = link["a"]
          /\ \A q \in Procs \ {p} : h'[q]["a"] = h[q]["a"]
      BY <1>0, <1>8, <2>1 DEF Opens, Hold
    <2>3. ASSUME NEW q \in Procs, q # p, ~(st'[q] = st[q] /\ pc'[q] = pc[q])
          PROVE  /\ Role(q) # Role(p) /\ h[q]["a"] = link["a"] /\ pc'[q] = pc[q] + 1
                 /\ pc[q] = IF q \in Servers THEN 3 ELSE 1
                 /\ Live(q) /\ (q \in Clients => st'[q] = "run")
      <3>1. /\ Live(q) /\ pc'[q] = pc[q] + 1
            /\ st'[q] = "run" \/ pc[q] = Len(Script(q))
            /\ Call(q).op \in {"open_read", "open_write"}
            /\ q \in Partners(p, "a", link["a"])
        BY <2>1, <2>3, ActsMoves DEF Moves, At, Ends, Live
      <3>2. Role(q) # Role(p) /\ h[q]["a"] = link["a"]
        BY <3>1 DEF Partners
      <3>3. /\ q \in Servers => pc[q] = 3
            /\ q \in Clients => pc[q] = 1 /\ Len(Script(q)) = 3
        BY <1>0, <3>1, FifoCall
      <3> QED BY <1>3, <3>1, <3>2, <3>3 DEF Procs
    <2>4. \/ pc' = pc /\ st' = st
          \/ /\ pc'[p] = pc[p] + 1 /\ (p \in Clients => st'[p] = "run")
             /\ \E q \in Procs : Role(q) # Role(p) /\ Live(q) /\ h[q]["a"] = link["a"]
      <3>1. CASE Partners(p, "a", link["a"]) = {}
        BY <1>8, <2>1, <3>1, ActsMoves
      <3>2. CASE Partners(p, "a", link["a"]) # {}
        <4>1. pc'[p] = pc[p] + 1
          BY <1>3, <1>8, <2>1, <3>2, ActsMoves
        <4>2. p \in Clients => st'[p] = "run"
          <5>1. pc'[p] # pc[p]
            BY <1>3, <4>1
          <5>2. st'[p] = "run" \/ pc[p] = Len(Script(p))
            BY <5>1, ActsMoves DEF Moves
          <5> QED BY <1>0, <1>3, <2>1, <5>2, FifoCall
        <4> QED BY <3>2, <4>1, <4>2 DEF Partners
      <3> QED BY <3>1, <3>2
    <2>5. A'
      BY <1>1, <1>3, <2>1, <2>2, <2>3, <2>4 DEF Live
    <2>6. ASSUME calm, NEW c \in Clients PROVE B(c)'
      <3>1. CASE c = p
        <4>1. st'[p] = "run" /\ (pc'[p] > 1 => \E q \in Servers : h[q]["a"] = link["a"])
          BY <1>0, <1>3, <2>1, <2>4, <3>1 DEF Live, Role, Procs
        <4> QED BY <1>3, <2>1, <2>2, <3>1, <4>1 DEF Live
      <3>2. CASE c # p /\ st'[c] = st[c] /\ pc'[c] = pc[c]
        BY <1>1, <1>3, <2>1, <2>2, <2>6, <3>2 DEF Live
      <3>3. CASE c # p /\ ~(st'[c] = st[c] /\ pc'[c] = pc[c])
        <4>1. Role(c) # Role(p) /\ h[c]["a"] = link["a"] /\ st'[c] = "run"
          BY <1>3, <2>3, <3>3
        <4>2. p \in Servers
          BY <1>3, <4>1 DEF Role, Procs
        <4> QED BY <1>3, <2>1, <2>2, <3>3, <4>1, <4>2 DEF Live
      <3> QED BY <3>1, <3>2, <3>3
    <2>7. ASSUME calm, NEW s \in Servers, Live(s)', pc'[s] = 3 PROVE C(s)'
      <3>1. CASE s = p
        <4>1. pc[p] = 3
          BY <1>3, <2>1, <3>1
        <4> QED BY <1>0, <1>1, <2>1, <2>2, <2>7, <3>1, <4>1
      <3>2. CASE s # p
        <4>1. st'[s] = st[s] /\ pc'[s] = pc[s]
          BY <1>3, <2>3, <2>7, <3>2
        <4>2. p \in Clients /\ Live(s) /\ pc[s] = 3
          BY <1>0, <1>3, <2>1, <2>7, <3>2, <4>1 DEF Live
        <4> QED BY <1>1, <1>3, <2>1, <2>2, <2>7, <3>2, <4>2
      <3> QED BY <3>1, <3>2
    <2> QED BY <1>0, <2>5, <2>6, <2>7
  <1> QED BY <1>4, <1>5, <1>6, <1>7, <1>8 DEF Acts

\* Those who are started have not opened the FIFO yet.
LEMMA FifoStart ==
  ASSUME RunInv, SessionInv, FifoInv,
         (\E s \in Servers : StartServer(s)) \/ (\E c \in Clients : StartClient(c))
  PROVE  FifoInv'
  <1>0. /\ \A q \in Procs : pc[q] \in Nat
        /\ Servers \subseteq Procs /\ Clients \subseteq Procs /\ Servers \cap Clients = {}
    BY ExchangeAssumption DEF RunInv, Procs
  <1>1. ASSUME NEW s \in Servers, StartServer(s) PROVE FifoInv'
    <2>1. /\ pair' = pair /\ pc'[s] = 1 /\ \A q \in Servers : Live(q)' => q = s
          /\ h'[s]["a"] = None
      BY <1>0, <1>1, ServerStarts DEF SessionInv, Names
    <2>2. calm' => \A q \in Procs : (Live(q)' => q = s) /\ h'[q]["a"] = None
      BY <1>1, ServerStarts DEF Names
    <2> QED BY <1>0, <2>1, <2>2 DEF FifoInv
  <1>2. ASSUME NEW c \in Clients, StartClient(c) PROVE FifoInv'
    <2>1. /\ pair' = pair /\ pc' = pc /\ h' = h /\ link' = link /\ (calm' => calm)
          /\ st[c] = "off" /\ st' = [st EXCEPT ![c] = "run"]
      BY <1>2 DEF StartClient
    <2>2. /\ \A s \in Servers : st'[s] = st[s]
          /\ \A d \in Clients \ {c} : st'[d] = st[d]
          /\ st'[c] = "run" /\ pc[c] = 1
      BY <1>0, <2>1 DEF RunInv
    <2>3. \A s, d : Met(s, d)' <=> Met(s, d)
      BY <2>1 DEF Met, Shared
    <2>4. ASSUME pair = "fifo"
          PROVE  \A s \in Servers : Live(s)' => (pc'[s] < 3 => h'[s]["a"] = None)
      BY <2>1, <2>2, <2>4 DEF FifoInv, Live
    <2>5. ASSUME pair = "fifo", calm', NEW d \in Clients
          PROVE  /\ pc'[d] > 1 /\ h'[d]["a"] # None => \E s \in Servers : h'[s]["a"] = h'[d]["a"]
                 /\ Live(d)' /\ pc'[d] > 1 => h'[d]["a"] # None
                 /\ st'[d] = "ok" /\ h'[d]["a"] # None => link'["a"] = None
      BY <2>1, <2>2, <2>5 DEF FifoInv, Live
    <2>6. ASSUME pair = "fifo", calm', NEW s \in Servers, Live(s)', pc'[s] = 3
          PROVE  link'["a"] = <<s, "a">> \/ \E d \in Clients : Met(s, d)'
      BY <2>1, <2>2, <2>3, <2>6 DEF FifoInv, Live
    <2> QED BY <2>1, <2>4, <2>5, <2>6 DEF FifoInv
  <1> QED BY <1>1, <1>2

\* The programs of the datagrams by path: what they make and remove.
LEMMA PathCall ==
  ASSUME RunInv, pair = "unix_dgram", NEW p \in Procs, Live(p)
  PROVE  /\ Call(p).op \notin {"create", "mkfifo", "remove", "open_read", "open_write"}
         /\ Call(p).op \notin Strange \ {"sendto"} /\ (p \in Servers => Call(p).op # "sendto")
         /\ Call(p).op \in Makers \cup Removers => Call(p).n = IF p \in Servers THEN "a" ELSE "b"
         /\ Call(p).undo \subseteq IF p \in Servers THEN {"a"} ELSE {"b"}
         /\ pc[p] = Len(Script(p)) => Call(p).op = "unlink"
  <1>0. pc[p] \in 1..Len(Script(p))
    BY DEF RunInv
  <1>1. CASE p \in Servers
    <2>1. Script(p) = unix_dgram_server
      BY <1>1 DEF Script, Programs, Role
    <2> QED BY <1>0, <1>1, <2>1 DEF Call, unix_dgram_server, Try, Do, Strange, Makers, Removers
  <1>2. CASE p \notin Servers
    <2>2. Script(p) = unix_dgram_client
      BY <1>2 DEF Script, Programs, Role
    <2> QED BY <1>0, <1>2, <2>2 DEF Call, unix_dgram_client, Try, Do, Strange, Makers, Removers
  <1> QED BY <1>1, <1>2

\* A client that has sent its datagram has met the server and removes its own path
\* last.
LEMMA PathActs ==
  ASSUME RunInv, PathInv, NEW p \in Procs, Acts(p)
  PROVE  PathInv'
  <1>0. /\ pair' = pair /\ Live(p) /\ calm' \in BOOLEAN /\ (calm' => calm) /\ Names = {"a", "b"}
        /\ DOMAIN h = Procs /\ DOMAIN h[p] = Names \cup {"conn"} /\ DOMAIN link = Names
    BY DEF Acts, Names, RunInv
  <1> SUFFICES ASSUME pair = "unix_dgram" PROVE PathInv'
    BY <1>0 DEF PathInv
  <1>1. /\ Servers \subseteq Procs /\ Clients \subseteq Procs /\ Servers \cap Clients = {}
        /\ pair \notin SysV /\ \A q \in Procs : pc[q] \in Nat
    BY ExchangeAssumption DEF RunInv, Procs, SysV
  <1>2. ~Opens(p)
    BY <1>0, PathCall DEF Opens
  <1>3. /\ \A q \in Procs \ {p} : st'[q] = st[q] /\ h'[q] = h[q]
        /\ \A q \in Procs : st'[q] = "run" => st[q] = "run"
        /\ st'[p] = "ok" => Removes(p)
    <2>1. /\ \A q \in Procs \ {p} : st'[q] = st[q] /\ h'[q] = h[q]
          /\ \A q \in Procs : st'[q] = "run" => st[q] = "run"
      BY <1>2, ActsMoves, ActsHolds DEF Moves, Live
    <2>2. st'[p] = "ok" => pc[p] = Len(Script(p))
      BY <1>0, <1>2, ActsMoves DEF Moves, Live
    <2>3. st'[p] = "ok" => ~Ends(p)
      BY <1>0 DEF Ends, Die, Live, RunInv
    <2>4. Call(p).op = "unlink" => ~Passes(p) /\ ~Makes(p)
      BY DEF Passes, Makes, Makers, Removers
    <2> QED BY <1>0, <1>2, <2>1, <2>2, <2>3, <2>4, PathCall DEF Acts
  <1>4. ASSUME Makes(p), NEW n, n = Call(p).n
        PROVE  /\ n = (IF p \in Servers THEN "a" ELSE "b") /\ link'[n] = <<p, n>>
               /\ h'[p]["a"] = IF n = "a" THEN <<p, "a">> ELSE h[p]["a"]
    <2>1. Call(p).op = "bind" /\ n = (IF p \in Servers THEN "a" ELSE "b")
      BY <1>0, <1>4, PathCall DEF Makes, Makers
    <2>2. link' = [link EXCEPT ![n] = <<p, n>>] /\ h' = [h EXCEPT ![p][n] = <<p, n>>]
      BY <1>4, <2>1 DEF Makes, Hold
    <2> QED BY <1>0, <2>1, <2>2
  <1>5. CASE p \in Servers
    <2>1. /\ link'["b"] \in {link["b"], None}
          /\ \/ link'["a"] \in {link["a"], None} /\ h'[p]["a"] = h[p]["a"]
             \/ link'["a"] = <<p, "a">> /\ h'[p]["a"] = <<p, "a">>
      <3>1. CASE Makes(p)
        <4>1. link'["b"] \in {link["b"], None}
          BY <1>0, <1>4, <1>5, ActsNames
        <4> QED BY <1>4, <1>5, <3>1, <4>1
      <3>2. CASE ~Makes(p)
        <4>1. h'[p]["a"] = h[p]["a"]
          BY <1>0, <1>2, <1>5, <3>2, ActsHolds, PathCall
        <4> QED BY <1>0, <3>2, <4>1, ActsNames
      <3> QED BY <3>1, <3>2
    <2>2. ASSUME NEW s \in Servers
          PROVE  /\ h'[s]["a"] \in {None, <<s, "a">>}
                 /\ Live(s)' /\ link'["a"] = <<s, "a">> => h'[s]["a"] = <<s, "a">>
      <3>1. /\ h[s]["a"] \in {None, <<s, "a">>}
            /\ Live(s) /\ link["a"] = <<s, "a">> => h[s]["a"] = <<s, "a">>
        BY DEF PathInv
      <3>2. s # p => <<s, "a">> # <<p, "a">>
        OBVIOUS
      <3>3. <<s, "a">> # None
        BY ExchangeAssumption
      <3> QED BY <1>1, <1>3, <2>1, <3>1, <3>2, <3>3 DEF Live
    <2>3. ASSUME calm, NEW c \in Clients, h[c]["a"] # None
          PROVE  \E s \in Servers : h'[s]["a"] = h[c]["a"]
      <3>1. PICK s \in Servers : h[s]["a"] = h[c]["a"]
        BY <2>3 DEF PathInv
      <3>2. h[s]["a"] = <<s, "a">>
        BY <2>3, <3>1 DEF PathInv
      <3> QED BY <1>1, <1>3, <2>1, <3>1, <3>2
    <2>4. \A c \in Clients : c # p /\ st'[c] = st[c] /\ h'[c] = h[c]
      BY <1>1, <1>3, <1>5
    <2> QED BY <1>0, <2>1, <2>2, <2>3, <2>4 DEF PathInv, Live
  <1>6. CASE p \in Clients
    <2>1. /\ link'["a"] = link["a"]
          /\ link'["b"] \in {link["b"], None} \/ Makes(p)
          /\ st'[p] = "ok" => link'["b"] = None
      <3>1. p \notin Servers
        BY <1>1, <1>6
      <3>2. "a" \notin Call(p).undo /\ Call(p).op # "remove"
            /\ (Call(p).op \in Makers \cup Removers => Call(p).n = "b")
        BY <1>0, <3>1, PathCall
      <3>3. link'["a"] = link["a"]
        <4>1. ~(Makes(p) /\ Call(p).n = "a") /\ ~(Removes(p) /\ Call(p).n = "a")
          BY <3>2 DEF Makes, Removes
        <4> QED BY <1>0, <1>1, <3>2, <4>1, ActsLinks
      <3>4. link'["b"] \in {link["b"], None} \/ Makes(p)
        BY <1>0, ActsNames
      <3>5. Removes(p) => link'["b"] = None
        BY <1>0, <3>2 DEF Removes
      <3> QED BY <1>3, <3>3, <3>4, <3>5
    <2>2. \/ h'[p]["a"] = h[p]["a"]
          \/ h'[p]["a"] = link["a"] /\ link["a"] # None /\ Live(link["a"][1])
      <3>1. CASE Passes(p)
        BY <1>0, <3>1, PathCall DEF Passes
      <3>2. CASE Makes(p)
        BY <1>1, <1>4, <1>6, <3>2
      <3>3. CASE Ends(p) \/ Removes(p)
        BY <3>3 DEF Ends, Removes
      <3> QED BY <1>2, <3>1, <3>2, <3>3 DEF Acts
    <2>3. \A s \in Servers : s # p /\ st'[s] = st[s] /\ h'[s] = h[s]
      BY <1>1, <1>3, <1>6
    <2>4. \A s \in Servers :
            /\ h'[s]["a"] \in {None, <<s, "a">>}
            /\ Live(s)' /\ link'["a"] = <<s, "a">> => h'[s]["a"] = <<s, "a">>
      BY <2>1, <2>3 DEF PathInv, Live
    <2>5. ASSUME calm, NEW c \in Clients
          PROVE  h'[c]["a"] # None => \E s \in Servers : h'[s]["a"] = h'[c]["a"]
      <3>1. h[c]["a"] # None => \E s \in Servers : h[s]["a"] = h[c]["a"]
        BY <2>5 DEF PathInv
      <3>2. CASE h'[c]["a"] = h[c]["a"]
        BY <2>3, <3>1, <3>2
      <3>3. CASE h'[c]["a"] # h[c]["a"]
        <4>1. c = p /\ h'[c]["a"] = link["a"] /\ link["a"] # None /\ Live(link["a"][1])
          BY <1>1, <1>3, <2>2, <3>3
        <4>2. PICK s \in Servers : link["a"] = <<s, "a">>
          BY <4>1 DEF RunInv
        <4>3. h[s]["a"] = <<s, "a">>
          BY <4>1, <4>2 DEF PathInv
        <4> QED BY <2>3, <4>1, <4>2, <4>3
      <3> QED BY <3>2, <3>3
    <2>6. \A c \in Clients : /\ Live(c)' => Live(c)
                             /\ (Live(c) \/ h[c]["a"] # None)' => Live(c) \/ h[c]["a"] # None
      BY <1>0, <1>1, <1>3 DEF Live
    <2>7. ASSUME calm, NEW c \in Clients, Live(c)', NEW d \in Clients, (Live(d) \/ h[d]["a"] # None)'
          PROVE  c = d
      BY <2>6, <2>7 DEF PathInv
    <2>8. ASSUME calm, NEW c \in Clients, st'[c] = "ok", h'[c]["a"] # None
          PROVE  link'["b"] = None
      <3>1. CASE c = p
        BY <2>1, <2>8, <3>1
      <3>2. CASE c # p
        <4>1. st[c] = "ok" /\ h[c]["a"] # None
          BY <1>1, <1>3, <2>8, <3>2
        <4>2. p = c
          BY <1>0, <1>6, <2>8, <4>1 DEF PathInv
        <4> QED BY <3>2, <4>2
      <3> QED BY <3>1, <3>2
    <2> QED BY <1>0, <2>4, <2>5, <2>7, <2>8 DEF PathInv
  <1> QED BY <1>5, <1>6 DEF Procs

\* In an undisturbed session a client is started only when no other belongs to it.
LEMMA PathStart ==
  ASSUME RunInv, SessionInv, PathInv,
         (\E s \in Servers : StartServer(s)) \/ (\E c \in Clients : StartClient(c))
  PROVE  PathInv'
  <1>0. Servers \subseteq Procs /\ Clients \subseteq Procs /\ Servers \cap Clients = {}
    BY ExchangeAssumption DEF Procs
  <1>1. ASSUME NEW s \in Servers, StartServer(s) PROVE PathInv'
    <2>1. /\ pair' = pair /\ link' = link /\ st[s] = "off" /\ \A q \in Servers : Live(q)' => q = s
          /\ \A q \in Procs : h'[q]["a"] \in {h[q]["a"], None}
      BY <1>0, <1>1, ServerStarts DEF Names
    <2>2. calm' => \A q \in Procs : (Live(q)' => q = s) /\ h'[q]["a"] = None
      BY <1>1, ServerStarts DEF Names
    <2>3. link["a"] # <<s, "a">>
      BY <1>0, <2>1 DEF SessionInv
    <2> QED BY <1>0, <2>1, <2>2, <2>3 DEF PathInv
  <1>2. ASSUME NEW c \in Clients, StartClient(c) PROVE PathInv'
    <2>1. /\ pair' = pair /\ h' = h /\ link' = link /\ (calm' => calm)
          /\ st' = [st EXCEPT ![c] = "run"]
          /\ calm' => \A d \in Clients : ~Live(d) /\ \A s \in Servers : ~Met(s, d)
      BY <1>2 DEF StartClient
    <2>2. /\ \A s \in Servers : st'[s] = st[s]
          /\ \A d \in Clients \ {c} : st'[d] = st[d]
          /\ st'[c] = "run"
      BY <1>0, <2>1 DEF RunInv
    <2>3. ASSUME pair = "unix_dgram", calm', NEW d \in Clients PROVE h[d]["a"] = None /\ ~Live(d)
      BY <2>1, <2>3, FifoMet DEF PathInv
    <2>4. ASSUME pair = "unix_dgram", calm', NEW d \in Clients, (Live(d) \/ h[d]["a"] # None)'
          PROVE  d = c
      BY <2>1, <2>2, <2>3, <2>4 DEF Live
    <2>5. pair = "unix_dgram" => \A s \in Servers :
            /\ h'[s]["a"] \in {None, <<s, "a">>}
            /\ Live(s)' /\ link'["a"] = <<s, "a">> => h'[s]["a"] = <<s, "a">>
      BY <2>1, <2>2 DEF PathInv, Live
    <2> QED BY <2>1, <2>3, <2>4, <2>5 DEF PathInv
  <1> QED BY <1>1, <1>2

-------------------------------------------------------------------------------
(* The theorems. *)

\* Steps that change nothing the invariant speaks of.
LEMMA RestsKeeps ==
  ASSUME Inv, Rests
  PROVE  Inv'
  <1>1. /\ st' = st /\ pc' = pc /\ h' = h /\ link' = link /\ pair' = pair
        /\ calm' \in BOOLEAN /\ (calm' => calm)
    BY DEF Rests
  <1>2. /\ Shared' = Shared /\ \A q : Script(q)' = Script(q)
        /\ \A q : Live(q)' <=> Live(q)
        /\ \A r, q : Met(r, q)' <=> Met(r, q)
    BY <1>1, SameProgram DEF Live, Met
  <1>3. \A q \in Procs : \A n : (Has(q, n)' => Has(q, n)) /\ (Rid(q, n)' => Rid(q, n))
    BY <1>1, HasNext DEF Inv
  <1>4. RunInv'
    BY <1>1, <1>2 DEF Inv, RunInv
  <1>5. KeepInv'
    BY <1>1, <1>2, <1>3 DEF Inv, KeepInv, Procs
  <1>6. SessionInv'
    BY <1>1, <1>2 DEF Inv, SessionInv
  <1>7. RidInv'
    BY <1>1, <1>2, <1>3 DEF Inv, RidInv, Procs
  <1>8. FifoInv'
    BY <1>1, <1>2 DEF Inv, FifoInv
  <1>9. PathInv'
    BY <1>1, <1>2 DEF Inv, PathInv
  <1> QED BY <1>4, <1>5, <1>6, <1>7, <1>8, <1>9 DEF Inv

\* Nobody runs, and nothing has a name, before the first session.
LEMMA InvInit ==
  ASSUME Init
  PROVE  Inv
  <1>1. /\ pair \in DOMAIN Programs /\ calm = FALSE
        /\ st = [p \in Procs |-> "off"] /\ pc = [p \in Procs |-> 1]
        /\ h = [p \in Procs |-> [n \in Names \cup {"conn"} |-> None]]
        /\ link = [n \in Names |-> None]
    BY PairsAssumption DEF Init
  <1>2. \A p \in Procs : ~Live(p) /\ h[p]["a"] = None
    BY <1>1 DEF Live, Names
  <1>3. link["a"] = None /\ link["b"] = None
    BY <1>1 DEF Names
  <1>4. RunInv
    BY <1>1, <1>2, <1>3 DEF RunInv, Procs
  <1>5. SessionInv
    <2>1. \A p \in Procs : <<p, "a">> # None
      BY ExchangeAssumption DEF Procs
    <2> QED BY <1>1, <1>2, <1>3, <2>1 DEF SessionInv
  <1>6. KeepInv /\ RidInv /\ FifoInv /\ PathInv
    BY <1>1, <1>2, <1>3 DEF KeepInv, RidInv, FifoInv, PathInv, Procs
  <1> QED BY <1>4, <1>5, <1>6 DEF Inv

\* Every step keeps the invariant.
LEMMA InvNext ==
  ASSUME Inv, [Next]_vars
  PROVE  Inv'
  <1>1. ASSUME NEW p \in Procs, Acts(p) PROVE Inv'
    BY <1>1, RunActs, KeepActs, SessionActs, RidActs, FifoActs, PathActs DEF Inv
  <1>2. ASSUME (\E s \in Servers : StartServer(s)) \/ (\E c \in Clients : StartClient(c))
        PROVE  Inv'
    BY <1>2, RunStart, KeepStart, SessionStart, RidStart, FifoStart, PathStart DEF Inv
  <1> QED BY <1>1, <1>2, NextKinds, RestsKeeps DEF Inv

\* The invariant holds throughout.
LEMMA AlwaysInv == Spec => []Inv
  BY InvInit, InvNext, PTL DEF Spec

\* The invariant makes a waiting server reachable: outside the FIFO it has its names
\* and not removed them.
LEMMA InvReachable ==
  ASSUME Inv
  PROVE  ServerReachable
  <1> SUFFICES ASSUME NEW s \in Servers, At(s, {"open_write", "receive", "wait", "accept"}),
                      \A c \in Clients : ~Met(s, c), pair = "fifo" => calm, NEW n \in Shared
               PROVE  link[n] \in {h[s][n], <<s, n>>}
    BY DEF ServerReachable
  <1>1. RunInv /\ Live(s) /\ Call(s).op \in {"open_write", "receive", "wait", "accept"}
    BY DEF Inv, At
  <1>2. CASE Call(s).op = "open_write"
    <2>1. pair = "fifo" /\ pc[s] = 3 /\ calm /\ n = "a"
      BY <1>1, <1>2, ServerCall DEF Shared
    <2> QED BY <1>1, <2>1 DEF Inv, FifoInv
  <1>3. CASE Call(s).op # "open_write"
    <2>1. pair # "fifo" /\ Has(s, n)
      BY <1>1, <1>3, ServerCall
    <2> QED BY <1>1, <2>1 DEF Inv, KeepInv
  <1> QED BY <1>2, <1>3

\* The invariant leaves nothing behind: the server that has ended well is rid of its
\* names.
LEMMA InvNothingLeft ==
  ASSUME Inv
  PROVE  NothingLeft
  <1> SUFFICES ASSUME calm, Idle, NEW s \in Servers, NEW c \in Clients, Met(s, c),
                      st[s] = "ok", st[c] = "ok", NEW n \in Names
               PROVE  ~NameTaken(n)
    BY DEF NothingLeft
  <1>0. /\ RunInv /\ s \in Procs /\ c \in Procs /\ Names = {"a", "b"} /\ "a" \in Shared
        /\ h[s]["a"] # None /\ h[c]["a"] # None
    BY DEF Inv, Procs, Names, Shared, Met
  <1>1. CASE pair \in Inet
    <2>1. link[n] # None => link[n][1] \in Procs
      BY <1>0 DEF RunInv
    <2> QED BY <1>1, <2>1 DEF NameTaken, Idle
  <1>2. CASE pair = "fifo"
    BY <1>0, <1>2 DEF Inv, FifoInv, RidInv, NameTaken, Shared
  <1>3. CASE pair \notin Inet \cup {"fifo"}
    <2>1. \A m \in Shared : Rid(s, m)
      <3>1. pc[s] = Len(Script(s)) + 1
        BY <1>0 DEF RunInv
      <3>2. \A m \in Shared : RidAt(Script(s), Len(Script(s)) + 1, m)
        BY <1>0, <1>3, ServersFit DEF ServerFits, RunInv
      <3> QED BY <3>1, <3>2 DEF Rid
    <2>2. \A m \in Shared : link[m] = None
      BY <1>0, <1>3, <2>1 DEF Inv, RidInv
    <2>3. "b" \notin Shared => link["b"] = None
      BY <1>0 DEF Inv, RidInv, PathInv
    <2> QED BY <1>0, <2>2, <2>3 DEF NameTaken
  <1> QED BY <1>1, <1>2, <1>3

\* A server that waits for its client can be found under its own names, whatever
\* earlier sessions left and however many clients come and go (posix_server.c,
\* sysv_server.c and the servers of lab-16).
THEOREM WaitingServerIsFound == Spec => []ServerReachable
  BY AlwaysInv, InvReachable, PTL

\* An undisturbed session leaves no name taken, also of what earlier ones that were
\* killed or failed had left (the unlink, msgctl, shmctl and semctl calls of the
\* servers, and the client's of lab-12).
THEOREM SessionCleansUp == Spec => []NothingLeft
  BY AlwaysInv, InvNothingLeft, PTL
===============================================================================
