--------------------------- MODULE ShmChatProofs ---------------------------
(* Proofs about ShmChat for every value of its constants.                  *)
EXTENDS ShmChat, FiniteSetTheorems, SequenceTheorems, TLAPS

-----------------------------------------------------------------------------
(* Lemmas about the helpers.                                               *)

\* The ring index stays inside the array of commands.
LEMMA NextSlotRange ==
  ASSUME NEW i \in 0 .. MaxCommands - 1
  PROVE  /\ NextSlot(i) \in 0 .. MaxCommands - 1
         /\ NextSlot(i) = IF i + 1 = MaxCommands THEN 0 ELSE i + 1
  BY ConstantsAssumption DEF NextSlot

\* room.version + 1 as an unsigned int, without %.
LEMMA VersionStep ==
  ASSUME NEW v \in 0 .. VersionModulus - 1
  PROVE  /\ (v + 1) % VersionModulus \in 0 .. VersionModulus - 1
         /\ (v + 1) % VersionModulus = IF v + 1 = VersionModulus THEN 0 ELSE v + 1
  BY ConstantsAssumption

\* The position k places behind h in the ring, without %.
LEMMA SlotStep ==
  ASSUME NEW h \in 0 .. MaxCommands - 1, NEW k \in 0 .. MaxCommands
  PROVE  (h + k) % MaxCommands = IF h + k < MaxCommands THEN h + k
                                                         ELSE h + k - MaxCommands
  BY ConstantsAssumption

\* A history keeps its type and its bound, and ends in the line just added.
LEMMA AddMessageType ==
  ASSUME NEW ms \in Seq(Lines), NEW l \in Lines
  PROVE  /\ AddMessage(ms, l) \in Seq(Lines)
         /\ Len(ms) <= MaxMessages => Len(AddMessage(ms, l)) <= MaxMessages
         /\ \E i \in DOMAIN AddMessage(ms, l) : AddMessage(ms, l)[i] = l
  <1>1. CASE Len(ms) < MaxMessages
    <2>1. AddMessage(ms, l) = Append(ms, l)
      BY <1>1 DEF AddMessage
    <2>2. Append(ms, l)[Len(ms) + 1] = l /\ Len(ms) + 1 \in DOMAIN Append(ms, l)
      OBVIOUS
    <2> QED BY <1>1, <2>1, <2>2, ConstantsAssumption
  <1>2. CASE ~(Len(ms) < MaxMessages)
    <2>1. AddMessage(ms, l) = Append(Tail(ms), l)
      BY <1>2 DEF AddMessage
    <2>2. ms # <<>> /\ Tail(ms) \in Seq(Lines) /\ Len(Tail(ms)) = Len(ms) - 1
      BY <1>2, ConstantsAssumption
    <2>3. Append(Tail(ms), l)[Len(ms)] = l /\ Len(ms) \in DOMAIN Append(Tail(ms), l)
      BY <2>2
    <2> QED BY <1>2, <2>1, <2>2, <2>3, ConstantsAssumption
  <1> QED BY <1>1, <1>2

\* Adding a user keeps the table a sequence of at most MaxClients users.
LEMMA AddUserType ==
  ASSUME NEW us \in Seq(Clients), Len(us) <= MaxClients, NEW p \in Clients
  PROVE  AddUser(us, p) \in Seq(Clients) /\ Len(AddUser(us, p)) <= MaxClients
  BY ConstantsAssumption DEF AddUser

\* Removing closes the gap and keeps the order of the others.
LEMMA RemoveUserElements ==
  ASSUME NEW us \in Seq(Clients), NEW i \in DOMAIN us
  PROVE  /\ RemoveUser(us, i) \in Seq(Clients)
         /\ Len(RemoveUser(us, i)) = Len(us) - 1
         /\ \A j \in 1 .. Len(us) - 1 :
              RemoveUser(us, i)[j] = IF j < i THEN us[j] ELSE us[j + 1]
  <1> DEFINE A == SubSeq(us, 1, i - 1)
             B == SubSeq(us, i + 1, Len(us))
  <1>1. i \in 1 .. Len(us) /\ Len(us) \in Nat
    OBVIOUS
  <1>2. /\ A \in Seq(Clients) /\ Len(A) = i - 1
        /\ \A j \in 1 .. i - 1 : A[j] = us[j]
    <2>1. \A j \in 1 .. i - 1 : us[j] \in Clients
      BY <1>1
    <2> QED BY <1>1, <2>1, SubSeqProperties
  <1>3. /\ B \in Seq(Clients) /\ Len(B) = Len(us) - i
        /\ \A j \in 1 .. Len(us) - i : B[j] = us[i + j]
    <2>1. \A j \in i + 1 .. Len(us) : us[j] \in Clients
      BY <1>1
    <2>2. /\ B \in Seq(Clients)
          /\ Len(B) = IF i + 1 <= Len(us) THEN Len(us) - (i + 1) + 1 ELSE 0
          /\ \A j \in 1 .. Len(us) - (i + 1) + 1 : B[j] = us[(i + 1) + j - 1]
      BY <1>1, <2>1, SubSeqProperties
    <2> QED BY <1>1, <2>2
  <1>4. RemoveUser(us, i) = A \o B
    BY DEF RemoveUser
  <1> HIDE DEF A, B
  <1>5. /\ A \o B \in Seq(Clients)
        /\ Len(A \o B) = Len(A) + Len(B)
        /\ \A j \in 1 .. Len(A) + Len(B) :
             (A \o B)[j] = IF j <= Len(A) THEN A[j] ELSE B[j - Len(A)]
    BY <1>2, <1>3, ConcatProperties
  <1>6. ASSUME NEW j \in 1 .. Len(us) - 1
        PROVE  (A \o B)[j] = IF j < i THEN us[j] ELSE us[j + 1]
    <2>1. CASE j < i
      <3>1. j \in 1 .. i - 1 /\ j \in 1 .. Len(A) + Len(B) /\ j <= Len(A)
        BY <1>1, <1>2, <1>3, <2>1
      <3>2. (A \o B)[j] = A[j]
        BY <1>5, <3>1
      <3> QED BY <1>2, <2>1, <3>1, <3>2
    <2>2. CASE ~(j < i)
      <3>1. j - (i - 1) \in 1 .. Len(us) - i /\ ~(j <= i - 1)
        BY <1>1, <2>2
      <3>2. B[j - (i - 1)] = us[j + 1]
        <4>1. i + (j - (i - 1)) = j + 1
          BY <1>1
        <4> QED BY <1>3, <3>1, <4>1
      <3>3. j \in 1 .. Len(A) + Len(B) /\ ~(j <= Len(A)) /\ j - Len(A) = j - (i - 1)
        <4>1. Len(A) = i - 1 /\ Len(B) = Len(us) - i
          BY <1>2, <1>3
        <4>2. Len(A) + Len(B) = Len(us) - 1
          BY <1>1, <4>1
        <4> QED BY <3>1, <4>1, <4>2
      <3>4. (A \o B)[j] = B[j - Len(A)]
        BY <1>5, <3>3
      <3> QED BY <2>2, <3>2, <3>3, <3>4
    <2> QED BY <2>1, <2>2
  <1>7. Len(A) + Len(B) = Len(us) - 1
    BY <1>1, <1>2, <1>3
  <1> QED BY <1>4, <1>5, <1>6, <1>7, Zenon

\* Removing a user keeps the table a sequence of at most MaxClients users.
LEMMA RemoveUserType ==
  ASSUME NEW us \in Seq(Clients), Len(us) <= MaxClients, NEW i
  PROVE  RemoveUser(us, i) \in Seq(Clients) /\ Len(RemoveUser(us, i)) <= MaxClients
  <1>1. CASE i \in DOMAIN us
    BY <1>1, RemoveUserElements, ConstantsAssumption
  <1>2. CASE i \notin DOMAIN us
    BY <1>2 DEF RemoveUser
  <1> QED BY <1>1, <1>2

-----------------------------------------------------------------------------
(* Type correctness.                                                       *)

\* Processing a command keeps the room's types.
LEMMA ProcessType ==
  ASSUME TypeOK, ServerProcess
  PROVE  /\ version' \in 0 .. VersionModulus - 1
         /\ messages' \in Seq(Lines) /\ Len(messages') <= MaxMessages
         /\ users' \in Seq(Clients) /\ Len(users') <= MaxClients
         /\ missed' \in [Clients -> Nat]
  <1> DEFINE r == commands[command_head]
  <1>1. r \in Requests
    BY DEF TypeOK, ServerProcess
  <1> HIDE DEF r
  <1>2. r.command \in Commands => r.pid \in Clients /\ r.text \in Texts \union {None}
    <2>1. CASE r = NoRequest
      BY <2>1 DEF NoRequest, Request, Commands
    <2>2. CASE r \in SentRequests
      BY <2>2 DEF SentRequests
    <2> QED BY <1>1, <2>1, <2>2 DEF Requests
  <1>3. ASSUME BumpVersion
        PROVE  version' \in 0 .. VersionModulus - 1 /\ missed' \in [Clients -> Nat]
    <2>1. version' \in 0 .. VersionModulus - 1
      BY <1>3, VersionStep DEF BumpVersion, TypeOK
    <2>2. missed' \in [Clients -> Nat]
      BY <1>3 DEF BumpVersion, TypeOK, Gone
    <2> QED BY <2>1, <2>2
  <1>4. ASSUME NEW kind \in {"joined", "text", "left"}, NEW t \in Texts \union {None},
               r.pid \in Clients
        PROVE  /\ AddMessage(messages, Line(kind, r.pid, t)) \in Seq(Lines)
               /\ Len(AddMessage(messages, Line(kind, r.pid, t))) <= MaxMessages
    <2>1. Line(kind, r.pid, t) \in Lines
      BY <1>4 DEF Line, Lines
    <2> QED BY <2>1, AddMessageType DEF TypeOK
  <1>5. CASE ProcessJoin(r)
    BY <1>2, <1>3, <1>4, <1>5, AddUserType DEF ProcessJoin, Commands, TypeOK
  <1>6. CASE ProcessText(r)
    BY <1>2, <1>3, <1>4, <1>6 DEF ProcessText, Commands, TypeOK
  <1>7. CASE ProcessLeave(r)
    BY <1>2, <1>3, <1>4, <1>7, RemoveUserType DEF ProcessLeave, Commands, TypeOK
  <1>8. CASE ProcessNothing(r)
    BY <1>8 DEF ProcessNothing, TypeOK
  <1> QED BY <1>5, <1>6, <1>7, <1>8 DEF ServerProcess, r

\* The end of a process leaves the types of its variables.
LEMMA ForgetType ==
  ASSUME TypeOK, NEW c \in Clients, Forget(c)
  PROVE  /\ request' \in [Clients -> Requests]
         /\ receiver_started' \in [Clients -> BOOLEAN]
         /\ running' \in [Clients -> BOOLEAN]
         /\ stateLock' \in [Clients -> Roles \union {None}]
         /\ seen' \in [Clients -> 0 .. VersionModulus - 1]
         /\ shown' \in [Clients -> Seq(Lines)]
         /\ shownUsers' \in [Clients -> Seq(Clients)]
         /\ missed' \in [Clients -> Nat]
         /\ UNCHANGED <<version, messages, users, commands, command_head, command_tail,
                        command_count, sent>>
  <1>1. NoRequest \in Requests
    BY DEF Requests
  <1>2. 0 \in 0 .. VersionModulus - 1
    BY ConstantsAssumption
  <1>3. <<>> \in Seq(Lines) /\ <<>> \in Seq(Clients)
    OBVIOUS
  <1> QED BY <1>1, <1>2, <1>3 DEF TypeOK, Forget, ringVars

\* A step that ends a process and touches nothing shared keeps all types.
LEMMA ForgetKeepsType ==
  ASSUME TypeOK, NEW c \in Clients, Forget(c), pc' \in [Threads -> ThreadPcs],
         orphans' \subseteq Clients, UNCHANGED <<mem, linked, roomLock, srvVars>>
  PROVE  TypeOK'
  <1>1. /\ request' \in [Clients -> Requests]
        /\ receiver_started' \in [Clients -> BOOLEAN]
        /\ running' \in [Clients -> BOOLEAN]
        /\ stateLock' \in [Clients -> Roles \union {None}]
        /\ seen' \in [Clients -> 0 .. VersionModulus - 1]
        /\ shown' \in [Clients -> Seq(Lines)]
        /\ shownUsers' \in [Clients -> Seq(Clients)]
        /\ missed' \in [Clients -> Nat]
        /\ UNCHANGED <<version, messages, users, commands, command_head, command_tail,
                       command_count, sent>>
    BY ForgetType
  <1> QED BY <1>1, SMTT(30) DEF TypeOK, srvVars

\* A thread that goes on to another program point keeps the type of pc.
LEMMA PcType ==
  ASSUME TypeOK, NEW c \in Clients, NEW r \in Roles, NEW from, NEW to \in ThreadPcs,
         Goto(c, r, from, to)
  PROVE  pc' \in [Threads -> ThreadPcs] /\ <<c, r>> \in Threads
  BY DEF TypeOK, Goto, Threads

\* client_send_command returns to a place of main.
LEMMA AfterSendType ==
  ASSUME NEW c, NEW ok \in BOOLEAN
  PROVE  AfterSend(c, ok) \in ThreadPcs
  BY DEF AfterSend, ThreadPcs

\* What a client sends is a command.
LEMMA RequestType ==
  ASSUME NEW c \in Clients, NEW command \in Commands, NEW t \in Texts \union {None}
  PROVE  /\ Request(command, c, t) \in SentRequests
         /\ Request(command, c, t) \in Requests
         /\ Request(command, c, t).command = command
  BY DEF Request, Requests, SentRequests

\* What one step does to the types.
LEMMA TypeStep == TypeOK /\ [Next]_vars => TypeOK'
  <1> SUFFICES ASSUME TypeOK, [Next]_vars PROVE TypeOK'
    OBVIOUS
  <1> USE ConstantsAssumption DEF vars, shared, shmVars, srvVars, clientVars, private,
        roomVars, ringVars, copyVars, lifeVars, ServerPcs
  <1>1. CASE ShmOpen
    BY <1>1 DEF TypeOK, ShmOpen
  <1>2. CASE Ftruncate
    BY <1>2 DEF TypeOK, Ftruncate
  <1>3. CASE SemInit
    <2>1. NoRequest \in Requests /\ <<>> \in Seq(Lines) /\ <<>> \in Seq(Clients)
      BY DEF Requests
    <2>2. 0 \in 0 .. VersionModulus - 1 /\ 0 \in 0 .. MaxCommands - 1 /\ Len(<<>>) = 0
      OBVIOUS
    <2>3. /\ version' = 0 /\ messages' = <<>> /\ users' = <<>>
          /\ command_head' = 0 /\ command_tail' = 0 /\ command_count' = 0
          /\ commands' = [i \in 0 .. MaxCommands - 1 |-> NoRequest]
          /\ srvPc' = "check" /\ mem' = "ready" /\ roomLock' = None
          /\ orphans' \subseteq Clients
          /\ UNCHANGED <<linked, missed, g_running, signals, clientVars>>
      BY <1>3 DEF SemInit
    <2>4. commands' \in [0 .. MaxCommands - 1 -> Requests]
      BY <2>1, <2>3
    <2>5. /\ messages' \in Seq(Lines) /\ Len(messages') <= MaxMessages
          /\ users' \in Seq(Clients) /\ Len(users') <= MaxClients
      BY <2>1, <2>2, <2>3
    <2>6. /\ version' \in 0 .. VersionModulus - 1
          /\ command_head' \in 0 .. MaxCommands - 1
          /\ command_tail' \in 0 .. MaxCommands - 1
          /\ command_count' \in 0 .. MaxCommands
      BY <2>2, <2>3
    <2>7. /\ mem' \in {"absent", "empty", "zeroed", "ready"}
          /\ roomLock' \in Threads \union {None, Server}
          /\ srvPc' \in ServerPcs
      BY <2>3
    <2> HIDE DEF ServerPcs
    <2> QED BY <2>3, <2>4, <2>5, <2>6, <2>7 DEF TypeOK
  <1>4. CASE CreateFails
    BY <1>4 DEF TypeOK, CreateFails
  <1>5. CASE ServerTurn
    BY <1>5 DEF TypeOK, ServerTurn
  <1>6. CASE ServerExit
    BY <1>6 DEF TypeOK, ServerExit
  <1>7. CASE ServerLock
    BY <1>7 DEF TypeOK, ServerLock, LockRoom
  <1>8. CASE ServerProcess
    <2>1. command_head' \in 0 .. MaxCommands - 1 /\ command_count' \in 0 .. MaxCommands
      <3>1. /\ command_head \in 0 .. MaxCommands - 1
            /\ command_count \in 0 .. MaxCommands
        BY DEF TypeOK
      <3>2. /\ command_head' = NextSlot(command_head)
            /\ command_count > 0 /\ command_count' = command_count - 1
        BY <1>8 DEF ServerProcess
      <3> QED BY <3>1, <3>2, NextSlotRange
    <2>2. UNCHANGED <<shmVars, commands, command_tail, g_running, signals, clientVars>>
      BY <1>8 DEF ServerProcess
    <2>3. srvPc' \in ServerPcs /\ roomLock' = None
      BY <1>8 DEF ServerProcess, UnlockRoom
    <2> QED BY <1>8, <2>1, <2>2, <2>3, ProcessType DEF TypeOK
  <1>9. CASE ServerIdle
    BY <1>9 DEF TypeOK, ServerIdle, UnlockRoom
  <1>10. CASE HandleSignal
    BY <1>10 DEF TypeOK, HandleSignal
  <1>11. CASE SignalAgain
    BY <1>11 DEF TypeOK, SignalAgain
  <1>12. ASSUME NEW c \in Clients, ConnectFails(c) PROVE TypeOK'
    <2>1. pc' \in [Threads -> ThreadPcs]
      BY <1>12, PcType DEF ConnectFails, Roles, ThreadPcs
    <2>2. /\ Forget(c) /\ orphans' \subseteq Clients
          /\ UNCHANGED <<mem, linked, roomLock, srvVars>>
      BY <1>12 DEF ConnectFails, TypeOK
    <2> QED BY <2>1, <2>2, ForgetKeepsType
  <1>13. ASSUME NEW c \in Clients, Connect(c) PROVE TypeOK'
    <2>1. pc' \in [Threads -> ThreadPcs]
      BY <1>13, PcType DEF Connect, Roles, ThreadPcs
    <2>2. Request("JOIN", c, None) \in Requests
      BY RequestType DEF Commands
    <2> QED BY <1>13, <2>1, <2>2 DEF TypeOK, Connect
  <1>14. ASSUME NEW c \in Clients, BusError(c) PROVE TypeOK'
    <2>1. pc' \in [Threads -> ThreadPcs]
      BY <1>14, PcType DEF BusError, Roles, ThreadPcs
    <2>2. /\ Forget(c) /\ orphans' \subseteq Clients
          /\ UNCHANGED <<mem, linked, roomLock, srvVars>>
      BY <1>14 DEF BusError, TypeOK
    <2> QED BY <2>1, <2>2, ForgetKeepsType
  <1>15. ASSUME NEW c \in Clients, SendLock(c) PROVE TypeOK'
    <2>1. pc' \in [Threads -> ThreadPcs] /\ <<c, "main">> \in Threads
      BY <1>15, PcType DEF SendLock, Roles, ThreadPcs
    <2> QED BY <1>15, <2>1 DEF TypeOK, SendLock, LockRoom
  <1>16. ASSUME NEW c \in Clients, SendEnqueue(c) PROVE TypeOK'
    <2>1. command_tail' \in 0 .. MaxCommands - 1 /\ command_count' \in 0 .. MaxCommands
      <3>1. /\ command_tail \in 0 .. MaxCommands - 1
            /\ command_count \in 0 .. MaxCommands
        BY DEF TypeOK
      <3>2. /\ command_tail' = NextSlot(command_tail)
            /\ command_count < MaxCommands /\ command_count' = command_count + 1
        BY <1>16 DEF SendEnqueue
      <3> QED BY <3>1, <3>2, NextSlotRange
    <2>2. commands' \in [0 .. MaxCommands - 1 -> Requests]
      BY <1>16 DEF TypeOK, SendEnqueue
    <2>3. pc' \in [Threads -> ThreadPcs]
      <3>1. Goto(c, "main", "sendHold", AfterSend(c, TRUE)) /\ AfterSend(c, TRUE) \in ThreadPcs
        BY <1>16, AfterSendType DEF SendEnqueue
      <3> QED BY <3>1, PcType DEF Roles
    <2> QED BY <1>16, <2>1, <2>2, <2>3 DEF TypeOK, SendEnqueue, UnlockRoom
  <1>17. ASSUME NEW c \in Clients, SendFull(c) PROVE TypeOK'
    <2>1. pc' \in [Threads -> ThreadPcs]
      <3>1. Goto(c, "main", "sendHold", AfterSend(c, FALSE)) /\ AfterSend(c, FALSE) \in ThreadPcs
        BY <1>17, AfterSendType DEF SendFull
      <3> QED BY <3>1, PcType DEF Roles
    <2> QED BY <1>17, <2>1 DEF TypeOK, SendFull, UnlockRoom
  <1>18. ASSUME NEW c \in Clients, SendInterrupted(c) PROVE TypeOK'
    <2>1. pc' \in [Threads -> ThreadPcs]
      <3>1. Goto(c, "main", "sendWait", AfterSend(c, FALSE)) /\ AfterSend(c, FALSE) \in ThreadPcs
        BY <1>18, AfterSendType DEF SendInterrupted
      <3> QED BY <3>1, PcType DEF Roles
    <2> QED BY <1>18, <2>1 DEF TypeOK, SendInterrupted
  <1>19. ASSUME NEW c \in Clients, PushMessage(c) PROVE TypeOK'
    <2>1. Line("note", c, None) \in Lines
      BY DEF Line, Lines
    <2>2. shown' \in [Clients -> Seq(Lines)]
      BY <1>19, <2>1, AddMessageType DEF TypeOK, PushMessage
    <2>3. pc' \in [Threads -> ThreadPcs]
      BY <1>19, PcType DEF PushMessage, Roles, ThreadPcs
    <2> QED BY <1>19, <2>2, <2>3 DEF TypeOK, PushMessage
  <1>20. ASSUME NEW c \in Clients, StartReceiver(c) PROVE TypeOK'
    <2>1. pc' \in [Threads -> ThreadPcs]
      BY <1>20 DEF TypeOK, StartReceiver, Threads, Roles, ThreadPcs
    <2> QED BY <1>20, <2>1 DEF TypeOK, StartReceiver
  <1>21. ASSUME NEW c \in Clients, StartFails(c) PROVE TypeOK'
    <2>1. pc' \in [Threads -> ThreadPcs]
      BY <1>21, PcType DEF StartFails, Roles, ThreadPcs
    <2>2. Request("LEAVE", c, None) \in Requests
      BY RequestType DEF Commands
    <2> QED BY <1>21, <2>1, <2>2 DEF TypeOK, StartFails, BeginLeave
  <1>22. ASSUME NEW c \in Clients, SnapshotLock(c) PROVE TypeOK'
    <2>1. pc' \in [Threads -> ThreadPcs]
      BY <1>22, PcType DEF SnapshotLock, Roles, ThreadPcs
    <2> QED BY <1>22, <2>1 DEF TypeOK, SnapshotLock, Roles
  <1>23. ASSUME NEW c \in Clients, SnapshotUnlock(c) PROVE TypeOK'
    <2>1. pc' \in [Threads -> ThreadPcs]
      BY <1>23, PcType DEF SnapshotUnlock, Roles, ThreadPcs
    <2> QED BY <1>23, <2>1 DEF TypeOK, SnapshotUnlock
  <1>24. ASSUME NEW c \in Clients, KeyOther(c) PROVE TypeOK'
    <2>1. pc' \in [Threads -> ThreadPcs]
      BY <1>24, PcType DEF KeyOther, Roles, ThreadPcs
    <2> QED BY <1>24, <2>1 DEF TypeOK, KeyOther
  <1>25. ASSUME NEW c \in Clients, KeyExit(c) PROVE TypeOK'
    <2>1. pc' \in [Threads -> ThreadPcs]
      BY <1>25, PcType DEF KeyExit, Roles, ThreadPcs
    <2>2. Request("LEAVE", c, None) \in Requests
      BY RequestType DEF Commands
    <2> QED BY <1>25, <2>1, <2>2 DEF TypeOK, KeyExit, BeginLeave
  <1>26. ASSUME NEW c \in Clients, StopReceiver(c) PROVE TypeOK'
    <2>1. pc' \in [Threads -> ThreadPcs]
      BY <1>26, PcType DEF StopReceiver, Roles, ThreadPcs
    <2> QED BY <1>26, <2>1 DEF TypeOK, StopReceiver
  <1>27. ASSUME NEW c \in Clients, JoinReceiver(c) PROVE TypeOK'
    <2>1. pc' \in [Threads -> ThreadPcs]
      BY <1>27, PcType DEF JoinReceiver, Roles, ThreadPcs
    <2> QED BY <1>27, <2>1 DEF TypeOK, JoinReceiver
  <1>28. ASSUME NEW c \in Clients, ClientExit(c) PROVE TypeOK'
    <2>1. pc' \in [Threads -> ThreadPcs]
      BY <1>28, PcType DEF ClientExit, Roles, ThreadPcs
    <2>2. /\ Forget(c) /\ orphans' \subseteq Clients
          /\ UNCHANGED <<mem, linked, roomLock, srvVars>>
      BY <1>28 DEF ClientExit, TypeOK
    <2> QED BY <2>1, <2>2, ForgetKeepsType
  <1>29. ASSUME NEW c \in Clients, Kill(c) PROVE TypeOK'
    <2>1. pc' \in [Threads -> ThreadPcs]
      BY <1>29 DEF TypeOK, Kill, Threads, Roles, ThreadPcs
    <2>2. /\ Forget(c) /\ orphans' \subseteq Clients
          /\ UNCHANGED <<mem, linked, roomLock, srvVars>>
      BY <1>29 DEF Kill, TypeOK
    <2> QED BY <2>1, <2>2, ForgetKeepsType
  <1>30. ASSUME NEW c \in Clients, ReceiverTurn(c) PROVE TypeOK'
    <2>1. pc' \in [Threads -> ThreadPcs]
      BY <1>30, PcType DEF ReceiverTurn, Roles, ThreadPcs
    <2> QED BY <1>30, <2>1 DEF TypeOK, ReceiverTurn
  <1>31. ASSUME NEW c \in Clients, NEW t \in Texts, KeyText(c, t) PROVE TypeOK'
    <2>1. Request("TEXT", c, t) \in Requests
      BY DEF Request, Requests, SentRequests, Commands
    <2>2. request' \in [Clients -> Requests] /\ sent' \in [Clients -> Nat]
      <3>1. /\ request' = [request EXCEPT ![c] = Request("TEXT", c, t)]
            /\ sent' = [sent EXCEPT ![c] = sent[c] + 1]
        BY <1>31 DEF KeyText
      <3>2. request \in [Clients -> Requests] /\ sent \in [Clients -> Nat]
        BY DEF TypeOK
      <3>3. request' \in [Clients -> Requests]
        BY <2>1, <3>1, <3>2, Zenon
      <3>4. sent' \in [Clients -> Nat]
        BY <3>1, <3>2
      <3> QED BY <3>3, <3>4
    <2>3. pc' \in [Threads -> ThreadPcs]
      BY <1>31, PcType DEF KeyText, Roles, ThreadPcs
    <2> QED BY <1>31, <2>2, <2>3 DEF TypeOK, KeyText
  <1>32. ASSUME NEW c \in Clients, NEW r \in Roles, RefreshLock(c, r) PROVE TypeOK'
    <2>1. pc' \in [Threads -> ThreadPcs] /\ <<c, r>> \in Threads
      BY <1>32, PcType DEF RefreshLock, Roles, ThreadPcs
    <2> QED BY <1>32, <2>1 DEF TypeOK, RefreshLock, LockRoom
  <1>33. ASSUME NEW c \in Clients, NEW r \in Roles, RefreshInterrupted(c, r) PROVE TypeOK'
    <2>1. pc' \in [Threads -> ThreadPcs]
      BY <1>33, PcType DEF RefreshInterrupted, AfterRefresh, Roles, ThreadPcs
    <2> QED BY <1>33, <2>1 DEF TypeOK, RefreshInterrupted
  <1>34. ASSUME NEW c \in Clients, NEW r \in Roles, RefreshSame(c, r) PROVE TypeOK'
    <2>1. pc' \in [Threads -> ThreadPcs]
      BY <1>34, PcType DEF RefreshSame, AfterRefresh, Roles, ThreadPcs
    <2> QED BY <1>34, <2>1 DEF TypeOK, RefreshSame, UnlockRoom
  <1>35. ASSUME NEW c \in Clients, NEW r \in Roles, RefreshStateLock(c, r) PROVE TypeOK'
    <2>1. pc' \in [Threads -> ThreadPcs]
      BY <1>35, PcType DEF RefreshStateLock, Roles, ThreadPcs
    <2> QED BY <1>35, <2>1 DEF TypeOK, RefreshStateLock
  <1>36. ASSUME NEW c \in Clients, NEW r \in Roles, CopyMessages(c, r) PROVE TypeOK'
    <2>1. pc' \in [Threads -> ThreadPcs]
      BY <1>36, PcType DEF CopyMessages, Roles, ThreadPcs
    <2> QED BY <1>36, <2>1 DEF TypeOK, CopyMessages
  <1>37. ASSUME NEW c \in Clients, NEW r \in Roles, CopyUsers(c, r) PROVE TypeOK'
    <2>1. pc' \in [Threads -> ThreadPcs]
      BY <1>37, PcType DEF CopyUsers, AfterRefresh, Roles, ThreadPcs
    <2> QED BY <1>37, <2>1 DEF TypeOK, CopyUsers, UnlockRoom
  <1>38. CASE UNCHANGED vars
    BY <1>38 DEF TypeOK
  <1> QED
    BY <1>1, <1>2, <1>3, <1>4, <1>5, <1>6, <1>7, <1>8, <1>9, <1>10, <1>11, <1>12, <1>13,
       <1>14, <1>15, <1>16, <1>17, <1>18, <1>19, <1>20, <1>21, <1>22, <1>23, <1>24,
       <1>25, <1>26, <1>27, <1>28, <1>29, <1>30, <1>31, <1>32, <1>33, <1>34, <1>35,
       <1>36, <1>37, <1>38
    DEF Next, ServerSteps, MainSteps, MainLocks, RefreshSteps, RefreshLocks, Environment

\* The initial states are well typed.
LEMMA TypeInit == Init => TypeOK
  <1>1. NoRequest \in Requests /\ <<>> \in Seq(Lines) /\ <<>> \in Seq(Clients)
    BY DEF Requests
  <1>2. 0 \in 0 .. VersionModulus - 1 /\ 0 \in 0 .. MaxCommands - 1 /\ Len(<<>>) = 0
    BY ConstantsAssumption
  <1>3. Init => pc \in [Threads -> ThreadPcs]
    BY DEF Init, ThreadPcs
  <1> SUFFICES ASSUME Init PROVE TypeOK
    OBVIOUS
  <1>4. /\ mem \in {"absent", "empty", "zeroed", "ready"} /\ linked \in BOOLEAN
        /\ roomLock \in Threads \union {None, Server} /\ orphans \subseteq Clients
        /\ srvPc \in ServerPcs /\ g_running \in BOOLEAN /\ signals \in Nat
    BY DEF Init, ServerPcs
  <1>5. /\ version \in 0 .. VersionModulus - 1
        /\ messages \in Seq(Lines) /\ Len(messages) <= MaxMessages
        /\ users \in Seq(Clients) /\ Len(users) <= MaxClients
        /\ commands \in [0 .. MaxCommands - 1 -> Requests]
        /\ command_head \in 0 .. MaxCommands - 1
        /\ command_tail \in 0 .. MaxCommands - 1
        /\ command_count \in 0 .. MaxCommands
    BY <1>1, <1>2, ConstantsAssumption DEF Init, RoomZero
  <1>6. /\ request \in [Clients -> Requests]
        /\ receiver_started \in [Clients -> BOOLEAN]
        /\ running \in [Clients -> BOOLEAN]
        /\ stateLock \in [Clients -> Roles \union {None}]
        /\ seen \in [Clients -> 0 .. VersionModulus - 1]
        /\ shown \in [Clients -> Seq(Lines)]
        /\ shownUsers \in [Clients -> Seq(Clients)]
        /\ sent \in [Clients -> Nat]
        /\ missed \in [Clients -> Nat]
    BY <1>1, <1>2 DEF Init
  <1> QED BY <1>3, <1>4, <1>5, <1>6 DEF TypeOK

\* Every reachable state is well typed: in particular the room's counters stay inside
\* its arrays, whatever the sizes of the tables.
THEOREM TypeCorrect == Spec => []TypeOK
  BY TypeInit, TypeStep, PTL DEF Spec

-----------------------------------------------------------------------------
(* Locks and the life of a client.                                         *)

\* A move of one thread, seen from every thread.
LEMMA GotoPc ==
  ASSUME TypeOK, NEW c \in Clients, NEW r \in Roles, NEW from, NEW to, Goto(c, r, from, to)
  PROVE  /\ pc[<<c, r>>] = from
         /\ \A d \in Clients, q \in Roles :
              pc'[<<d, q>>] = IF d = c /\ q = r THEN to ELSE pc[<<d, q>>]
  BY DEF Goto, TypeOK, Threads

\* Threads are told apart by process and role, and neither is None or the server.
LEMMA ThreadsDiffer ==
  /\ \A c, d \in Clients, r, q \in Roles : (<<c, r>> = <<d, q>>) <=> (c = d /\ r = q)
  /\ \A c \in Clients, r \in Roles : <<c, r>> # None /\ <<c, r>> # Server
  /\ Server # None
  BY ConstantsAssumption DEF Threads

\* What a move of thread <<c, r>> may do to room.lock and to its client's state_lock.
RoomLockStep(c, r, from, to) ==
  \/ roomLock' = roomLock /\ (to \in InRoom => from \in InRoom)
  \/ roomLock = None /\ roomLock' = <<c, r>>
  \/ from \in InRoom /\ to \notin InRoom /\ roomLock' = None

StateLockStep(c, r, from, to) ==
  \/ stateLock' = stateLock /\ (to \in InState => from \in InState)
  \/ stateLock[c] = None /\ stateLock' = [stateLock EXCEPT ![c] = r]
  \/ from \in InState /\ to \notin InState /\ stateLock' = [stateLock EXCEPT ![c] = None]

\* Such a move keeps both locks exclusive.
LEMMA ExclusionKept ==
  ASSUME TypeOK, MutualExclusion, NEW c \in Clients, NEW r \in Roles, NEW from, NEW to,
         Goto(c, r, from, to), srvPc' = srvPc,
         RoomLockStep(c, r, from, to), StateLockStep(c, r, from, to)
  PROVE  MutualExclusion'
  <1>0. /\ pc[<<c, r>>] = from
        /\ \A d \in Clients, q \in Roles :
             pc'[<<d, q>>] = IF d = c /\ q = r THEN to ELSE pc[<<d, q>>]
    BY GotoPc
  <1> USE <1>0 DEF RoomLockStep, StateLockStep
  <1>1. srvPc' = "locked" => roomLock' = Server
    BY ThreadsDiffer DEF MutualExclusion
  <1>2. ASSUME NEW d \in Clients, NEW q \in Roles, pc'[<<d, q>>] \in InRoom
        PROVE  roomLock' = <<d, q>>
    <2>1. CASE d = c /\ q = r
      BY <1>2, <2>1 DEF MutualExclusion
    <2>2. CASE ~(d = c /\ q = r)
      <3>1. pc[<<d, q>>] \in InRoom /\ roomLock = <<d, q>>
        BY <1>2, <2>2 DEF MutualExclusion
      <3> QED BY <2>2, <3>1, ThreadsDiffer DEF MutualExclusion
    <2> QED BY <2>1, <2>2
  <1>3. ASSUME NEW d \in Clients, NEW q \in Roles, pc'[<<d, q>>] \in InState
        PROVE  stateLock'[d] = q
    <2>1. CASE d = c /\ q = r
      BY <1>3, <2>1 DEF MutualExclusion, TypeOK
    <2>2. CASE ~(d = c /\ q = r)
      <3>1. pc[<<d, q>>] \in InState /\ stateLock[d] = q
        BY <1>3, <2>2 DEF MutualExclusion
      <3>2. q # None
        BY ConstantsAssumption DEF Roles
      <3> QED BY <2>2, <3>1, <3>2, SMTT(40) DEF MutualExclusion, TypeOK
    <2> QED BY <2>1, <2>2
  <1> QED BY <1>1, <1>2, <1>3 DEF MutualExclusion

\* The end of client c: it is out of both locks, and nobody else moves.
EndsHere(c) ==
  /\ \A d \in Clients, q \in Roles : d # c => pc'[<<d, q>>] = pc[<<d, q>>]
  /\ \A q \in Roles : pc'[<<c, q>>] \in {"none", "end", "exited", "dead"}
  /\ pc'[<<c, "main">>] \in {"exited", "dead"}

\* A main thread without a receiver ends its whole client.
LEMMA MainEnds ==
  ASSUME TypeOK, LifeInv, NEW c \in Clients, NEW from, NEW to \in {"exited", "dead"},
         Goto(c, "main", from, to), ~receiver_started[c]
  PROVE  EndsHere(c)
  <1>1. /\ pc[<<c, "main">>] = from
        /\ \A d \in Clients, q \in Roles :
             pc'[<<d, q>>] = IF d = c /\ q = "main" THEN to ELSE pc[<<d, q>>]
    <2>1. "main" \in Roles
      BY DEF Roles
    <2> QED BY <2>1, GotoPc
  <1>2. pc[<<c, "recv">>] \in {"none", "end", "dead"}
    BY DEF LifeInv
  <1>3. ASSUME NEW q \in Roles PROVE pc'[<<c, q>>] \in {"none", "end", "exited", "dead"}
    <2>1. CASE q = "main"
      BY <1>1, <2>1
    <2>2. CASE q = "recv"
      BY <1>1, <1>2, <2>2
    <2> QED BY <2>1, <2>2 DEF Roles
  <1>4. \A d \in Clients, q \in Roles : d # c => pc'[<<d, q>>] = pc[<<d, q>>]
    BY <1>1
  <1>5. pc'[<<c, "main">>] = to
    BY <1>1 DEF Roles
  <1> QED BY <1>3, <1>4, <1>5 DEF EndsHere

\* A death ends both threads.
LEMMA KillEnds ==
  ASSUME TypeOK, NEW c \in Clients, Kill(c)
  PROVE  EndsHere(c)
  <1>1. \A d \in Clients, q \in Roles :
          pc'[<<d, q>>] = IF d = c THEN "dead" ELSE pc[<<d, q>>]
    BY DEF Kill, TypeOK, Threads, Roles
  <1> QED BY <1>1 DEF EndsHere, Roles

\* Whichever way a client ends, that is what happens, and the room stays as it is.
LEMMA Endings ==
  ASSUME TypeOK, StartInv, LifeInv, NEW c \in Clients,
         ConnectFails(c) \/ BusError(c) \/ ClientExit(c) \/ Kill(c)
  PROVE  EndsHere(c) /\ Forget(c) /\ UNCHANGED <<srvPc, roomLock>>
  <1>1. CASE ConnectFails(c)
    <2>1. Goto(c, "main", "init", "exited") /\ pc[<<c, "main">>] = "init"
      BY <1>1 DEF ConnectFails, Goto
    <2>2. ~receiver_started[c]
      BY <2>1 DEF LifeInv
    <2> QED BY <1>1, <2>1, <2>2, MainEnds DEF ConnectFails, srvVars
  <1>2. CASE BusError(c)
    <2>1. /\ Goto(c, "main", "sendWait", "dead") /\ pc[<<c, "main">>] = "sendWait"
          /\ mem # "ready"
      BY <1>2 DEF BusError, Goto
    <2>2. request[c].command = "JOIN"
      BY <2>1 DEF StartInv
    <2>3. ~receiver_started[c]
      BY <2>1, <2>2 DEF LifeInv
    <2> QED BY <1>2, <2>1, <2>3, MainEnds DEF BusError, srvVars
  <1>3. CASE ClientExit(c)
    <2>1. Goto(c, "main", "destroy", "exited") /\ pc[<<c, "main">>] = "destroy"
      BY <1>3 DEF ClientExit, Goto
    <2>2. ~receiver_started[c]
      BY <2>1 DEF LifeInv
    <2> QED BY <1>3, <2>1, <2>2, MainEnds DEF ClientExit, srvVars
  <1>4. CASE Kill(c)
    BY <1>4, KillEnds DEF Kill, srvVars
  <1> QED BY <1>1, <1>2, <1>3, <1>4

\* The end of a client keeps both locks exclusive.
LEMMA EndKeepsExclusion ==
  ASSUME TypeOK, MutualExclusion, NEW c \in Clients, EndsHere(c), Forget(c),
         UNCHANGED <<srvPc, roomLock>>
  PROVE  MutualExclusion'
  <1>1. \A d \in Clients : d # c => stateLock'[d] = stateLock[d]
    BY DEF Forget, TypeOK
  <1>2. \A q \in Roles : pc'[<<c, q>>] \notin InRoom /\ pc'[<<c, q>>] \notin InState
    BY DEF EndsHere, InRoom, InState
  <1>3. ASSUME NEW d \in Clients, NEW q \in Roles
        PROVE  /\ pc'[<<d, q>>] \in InRoom => roomLock' = <<d, q>>
               /\ pc'[<<d, q>>] \in InState => stateLock'[d] = q
    <2>1. CASE d = c
      BY <1>2, <2>1
    <2>2. CASE d # c
      BY <1>1, <2>2 DEF EndsHere, MutualExclusion
    <2> QED BY <2>1, <2>2
  <1>4. srvPc' = "locked" => roomLock' = Server
    BY DEF MutualExclusion
  <1> QED BY <1>3, <1>4 DEF MutualExclusion

\* room.lock and state_lock are exclusive after every step.
LEMMA ExclusionStep ==
  TypeOK /\ StartInv /\ LifeInv /\ MutualExclusion /\ [Next]_vars => MutualExclusion'
  <1> SUFFICES ASSUME TypeOK, StartInv, LifeInv, MutualExclusion, [Next]_vars
               PROVE  MutualExclusion'
    OBVIOUS
  <1> USE DEF vars, shared, shmVars, srvVars, clientVars, private, roomVars, ringVars,
        copyVars, lifeVars, InRoom, InState
  <1>1. CASE ShmOpen
    BY <1>1, ThreadsDiffer DEF StartInv, MutualExclusion, ShmOpen
  <1>2. CASE Ftruncate
    BY <1>2, ThreadsDiffer DEF StartInv, MutualExclusion, Ftruncate
  <1>3. CASE SemInit
    BY <1>3, ThreadsDiffer DEF StartInv, MutualExclusion, SemInit
  <1>4. CASE CreateFails
    BY <1>4, ThreadsDiffer DEF StartInv, MutualExclusion, CreateFails
  <1>5. CASE ServerTurn
    BY <1>5, ThreadsDiffer DEF StartInv, MutualExclusion, ServerTurn
  <1>6. CASE ServerExit
    BY <1>6, ThreadsDiffer DEF StartInv, MutualExclusion, ServerExit
  <1>7. CASE ServerLock
    BY <1>7, ThreadsDiffer DEF StartInv, MutualExclusion, ServerLock, LockRoom
  <1>8. CASE ServerProcess
    BY <1>8, ThreadsDiffer DEF StartInv, MutualExclusion, ServerProcess, UnlockRoom
  <1>9. CASE ServerIdle
    BY <1>9, ThreadsDiffer DEF StartInv, MutualExclusion, ServerIdle, UnlockRoom
  <1>10. CASE HandleSignal
    BY <1>10, ThreadsDiffer DEF StartInv, MutualExclusion, HandleSignal
  <1>11. CASE SignalAgain
    BY <1>11, ThreadsDiffer DEF StartInv, MutualExclusion, SignalAgain
  <1>12. ASSUME NEW c \in Clients, Connect(c) PROVE MutualExclusion'
    <2>1. /\ Goto(c, "main", "init", "sendWait") /\ srvPc' = srvPc
          /\ RoomLockStep(c, "main", "init", "sendWait")
          /\ StateLockStep(c, "main", "init", "sendWait")
      BY <1>12 DEF Connect, RoomLockStep, StateLockStep
    <2> QED BY <2>1, ExclusionKept DEF Roles
  <1>13. ASSUME NEW c \in Clients, SendLock(c) PROVE MutualExclusion'
    <2>1. /\ Goto(c, "main", "sendWait", "sendHold") /\ srvPc' = srvPc
          /\ RoomLockStep(c, "main", "sendWait", "sendHold")
          /\ StateLockStep(c, "main", "sendWait", "sendHold")
      BY <1>13 DEF SendLock, RoomLockStep, StateLockStep, LockRoom
    <2> QED BY <2>1, ExclusionKept DEF Roles
  <1>14. ASSUME NEW c \in Clients, SendEnqueue(c) PROVE MutualExclusion'
    <2>1. /\ Goto(c, "main", "sendHold", AfterSend(c, TRUE)) /\ srvPc' = srvPc
          /\ RoomLockStep(c, "main", "sendHold", AfterSend(c, TRUE))
          /\ StateLockStep(c, "main", "sendHold", AfterSend(c, TRUE))
      BY <1>14 DEF SendEnqueue, RoomLockStep, StateLockStep, UnlockRoom, AfterSend
    <2> QED BY <2>1, ExclusionKept DEF Roles
  <1>15. ASSUME NEW c \in Clients, SendFull(c) PROVE MutualExclusion'
    <2>1. /\ Goto(c, "main", "sendHold", AfterSend(c, FALSE)) /\ srvPc' = srvPc
          /\ RoomLockStep(c, "main", "sendHold", AfterSend(c, FALSE))
          /\ StateLockStep(c, "main", "sendHold", AfterSend(c, FALSE))
      BY <1>15 DEF SendFull, RoomLockStep, StateLockStep, UnlockRoom, AfterSend
    <2> QED BY <2>1, ExclusionKept DEF Roles
  <1>16. ASSUME NEW c \in Clients, SendInterrupted(c) PROVE MutualExclusion'
    <2>1. /\ Goto(c, "main", "sendWait", AfterSend(c, FALSE)) /\ srvPc' = srvPc
          /\ RoomLockStep(c, "main", "sendWait", AfterSend(c, FALSE))
          /\ StateLockStep(c, "main", "sendWait", AfterSend(c, FALSE))
      BY <1>16 DEF SendInterrupted, RoomLockStep, StateLockStep, AfterSend
    <2> QED BY <2>1, ExclusionKept DEF Roles
  <1>17. ASSUME NEW c \in Clients, PushMessage(c) PROVE MutualExclusion'
    <2>1. /\ Goto(c, "main", "push", IF request[c].command = "JOIN" THEN "destroy"
                                     ELSE "loop") /\ srvPc' = srvPc
          /\ RoomLockStep(c, "main", "push", IF request[c].command = "JOIN" THEN
             "destroy" ELSE "loop")
          /\ StateLockStep(c, "main", "push", IF request[c].command = "JOIN" THEN
             "destroy" ELSE "loop")
      BY <1>17 DEF PushMessage, RoomLockStep, StateLockStep
    <2> QED BY <2>1, ExclusionKept DEF Roles
  <1>18. ASSUME NEW c \in Clients, StartFails(c) PROVE MutualExclusion'
    <2>1. /\ Goto(c, "main", "start", "sendWait") /\ srvPc' = srvPc
          /\ RoomLockStep(c, "main", "start", "sendWait")
          /\ StateLockStep(c, "main", "start", "sendWait")
      BY <1>18 DEF StartFails, RoomLockStep, StateLockStep, BeginLeave
    <2> QED BY <2>1, ExclusionKept DEF Roles
  <1>19. ASSUME NEW c \in Clients, SnapshotLock(c) PROVE MutualExclusion'
    <2>1. /\ Goto(c, "main", "loop", "snapshot") /\ srvPc' = srvPc
          /\ RoomLockStep(c, "main", "loop", "snapshot")
          /\ StateLockStep(c, "main", "loop", "snapshot")
      BY <1>19 DEF SnapshotLock, RoomLockStep, StateLockStep
    <2> QED BY <2>1, ExclusionKept DEF Roles
  <1>20. ASSUME NEW c \in Clients, SnapshotUnlock(c) PROVE MutualExclusion'
    <2>1. /\ Goto(c, "main", "snapshot", "key") /\ srvPc' = srvPc
          /\ RoomLockStep(c, "main", "snapshot", "key")
          /\ StateLockStep(c, "main", "snapshot", "key")
      BY <1>20 DEF SnapshotUnlock, RoomLockStep, StateLockStep
    <2> QED BY <2>1, ExclusionKept DEF Roles
  <1>21. ASSUME NEW c \in Clients, KeyOther(c) PROVE MutualExclusion'
    <2>1. /\ Goto(c, "main", "key", "loop") /\ srvPc' = srvPc
          /\ RoomLockStep(c, "main", "key", "loop")
          /\ StateLockStep(c, "main", "key", "loop")
      BY <1>21 DEF KeyOther, RoomLockStep, StateLockStep
    <2> QED BY <2>1, ExclusionKept DEF Roles
  <1>22. ASSUME NEW c \in Clients, NEW t \in Texts, KeyText(c, t) PROVE MutualExclusion'
    <2>1. /\ Goto(c, "main", "key", "sendWait") /\ srvPc' = srvPc
          /\ RoomLockStep(c, "main", "key", "sendWait")
          /\ StateLockStep(c, "main", "key", "sendWait")
      BY <1>22 DEF KeyText, RoomLockStep, StateLockStep
    <2> QED BY <2>1, ExclusionKept DEF Roles
  <1>23. ASSUME NEW c \in Clients, KeyExit(c) PROVE MutualExclusion'
    <2>1. /\ Goto(c, "main", "key", "sendWait") /\ srvPc' = srvPc
          /\ RoomLockStep(c, "main", "key", "sendWait")
          /\ StateLockStep(c, "main", "key", "sendWait")
      BY <1>23 DEF KeyExit, RoomLockStep, StateLockStep, BeginLeave
    <2> QED BY <2>1, ExclusionKept DEF Roles
  <1>24. ASSUME NEW c \in Clients, StopReceiver(c) PROVE MutualExclusion'
    <2>1. /\ Goto(c, "main", "stop", IF receiver_started[c] THEN "join" ELSE "destroy")
       /\ srvPc' = srvPc
          /\ RoomLockStep(c, "main", "stop", IF receiver_started[c] THEN "join" ELSE
             "destroy")
          /\ StateLockStep(c, "main", "stop", IF receiver_started[c] THEN "join" ELSE
             "destroy")
      BY <1>24 DEF StopReceiver, RoomLockStep, StateLockStep
    <2> QED BY <2>1, ExclusionKept DEF Roles
  <1>25. ASSUME NEW c \in Clients, JoinReceiver(c) PROVE MutualExclusion'
    <2>1. /\ Goto(c, "main", "join", "destroy") /\ srvPc' = srvPc
          /\ RoomLockStep(c, "main", "join", "destroy")
          /\ StateLockStep(c, "main", "join", "destroy")
      BY <1>25 DEF JoinReceiver, RoomLockStep, StateLockStep
    <2> QED BY <2>1, ExclusionKept DEF Roles
  <1>26. ASSUME NEW c \in Clients, ReceiverTurn(c) PROVE MutualExclusion'
    <2>1. /\ Goto(c, "recv", "check", IF running[c] THEN "refWait" ELSE "end")
          /\ srvPc' = srvPc
          /\ RoomLockStep(c, "recv", "check", IF running[c] THEN "refWait" ELSE "end")
          /\ StateLockStep(c, "recv", "check", IF running[c] THEN "refWait" ELSE "end")
      BY <1>26 DEF ReceiverTurn, RoomLockStep, StateLockStep
    <2> QED BY <2>1, ExclusionKept DEF Roles
  <1>27. ASSUME NEW c \in Clients, NEW r \in Roles, RefreshLock(c, r) PROVE MutualExclusion'
    <2>1. /\ Goto(c, r, "refWait", "refHold") /\ srvPc' = srvPc
          /\ RoomLockStep(c, r, "refWait", "refHold")
          /\ StateLockStep(c, r, "refWait", "refHold")
      BY <1>27 DEF RefreshLock, RoomLockStep, StateLockStep, LockRoom
    <2> QED BY <2>1, ExclusionKept DEF Roles
  <1>28. ASSUME NEW c \in Clients, NEW r \in Roles, RefreshInterrupted(c, r) PROVE
     MutualExclusion'
    <2>1. /\ Goto(c, r, "refWait", AfterRefresh(r)) /\ srvPc' = srvPc
          /\ RoomLockStep(c, r, "refWait", AfterRefresh(r))
          /\ StateLockStep(c, r, "refWait", AfterRefresh(r))
      BY <1>28 DEF RefreshInterrupted, RoomLockStep, StateLockStep, AfterRefresh
    <2> QED BY <2>1, ExclusionKept DEF Roles
  <1>29. ASSUME NEW c \in Clients, NEW r \in Roles, RefreshSame(c, r) PROVE MutualExclusion'
    <2>1. /\ Goto(c, r, "refHold", AfterRefresh(r)) /\ srvPc' = srvPc
          /\ RoomLockStep(c, r, "refHold", AfterRefresh(r))
          /\ StateLockStep(c, r, "refHold", AfterRefresh(r))
      BY <1>29 DEF RefreshSame, RoomLockStep, StateLockStep, UnlockRoom, AfterRefresh
    <2> QED BY <2>1, ExclusionKept DEF Roles
  <1>30. ASSUME NEW c \in Clients, NEW r \in Roles, RefreshStateLock(c, r) PROVE
     MutualExclusion'
    <2>1. /\ Goto(c, r, "refHold", "copyMessages") /\ srvPc' = srvPc
          /\ RoomLockStep(c, r, "refHold", "copyMessages")
          /\ StateLockStep(c, r, "refHold", "copyMessages")
      BY <1>30 DEF RefreshStateLock, RoomLockStep, StateLockStep
    <2> QED BY <2>1, ExclusionKept DEF Roles
  <1>31. ASSUME NEW c \in Clients, NEW r \in Roles, CopyMessages(c, r) PROVE
     MutualExclusion'
    <2>1. /\ Goto(c, r, "copyMessages", "copyUsers") /\ srvPc' = srvPc
          /\ RoomLockStep(c, r, "copyMessages", "copyUsers")
          /\ StateLockStep(c, r, "copyMessages", "copyUsers")
      BY <1>31 DEF CopyMessages, RoomLockStep, StateLockStep
    <2> QED BY <2>1, ExclusionKept DEF Roles
  <1>32. ASSUME NEW c \in Clients, NEW r \in Roles, CopyUsers(c, r) PROVE MutualExclusion'
    <2>1. /\ Goto(c, r, "copyUsers", AfterRefresh(r)) /\ srvPc' = srvPc
          /\ RoomLockStep(c, r, "copyUsers", AfterRefresh(r))
          /\ StateLockStep(c, r, "copyUsers", AfterRefresh(r))
      BY <1>32 DEF CopyUsers, RoomLockStep, StateLockStep, UnlockRoom, AfterRefresh
    <2> QED BY <2>1, ExclusionKept DEF Roles
  <1>33. ASSUME NEW c \in Clients, StartReceiver(c) PROVE MutualExclusion'
    <2>1. \A d \in Clients, q \in Roles :
            pc'[<<d, q>>] = IF d # c THEN pc[<<d, q>>]
                            ELSE IF q = "main" THEN "refWait" ELSE "check"
      BY <1>33 DEF StartReceiver, TypeOK, Threads, Roles
    <2>2. UNCHANGED <<srvPc, roomLock, stateLock>>
      BY <1>33 DEF StartReceiver
    <2>3. ASSUME NEW d \in Clients, NEW q \in Roles
          PROVE  /\ pc'[<<d, q>>] \in InRoom => pc[<<d, q>>] \in InRoom
                 /\ pc'[<<d, q>>] \in InState => pc[<<d, q>>] \in InState
      BY <2>1
    <2> QED BY <2>2, <2>3 DEF MutualExclusion
  <1>34. ASSUME NEW c \in Clients, ConnectFails(c) PROVE MutualExclusion'
    BY <1>34, Endings, EndKeepsExclusion
  <1>35. ASSUME NEW c \in Clients, BusError(c) PROVE MutualExclusion'
    BY <1>35, Endings, EndKeepsExclusion
  <1>36. ASSUME NEW c \in Clients, ClientExit(c) PROVE MutualExclusion'
    BY <1>36, Endings, EndKeepsExclusion
  <1>37. ASSUME NEW c \in Clients, Kill(c) PROVE MutualExclusion'
    BY <1>37, Endings, EndKeepsExclusion
  <1>38. CASE UNCHANGED vars
    BY <1>38 DEF MutualExclusion
  <1> QED
    BY <1>1, <1>2, <1>3, <1>4, <1>5, <1>6, <1>7, <1>8, <1>9, <1>10, <1>11, <1>12, <1>13,
       <1>14, <1>15, <1>16, <1>17, <1>18, <1>19, <1>20, <1>21, <1>22, <1>23, <1>24,
       <1>25, <1>26, <1>27, <1>28, <1>29, <1>30, <1>31, <1>32, <1>33, <1>34, <1>35,
       <1>36, <1>37, <1>38
    DEF Next, ServerSteps, MainSteps, MainLocks, RefreshSteps, RefreshLocks, Environment

\* The life of a client after every step.
LEMMA LifeStep ==
  TypeOK /\ StartInv /\ LifeInv /\ [Next]_vars => LifeInv'
  <1> SUFFICES ASSUME TypeOK, StartInv, LifeInv, [Next]_vars PROVE LifeInv'
    OBVIOUS
  <1> USE DEF vars, shared, shmVars, srvVars, clientVars, private, roomVars, ringVars,
        copyVars, lifeVars
  <1>1. CASE ShmOpen
    BY <1>1 DEF LifeInv, ShmOpen
  <1>2. CASE Ftruncate
    BY <1>2 DEF LifeInv, Ftruncate
  <1>3. CASE SemInit
    BY <1>3 DEF LifeInv, SemInit
  <1>4. CASE CreateFails
    BY <1>4 DEF LifeInv, CreateFails
  <1>5. CASE ServerTurn
    BY <1>5 DEF LifeInv, ServerTurn
  <1>6. CASE ServerExit
    BY <1>6 DEF LifeInv, ServerExit
  <1>7. CASE ServerLock
    BY <1>7 DEF LifeInv, ServerLock, LockRoom
  <1>8. CASE ServerProcess
    BY <1>8 DEF LifeInv, ServerProcess, UnlockRoom
  <1>9. CASE ServerIdle
    BY <1>9 DEF LifeInv, ServerIdle, UnlockRoom
  <1>10. CASE HandleSignal
    BY <1>10 DEF LifeInv, HandleSignal
  <1>11. CASE SignalAgain
    BY <1>11 DEF LifeInv, SignalAgain
  <1>12. ASSUME NEW c \in Clients, Connect(c) PROVE LifeInv'
    BY <1>12, ZenonT(60) DEF LifeInv, TypeOK, Roles, StartInv, Connect, Request, SentRequests,
       Commands, Goto, Threads
  <1>13. ASSUME NEW c \in Clients, SendLock(c) PROVE LifeInv'
    BY <1>13 DEF LifeInv, TypeOK, Roles, StartInv, SendLock, LockRoom, Goto, Threads
  <1>14. ASSUME NEW c \in Clients, SendEnqueue(c) PROVE LifeInv'
    BY <1>14, ZenonT(60) DEF LifeInv, TypeOK, Roles, StartInv, SendEnqueue, UnlockRoom, AfterSend,
       Goto, Threads
  <1>15. ASSUME NEW c \in Clients, SendFull(c) PROVE LifeInv'
    BY <1>15 DEF LifeInv, TypeOK, Roles, StartInv, SendFull, UnlockRoom, AfterSend, Goto,
       Threads
  <1>16. ASSUME NEW c \in Clients, SendInterrupted(c) PROVE LifeInv'
    BY <1>16 DEF LifeInv, TypeOK, Roles, StartInv, SendInterrupted, AfterSend, Goto, Threads
  <1>17. ASSUME NEW c \in Clients, PushMessage(c) PROVE LifeInv'
    BY <1>17 DEF LifeInv, TypeOK, Roles, StartInv, PushMessage, Goto, Threads
  <1>18. ASSUME NEW c \in Clients, StartFails(c) PROVE LifeInv'
    BY <1>18, ZenonT(60) DEF LifeInv, TypeOK, Roles, StartInv, StartFails, BeginLeave, Request,
       SentRequests, Commands, Goto, Threads
  <1>19. ASSUME NEW c \in Clients, SnapshotLock(c) PROVE LifeInv'
    BY <1>19 DEF LifeInv, TypeOK, Roles, StartInv, SnapshotLock, Goto, Threads
  <1>20. ASSUME NEW c \in Clients, SnapshotUnlock(c) PROVE LifeInv'
    BY <1>20 DEF LifeInv, TypeOK, Roles, StartInv, SnapshotUnlock, Goto, Threads
  <1>21. ASSUME NEW c \in Clients, KeyOther(c) PROVE LifeInv'
    BY <1>21 DEF LifeInv, TypeOK, Roles, StartInv, KeyOther, Goto, Threads
  <1>22. ASSUME NEW c \in Clients, NEW t \in Texts, KeyText(c, t) PROVE LifeInv'
    BY <1>22, ZenonT(60) DEF LifeInv, TypeOK, Roles, StartInv, KeyText, Request, SentRequests,
       Commands, Goto, Threads
  <1>23. ASSUME NEW c \in Clients, KeyExit(c) PROVE LifeInv'
    BY <1>23, ZenonT(60) DEF LifeInv, TypeOK, Roles, StartInv, KeyExit, BeginLeave, Request,
       SentRequests, Commands, Goto, Threads
  <1>24. ASSUME NEW c \in Clients, StopReceiver(c) PROVE LifeInv'
    BY <1>24 DEF LifeInv, TypeOK, Roles, StartInv, StopReceiver, Goto, Threads
  <1>25. ASSUME NEW c \in Clients, JoinReceiver(c) PROVE LifeInv'
    BY <1>25 DEF LifeInv, TypeOK, Roles, StartInv, JoinReceiver, Goto, Threads
  <1>26. ASSUME NEW c \in Clients, ReceiverTurn(c) PROVE LifeInv'
    BY <1>26 DEF LifeInv, TypeOK, Roles, StartInv, ReceiverTurn, Goto, Threads
  <1>27. ASSUME NEW c \in Clients, NEW r \in Roles, RefreshLock(c, r) PROVE LifeInv'
    BY <1>27 DEF LifeInv, TypeOK, Roles, StartInv, RefreshLock, LockRoom, Goto, Threads
  <1>28. ASSUME NEW c \in Clients, NEW r \in Roles, RefreshInterrupted(c, r) PROVE LifeInv'
    BY <1>28 DEF LifeInv, TypeOK, Roles, StartInv, RefreshInterrupted, AfterRefresh,
       Goto, Threads
  <1>29. ASSUME NEW c \in Clients, NEW r \in Roles, RefreshSame(c, r) PROVE LifeInv'
    BY <1>29 DEF LifeInv, TypeOK, Roles, StartInv, RefreshSame, UnlockRoom, AfterRefresh,
       Goto, Threads
  <1>30. ASSUME NEW c \in Clients, NEW r \in Roles, RefreshStateLock(c, r) PROVE LifeInv'
    BY <1>30 DEF LifeInv, TypeOK, Roles, StartInv, RefreshStateLock, Goto, Threads
  <1>31. ASSUME NEW c \in Clients, NEW r \in Roles, CopyMessages(c, r) PROVE LifeInv'
    BY <1>31 DEF LifeInv, TypeOK, Roles, StartInv, CopyMessages, Goto, Threads
  <1>32. ASSUME NEW c \in Clients, NEW r \in Roles, CopyUsers(c, r) PROVE LifeInv'
    BY <1>32 DEF LifeInv, TypeOK, Roles, StartInv, CopyUsers, UnlockRoom, AfterRefresh,
       Goto, Threads
  <1>33. ASSUME NEW c \in Clients, StartReceiver(c) PROVE LifeInv'
    BY <1>33 DEF LifeInv, TypeOK, Roles, StartInv, StartReceiver, Goto, Forget, Threads
  <1>34. ASSUME NEW c \in Clients, ConnectFails(c) PROVE LifeInv'
    BY <1>34 DEF LifeInv, TypeOK, Roles, StartInv, ConnectFails, Goto, Forget, Threads
  <1>35. ASSUME NEW c \in Clients, BusError(c) PROVE LifeInv'
    BY <1>35 DEF LifeInv, TypeOK, Roles, StartInv, BusError, Goto, Forget, Threads
  <1>36. ASSUME NEW c \in Clients, ClientExit(c) PROVE LifeInv'
    BY <1>36 DEF LifeInv, TypeOK, Roles, StartInv, ClientExit, Goto, Forget, Threads
  <1>37. ASSUME NEW c \in Clients, Kill(c) PROVE LifeInv'
    BY <1>37 DEF LifeInv, TypeOK, Roles, StartInv, Kill, Goto, Forget, Threads
  <1>38. CASE UNCHANGED vars
    BY <1>38 DEF LifeInv
  <1> QED
    BY <1>1, <1>2, <1>3, <1>4, <1>5, <1>6, <1>7, <1>8, <1>9, <1>10, <1>11, <1>12, <1>13,
       <1>14, <1>15, <1>16, <1>17, <1>18, <1>19, <1>20, <1>21, <1>22, <1>23, <1>24,
       <1>25, <1>26, <1>27, <1>28, <1>29, <1>30, <1>31, <1>32, <1>33, <1>34, <1>35,
       <1>36, <1>37, <1>38
    DEF Next, ServerSteps, MainSteps, MainLocks, RefreshSteps, RefreshLocks, Environment


\* Start-up after every step.
LEMMA StartStep ==
  TypeOK /\ StartInv /\ LifeInv /\ [Next]_vars => StartInv'
  <1> SUFFICES ASSUME TypeOK, StartInv, LifeInv, [Next]_vars PROVE StartInv'
    OBVIOUS
  <1> USE DEF vars, shared, shmVars, srvVars, clientVars, private, roomVars, ringVars,
        copyVars, lifeVars
  <1>1. CASE ShmOpen
    BY <1>1 DEF StartInv, RoomZero, ShmOpen
  <1>2. CASE Ftruncate
    BY <1>2 DEF StartInv, RoomZero, Ftruncate
  <1>3. CASE SemInit
    BY <1>3 DEF StartInv, RoomZero, SemInit
  <1>4. CASE CreateFails
    BY <1>4 DEF StartInv, RoomZero, CreateFails
  <1>5. CASE ServerTurn
    BY <1>5 DEF StartInv, RoomZero, ServerTurn
  <1>6. CASE ServerExit
    BY <1>6 DEF StartInv, RoomZero, ServerExit
  <1>7. CASE ServerLock
    BY <1>7 DEF StartInv, RoomZero, ServerLock, LockRoom
  <1>8. CASE ServerProcess
    BY <1>8 DEF StartInv, RoomZero, ServerProcess, UnlockRoom
  <1>9. CASE ServerIdle
    BY <1>9 DEF StartInv, RoomZero, ServerIdle, UnlockRoom
  <1>10. CASE HandleSignal
    BY <1>10 DEF StartInv, RoomZero, HandleSignal
  <1>11. CASE SignalAgain
    BY <1>11 DEF StartInv, RoomZero, SignalAgain
  <1>12. ASSUME NEW c \in Clients, Connect(c) PROVE StartInv'
    BY <1>12 DEF StartInv, RoomZero, LifeInv, TypeOK, Roles, Connect, Request,
       SentRequests, Commands, Goto, Threads
  <1>13. ASSUME NEW c \in Clients, SendLock(c) PROVE StartInv'
    BY <1>13 DEF StartInv, RoomZero, LifeInv, TypeOK, Roles, SendLock, LockRoom, Goto,
       Threads
  <1>14. ASSUME NEW c \in Clients, SendEnqueue(c) PROVE StartInv'
    BY <1>14 DEF StartInv, RoomZero, LifeInv, TypeOK, Roles, SendEnqueue, UnlockRoom,
       AfterSend, Goto, Threads
  <1>15. ASSUME NEW c \in Clients, SendFull(c) PROVE StartInv'
    BY <1>15 DEF StartInv, RoomZero, LifeInv, TypeOK, Roles, SendFull, UnlockRoom,
       AfterSend, Goto, Threads
  <1>16. ASSUME NEW c \in Clients, SendInterrupted(c) PROVE StartInv'
    BY <1>16 DEF StartInv, RoomZero, LifeInv, TypeOK, Roles, SendInterrupted, AfterSend,
       Goto, Threads
  <1>17. ASSUME NEW c \in Clients, PushMessage(c) PROVE StartInv'
    BY <1>17 DEF StartInv, RoomZero, LifeInv, TypeOK, Roles, PushMessage, Goto, Threads
  <1>18. ASSUME NEW c \in Clients, StartFails(c) PROVE StartInv'
    BY <1>18 DEF StartInv, RoomZero, LifeInv, TypeOK, Roles, StartFails, BeginLeave,
       Request, SentRequests, Commands, Goto, Threads
  <1>19. ASSUME NEW c \in Clients, SnapshotLock(c) PROVE StartInv'
    BY <1>19 DEF StartInv, RoomZero, LifeInv, TypeOK, Roles, SnapshotLock, Goto, Threads
  <1>20. ASSUME NEW c \in Clients, SnapshotUnlock(c) PROVE StartInv'
    BY <1>20 DEF StartInv, RoomZero, LifeInv, TypeOK, Roles, SnapshotUnlock, Goto, Threads
  <1>21. ASSUME NEW c \in Clients, KeyOther(c) PROVE StartInv'
    BY <1>21 DEF StartInv, RoomZero, LifeInv, TypeOK, Roles, KeyOther, Goto, Threads
  <1>22. ASSUME NEW c \in Clients, NEW t \in Texts, KeyText(c, t) PROVE StartInv'
    BY <1>22 DEF StartInv, RoomZero, LifeInv, TypeOK, Roles, KeyText, Request,
       SentRequests, Commands, Goto, Threads
  <1>23. ASSUME NEW c \in Clients, KeyExit(c) PROVE StartInv'
    BY <1>23 DEF StartInv, RoomZero, LifeInv, TypeOK, Roles, KeyExit, BeginLeave,
       Request, SentRequests, Commands, Goto, Threads
  <1>24. ASSUME NEW c \in Clients, StopReceiver(c) PROVE StartInv'
    BY <1>24 DEF StartInv, RoomZero, LifeInv, TypeOK, Roles, StopReceiver, Goto, Threads
  <1>25. ASSUME NEW c \in Clients, JoinReceiver(c) PROVE StartInv'
    BY <1>25 DEF StartInv, RoomZero, LifeInv, TypeOK, Roles, JoinReceiver, Goto, Threads
  <1>26. ASSUME NEW c \in Clients, ReceiverTurn(c) PROVE StartInv'
    BY <1>26 DEF StartInv, RoomZero, LifeInv, TypeOK, Roles, ReceiverTurn, Goto, Threads
  <1>27. ASSUME NEW c \in Clients, NEW r \in Roles, RefreshLock(c, r) PROVE StartInv'
    BY <1>27 DEF StartInv, RoomZero, LifeInv, TypeOK, Roles, RefreshLock, LockRoom, Goto,
       Threads
  <1>28. ASSUME NEW c \in Clients, NEW r \in Roles, RefreshInterrupted(c, r) PROVE StartInv'
    BY <1>28 DEF StartInv, RoomZero, LifeInv, TypeOK, Roles, RefreshInterrupted,
       AfterRefresh, Goto, Threads
  <1>29. ASSUME NEW c \in Clients, NEW r \in Roles, RefreshSame(c, r) PROVE StartInv'
    BY <1>29 DEF StartInv, RoomZero, LifeInv, TypeOK, Roles, RefreshSame, UnlockRoom,
       AfterRefresh, Goto, Threads
  <1>30. ASSUME NEW c \in Clients, NEW r \in Roles, RefreshStateLock(c, r) PROVE StartInv'
    BY <1>30 DEF StartInv, RoomZero, LifeInv, TypeOK, Roles, RefreshStateLock, Goto, Threads
  <1>31. ASSUME NEW c \in Clients, NEW r \in Roles, CopyMessages(c, r) PROVE StartInv'
    BY <1>31 DEF StartInv, RoomZero, LifeInv, TypeOK, Roles, CopyMessages, Goto, Threads
  <1>32. ASSUME NEW c \in Clients, NEW r \in Roles, CopyUsers(c, r) PROVE StartInv'
    BY <1>32 DEF StartInv, RoomZero, LifeInv, TypeOK, Roles, CopyUsers, UnlockRoom,
       AfterRefresh, Goto, Threads
  <1>33. ASSUME NEW c \in Clients, StartReceiver(c) PROVE StartInv'
    BY <1>33 DEF StartInv, RoomZero, LifeInv, TypeOK, Roles, StartReceiver, Goto, Forget,
       Threads
  <1>34. ASSUME NEW c \in Clients, ConnectFails(c) PROVE StartInv'
    BY <1>34 DEF StartInv, RoomZero, LifeInv, TypeOK, Roles, ConnectFails, Goto, Forget,
       Threads
  <1>35. ASSUME NEW c \in Clients, BusError(c) PROVE StartInv'
    BY <1>35 DEF StartInv, RoomZero, LifeInv, TypeOK, Roles, BusError, Goto, Forget, Threads
  <1>36. ASSUME NEW c \in Clients, ClientExit(c) PROVE StartInv'
    BY <1>36 DEF StartInv, RoomZero, LifeInv, TypeOK, Roles, ClientExit, Goto, Forget,
       Threads
  <1>37. ASSUME NEW c \in Clients, Kill(c) PROVE StartInv'
    BY <1>37 DEF StartInv, RoomZero, LifeInv, TypeOK, Roles, Kill, Goto, Forget, Threads
  <1>38. CASE UNCHANGED vars
    BY <1>38 DEF StartInv, RoomZero
  <1> QED
    BY <1>1, <1>2, <1>3, <1>4, <1>5, <1>6, <1>7, <1>8, <1>9, <1>10, <1>11, <1>12, <1>13,
       <1>14, <1>15, <1>16, <1>17, <1>18, <1>19, <1>20, <1>21, <1>22, <1>23, <1>24,
       <1>25, <1>26, <1>27, <1>28, <1>29, <1>30, <1>31, <1>32, <1>33, <1>34, <1>35,
       <1>36, <1>37, <1>38
    DEF Next, ServerSteps, MainSteps, MainLocks, RefreshSteps, RefreshLocks, Environment

\* The inductive invariant behind mutual exclusion: sem_init must not find a thread
\* already inside (StartInv), and a dying client must not leave a second thread
\* inside its locks (LifeInv).
LockInv == TypeOK /\ StartInv /\ LifeInv /\ MutualExclusion

\* The initial states satisfy it.
LEMMA LockInit == Init => LockInv
  <1> SUFFICES ASSUME Init PROVE LockInv
    OBVIOUS
  <1>1. TypeOK
    BY TypeInit
  <1>2. \A c \in Clients : pc[<<c, "main">>] = "init" /\ pc[<<c, "recv">>] = "none"
    BY DEF Init, Threads, Roles
  <1>3. StartInv
    BY <1>2 DEF Init, StartInv
  <1>4. LifeInv
    BY <1>2 DEF Init, LifeInv
  <1>5. MutualExclusion
    BY <1>2 DEF Init, MutualExclusion, InRoom, InState, Roles
  <1> QED BY <1>1, <1>3, <1>4, <1>5 DEF LockInv

\* In every reachable state the inductive invariant holds.
LEMMA LocksAlways == Spec => []LockInv
  <1>1. LockInv /\ [Next]_vars => LockInv'
    BY TypeStep, StartStep, LifeStep, ExclusionStep DEF LockInv
  <1> QED BY <1>1, LockInit, PTL DEF Spec

\* At most one thread of one process is between sem_wait and sem_post on room.lock, and
\* at most one thread of a client inside its state_lock, for any number of clients,
\* any sizes of the tables, and whichever clients die.
THEOREM LocksExclude == Spec => []MutualExclusion
  <1>1. LockInv => MutualExclusion
    BY DEF LockInv
  <1> QED BY <1>1, LocksAlways, PTL

-----------------------------------------------------------------------------
(* The ring of commands and the list of users.                             *)

\* Only three steps write the room: sem_init's memset, the server with a command, and
\* a client that found a free slot.
LEMMA RoomWriters ==
  ASSUME [Next]_vars
  PROVE  \/ SemInit
         \/ ServerProcess
         \/ \E c \in Clients : SendEnqueue(c)
         \/ UNCHANGED <<version, messages, users, ringVars>>
  <1> USE DEF vars, shared, shmVars, srvVars, clientVars, private, roomVars, ringVars
  <1>1. CASE ServerSteps \/ ServerLock
    BY <1>1 DEF ServerSteps, ShmOpen, Ftruncate, ServerTurn, ServerExit, ServerIdle,
       ServerLock
  <1>2. ASSUME NEW c \in Clients, MainSteps(c) PROVE SendEnqueue(c)
               \/ UNCHANGED <<version, messages, users, ringVars>>
    BY <1>2 DEF MainSteps, SendFull, StartReceiver, SnapshotUnlock, KeyOther,
       StopReceiver, JoinReceiver, ClientExit, BusError, Forget
  <1>3. ASSUME NEW c \in Clients, MainLocks(c) \/ ReceiverTurn(c)
        PROVE  UNCHANGED <<version, messages, users, ringVars>>
    BY <1>3 DEF MainLocks, SendLock, SnapshotLock, PushMessage, ReceiverTurn
  <1>4. ASSUME NEW c \in Clients, NEW r \in Roles, RefreshSteps(c, r) \/ RefreshLocks(c, r)
        PROVE  UNCHANGED <<version, messages, users, ringVars>>
    BY <1>4 DEF RefreshSteps, RefreshLocks, RefreshSame, CopyMessages, CopyUsers,
       RefreshLock, RefreshStateLock
  <1>5. CASE CreateFails \/ HandleSignal \/ SignalAgain
    BY <1>5 DEF CreateFails, HandleSignal, SignalAgain
  <1>6. ASSUME NEW c \in Clients, ConnectFails(c) \/ Connect(c) \/ Kill(c)
        PROVE  UNCHANGED <<version, messages, users, ringVars>>
    BY <1>6 DEF ConnectFails, Connect, Kill, Forget
  <1>7. ASSUME NEW c \in Clients, StartFails(c) \/ KeyExit(c) \/ SendInterrupted(c)
        PROVE  UNCHANGED <<version, messages, users, ringVars>>
    BY <1>7 DEF StartFails, KeyExit, BeginLeave, SendInterrupted
  <1>8. ASSUME NEW c \in Clients, NEW r \in Roles, RefreshInterrupted(c, r)
        PROVE  UNCHANGED <<version, messages, users, ringVars>>
    BY <1>8 DEF RefreshInterrupted
  <1>9. ASSUME NEW c \in Clients, NEW t \in Texts, KeyText(c, t)
         PROVE  UNCHANGED <<version, messages, users, ringVars>>
    BY <1>9 DEF KeyText
  <1>10. CASE UNCHANGED vars
    BY <1>10
  <1> QED
    BY <1>1, <1>2, <1>3, <1>4, <1>5, <1>6, <1>7, <1>8, <1>9, <1>10 DEF Next, Environment

\* room_find_user finds the only entry of a pid, when no pid is listed twice.
LEMMA FindUser ==
  ASSUME TypeOK, UsersDistinct, NEW p
  PROVE  \/ room_find_user(users, p) = 0 /\ \A i \in DOMAIN users : users[i] # p
         \/ /\ room_find_user(users, p) \in DOMAIN users \ {0}
            /\ users[room_find_user(users, p)] = p
  <1>1. DOMAIN users = 1 .. Len(users)
    BY DEF TypeOK
  <1>2. ASSUME NEW i \in DOMAIN users, users[i] = p
        PROVE  room_find_user(users, p) = i
    <2>1. \A j \in DOMAIN users : users[j] = p <=> j = i
      BY <1>2 DEF UsersDistinct
    <2>2. i <= i
      BY <1>1
    <2> QED BY <1>2, <2>1, <2>2 DEF room_find_user
  <1>3. CASE \A i \in DOMAIN users : users[i] # p
    BY <1>3 DEF room_find_user
  <1> QED BY <1>1, <1>2, <1>3

\* What the server's step does to the users.
LEMMA ServerUsers ==
  ASSUME TypeOK, UsersDistinct, ServerProcess
  PROVE  \/ users' = users
         \/ \E p \in Clients :
              room_find_user(users, p) = 0 /\ users' = AddUser(users, p)
         \/ \E i \in DOMAIN users : users' = RemoveUser(users, i)
  <1> DEFINE r == commands[command_head]
  <1>1. r \in Requests /\ room_find_user(users, r.pid) \in DOMAIN users \union {0}
    BY FindUser DEF TypeOK
  <1>2. CASE ProcessJoin(r)
    <2>1. r.pid \in Clients
      BY <1>1, <1>2 DEF ProcessJoin, Requests, SentRequests, NoRequest, Request
    <2> QED BY <1>2, <2>1 DEF ProcessJoin
  <1>3. CASE ProcessLeave(r)
    BY <1>1, <1>3 DEF ProcessLeave
  <1>4. CASE ProcessText(r) \/ ProcessNothing(r)
    BY <1>4 DEF ProcessText, ProcessNothing
  <1> QED BY <1>2, <1>3, <1>4 DEF ServerProcess

\* head, tail and count agree after every step.
LEMMA RingStep ==
  ASSUME TypeOK, LifeInv, RingConsistent, [Next]_vars
  PROVE  RingConsistent'
  <1> USE ConstantsAssumption
  <1>1. CASE SemInit
    BY <1>1 DEF SemInit, RingConsistent, Slot
  <1>2. CASE ServerProcess
    <2>1. /\ command_head' = NextSlot(command_head)
          /\ command_count' = command_count - 1 /\ command_count > 0
          /\ UNCHANGED <<commands, command_tail>>
      BY <1>2 DEF ServerProcess
    <2>2. command_head \in 0 .. MaxCommands - 1 /\ command_count \in 1 .. MaxCommands
      BY <2>1 DEF TypeOK
    <2>3. \A k \in 0 .. command_count - 1 :
            (command_head' + k) % MaxCommands = Slot(k + 1)
      <3> SUFFICES ASSUME NEW k \in 0 .. command_count - 1
                   PROVE  (command_head' + k) % MaxCommands = Slot(k + 1)
        OBVIOUS
      <3>1. command_head' \in 0 .. MaxCommands - 1 /\ k + 1 \in 0 .. MaxCommands
            /\ k \in 0 .. MaxCommands
        BY <2>1, <2>2, NextSlotRange
      <3>2. command_head' = IF command_head + 1 = MaxCommands THEN 0 ELSE command_head + 1
        BY <2>1, <2>2, NextSlotRange
      <3>3. (command_head' + k) % MaxCommands =
              IF command_head' + k < MaxCommands
              THEN command_head' + k ELSE command_head' + k - MaxCommands
        BY <3>1, SlotStep
      <3>4. Slot(k + 1) = IF command_head + (k + 1) < MaxCommands
                          THEN command_head + (k + 1) ELSE command_head + (k + 1) - MaxCommands
        BY <2>2, <3>1, SlotStep DEF Slot
      <3> QED BY <2>2, <3>1, <3>2, <3>3, <3>4
    <2>4. command_tail' = (command_head' + (command_count - 1)) % MaxCommands
      BY <2>1, <2>2, <2>3 DEF RingConsistent
    <2>5. ASSUME NEW k \in 0 .. command_count' - 1
          PROVE  commands'[Slot(k)'] \in SentRequests
      <3>1. k \in 0 .. command_count - 1 /\ k + 1 \in 0 .. command_count - 1
        BY <2>1, <2>2, <2>5
      <3>2. Slot(k)' = Slot(k + 1)
        BY <2>3, <3>1 DEF Slot
      <3> QED BY <2>1, <3>1, <3>2 DEF RingConsistent
    <2>6. command_tail' = Slot(command_count)'
      BY <2>1, <2>4 DEF Slot
    <2> QED BY <2>5, <2>6 DEF RingConsistent
  <1>3. ASSUME NEW c \in Clients, SendEnqueue(c) PROVE RingConsistent'
    <2>1. /\ command_tail' = NextSlot(command_tail)
          /\ command_count' = command_count + 1 /\ command_count < MaxCommands
          /\ commands' = [commands EXCEPT ![command_tail] = request[c]]
          /\ command_head' = command_head
          /\ pc[<<c, "main">>] = "sendHold"
      BY <1>3 DEF SendEnqueue, Goto
    <2>2. request[c] \in SentRequests
      BY <2>1 DEF LifeInv
    <2>3. /\ command_head \in 0 .. MaxCommands - 1
          /\ command_tail \in 0 .. MaxCommands - 1
          /\ command_count \in 0 .. MaxCommands - 1
      BY <2>1 DEF TypeOK
    <2>4. \A k \in 0 .. MaxCommands :
            /\ Slot(k)' = Slot(k)
            /\ Slot(k) = IF command_head + k < MaxCommands
                         THEN command_head + k ELSE command_head + k - MaxCommands
      BY <2>1, <2>3, SlotStep DEF Slot
    <2>5. command_tail' = Slot(command_count + 1)
      <3>1. command_tail = Slot(command_count)
        BY DEF RingConsistent
      <3>2. command_tail' = IF command_tail + 1 = MaxCommands THEN 0 ELSE command_tail + 1
        BY <2>1, <2>3, NextSlotRange
      <3>3. command_count \in 0 .. MaxCommands /\ command_count + 1 \in 0 .. MaxCommands
        BY <2>3
      <3> QED BY <2>3, <2>4, <3>1, <3>2, <3>3
    <2>6. ASSUME NEW k \in 0 .. command_count' - 1
          PROVE  commands'[Slot(k)'] \in SentRequests
      <3>1. k \in 0 .. MaxCommands /\ command_count \in 0 .. MaxCommands
            /\ Slot(k) \in 0 .. MaxCommands - 1
        BY <2>1, <2>3, <2>4, <2>6
      <3>2. CASE k = command_count
        BY <2>1, <2>2, <2>3, <2>4, <3>1, <3>2 DEF RingConsistent, TypeOK
      <3>3. CASE k < command_count
        <4>1. Slot(k) # command_tail
          BY <2>3, <2>4, <3>1, <3>3 DEF RingConsistent
        <4>2. commands[Slot(k)] \in SentRequests
          BY <2>3, <3>1, <3>3 DEF RingConsistent
        <4> QED BY <2>1, <2>4, <3>1, <4>1, <4>2 DEF TypeOK
      <3> QED BY <2>1, <2>3, <2>6, <3>2, <3>3
    <2>7. command_tail' = Slot(command_count)'
      BY <2>1, <2>5 DEF Slot
    <2> QED BY <2>6, <2>7 DEF RingConsistent
  <1>4. CASE UNCHANGED <<version, messages, users, ringVars>>
    BY <1>4 DEF RingConsistent, Slot, ringVars
  <1> QED BY <1>1, <1>2, <1>3, <1>4, RoomWriters

\* No pid is listed twice after any step: a pid is added only when it is not found.
LEMMA UsersStep ==
  ASSUME TypeOK, UsersDistinct, [Next]_vars
  PROVE  UsersDistinct'
  <1>1. users \in Seq(Clients)
    BY DEF TypeOK
  <1>2. CASE users' = users
    BY <1>2 DEF UsersDistinct
  <1>3. ASSUME NEW p \in Clients, room_find_user(users, p) = 0, users' = AddUser(users, p)
        PROVE  UsersDistinct'
    <2>1. \A i \in DOMAIN users : users[i] # p
      BY <1>3, FindUser
    <2>2. CASE users' = Append(users, p)
      BY <1>1, <2>1, <2>2 DEF UsersDistinct
    <2> QED BY <1>2, <1>3, <2>2 DEF AddUser
  <1>4. ASSUME NEW i \in DOMAIN users, users' = RemoveUser(users, i)
        PROVE  UsersDistinct'
    <2>1. /\ Len(users) \in Nat /\ DOMAIN users = 1 .. Len(users)
          /\ DOMAIN users' = 1 .. Len(users) - 1
          /\ \A j \in 1 .. Len(users) - 1 :
               users'[j] = IF j < i THEN users[j] ELSE users[j + 1]
      BY <1>1, <1>4, RemoveUserElements
    <2> SUFFICES ASSUME NEW j \in 1 .. Len(users) - 1, NEW k \in 1 .. Len(users) - 1,
                        users'[j] = users'[k]
                 PROVE  j = k
      BY <2>1 DEF UsersDistinct
    <2>2. /\ j \in DOMAIN users /\ j + 1 \in DOMAIN users
          /\ k \in DOMAIN users /\ k + 1 \in DOMAIN users
      BY <2>1
    <2> QED BY <2>1, <2>2 DEF UsersDistinct
  <1>5. CASE SemInit
    BY <1>5 DEF SemInit, UsersDistinct
  <1>6. ASSUME NEW c \in Clients, SendEnqueue(c) PROVE users' = users
    BY <1>6 DEF SendEnqueue
  <1> QED BY <1>2, <1>3, <1>4, <1>5, <1>6, RoomWriters, ServerUsers

\* No command is read that nobody sent, and head, tail and count agree, for any size of
\* the ring.
THEOREM RingAlwaysConsistent == Spec => []RingConsistent
  <1>1. Init => RingConsistent
    BY ConstantsAssumption DEF Init, RoomZero, RingConsistent, Slot
  <1>2. LockInv /\ RingConsistent /\ [Next]_vars => RingConsistent'
    BY RingStep DEF LockInv
  <1> QED BY <1>1, <1>2, LocksAlways, PTL DEF Spec

\* The user list never holds a pid twice, so one LEAVE is enough to remove a user.
THEOREM UsersAlwaysDistinct == Spec => []UsersDistinct
  <1>1. Init => UsersDistinct
    BY DEF Init, RoomZero, UsersDistinct
  <1>2. TypeOK /\ UsersDistinct /\ [Next]_vars => UsersDistinct'
    BY UsersStep
  <1> QED BY <1>1, <1>2, TypeCorrect, PTL DEF Spec

-----------------------------------------------------------------------------
(* The copies.                                                             *)

\* What a move of one thread does to the copies when the room and all copies stay.
LEMMA CopyMove ==
  ASSUME TypeOK, CopyInv, NEW c \in Clients, NEW r \in Roles, NEW from, NEW to,
         Goto(c, r, from, to), from \notin {"exited", "dead"},
         to \in {"copyMessages", "copyUsers"} => seen[c] # version,
         to = "copyUsers" => shown[c] = messages,
         UNCHANGED <<version, messages, users, missed, copyVars>>
  PROVE  CopyInv'
  <1>1. /\ pc[<<c, r>>] = from
        /\ \A d \in Clients, q \in Roles :
             pc'[<<d, q>>] = IF d = c /\ q = r THEN to ELSE pc[<<d, q>>]
    BY GotoPc
  <1>3. \A d \in Clients : ~Gone(d)' => ~Gone(d)
    BY <1>1 DEF Gone, Roles
  <1>4. \A d \in Clients : CopyRight(d) => CopyRight(d)'
    BY DEF CopyRight, copyVars
  <1>5. UNCHANGED <<version, messages, missed, seen, shown>>
    BY DEF copyVars
  <1> QED BY <1>1, <1>3, <1>4, <1>5 DEF CopyInv

\* The end of a client leaves the copies of the others alone.
LEMMA EndKeepsCopies ==
  ASSUME TypeOK, CopyInv, NEW c \in Clients, EndsHere(c), Forget(c)
  PROVE  CopyInv'
  <1>1. \A d \in Clients : d # c =>
          /\ seen'[d] = seen[d] /\ missed'[d] = missed[d]
          /\ shown'[d] = shown[d] /\ shownUsers'[d] = shownUsers[d]
    BY DEF Forget, TypeOK
  <1>2. UNCHANGED <<version, messages, users>>
    BY DEF Forget
  <1>3. Gone(c)'
    BY DEF EndsHere, Gone
  <1>4. ASSUME NEW d \in Clients, d # c
        PROVE  /\ ~Gone(d)' => ~Gone(d)
               /\ CopyRight(d) => CopyRight(d)'
               /\ \A q \in Roles : pc'[<<d, q>>] = pc[<<d, q>>]
    BY <1>1, <1>2, <1>4 DEF EndsHere, Gone, CopyRight, Roles
  <1> QED BY <1>1, <1>2, <1>3, <1>4 DEF CopyInv

\* A copy that has the room's version is right, after every step.
LEMMA CopyStep ==
  TypeOK /\ StartInv /\ LifeInv /\ MutualExclusion /\ CopyInv /\ [Next]_vars => CopyInv'
  <1> SUFFICES ASSUME TypeOK, StartInv, LifeInv, MutualExclusion, CopyInv, [Next]_vars
               PROVE  CopyInv'
    OBVIOUS
  <1> USE DEF vars, shared, shmVars, srvVars, clientVars, private, roomVars, ringVars,
        copyVars, lifeVars
  <1>1. CASE ShmOpen
    BY <1>1 DEF CopyInv, CopyRight, Gone, ShmOpen
  <1>2. CASE Ftruncate
    BY <1>2 DEF CopyInv, CopyRight, Gone, Ftruncate
  <1>3. CASE SemInit
    BY <1>3 DEF CopyInv, CopyRight, Gone, SemInit, StartInv, RoomZero
  <1>4. CASE CreateFails
    BY <1>4 DEF CopyInv, CopyRight, Gone, CreateFails
  <1>5. CASE ServerTurn
    BY <1>5 DEF CopyInv, CopyRight, Gone, ServerTurn
  <1>6. CASE ServerExit
    BY <1>6 DEF CopyInv, CopyRight, Gone, ServerExit
  <1>7. CASE ServerLock
    BY <1>7 DEF CopyInv, CopyRight, Gone, ServerLock, LockRoom
  <1>8. CASE ServerProcess
    <2>1. \A c \in Clients, r \in Roles : pc[<<c, r>>] \notin {"copyMessages", "copyUsers"}
      <3>1. roomLock = Server
        BY <1>8 DEF ServerProcess, MutualExclusion
      <3> SUFFICES ASSUME NEW c \in Clients, NEW r \in Roles,
                          pc[<<c, r>>] \in {"copyMessages", "copyUsers"}
                   PROVE  FALSE
        OBVIOUS
      <3>2. roomLock = <<c, r>>
        BY DEF MutualExclusion, InRoom
      <3> QED BY <3>1, <3>2, ThreadsDiffer
    <2>2. pc' = pc /\ UNCHANGED copyVars
      BY <1>8 DEF ServerProcess
    <2>3. CASE BumpVersion
      <3>1. version' = IF version + 1 = VersionModulus THEN 0 ELSE version + 1
        BY <2>3, VersionStep DEF BumpVersion, TypeOK
      <3>2. \A c \in Clients : ~Gone(c) => missed'[c] = missed[c] + 1
        BY <2>3 DEF BumpVersion
      <3>3. \A c \in Clients : missed[c] \in Nat /\ seen[c] \in 0 .. VersionModulus - 1
        BY DEF TypeOK
      <3>4. version \in 0 .. VersionModulus - 1 /\ VersionModulus \in Nat
        BY ConstantsAssumption DEF TypeOK
      <3>5. \A c \in Clients : Gone(c)' <=> Gone(c)
        BY <2>2 DEF Gone
      <3> SUFFICES ASSUME NEW c \in Clients, ~Gone(c)
                   PROVE  /\ missed'[c] # 0
                          /\ missed'[c] < VersionModulus =>
                               version' = IF seen[c] + missed'[c] < VersionModulus
                                          THEN seen[c] + missed'[c]
                                          ELSE seen[c] + missed'[c] - VersionModulus
        BY <2>1, <2>2, <3>5 DEF CopyInv
      <3>6. missed[c] < VersionModulus =>
              version = IF seen[c] + missed[c] < VersionModulus
                        THEN seen[c] + missed[c] ELSE seen[c] + missed[c] - VersionModulus
        BY DEF CopyInv
      <3> QED BY <3>1, <3>2, <3>3, <3>4, <3>6
    <2>4. CASE UNCHANGED <<version, missed, messages, users>>
      BY <2>1, <2>2, <2>4 DEF CopyInv, CopyRight, Gone
    <2> QED BY <1>8, <2>3, <2>4 DEF ServerProcess, ProcessJoin, ProcessText, ProcessLeave,
              ProcessNothing
  <1>9. CASE ServerIdle
    BY <1>9 DEF CopyInv, CopyRight, Gone, ServerIdle, UnlockRoom
  <1>10. CASE HandleSignal
    BY <1>10 DEF CopyInv, CopyRight, Gone, HandleSignal
  <1>11. CASE SignalAgain
    BY <1>11 DEF CopyInv, CopyRight, Gone, SignalAgain
  <1>12. ASSUME NEW c \in Clients, Connect(c) PROVE CopyInv'
    <2>1. Goto(c, "main", "init", "sendWait") /\ UNCHANGED <<version, messages, users, missed, copyVars>>
      BY <1>12 DEF Connect
    <2> HIDE DEF copyVars
    <2> QED BY <2>1, CopyMove DEF Roles
  <1>13. ASSUME NEW c \in Clients, SendLock(c) PROVE CopyInv'
    <2>1. Goto(c, "main", "sendWait", "sendHold") /\ UNCHANGED <<version, messages, users, missed, copyVars>>
      BY <1>13 DEF SendLock, LockRoom
    <2> HIDE DEF copyVars
    <2> QED BY <2>1, CopyMove DEF Roles
  <1>14. ASSUME NEW c \in Clients, SendEnqueue(c) PROVE CopyInv'
    <2>1. PICK to : /\ Goto(c, "main", "sendHold", to) /\ to \notin {"copyMessages", "copyUsers"}
                    /\ UNCHANGED <<version, messages, users, missed, copyVars>>
      BY <1>14 DEF SendEnqueue, UnlockRoom, AfterSend
    <2> HIDE DEF copyVars
    <2> QED BY <2>1, CopyMove DEF Roles
  <1>15. ASSUME NEW c \in Clients, SendFull(c) PROVE CopyInv'
    <2>1. PICK to : /\ Goto(c, "main", "sendHold", to) /\ to \notin {"copyMessages", "copyUsers"}
                    /\ UNCHANGED <<version, messages, users, missed, copyVars>>
      BY <1>15 DEF SendFull, UnlockRoom, AfterSend
    <2> HIDE DEF copyVars
    <2> QED BY <2>1, CopyMove DEF Roles
  <1>16. ASSUME NEW c \in Clients, SendInterrupted(c) PROVE CopyInv'
    <2>1. PICK to : /\ Goto(c, "main", "sendWait", to) /\ to \notin {"copyMessages", "copyUsers"}
                    /\ UNCHANGED <<version, messages, users, missed, copyVars>>
      BY <1>16 DEF SendInterrupted, AfterSend
    <2> HIDE DEF copyVars
    <2> QED BY <2>1, CopyMove DEF Roles
  <1>17. ASSUME NEW c \in Clients, PushMessage(c) PROVE CopyInv'
    <2>1. \A r \in Roles : pc[<<c, r>>] \notin {"copyMessages", "copyUsers"}
      BY <1>17, ConstantsAssumption DEF PushMessage, MutualExclusion, InState
    <2>2. PICK to \in {"destroy", "loop"} :
            \A d \in Clients, q \in Roles :
              pc'[<<d, q>>] = IF d = c /\ q = "main" THEN to ELSE pc[<<d, q>>]
      <3>1. PICK to \in {"destroy", "loop"} : Goto(c, "main", "push", to)
        BY <1>17 DEF PushMessage
      <3>2. "main" \in Roles
        BY DEF Roles
      <3>3. /\ pc[<<c, "main">>] = "push"
            /\ \A d \in Clients, q \in Roles :
                 pc'[<<d, q>>] = IF d = c /\ q = "main" THEN to ELSE pc[<<d, q>>]
        BY <3>1, <3>2, GotoPc
      <3> QED BY <3>3
    <2>3. /\ shown' = [shown EXCEPT ![c] = AddMessage(@, Line("note", c, None))]
          /\ UNCHANGED <<version, messages, users, missed, seen, shownUsers>>
      BY <1>17 DEF PushMessage
    <2>4. /\ \A d \in Clients : ~Gone(d)' => ~Gone(d)
          /\ \A d \in Clients, q \in Roles :
               pc'[<<d, q>>] \in {"copyMessages", "copyUsers"} =>
                 d # c /\ pc[<<d, q>>] = pc'[<<d, q>>]
      BY <1>17, <2>1, <2>2 DEF PushMessage, Goto, Gone, Roles
    <2>5. \A d \in Clients : d # c => shown'[d] = shown[d]
      BY <2>3 DEF TypeOK
    <2>6. \E i \in DOMAIN shown'[c] : shown'[c][i].kind = "note"
      <3>1. shown[c] \in Seq(Lines) /\ Line("note", c, None) \in Lines
        BY DEF TypeOK, Line, Lines
      <3>2. shown'[c] = AddMessage(shown[c], Line("note", c, None))
        BY <2>3 DEF TypeOK
      <3>3. Line("note", c, None).kind = "note"
        BY DEF Line
      <3> QED BY <3>1, <3>2, <3>3, AddMessageType
    <2>7. \A d \in Clients : CopyRight(d) => CopyRight(d)'
      BY <2>3, <2>5, <2>6 DEF CopyRight
    <2> QED BY <2>3, <2>4, <2>5, <2>7 DEF CopyInv
  <1>18. ASSUME NEW c \in Clients, StartFails(c) PROVE CopyInv'
    <2>1. Goto(c, "main", "start", "sendWait") /\ UNCHANGED <<version, messages, users, missed, copyVars>>
      BY <1>18 DEF StartFails, BeginLeave
    <2> HIDE DEF copyVars
    <2> QED BY <2>1, CopyMove DEF Roles
  <1>19. ASSUME NEW c \in Clients, SnapshotLock(c) PROVE CopyInv'
    <2>1. Goto(c, "main", "loop", "snapshot") /\ UNCHANGED <<version, messages, users, missed, copyVars>>
      BY <1>19 DEF SnapshotLock
    <2> HIDE DEF copyVars
    <2> QED BY <2>1, CopyMove DEF Roles
  <1>20. ASSUME NEW c \in Clients, SnapshotUnlock(c) PROVE CopyInv'
    <2>1. Goto(c, "main", "snapshot", "key") /\ UNCHANGED <<version, messages, users, missed, copyVars>>
      BY <1>20 DEF SnapshotUnlock
    <2> HIDE DEF copyVars
    <2> QED BY <2>1, CopyMove DEF Roles
  <1>21. ASSUME NEW c \in Clients, KeyOther(c) PROVE CopyInv'
    <2>1. Goto(c, "main", "key", "loop") /\ UNCHANGED <<version, messages, users, missed, copyVars>>
      BY <1>21 DEF KeyOther
    <2> HIDE DEF copyVars
    <2> QED BY <2>1, CopyMove DEF Roles
  <1>22. ASSUME NEW c \in Clients, NEW t \in Texts, KeyText(c, t) PROVE CopyInv'
    <2>1. Goto(c, "main", "key", "sendWait") /\ UNCHANGED <<version, messages, users, missed, copyVars>>
      BY <1>22 DEF KeyText
    <2> HIDE DEF copyVars
    <2> QED BY <2>1, CopyMove DEF Roles
  <1>23. ASSUME NEW c \in Clients, KeyExit(c) PROVE CopyInv'
    <2>1. Goto(c, "main", "key", "sendWait") /\ UNCHANGED <<version, messages, users, missed, copyVars>>
      BY <1>23 DEF KeyExit, BeginLeave
    <2> HIDE DEF copyVars
    <2> QED BY <2>1, CopyMove DEF Roles
  <1>24. ASSUME NEW c \in Clients, StopReceiver(c) PROVE CopyInv'
    <2>1. PICK to : /\ Goto(c, "main", "stop", to) /\ to \notin {"copyMessages", "copyUsers"}
                    /\ UNCHANGED <<version, messages, users, missed, copyVars>>
      BY <1>24 DEF StopReceiver
    <2> HIDE DEF copyVars
    <2> QED BY <2>1, CopyMove DEF Roles
  <1>25. ASSUME NEW c \in Clients, JoinReceiver(c) PROVE CopyInv'
    <2>1. Goto(c, "main", "join", "destroy") /\ UNCHANGED <<version, messages, users, missed, copyVars>>
      BY <1>25 DEF JoinReceiver
    <2> HIDE DEF copyVars
    <2> QED BY <2>1, CopyMove DEF Roles
  <1>26. ASSUME NEW c \in Clients, ReceiverTurn(c) PROVE CopyInv'
    <2>1. PICK to : /\ Goto(c, "recv", "check", to) /\ to \notin {"copyMessages", "copyUsers"}
                    /\ UNCHANGED <<version, messages, users, missed, copyVars>>
      BY <1>26 DEF ReceiverTurn
    <2> HIDE DEF copyVars
    <2> QED BY <2>1, CopyMove DEF Roles
  <1>27. ASSUME NEW c \in Clients, NEW r \in Roles, RefreshLock(c, r) PROVE CopyInv'
    <2>1. Goto(c, r, "refWait", "refHold") /\ UNCHANGED <<version, messages, users, missed, copyVars>>
      BY <1>27 DEF RefreshLock, LockRoom
    <2> HIDE DEF copyVars
    <2> QED BY <2>1, CopyMove DEF Roles
  <1>28. ASSUME NEW c \in Clients, NEW r \in Roles, RefreshInterrupted(c, r) PROVE CopyInv'
    <2>1. PICK to : /\ Goto(c, r, "refWait", to) /\ to \notin {"copyMessages", "copyUsers"}
                    /\ UNCHANGED <<version, messages, users, missed, copyVars>>
      BY <1>28 DEF RefreshInterrupted, AfterRefresh
    <2> HIDE DEF copyVars
    <2> QED BY <2>1, CopyMove DEF Roles
  <1>29. ASSUME NEW c \in Clients, NEW r \in Roles, RefreshSame(c, r) PROVE CopyInv'
    <2>1. PICK to : /\ Goto(c, r, "refHold", to) /\ to \notin {"copyMessages", "copyUsers"}
                    /\ UNCHANGED <<version, messages, users, missed, copyVars>>
      BY <1>29 DEF RefreshSame, UnlockRoom, AfterRefresh
    <2> HIDE DEF copyVars
    <2> QED BY <2>1, CopyMove DEF Roles
  <1>30. ASSUME NEW c \in Clients, NEW r \in Roles, RefreshStateLock(c, r) PROVE CopyInv'
    <2>1. Goto(c, r, "refHold", "copyMessages") /\ UNCHANGED <<version, messages, users, missed, copyVars>>
      BY <1>30 DEF RefreshStateLock
    <2>2. seen[c] # version
      BY <1>30 DEF RefreshStateLock
    <2> HIDE DEF copyVars
    <2> QED BY <2>1, <2>2, CopyMove
  <1>31. ASSUME NEW c \in Clients, NEW r \in Roles, CopyMessages(c, r) PROVE CopyInv'
    <2>1. \A d \in Clients, q \in Roles :
            pc'[<<d, q>>] = IF d = c /\ q = r THEN "copyUsers" ELSE pc[<<d, q>>]
      <3>1. Goto(c, r, "copyMessages", "copyUsers")
        BY <1>31 DEF CopyMessages
      <3>2. /\ pc[<<c, r>>] = "copyMessages"
            /\ \A d \in Clients, q \in Roles :
                 pc'[<<d, q>>] = IF d = c /\ q = r THEN "copyUsers" ELSE pc[<<d, q>>]
        BY <3>1, GotoPc
      <3> QED BY <3>2
    <2>2. /\ \A d \in Clients : shown'[d] = IF d = c THEN messages ELSE shown[d]
          /\ UNCHANGED <<version, messages, users, missed, seen, shownUsers>>
      BY <1>31 DEF CopyMessages, TypeOK
    <2>3. pc[<<c, r>>] = "copyMessages"
      BY <1>31 DEF CopyMessages, Goto
    <2>4. \A d \in Clients : ~Gone(d)' => ~Gone(d)
      BY <2>1, <2>3 DEF Gone, Roles
    <2>5. \A d \in Clients : CopyRight(d) => CopyRight(d)'
      BY <2>2 DEF CopyRight
    <2> QED BY <2>1, <2>2, <2>3, <2>4, <2>5 DEF CopyInv
  <1>32. ASSUME NEW c \in Clients, NEW r \in Roles, CopyUsers(c, r) PROVE CopyInv'
    <2>1. \A d \in Clients, q \in Roles :
            pc'[<<d, q>>] = IF d = c /\ q = r THEN AfterRefresh(r) ELSE pc[<<d, q>>]
      <3>1. Goto(c, r, "copyUsers", AfterRefresh(r))
        BY <1>32 DEF CopyUsers
      <3>2. /\ pc[<<c, r>>] = "copyUsers"
            /\ \A d \in Clients, q \in Roles :
                 pc'[<<d, q>>] = IF d = c /\ q = r THEN AfterRefresh(r) ELSE pc[<<d, q>>]
        BY <3>1, GotoPc
      <3> QED BY <3>2
    <2>2. /\ \A d \in Clients : /\ shownUsers'[d] = IF d = c THEN users ELSE shownUsers[d]
                                /\ seen'[d] = IF d = c THEN version ELSE seen[d]
                                /\ missed'[d] = IF d = c THEN 0 ELSE missed[d]
          /\ UNCHANGED <<version, messages, users, shown>>
      BY <1>32 DEF CopyUsers, TypeOK
    <2>3. pc[<<c, r>>] = "copyUsers"
      BY <1>32 DEF CopyUsers, Goto
    <2>4. \A d \in Clients : ~Gone(d)' => ~Gone(d)
      BY <2>1, <2>3 DEF Gone, Roles
    <2>5. \A d \in Clients, q \in Roles :
            pc'[<<d, q>>] \in {"copyMessages", "copyUsers"} =>
              d # c /\ pc[<<d, q>>] = pc'[<<d, q>>]
      BY <2>1, <2>3, ThreadsDiffer DEF MutualExclusion, InRoom, AfterRefresh
    <2>6. \A d \in Clients : d # c => (CopyRight(d) => CopyRight(d)')
      BY <2>2 DEF CopyRight
    <2>7. ~Gone(c)' => CopyRight(c)'
      BY <2>2, <2>3, <2>4 DEF CopyRight, CopyInv
    <2>8. version \in 0 .. VersionModulus - 1 /\ VersionModulus \in Nat
      BY ConstantsAssumption DEF TypeOK
    <2> SUFFICES ASSUME NEW d \in Clients, ~Gone(d)'
                 PROVE  /\ missed'[d] < VersionModulus =>
                             version = IF seen'[d] + missed'[d] < VersionModulus
                                       THEN seen'[d] + missed'[d]
                                       ELSE seen'[d] + missed'[d] - VersionModulus
                        /\ missed'[d] = 0 => CopyRight(d)'
                        /\ \A q \in Roles :
                             /\ pc'[<<d, q>>] \in {"copyMessages", "copyUsers"}
                                  => seen'[d] # version
                             /\ pc'[<<d, q>>] = "copyUsers" => shown[d] = messages
      BY <2>2 DEF CopyInv
    <2>9. CASE d = c
      BY <2>2, <2>5, <2>7, <2>8, <2>9
    <2>10. CASE d # c
      BY <2>2, <2>4, <2>5, <2>6, <2>10 DEF CopyInv
    <2> QED BY <2>9, <2>10
  <1>33. ASSUME NEW c \in Clients, StartReceiver(c) PROVE CopyInv'
    BY <1>33, ZenonT(60) DEF StartReceiver, CopyInv, CopyRight, Gone, TypeOK, Threads, Roles
  <1>34. ASSUME NEW c \in Clients, ConnectFails(c) PROVE CopyInv'
    BY <1>34, Endings, EndKeepsCopies
  <1>35. ASSUME NEW c \in Clients, BusError(c) PROVE CopyInv'
    BY <1>35, Endings, EndKeepsCopies
  <1>36. ASSUME NEW c \in Clients, ClientExit(c) PROVE CopyInv'
    BY <1>36, Endings, EndKeepsCopies
  <1>37. ASSUME NEW c \in Clients, Kill(c) PROVE CopyInv'
    BY <1>37, Endings, EndKeepsCopies
  <1>38. CASE UNCHANGED vars
    BY <1>38 DEF CopyInv, CopyRight, Gone
  <1> QED
    BY <1>1, <1>2, <1>3, <1>4, <1>5, <1>6, <1>7, <1>8, <1>9, <1>10, <1>11, <1>12,
       <1>13, <1>14, <1>15, <1>16, <1>17, <1>18, <1>19, <1>20, <1>21, <1>22,
       <1>23, <1>24, <1>25, <1>26, <1>27, <1>28, <1>29, <1>30, <1>31, <1>32,
       <1>33, <1>34, <1>35, <1>36, <1>37, <1>38
    DEF Next, ServerSteps, MainSteps, MainLocks, RefreshSteps, RefreshLocks, Environment

\* room.version validates every client's copy, for any number of clients and any
\* modulus of the counter: a client that has seen the present version, and has not
\* slept through a whole turn of the counter, shows the present room.
THEOREM VersionValidates == Spec => []SnapshotFaithful
  <1>1. Init => CopyInv
    BY ConstantsAssumption DEF Init, RoomZero, CopyInv, CopyRight, Threads, Roles
  <1>2. LockInv /\ CopyInv /\ [Next]_vars => CopyInv'
    BY CopyStep DEF LockInv
  <1>3. TypeOK /\ CopyInv => SnapshotFaithful
    <2> SUFFICES ASSUME TypeOK, CopyInv, NEW c \in Clients, ~Gone(c),
                        seen[c] = version, missed[c] < VersionModulus
                 PROVE  CopyRight(c)
      BY DEF SnapshotFaithful
    <2>1. /\ missed[c] \in Nat /\ seen[c] \in 0 .. VersionModulus - 1
          /\ VersionModulus \in Nat
      BY ConstantsAssumption DEF TypeOK
    <2>2. version = IF seen[c] + missed[c] < VersionModulus
                    THEN seen[c] + missed[c] ELSE seen[c] + missed[c] - VersionModulus
      BY DEF CopyInv
    <2>3. missed[c] = 0
      BY <2>1, <2>2
    <2> QED BY <2>3 DEF CopyInv
  <1> QED BY <1>1, <1>2, <1>3, LocksAlways, TypeCorrect, PTL DEF Spec

-----------------------------------------------------------------------------
(* The room as the chat service of ChatService.                            *)

\* How a step may change what a client is about to send.
LEMMA RequestWriters ==
  ASSUME [Next]_vars
  PROVE  \/ request' = request
         \/ \E c \in Clients, t \in Texts :
              \E q \in {NoRequest, Request("JOIN", c, None), Request("LEAVE", c, None),
                        Request("TEXT", c, t)} : request' = [request EXCEPT ![c] = q]
         \/ \E c \in Clients :
              \E q \in {NoRequest, Request("JOIN", c, None), Request("LEAVE", c, None)} :
                request' = [request EXCEPT ![c] = q]
  <1> USE DEF vars, shared, srvVars, clientVars, private, lifeVars
  <1>1. CASE ServerSteps \/ ServerLock
    BY <1>1 DEF ServerSteps, ShmOpen, Ftruncate, SemInit, ServerTurn, ServerExit,
       ServerProcess, ServerIdle, ServerLock
  <1>2. ASSUME NEW c \in Clients, MainSteps(c)
        PROVE  request' = request \/ request' = [request EXCEPT ![c] = NoRequest]
    BY <1>2 DEF MainSteps, SendEnqueue, SendFull, StartReceiver, SnapshotUnlock, KeyOther,
       StopReceiver, JoinReceiver, ClientExit, BusError, Forget
  <1>3. ASSUME NEW c \in Clients, MainLocks(c) \/ ReceiverTurn(c) PROVE request' = request
    BY <1>3 DEF MainLocks, SendLock, SnapshotLock, PushMessage, ReceiverTurn
  <1>4. ASSUME NEW c \in Clients, NEW r \in Roles, RefreshSteps(c, r) \/ RefreshLocks(c, r)
        PROVE  request' = request
    BY <1>4 DEF RefreshSteps, RefreshLocks, RefreshSame, CopyMessages, CopyUsers,
       RefreshLock, RefreshStateLock
  <1>5. CASE CreateFails \/ HandleSignal \/ SignalAgain
    BY <1>5 DEF CreateFails, HandleSignal, SignalAgain
  <1>6. ASSUME NEW c \in Clients, ConnectFails(c) \/ Kill(c)
        PROVE  request' = [request EXCEPT ![c] = NoRequest]
    BY <1>6 DEF ConnectFails, Kill, Forget
  <1>7. ASSUME NEW c \in Clients, Connect(c)
        PROVE  request' = [request EXCEPT ![c] = Request("JOIN", c, None)]
    BY <1>7 DEF Connect
  <1>8. ASSUME NEW c \in Clients, StartFails(c) \/ KeyExit(c)
        PROVE  request' = [request EXCEPT ![c] = Request("LEAVE", c, None)]
    BY <1>8 DEF StartFails, KeyExit, BeginLeave
  <1>9. ASSUME NEW c \in Clients, SendInterrupted(c) \/ \E r \in Roles : RefreshInterrupted(c, r)
        PROVE  request' = request
    BY <1>9 DEF SendInterrupted, RefreshInterrupted
  <1>10. ASSUME NEW c \in Clients, NEW t \in Texts, KeyText(c, t)
         PROVE  request' = [request EXCEPT ![c] = Request("TEXT", c, t)]
    BY <1>10 DEF KeyText
  <1>11. CASE UNCHANGED vars
    BY <1>11
  <1> QED
    BY <1>1, <1>2, <1>3, <1>4, <1>5, <1>6, <1>7, <1>8, <1>9, <1>10, <1>11
    DEF Next, Environment

\* No step fills in a request in another's name or an empty text.
LEMMA SendStep ==
  ASSUME TypeOK, SendInv, [Next]_vars
  PROVE  SendInv'
  <1> DEFINE Good(c, q) == /\ q # NoRequest => q.pid = c
                           /\ q.command = "TEXT" => q.text # None
  <1>1. \A c \in Clients : Good(c, request'[c])
    <2>1. \A c \in Clients, t \in Texts :
            \A q \in {NoRequest, Request("JOIN", c, None), Request("LEAVE", c, None),
                      Request("TEXT", c, t)} : Good(c, q)
      BY ConstantsAssumption DEF NoRequest, Request
    <2>2. \A c \in Clients :
            \A q \in {NoRequest, Request("JOIN", c, None), Request("LEAVE", c, None)} :
              Good(c, q)
      BY DEF NoRequest, Request
    <2>3. \A c \in Clients : Good(c, request[c])
      BY DEF SendInv
    <2> HIDE DEF Good
    <2>4. CASE request' = request
      BY <2>3, <2>4
    <2>5. ASSUME NEW c \in Clients, NEW q, request' = [request EXCEPT ![c] = q], Good(c, q)
          PROVE  \A d \in Clients : Good(d, request'[d])
      BY <2>3, <2>5 DEF TypeOK
    <2> QED BY <2>1, <2>2, <2>4, <2>5, RequestWriters
  <1>2. \A i \in 0 .. MaxCommands - 1 :
          commands'[i].command = "TEXT" => commands'[i].text # None
    <2>1. CASE SemInit
      BY <2>1 DEF SemInit, NoRequest, Request
    <2>2. CASE ServerProcess \/ UNCHANGED <<version, messages, users, ringVars>>
      BY <2>2 DEF ServerProcess, ringVars, SendInv
    <2>3. ASSUME NEW c \in Clients, SendEnqueue(c)
          PROVE  \A i \in 0 .. MaxCommands - 1 :
                   commands'[i].command = "TEXT" => commands'[i].text # None
      <3>1. commands' = [commands EXCEPT ![command_tail] = request[c]]
        BY <2>3 DEF SendEnqueue
      <3> QED BY <3>1 DEF SendInv, TypeOK
    <2> QED BY <2>1, <2>2, <2>3, RoomWriters
  <1> QED BY <1>1, <1>2 DEF SendInv

\* The history of the service is the history of the room.
LEMMA AddIsRecord ==
  ASSUME NEW ms \in Seq(Lines), Len(ms) <= MaxMessages, NEW l \in Lines
  PROVE  Service!Record(ms, l) = AddMessage(ms, l)
  <1> USE ConstantsAssumption
  <1>1. Len(Append(ms, l)) = Len(ms) + 1 /\ Len(ms) \in Nat
    OBVIOUS
  <1>2. CASE Len(ms) < MaxMessages
    BY <1>1, <1>2 DEF Service!Record, AddMessage
  <1>3. CASE ~(Len(ms) < MaxMessages)
    <2>1. ms # <<>> /\ Append(ms, l) # <<>> /\ Len(ms) = MaxMessages
      BY <1>1, <1>3
    <2>2. Tail(Append(ms, l)) = Append(Tail(ms), l)
      <3>1. /\ Tail(ms) \in Seq(Lines) /\ Len(Tail(ms)) = Len(ms) - 1
            /\ \A i \in 1 .. Len(ms) - 1 : Tail(ms)[i] = ms[i + 1]
        BY <2>1
      <3>2. /\ Append(Tail(ms), l) \in Seq(Lines) /\ Len(Append(Tail(ms), l)) = Len(ms)
            /\ \A i \in 1 .. Len(ms) :
                 Append(Tail(ms), l)[i] = IF i = Len(ms) THEN l ELSE ms[i + 1]
        BY <1>1, <2>1, <3>1
      <3>3. /\ Append(ms, l) \in Seq(Lines)
            /\ \A i \in 1 .. Len(ms) + 1 :
                 Append(ms, l)[i] = IF i = Len(ms) + 1 THEN l ELSE ms[i]
        BY <1>1
      <3>4. /\ Tail(Append(ms, l)) \in Seq(Lines) /\ Len(Tail(Append(ms, l))) = Len(ms)
            /\ \A i \in 1 .. Len(ms) : Tail(Append(ms, l))[i] = Append(ms, l)[i + 1]
        <4> DEFINE a == Append(ms, l)
        <4>1. a \in Seq(Lines) /\ a # <<>> /\ Len(a) = Len(ms) + 1
          BY <1>1, <2>1, <3>3
        <4> HIDE DEF a
        <4>2. /\ Tail(a) \in Seq(Lines) /\ Len(Tail(a)) = Len(ms)
              /\ \A i \in 1 .. Len(ms) : Tail(a)[i] = a[i + 1]
          BY <1>1, <4>1
        <4> QED BY <4>2 DEF a
      <3>5. ASSUME NEW i \in 1 .. Len(ms)
            PROVE  Tail(Append(ms, l))[i] = Append(Tail(ms), l)[i]
        <4>1. i + 1 \in 1 .. Len(ms) + 1 /\ (i + 1 = Len(ms) + 1 <=> i = Len(ms))
          BY <1>1
        <4>2. Append(ms, l)[i + 1] = IF i = Len(ms) THEN l ELSE ms[i + 1]
          BY <3>3, <4>1
        <4>3. Tail(Append(ms, l))[i] = Append(ms, l)[i + 1]
          BY <3>4
        <4> QED BY <3>2, <4>2, <4>3
      <3> QED BY <3>2, <3>4, <3>5, SeqEqual
    <2>3. ~(Len(Append(ms, l)) <= MaxMessages)
      BY <1>1, <2>1
    <2> QED BY <1>3, <2>2, <2>3 DEF Service!Record, AddMessage
  <1> QED BY <1>2, <1>3
\* As many members as entries in the list: no pid is listed twice.
LEMMA MembersCounted ==
  ASSUME TypeOK, UsersDistinct
  PROVE  Cardinality({users[i] : i \in DOMAIN users}) = Len(users)
  <1>1. users \in Seq(Clients) /\ Len(users) \in Nat /\ DOMAIN users = 1 .. Len(users)
    BY DEF TypeOK
  <1> DEFINE n == Len(users)
             T == {users[i] : i \in DOMAIN users}
             f == [i \in 1 .. n |-> users[i]]
  <1>2. IsFiniteSet(1 .. n) /\ Cardinality(1 .. n) = n
    BY <1>1, FS_Interval
  <1>3. f \in Bijection(1 .. n, T)
    BY <1>1 DEF Bijection, Injection, Surjection, UsersDistinct, IsInjective
  <1>4. ExistsBijection(1 .. n, T)
    BY <1>3 DEF ExistsBijection
  <1> HIDE DEF n, T, f
  <1>5. Cardinality(T) = n
    BY <1>2, <1>4, FS_Bijection
  <1> QED BY <1>5 DEF n, T

\* What the user list holds after an entry was added or removed.
LEMMA MembersAfter ==
  ASSUME TypeOK, UsersDistinct
  PROVE  /\ \A p \in Clients :
              {Append(users, p)[i] : i \in DOMAIN Append(users, p)}
                = {users[i] : i \in DOMAIN users} \union {p}
         /\ \A k \in DOMAIN users :
              {RemoveUser(users, k)[i] : i \in DOMAIN RemoveUser(users, k)}
                = {users[i] : i \in DOMAIN users} \ {users[k]}
  <1>1. users \in Seq(Clients) /\ Len(users) \in Nat /\ DOMAIN users = 1 .. Len(users)
    BY DEF TypeOK
  <1>2. ASSUME NEW p \in Clients
        PROVE  /\ DOMAIN Append(users, p) = 1 .. Len(users) + 1
               /\ Append(users, p)[Len(users) + 1] = p
               /\ \A i \in DOMAIN users : Append(users, p)[i] = users[i]
    BY <1>1
  <1>3. ASSUME NEW p \in Clients
        PROVE  {Append(users, p)[i] : i \in DOMAIN Append(users, p)}
                 = {users[i] : i \in DOMAIN users} \union {p}
    <2> DEFINE a == Append(users, p)
    <2>1. /\ DOMAIN a = 1 .. Len(users) + 1 /\ a[Len(users) + 1] = p
          /\ \A i \in DOMAIN users : a[i] = users[i]
      BY <1>2
    <2>2. DOMAIN a = DOMAIN users \union {Len(users) + 1}
      BY <1>1, <2>1
    <2> HIDE DEF a
    <2>3. {a[i] : i \in DOMAIN a} = {users[i] : i \in DOMAIN users} \union {p}
      BY <2>1, <2>2
    <2> QED BY <2>3 DEF a
  <1>4. ASSUME NEW k \in DOMAIN users
        PROVE  {RemoveUser(users, k)[i] : i \in DOMAIN RemoveUser(users, k)}
                 = {users[i] : i \in DOMAIN users} \ {users[k]}
    <2> DEFINE a == RemoveUser(users, k)
    <2>1. /\ a \in Seq(Clients) /\ Len(a) = Len(users) - 1
          /\ \A j \in 1 .. Len(users) - 1 : a[j] = IF j < k THEN users[j] ELSE users[j + 1]
      BY <1>1, RemoveUserElements
    <2>2. DOMAIN a = 1 .. Len(users) - 1
      BY <2>1
    <2> HIDE DEF a
    <2>3. ASSUME NEW j \in DOMAIN a
          PROVE  \E i \in DOMAIN users : i # k /\ a[j] = users[i]
      <3>1. CASE j < k
        BY <1>1, <2>1, <2>2, <3>1
      <3>2. CASE ~(j < k)
        <4>1. j + 1 \in DOMAIN users /\ j + 1 # k
          BY <1>1, <2>2, <3>2
        <4> QED BY <2>1, <2>2, <3>2, <4>1
      <3> QED BY <3>1, <3>2
    <2>4. ASSUME NEW i \in DOMAIN users, i # k
          PROVE  \E j \in DOMAIN a : a[j] = users[i]
      <3>1. CASE i < k
        <4>1. i \in DOMAIN a
          BY <1>1, <2>2, <3>1
        <4> QED BY <2>1, <2>2, <3>1, <4>1
      <3>2. CASE ~(i < k)
        <4>1. i - 1 \in DOMAIN a /\ ~(i - 1 < k) /\ (i - 1) + 1 = i
          BY <1>1, <2>2, <2>4, <3>2
        <4> QED BY <2>1, <2>2, <4>1
      <3> QED BY <3>1, <3>2
    <2>5. \A i \in DOMAIN users : users[i] = users[k] <=> i = k
      BY DEF UsersDistinct
    <2>6. {a[i] : i \in DOMAIN a} = {users[i] : i \in DOMAIN users} \ {users[k]}
      BY <2>3, <2>4, <2>5
    <2> QED BY <2>6 DEF a
  <1> QED BY <1>3, <1>4

\* The queue of the service, and what a client lists.
Waiting == [k \in 1 .. command_count |-> commands[Slot(k - 1)]]
Lists(c) == LET us == IF Copying(c) THEN users ELSE shownUsers[c]
            IN  {us[i] : i \in DOMAIN us}

\* A thread that neither starts nor ends the second loop of a copy changes no view.
LEMMA CopyingSame ==
  ASSUME TypeOK, NEW c \in Clients, NEW r \in Roles, NEW from, NEW to,
         Goto(c, r, from, to), from # "copyUsers", to # "copyUsers"
  PROVE  \A d \in Clients : Copying(d)' = Copying(d)
  <1>1. /\ pc[<<c, r>>] = from
        /\ \A d \in Clients, q \in Roles :
             pc'[<<d, q>>] = IF d = c /\ q = r THEN to ELSE pc[<<d, q>>]
    BY GotoPc
  <1>2. \A d \in Clients, q \in Roles :
          pc'[<<d, q>>] = "copyUsers" <=> pc[<<d, q>>] = "copyUsers"
    BY <1>1
  <1> QED BY <1>2 DEF Copying

\* Nothing of the service moves.
Unseen ==
  /\ UNCHANGED <<messages, users, ringVars, shown, shownUsers>>
  /\ \A d \in Clients : Copying(d)' = Copying(d)

\* A step nobody sees leaves the service as it is.
LEMMA UnseenStutters ==
  ASSUME Unseen
  PROVE  UNCHANGED Service!vars
  <1>1. UNCHANGED Waiting
    BY DEF Unseen, Waiting, Slot, ringVars
  <1>2. \A d \in Clients : Lists(d)' = Lists(d)
    BY DEF Unseen, Lists
  <1> QED BY <1>1, <1>2 DEF Unseen, Service!vars, Waiting, Lists
\* A step that the service sees is one of these.
LEMMA SeenSteps ==
  ASSUME LockInv, [Next]_vars
  PROVE  \/ Unseen
         \/ SemInit
         \/ ServerProcess
         \/ \E c \in Clients : SendEnqueue(c) \/ PushMessage(c) \/ (EndsHere(c) /\ Forget(c))
         \/ \E c \in Clients, r \in Roles : CopyMessages(c, r) \/ CopyUsers(c, r)
  <1> USE DEF vars, shared, shmVars, srvVars, clientVars, private, roomVars, ringVars,
        copyVars, lifeVars
  <1>0. TypeOK /\ StartInv /\ LifeInv /\ "main" \in Roles /\ "recv" \in Roles
    BY DEF LockInv, Roles
  <1>1. ASSUME pc' = pc, UNCHANGED <<messages, users, ringVars, shown, shownUsers>>
        PROVE  Unseen
    BY <1>1 DEF Unseen, Copying
  <1>2. ASSUME NEW c \in Clients, NEW r \in Roles, NEW from, NEW to, Goto(c, r, from, to),
               from # "copyUsers", to # "copyUsers",
               UNCHANGED <<messages, users, ringVars, shown, shownUsers>>
        PROVE  Unseen
    BY <1>0, <1>2, CopyingSame DEF Unseen
  <1>3. CASE ServerSteps \/ ServerLock
    BY <1>1, <1>3 DEF ServerSteps, ShmOpen, Ftruncate, ServerTurn, ServerExit, ServerIdle,
       ServerLock
  <1>4. CASE CreateFails \/ HandleSignal \/ SignalAgain
    BY <1>1, <1>4 DEF CreateFails, HandleSignal, SignalAgain
  <1>5. ASSUME NEW c \in Clients, ConnectFails(c) \/ BusError(c) \/ ClientExit(c) \/ Kill(c)
        PROVE  EndsHere(c) /\ Forget(c)
    BY <1>0, <1>5, Endings
  <1>6. ASSUME NEW c \in Clients, StartReceiver(c) PROVE Unseen
    <2>1. \A d \in Clients, q \in Roles :
            pc'[<<d, q>>] = "copyUsers" => pc[<<d, q>>] = "copyUsers"
      BY <1>0, <1>6 DEF StartReceiver, TypeOK, Threads
    <2>2. pc[<<c, "main">>] = "start" /\ pc[<<c, "recv">>] \in {"none", "end", "dead"}
      BY <1>0, <1>6 DEF StartReceiver, LifeInv
    <2>3. \A d \in Clients, q \in Roles :
            pc[<<d, q>>] = "copyUsers" => pc'[<<d, q>>] = "copyUsers"
      <3>1. \A d \in Clients, q \in Roles : d # c => pc'[<<d, q>>] = pc[<<d, q>>]
        BY <1>0, <1>6 DEF StartReceiver, TypeOK, Threads
      <3> QED BY <2>2, <3>1 DEF Roles
    <2> QED BY <1>6, <2>1, <2>3 DEF Unseen, Copying, StartReceiver
  <1>7. ASSUME NEW c \in Clients, SnapshotUnlock(c) \/ KeyOther(c) PROVE Unseen
    BY <1>0, <1>2, <1>7 DEF SnapshotUnlock, KeyOther
  <1>8. ASSUME NEW c \in Clients, SendFull(c) \/ SendInterrupted(c) PROVE Unseen
    <2>1. AfterSend(c, FALSE) # "copyUsers"
      BY DEF AfterSend
    <2> QED BY <1>0, <1>2, <1>8, <2>1 DEF SendFull, SendInterrupted
  <1>9. ASSUME NEW c \in Clients, StopReceiver(c) \/ JoinReceiver(c) PROVE Unseen
    <2>1. (IF receiver_started[c] THEN "join" ELSE "destroy") # "copyUsers"
      OBVIOUS
    <2> QED BY <1>0, <1>2, <1>9, <2>1 DEF StopReceiver, JoinReceiver
  <1>10. ASSUME NEW c \in Clients, SendLock(c) \/ SnapshotLock(c) PROVE Unseen
    BY <1>0, <1>2, <1>10 DEF SendLock, SnapshotLock
  <1>11. ASSUME NEW c \in Clients, ReceiverTurn(c) PROVE Unseen
    <2>1. (IF running[c] THEN "refWait" ELSE "end") # "copyUsers"
      OBVIOUS
    <2> QED BY <1>0, <1>2, <1>11, <2>1 DEF ReceiverTurn
  <1>12. ASSUME NEW c \in Clients, Connect(c) \/ StartFails(c) \/ KeyExit(c) PROVE Unseen
    BY <1>0, <1>2, <1>12 DEF Connect, StartFails, KeyExit, BeginLeave
  <1>13. ASSUME NEW c \in Clients, NEW t \in Texts, KeyText(c, t) PROVE Unseen
    BY <1>0, <1>2, <1>13 DEF KeyText
  <1>14. ASSUME NEW c \in Clients, NEW r \in Roles,
                \/ RefreshLock(c, r) \/ RefreshInterrupted(c, r) \/ RefreshSame(c, r)
                \/ RefreshStateLock(c, r)
         PROVE  Unseen
    <2>1. AfterRefresh(r) # "copyUsers"
      BY DEF AfterRefresh
    <2> QED BY <1>2, <1>14, <2>1
         DEF RefreshLock, RefreshInterrupted, RefreshSame, RefreshStateLock
  <1>15. CASE UNCHANGED vars
    BY <1>1, <1>15
  <1> QED
    BY <1>3, <1>4, <1>5, <1>6, <1>7, <1>8, <1>9, <1>10, <1>11, <1>12, <1>13, <1>14, <1>15
    DEF Next, MainSteps, MainLocks, RefreshSteps, RefreshLocks, Environment

\* The view of the service, client by client.
LEMMA ViewPoint ==
  ASSUME NEW c \in Clients, NEW v,
         [lines |-> shown'[c], users |-> Lists(c)'] = v,
         \A d \in Clients : d # c => shown'[d] = shown[d] /\ Lists(d)' = Lists(d)
  PROVE  [d \in Clients |-> [lines |-> shown'[d], users |-> Lists(d)']]
           = [[d \in Clients |-> [lines |-> shown[d], users |-> Lists(d)]] EXCEPT ![c] = v]
  OBVIOUS

\* The end of a client closes its view.
LEMMA EndCloses ==
  ASSUME TypeOK, NEW c \in Clients, EndsHere(c), Forget(c)
  PROVE  Service!Close(c)
  <1>1. /\ UNCHANGED <<messages, users, commands, command_head, command_count>>
        /\ shown'[c] = <<>> /\ shownUsers'[c] = <<>>
        /\ \A d \in Clients : d # c => shown'[d] = shown[d] /\ shownUsers'[d] = shownUsers[d]
    BY DEF Forget, TypeOK, ringVars
  <1>2. ~Copying(c)' /\ \A d \in Clients : d # c => Copying(d)' = Copying(d)
    BY DEF EndsHere, Copying
  <1>3. Lists(c)' = {} /\ \A d \in Clients : d # c => Lists(d)' = Lists(d)
    <2>1. Lists(c)' = {<<>>[i] : i \in DOMAIN <<>>}
      BY <1>1, <1>2 DEF Lists
    <2> QED BY <1>1, <1>2, <2>1 DEF Lists
  <1>4. [lines |-> shown'[c], users |-> Lists(c)'] = Service!EmptyView
    BY <1>1, <1>3 DEF Service!EmptyView
  <1>5. [d \in Clients |-> [lines |-> shown'[d], users |-> Lists(d)']]
          = [[d \in Clients |-> [lines |-> shown[d], users |-> Lists(d)]]
               EXCEPT ![c] = Service!EmptyView]
    BY <1>1, <1>3, <1>4, ViewPoint
  <1> QED BY <1>1, <1>5 DEF Service!Close, Lists, Slot
\* The copy of the messages is the moment at which a client sees the room: nobody can
\* change the room before the users are copied too.
LEMMA CopyObserves ==
  ASSUME TypeOK, NEW c \in Clients, NEW r \in Roles, CopyMessages(c, r)
  PROVE  Service!Observe(c)
  <1>1. /\ UNCHANGED <<messages, users, commands, command_head, command_count, shownUsers>>
        /\ shown'[c] = messages
        /\ \A d \in Clients : d # c => shown'[d] = shown[d]
    BY DEF CopyMessages, TypeOK, shared, roomVars
  <1>2. Copying(c)' /\ \A d \in Clients : d # c => Copying(d)' = Copying(d)
    <2>1. /\ pc[<<c, r>>] = "copyMessages"
          /\ \A d \in Clients, q \in Roles :
               pc'[<<d, q>>] = IF d = c /\ q = r THEN "copyUsers" ELSE pc[<<d, q>>]
      BY GotoPc DEF CopyMessages
    <2> QED BY <2>1 DEF Copying
  <1>3. /\ Lists(c)' = {users[i] : i \in DOMAIN users}
        /\ \A d \in Clients : d # c => Lists(d)' = Lists(d)
    BY <1>1, <1>2 DEF Lists
  <1>4. [d \in Clients |-> [lines |-> shown'[d], users |-> Lists(d)']]
          = [[d \in Clients |-> [lines |-> shown[d], users |-> Lists(d)]]
               EXCEPT ![c] = [lines |-> messages, users |-> {users[i] : i \in DOMAIN users}]]
    BY <1>1, <1>3, ViewPoint
  <1> QED BY <1>1, <1>4 DEF Service!Observe, Lists, Slot

\* The rest of the copy is already in the view.
LEMMA CopyEnds ==
  ASSUME TypeOK, NEW c \in Clients, NEW r \in Roles, CopyUsers(c, r)
  PROVE  UNCHANGED Service!vars
  <1>1. /\ UNCHANGED <<messages, users, commands, command_head, command_count, shown>>
        /\ shownUsers'[c] = users
        /\ \A d \in Clients : d # c => shownUsers'[d] = shownUsers[d]
    BY DEF CopyUsers, TypeOK, ringVars
  <1>2. Copying(c) /\ \A d \in Clients : d # c => Copying(d)' = Copying(d)
    <2>1. /\ pc[<<c, r>>] = "copyUsers"
          /\ \A d \in Clients, q \in Roles :
               d # c => pc'[<<d, q>>] = pc[<<d, q>>]
      <3>1. Goto(c, r, "copyUsers", AfterRefresh(r))
        BY DEF CopyUsers
      <3> QED BY <3>1, GotoPc
    <2> QED BY <2>1 DEF Copying
  <1>3. \A d \in Clients : Lists(d)' = Lists(d)
    <2>1. Lists(c)' = {users[i] : i \in DOMAIN users}
      BY <1>1 DEF Lists
    <2>2. Lists(c) = {users[i] : i \in DOMAIN users}
      BY <1>2 DEF Lists
    <2>3. \A d \in Clients : d # c => Lists(d)' = Lists(d)
      BY <1>1, <1>2 DEF Lists
    <2> QED BY <2>1, <2>2, <2>3
  <1> QED BY <1>1, <1>3 DEF Service!vars, Lists, Slot

\* A line of the client's own.
LEMMA PushNotes ==
  ASSUME TypeOK, \A d \in Clients : Len(shown[d]) <= MaxMessages,
         NEW c \in Clients, PushMessage(c)
  PROVE  Service!Note(c)
  <1>1. /\ UNCHANGED <<messages, users, commands, command_head, command_count, shownUsers>>
        /\ shown'[c] = AddMessage(shown[c], Line("note", c, None))
        /\ \A d \in Clients : d # c => shown'[d] = shown[d]
    BY DEF PushMessage, TypeOK, shared, roomVars
  <1>2. \A d \in Clients : Copying(d)' = Copying(d)
    <2>1. (IF request[c].command = "JOIN" THEN "destroy" ELSE "loop") # "copyUsers"
      OBVIOUS
    <2> QED BY <2>1, CopyingSame DEF PushMessage, Roles
  <1>3. \A d \in Clients : Lists(d)' = Lists(d)
    BY <1>1, <1>2 DEF Lists
  <1>4. shown'[c] = Service!Record(shown[c], Service!Line("note", c, None))
    <2>1. Line("note", c, None) \in Lines /\ Service!Line("note", c, None) = Line("note", c, None)
      BY DEF Line, Lines, Service!Line
    <2>2. shown[c] \in Seq(Lines) /\ Len(shown[c]) <= MaxMessages
      BY DEF TypeOK
    <2> QED BY <1>1, <2>1, <2>2, AddIsRecord
  <1>5. [d \in Clients |-> [lines |-> shown'[d], users |-> Lists(d)']]
          = [[d \in Clients |-> [lines |-> shown[d], users |-> Lists(d)]] EXCEPT ![c].lines =
               Service!Record(@, Service!Line("note", c, None))]
    <2> DEFINE v == [d \in Clients |-> [lines |-> shown[d], users |-> Lists(d)]]
               n == Service!Record(shown[c], Service!Line("note", c, None))
    <2>1. [d \in Clients |-> [lines |-> shown'[d], users |-> Lists(d)']]
            = [v EXCEPT ![c] = [lines |-> n, users |-> Lists(c)]]
      BY <1>1, <1>3, <1>4, ViewPoint
    <2>2. v[c].lines = shown[c]
      OBVIOUS
    <2>3. [v EXCEPT ![c].lines = n] = [v EXCEPT ![c] = [lines |-> n, users |-> Lists(c)]]
      <3>1. v[c] = [lines |-> shown[c], users |-> Lists(c)]
        OBVIOUS
      <3> HIDE DEF n
      <3>2. [v[c] EXCEPT !.lines = n] = [lines |-> n, users |-> Lists(c)]
        BY <3>1
      <3> HIDE DEF v
      <3> QED BY <3>2
    <2> QED BY <2>1, <2>2, <2>3
  <1> QED BY <1>1, <1>5 DEF Service!Note, Lists, Slot

\* Before sem_init the room is empty already.
LEMMA SemInitUnseen ==
  ASSUME LockInv, SemInit
  PROVE  UNCHANGED Service!vars
  <1>1. mem # "ready"
    BY DEF LockInv, StartInv, SemInit
  <1>2. RoomZero
    BY <1>1 DEF LockInv, StartInv
  <1>3. Unseen
    BY <1>2 DEF Unseen, RoomZero, SemInit, Copying, clientVars, private, copyVars, ringVars
  <1> QED BY <1>3, UnseenStutters
\* The server's step moves the head of the ring by one: the queue loses its first.
LEMMA ProcessPops ==
  ASSUME TypeOK, RingConsistent, ServerProcess
  PROVE  /\ Waiting # <<>>
         /\ Waiting' = Tail(Waiting)
         /\ Head(Waiting) = commands[command_head]
         /\ commands[command_head] \in SentRequests
  <1> USE ConstantsAssumption
  <1>1. /\ command_head' = NextSlot(command_head)
        /\ command_count' = command_count - 1 /\ command_count > 0
        /\ commands' = commands
    BY DEF ServerProcess
  <1>2. command_head \in 0 .. MaxCommands - 1 /\ command_count \in 1 .. MaxCommands
    BY <1>1 DEF TypeOK
  <1>3. /\ Waiting \in Seq(SentRequests) /\ Len(Waiting) = command_count
        /\ \A k \in 1 .. command_count : Waiting[k] = commands[Slot(k - 1)]
    <2>1. \A k \in 1 .. command_count : k - 1 \in 0 .. command_count - 1
      BY <1>2
    <2> QED BY <1>2, <2>1 DEF Waiting, RingConsistent
  <1>4. ASSUME NEW k \in 1 .. command_count - 1
        PROVE  (command_head' + (k - 1)) % MaxCommands = Slot((k + 1) - 1)
    <2>1. /\ command_head' \in 0 .. MaxCommands - 1
          /\ command_head' = IF command_head + 1 = MaxCommands THEN 0 ELSE command_head + 1
      BY <1>1, <1>2, NextSlotRange
    <2>2. k - 1 \in 0 .. MaxCommands /\ (k + 1) - 1 \in 0 .. MaxCommands
      BY <1>2
    <2>3. (command_head' + (k - 1)) % MaxCommands =
            IF command_head' + (k - 1) < MaxCommands
            THEN command_head' + (k - 1) ELSE command_head' + (k - 1) - MaxCommands
      BY <2>1, <2>2, SlotStep
    <2>4. Slot((k + 1) - 1) = IF command_head + ((k + 1) - 1) < MaxCommands
                              THEN command_head + ((k + 1) - 1)
                              ELSE command_head + ((k + 1) - 1) - MaxCommands
      BY <1>2, <2>2, SlotStep DEF Slot
    <2> QED BY <1>2, <2>1, <2>2, <2>3, <2>4
  <1>5. Waiting # <<>> /\ Head(Waiting) = commands[command_head]
    <2>1. Slot(1 - 1) = command_head
      <3>1. 0 \in 0 .. MaxCommands /\ command_head + 0 = command_head
            /\ command_head < MaxCommands
        BY <1>2
      <3>2. (command_head + 0) % MaxCommands = command_head
        BY <1>2, <3>1, SlotStep
      <3> QED BY <3>2 DEF Slot
    <2>2. Waiting[1] = commands[command_head]
      BY <1>2, <1>3, <2>1
    <2> QED BY <1>2, <1>3, <2>2
  <1>6. commands[command_head] \in SentRequests
    BY <1>3, <1>5
  <1>7. Waiting' = Tail(Waiting)
    <2>1. /\ Tail(Waiting) \in Seq(SentRequests) /\ Len(Tail(Waiting)) = command_count - 1
          /\ \A k \in 1 .. command_count - 1 : Tail(Waiting)[k] = Waiting[k + 1]
      BY <1>2, <1>3, <1>5
    <2>2. Waiting' = [k \in 1 .. command_count - 1 |->
                        commands[(command_head' + (k - 1)) % MaxCommands]]
      BY <1>1 DEF Waiting, Slot
    <2>3. \A k \in 1 .. command_count - 1 :
            commands[(command_head' + (k - 1)) % MaxCommands] = Tail(Waiting)[k]
      <3> SUFFICES ASSUME NEW k \in 1 .. command_count - 1
                   PROVE  commands[(command_head' + (k - 1)) % MaxCommands] = Tail(Waiting)[k]
        OBVIOUS
      <3>1. k + 1 \in 1 .. command_count
        BY <1>2
      <3> QED BY <1>3, <1>4, <2>1, <3>1
    <2>4. Tail(Waiting) = [k \in 1 .. command_count - 1 |-> Tail(Waiting)[k]]
      <3>1. Tail(Waiting) \in [1 .. command_count - 1 -> SentRequests]
        BY <2>1, LenProperties
      <3> QED BY <3>1
    <2> QED BY <2>2, <2>3, <2>4
  <1> QED BY <1>5, <1>6, <1>7

\* A command put in the free slot at the tail is the last of the queue.
LEMMA EnqueueAppends ==
  ASSUME TypeOK, LifeInv, RingConsistent, NEW c \in Clients, SendEnqueue(c)
  PROVE  /\ Len(Waiting) < MaxCommands
         /\ Waiting' = Append(Waiting, request[c])
         /\ request[c] \in SentRequests
  <1> USE ConstantsAssumption
  <1>1. /\ command_count' = command_count + 1 /\ command_count < MaxCommands
        /\ commands' = [commands EXCEPT ![command_tail] = request[c]]
        /\ command_head' = command_head
        /\ pc[<<c, "main">>] = "sendHold"
    BY DEF SendEnqueue, Goto
  <1>2. request[c] \in SentRequests
    BY <1>1 DEF LifeInv
  <1>3. /\ command_head \in 0 .. MaxCommands - 1
        /\ command_tail \in 0 .. MaxCommands - 1
        /\ command_count \in 0 .. MaxCommands - 1
    BY <1>1 DEF TypeOK
  <1>4. /\ Waiting \in Seq(SentRequests) /\ Len(Waiting) = command_count
        /\ \A k \in 1 .. command_count : Waiting[k] = commands[Slot(k - 1)]
    <2>1. \A k \in 1 .. command_count : k - 1 \in 0 .. command_count - 1
      BY <1>3
    <2> QED BY <1>3, <2>1 DEF Waiting, RingConsistent
  <1>5. \A k \in 0 .. MaxCommands :
          Slot(k) = IF command_head + k < MaxCommands
                    THEN command_head + k ELSE command_head + k - MaxCommands
    BY <1>3, SlotStep DEF Slot
  <1>6. ASSUME NEW k \in 1 .. command_count + 1
        PROVE  commands'[Slot(k - 1)] = Append(Waiting, request[c])[k]
    <2>1. k - 1 \in 0 .. MaxCommands /\ command_count \in 0 .. MaxCommands
      BY <1>3
    <2>2. CASE k = command_count + 1
      <3>1. Slot(k - 1) = command_tail
        BY <1>3, <2>2 DEF RingConsistent
      <3>2. commands'[command_tail] = request[c]
        BY <1>1, <1>3 DEF TypeOK
      <3>3. Append(Waiting, request[c])[command_count + 1] = request[c]
        BY <1>2, <1>3, <1>4
      <3> QED BY <2>2, <3>1, <3>2, <3>3
    <2>3. CASE k # command_count + 1
      <3>1. k \in 1 .. command_count
        BY <1>3, <2>3
      <3>2. Slot(k - 1) # command_tail /\ Slot(k - 1) \in 0 .. MaxCommands - 1
        BY <1>3, <1>5, <2>1, <3>1 DEF RingConsistent
      <3>3. commands'[Slot(k - 1)] = commands[Slot(k - 1)]
        BY <1>1, <3>2 DEF TypeOK
      <3> QED BY <1>2, <1>4, <3>1, <3>3
    <2> QED BY <2>2, <2>3
  <1>7. Waiting' = Append(Waiting, request[c])
    <2>1. /\ Append(Waiting, request[c]) \in Seq(SentRequests)
          /\ Len(Append(Waiting, request[c])) = command_count + 1
      BY <1>2, <1>3, <1>4
    <2>2. Waiting' = [k \in 1 .. command_count + 1 |-> commands'[Slot(k - 1)]]
      BY <1>1 DEF Waiting, Slot
    <2>3. Append(Waiting, request[c])
            = [k \in 1 .. command_count + 1 |-> Append(Waiting, request[c])[k]]
      <3>1. Append(Waiting, request[c]) \in [1 .. command_count + 1 -> SentRequests]
        BY <2>1, LenProperties
      <3> QED BY <3>1
    <2> QED BY <1>6, <2>2, <2>3
  <1> QED BY <1>1, <1>2, <1>4, <1>7
\* A command accepted by the ring is submitted to the service.
LEMMA EnqueueSubmits ==
  ASSUME TypeOK, LifeInv, RingConsistent, NEW c \in Clients, SendEnqueue(c),
         SendInv
  PROVE  \E command \in Commands, t \in Texts \union {None} : Service!Submit(c, command, t)
  <1>1. /\ UNCHANGED <<messages, users, shown, shownUsers>>
        /\ \A d \in Clients : Copying(d)' = Copying(d)
    <2>1. AfterSend(c, TRUE) # "copyUsers"
      BY DEF AfterSend
    <2> QED BY <2>1, CopyingSame DEF SendEnqueue, private, copyVars, Roles
  <1>2. \A d \in Clients : Lists(d)' = Lists(d)
    BY <1>1 DEF Lists
  <1>3. PICK command \in Commands, t \in Texts \union {None} :
          request[c] = [command |-> command, pid |-> c, text |-> t]
    <2>1. request[c] \in SentRequests
      BY EnqueueAppends
    <2>2. request[c].pid = c
      BY <2>1 DEF SendInv, SentRequests, NoRequest, Request, Commands
    <2> QED BY <2>1, <2>2 DEF SentRequests
  <1>4. /\ Len(Waiting) < MaxCommands
        /\ Waiting' = Append(Waiting, [command |-> command, pid |-> c, text |-> t])
    BY <1>3, EnqueueAppends
  <1>5. Service!Submit(c, command, t)
    BY <1>1, <1>2, <1>4 DEF Service!Submit, Lists, Waiting
  <1> QED BY <1>5

\* The server's step applies the oldest command, whole.
LEMMA ProcessApplies ==
  ASSUME LockInv, RingConsistent, UsersDistinct, SendInv, ServerProcess
  PROVE  Service!Apply
  <1> USE ConstantsAssumption
  <1> DEFINE r == commands[command_head]
             M == {users[i] : i \in DOMAIN users}
  <1>0. TypeOK /\ MutualExclusion
    BY DEF LockInv
  <1>1. /\ Waiting # <<>> /\ Waiting' = Tail(Waiting) /\ Head(Waiting) = r
        /\ r \in SentRequests
    BY <1>0, ProcessPops
  <1>2. r.command \in Commands /\ r.pid \in Clients /\ r.text \in Texts \union {None}
    BY <1>1 DEF SentRequests
  <1>3. r.command = "TEXT" => r.text # None
    BY <1>0 DEF SendInv, TypeOK
  <1>4. \A d \in Clients : ~Copying(d) /\ ~Copying(d)'
    <2>1. srvPc = "locked" /\ pc' = pc
      BY DEF ServerProcess, clientVars
    <2>2. \A d \in Clients, q \in Roles : roomLock # <<d, q>>
      BY <1>0, <2>1, ThreadsDiffer DEF MutualExclusion
    <2> QED BY <1>0, <2>1, <2>2 DEF MutualExclusion, Copying, InRoom
  <1>5. UNCHANGED <<shown, shownUsers>> /\ \A d \in Clients : Lists(d)' = Lists(d)
    BY <1>4 DEF ServerProcess, Lists, clientVars, private, copyVars
  <1>6. messages \in Seq(Lines) /\ Len(messages) <= MaxMessages /\ users \in Seq(Clients)
    BY <1>0 DEF TypeOK
  <1>7. \A kind \in {"joined", "text", "left"}, t \in Texts \union {None} :
          Service!Record(messages, Service!Line(kind, r.pid, t))
            = AddMessage(messages, Line(kind, r.pid, t))
    <2> SUFFICES ASSUME NEW kind \in {"joined", "text", "left"}, NEW t \in Texts \union {None}
                 PROVE  Service!Record(messages, Service!Line(kind, r.pid, t))
                          = AddMessage(messages, Line(kind, r.pid, t))
      OBVIOUS
    <2>1. Line(kind, r.pid, t) \in Lines
      BY <1>2 DEF Line, Lines
    <2>2. Service!Line(kind, r.pid, t) = Line(kind, r.pid, t)
      BY DEF Line, Service!Line
    <2> QED BY <1>6, <2>1, <2>2, AddIsRecord
  <1>8. Cardinality(M) = Len(users) /\ Len(users) \in Nat
    BY <1>0, <1>6, MembersCounted
  <1>9. \/ room_find_user(users, r.pid) = 0 /\ r.pid \notin M
        \/ /\ room_find_user(users, r.pid) \in DOMAIN users \ {0}
           /\ users[room_find_user(users, r.pid)] = r.pid
           /\ r.pid \in M
    BY <1>0, FindUser
  <1> HIDE DEF r, M
  <1>10. ASSUME M' = (IF Cardinality(M) < MaxClients THEN M \union {r.pid} ELSE M),
                messages' = Service!Record(messages, Service!Line("joined", r.pid, None)),
                r.command = "JOIN"
         PROVE  Service!Apply
    <2>1. {users'[i] : i \in DOMAIN users'} =
            IF Cardinality({users[i] : i \in DOMAIN users}) < MaxClients
            THEN {users[i] : i \in DOMAIN users} \union {r.pid}
            ELSE {users[i] : i \in DOMAIN users}
      BY <1>10, Zenon DEF M
    <2>2. UNCHANGED [d \in Clients |-> [lines |-> shown[d], users |-> Lists(d)]]
      BY <1>5
    <2>3. /\ Head(Waiting).command = "JOIN"
          /\ {users'[i] : i \in DOMAIN users'} =
               IF Cardinality({users[i] : i \in DOMAIN users}) < MaxClients
               THEN {users[i] : i \in DOMAIN users} \union {Head(Waiting).pid}
               ELSE {users[i] : i \in DOMAIN users}
          /\ messages' = Service!Record(messages,
                                        Service!Line("joined", Head(Waiting).pid, None))
      BY <1>1, <1>10, <2>1, Zenon
    <2>4. Service!Cardinality({users[i] : i \in DOMAIN users})
            = Cardinality({users[i] : i \in DOMAIN users})
      BY Zenon DEF Service!Cardinality, Cardinality
    <2> QED BY <1>1, <2>2, <2>3, <2>4, Zenon DEF Service!Apply, Waiting, Lists
  <1>11. ASSUME r.command = "TEXT", users' = users,
                messages' = Service!Record(messages, Service!Line("text", r.pid, r.text))
         PROVE  Service!Apply
    BY <1>1, <1>5, <1>11 DEF Service!Apply, Waiting, Lists
  <1>12. ASSUME r.command = "LEAVE", r.pid \in M, M' = M \ {r.pid},
                messages' = Service!Record(messages, Service!Line("left", r.pid, None))
         PROVE  Service!Apply
    <2>1. UNCHANGED [d \in Clients |-> [lines |-> shown[d], users |-> Lists(d)]]
      BY <1>5
    <2>2. /\ Head(Waiting).command = "LEAVE"
          /\ Head(Waiting).pid \in {users[i] : i \in DOMAIN users}
          /\ {users'[i] : i \in DOMAIN users'}
               = {users[i] : i \in DOMAIN users} \ {Head(Waiting).pid}
          /\ messages' = Service!Record(messages,
                                        Service!Line("left", Head(Waiting).pid, None))
      BY <1>1, <1>12, Zenon DEF M
    <2> QED BY <1>1, <2>1, <2>2, Zenon DEF Service!Apply, Waiting, Lists
  <1>13. ASSUME r.command = "LEAVE", r.pid \notin M, UNCHANGED <<messages, users>>
         PROVE  Service!Apply
    BY <1>1, <1>5, <1>13 DEF Service!Apply, Waiting, Lists, M
  <1>14. CASE ProcessJoin(r)
    <2>1. /\ r.command = "JOIN"
          /\ messages' = Service!Record(messages, Service!Line("joined", r.pid, None))
          /\ users' = IF room_find_user(users, r.pid) = 0 THEN AddUser(users, r.pid) ELSE users
      BY <1>7, <1>14 DEF ProcessJoin
    <2>2. CASE r.pid \in M
      <3>1. M' = M
        BY <1>9, <2>1, <2>2 DEF M
      <3>2. M \union {r.pid} = M
        BY <2>2
      <3> QED BY <1>10, <2>1, <3>1, <3>2
    <2>3. CASE r.pid \notin M
      <3>1. users' = AddUser(users, r.pid)
        BY <1>9, <2>1, <2>3
      <3>2. CASE Len(users) >= MaxClients
        <4>1. M' = M
          BY <3>1, <3>2 DEF AddUser, M
        <4> QED BY <1>8, <1>10, <2>1, <3>2, <4>1
      <3>3. CASE ~(Len(users) >= MaxClients)
        <4>1. users' = Append(users, r.pid)
          BY <3>1, <3>3 DEF AddUser
        <4>2. {Append(users, r.pid)[i] : i \in DOMAIN Append(users, r.pid)}
                = {users[i] : i \in DOMAIN users} \union {r.pid}
          BY <1>0, <1>2, MembersAfter
        <4>3. M' = M \union {r.pid}
          BY <4>1, <4>2 DEF M
        <4>4. Cardinality(M) < MaxClients
          BY <1>8, <3>3
        <4> QED BY <1>10, <2>1, <4>3, <4>4
      <3> QED BY <3>2, <3>3
    <2> QED BY <2>2, <2>3
  <1>15. CASE ProcessText(r)
    BY <1>2, <1>7, <1>11, <1>15 DEF ProcessText
  <1>16. CASE ProcessLeave(r)
    <2>1. /\ r.command = "LEAVE" /\ room_find_user(users, r.pid) # 0
          /\ messages' = Service!Record(messages, Service!Line("left", r.pid, None))
          /\ users' = RemoveUser(users, room_find_user(users, r.pid))
      BY <1>7, <1>16 DEF ProcessLeave
    <2>2. M' = M \ {r.pid} /\ r.pid \in M
      <3>1. PICK k \in DOMAIN users : k = room_find_user(users, r.pid) /\ users[k] = r.pid
        BY <1>9, <2>1
      <3>2. {RemoveUser(users, k)[i] : i \in DOMAIN RemoveUser(users, k)}
              = {users[i] : i \in DOMAIN users} \ {users[k]}
        BY <1>0, MembersAfter
      <3> QED BY <1>9, <2>1, <3>1, <3>2 DEF M
    <2> QED BY <1>12, <2>1, <2>2
  <1>17. CASE ProcessNothing(r)
    <2>1. r.command = "LEAVE" /\ room_find_user(users, r.pid) = 0
          /\ UNCHANGED <<messages, users>>
      BY <1>2, <1>3, <1>17 DEF ProcessNothing
    <2> QED BY <1>9, <1>13, <2>1
  <1> QED BY <1>14, <1>15, <1>16, <1>17 DEF ServerProcess, r
\* No copy grows beyond the room's history.
LEMMA ShownStep ==
  ASSUME LockInv, ShownInv, [Next]_vars
  PROVE  ShownInv'
  <1> USE ConstantsAssumption
  <1>0. TypeOK
    BY DEF LockInv
  <1>1. CASE shown' = shown
    BY <1>1 DEF ShownInv
  <1>2. ASSUME NEW c \in Clients, NEW s, Len(s) <= MaxMessages,
               shown' = [shown EXCEPT ![c] = s]
        PROVE  ShownInv'
    BY <1>0, <1>2 DEF ShownInv, TypeOK
  <1>3. CASE SemInit \/ ServerProcess \/ Unseen
    BY <1>1, <1>3 DEF SemInit, ServerProcess, Unseen, clientVars, private, copyVars
  <1>4. ASSUME NEW c \in Clients, SendEnqueue(c) PROVE ShownInv'
    BY <1>1, <1>4 DEF SendEnqueue, private, copyVars
  <1>5. ASSUME NEW c \in Clients, PushMessage(c) PROVE ShownInv'
    <2>1. Line("note", c, None) \in Lines
      BY DEF Line, Lines
    <2>2. Len(AddMessage(shown[c], Line("note", c, None))) <= MaxMessages
      BY <1>0, <2>1, AddMessageType DEF ShownInv, TypeOK
    <2>3. shown' = [shown EXCEPT ![c] = AddMessage(shown[c], Line("note", c, None))]
      BY <1>5 DEF PushMessage
    <2> QED BY <1>2, <2>2, <2>3
  <1>6. ASSUME NEW c \in Clients, Forget(c) PROVE ShownInv'
    <2>1. Len(<<>>) <= MaxMessages /\ shown' = [shown EXCEPT ![c] = <<>>]
      BY <1>6 DEF Forget
    <2> QED BY <1>2, <2>1
  <1>7. ASSUME NEW c \in Clients, NEW r \in Roles, CopyMessages(c, r) \/ CopyUsers(c, r)
        PROVE  ShownInv'
    BY <1>0, <1>1, <1>2, <1>7 DEF CopyMessages, CopyUsers, TypeOK
  <1> QED BY <1>3, <1>4, <1>5, <1>6, <1>7, SeenSteps

\* Every step of the program is a step of the service, or one it does not see.
LEMMA ServiceStep ==
  ASSUME LockInv, RingConsistent, UsersDistinct, SendInv, ShownInv, [Next]_vars
  PROVE  [Service!Next]_(Service!vars)
  <1>0. TypeOK /\ LifeInv
    BY DEF LockInv
  <1>1. CASE Unseen
    BY <1>1, UnseenStutters
  <1>2. CASE SemInit
    BY <1>2, SemInitUnseen
  <1>3. CASE ServerProcess
    BY <1>3, ProcessApplies DEF Service!Next
  <1>4. ASSUME NEW c \in Clients, SendEnqueue(c) PROVE Service!Next
    <2>1. \E command \in Commands, t \in Texts \union {None} : Service!Submit(c, command, t)
      BY <1>0, <1>4, EnqueueSubmits
    <2> QED BY <2>1 DEF Service!Next, Service!Commands, Commands
  <1>5. ASSUME NEW c \in Clients, PushMessage(c) PROVE Service!Next
    <2>1. Service!Note(c)
      BY <1>0, <1>5, PushNotes DEF ShownInv
    <2> QED BY <2>1 DEF Service!Next
  <1>6. ASSUME NEW c \in Clients, EndsHere(c), Forget(c) PROVE Service!Next
    <2>1. Service!Close(c)
      BY <1>0, <1>6, EndCloses
    <2> QED BY <2>1 DEF Service!Next
  <1>7. ASSUME NEW c \in Clients, NEW r \in Roles, CopyMessages(c, r) PROVE Service!Next
    <2>1. Service!Observe(c)
      BY <1>0, <1>7, CopyObserves
    <2> QED BY <2>1 DEF Service!Next
  <1>8. ASSUME NEW c \in Clients, NEW r \in Roles, CopyUsers(c, r)
        PROVE  UNCHANGED Service!vars
    BY <1>0, <1>8, CopyEnds
  <1> QED BY <1>1, <1>2, <1>3, <1>4, <1>5, <1>6, <1>7, <1>8, SeenSteps

\* The room with its ring, its semaphore, its versions and both threads of every client
\* implements the chat service: commands wait in one FIFO queue, take effect one at a
\* time and whole, and a client only ever shows a room there has been, for any number
\* of clients, any sizes, and whichever clients die.
THEOREM RoomIsService == Spec => ImplementsService
  <1>1. Init => Service!Init
    <2> SUFFICES ASSUME Init PROVE Service!Init
      OBVIOUS
    <2>1. [k \in 1 .. command_count |-> commands[Slot(k - 1)]] = <<>>
      BY DEF Init, RoomZero
    <2>2. \A c \in Clients : ~Copying(c)
      BY DEF Init, Copying, Threads, Roles
    <2>3. \A c \in Clients : Lists(c) = {}
      <3>1. \A c \in Clients : Lists(c) = {<<>>[i] : i \in DOMAIN <<>>}
        BY <2>2 DEF Init, Lists
      <3> QED BY <3>1
    <2>4. [c \in Clients |-> [lines |-> shown[c], users |-> Lists(c)]]
            = [c \in Clients |-> Service!EmptyView]
      BY <2>3 DEF Init, Service!EmptyView
    <2>5. messages = <<>> /\ {users[i] : i \in DOMAIN users} = {}
      BY DEF Init, RoomZero
    <2> QED BY <2>1, <2>4, <2>5 DEF Service!Init, Lists
  <1>2. Init => SendInv /\ ShownInv
    BY ConstantsAssumption DEF Init, RoomZero, SendInv, ShownInv, NoRequest, Request
  <1>3. LockInv /\ SendInv /\ ShownInv /\ [Next]_vars => SendInv' /\ ShownInv'
    BY SendStep, ShownStep DEF LockInv
  <1>4. LockInv /\ RingConsistent /\ UsersDistinct /\ SendInv /\ ShownInv /\ [Next]_vars
          => [Service!Next]_(Service!vars)
    BY ServiceStep
  <1> QED
    BY <1>1, <1>2, <1>3, <1>4, LocksAlways, RingAlwaysConsistent, UsersAlwaysDistinct, PTL
    DEF Spec, ImplementsService, Service!Spec
=============================================================================
