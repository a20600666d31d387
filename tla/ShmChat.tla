------------------------------ MODULE ShmChat ------------------------------
(***************************************************************************)
(* The chat of labs/lab-14: one server and several clients that share a    *)
(* ChatRoom in POSIX shared memory.                                        *)
(*                                                                         *)
(* room.lock (a process-shared semaphore used as a mutex) guards the room; *)
(* each client also has a state_lock that guards its local copy, shared by *)
(* its main thread (keyboard and drawing) and its receiver thread.  The    *)
(* room lock is always taken first.  A process may die while it holds the  *)
(* semaphore, which nobody releases for it.                                *)
(*                                                                         *)
(* Data kept: who sent what.  A user's name is a function of its pid and   *)
(* is not modelled apart from it; drawing and the typing of single         *)
(* characters are left out.                                                *)
(***************************************************************************)
EXTENDS Naturals, Sequences, FiniteSets

CONSTANTS
  Clients,         \* client processes, named by their pid
  Texts,           \* what a user may type and send
  None,            \* free lock, zero pid, empty text
  Server,          \* the server as a holder of room.lock
  MaxClients,      \* CHAT_MAX_CLIENTS
  MaxMessages,     \* CHAT_MAX_MESSAGES
  MaxCommands,     \* CHAT_MAX_COMMANDS
  VersionModulus,  \* 2^32: room.version is an unsigned int
  Writers,         \* clients whose user sends texts
  MaxTexts,        \* bound: texts one user sends
  MaxSignals,      \* bound: SIGINTs the server receives
  Killable,        \* clients that may die at any point (Ctrl+C, SIGKILL)
  Interruptible    \* clients whose sem_wait may return -1

Roles == {"main", "recv"}
Threads == Clients \X Roles

ASSUME ConstantsAssumption ==
  /\ None \notin Clients \union Texts \union Threads \union Roles
  /\ Server \notin Threads \union {None}
  /\ MaxClients \in Nat \ {0}
  /\ MaxMessages \in Nat \ {0}
  /\ MaxCommands \in Nat \ {0}
  /\ VersionModulus \in Nat \ {0}
  /\ Writers \subseteq Clients
  /\ MaxTexts \in Nat
  /\ MaxSignals \in Nat
  /\ Killable \subseteq Clients
  /\ Interruptible \subseteq Clients

VARIABLES
  \* the shared memory object
  mem,             \* "absent", "empty" (size 0), "zeroed", "ready" (sem_init done)
  linked,          \* its name exists, so shm_open finds it
  roomLock,        \* holder of room.lock, or None
  orphans,         \* threads that slept in sem_wait while sem_init ran
  version,         \* room.version
  messages,        \* room.messages[0 .. message_count-1]
  users,           \* pids of room.users[0 .. user_count-1]
  commands,        \* room.commands, the slots of the ring
  command_head, command_tail, command_count,
  \* the server process
  srvPc,           \* where the server is
  g_running,
  signals,         \* SIGINTs received; only the first meets the handler
  \* the client processes
  pc,              \* per thread: where it is
  request,         \* per client: the command being sent
  receiver_started, running,
  stateLock,       \* per client: role that holds state_lock, or None
  seen,            \* per client: state.version
  shown,           \* per client: state.messages
  shownUsers,      \* per client: state.users
  sent,            \* per client: texts typed so far (bounds the model)
  missed           \* history: changes of the room since the client's last copy

roomVars == <<version, messages, users, commands, command_head, command_tail,
              command_count, missed>>
ringVars == <<commands, command_head, command_tail, command_count>>
shmVars == <<mem, linked, orphans>>
srvVars == <<srvPc, g_running, signals>>
copyVars == <<seen, shown, shownUsers>>
lifeVars == <<request, receiver_started, running, sent>>
private == <<lifeVars, stateLock, copyVars>>
clientVars == <<pc, private>>
shared == <<shmVars, roomLock, roomVars>>
vars == <<shared, srvVars, clientVars>>

-----------------------------------------------------------------------------
(* Requests, lines and the helpers of the room.                            *)

Commands == {"JOIN", "TEXT", "LEAVE"}
Request(command, p, t) == [command |-> command, pid |-> p, text |-> t]
NoRequest == Request("none", None, None)
SentRequests == [command : Commands, pid : Clients, text : Texts \union {None}]
Requests == SentRequests \union {NoRequest}

Lines == [kind : {"joined", "text", "left", "note"}, pid : Clients,
          text : Texts \union {None}]
Line(kind, p, t) == [kind |-> kind, pid |-> p, text |-> t]

\* room_find_user: the first index that holds the pid, 0 when there is none.
room_find_user(us, p) ==
  IF \E i \in DOMAIN us : us[i] = p
  THEN CHOOSE i \in DOMAIN us :
         us[i] = p /\ \A j \in DOMAIN us : us[j] = p => i <= j
  ELSE 0

\* Defect: the memmove of a full history is missing.
AddMessageOverwrites(ms, line) ==
  IF Len(ms) < MaxMessages THEN Append(ms, line) ELSE [ms EXCEPT ![MaxMessages] = line]

\* room_add_message_locked, client_push_message: a full history drops its oldest line.
AddMessage(ms, line) ==
  IF Len(ms) < MaxMessages THEN Append(ms, line) ELSE Append(Tail(ms), line)

\* room_add_user_locked: a full table silently refuses.
AddUser(us, p) == IF Len(us) >= MaxClients THEN us ELSE Append(us, p)

\* Defect: the users move down but user_count stays.
RemoveUserNoShrink(us, i) ==
  IF i \notin DOMAIN us
  THEN us ELSE [j \in DOMAIN us |-> IF j < i \/ j = Len(us) THEN us[j] ELSE us[j + 1]]

\* room_remove_user_locked: the users behind the index move down by one.
RemoveUser(us, i) ==
  IF i \notin DOMAIN us
  THEN us ELSE SubSeq(us, 1, i - 1) \o SubSeq(us, i + 1, Len(us))

\* The ring position after i.
NextSlot(i) == (i + 1) % MaxCommands

\* The room as memset leaves it.
RoomZero ==
  /\ version = 0
  /\ messages = <<>>
  /\ users = <<>>
  /\ commands = [i \in 0 .. MaxCommands - 1 |-> NoRequest]
  /\ command_head = 0
  /\ command_tail = 0
  /\ command_count = 0

Init ==
  /\ mem = "absent"
  /\ linked = FALSE
  /\ roomLock = None
  /\ orphans = {}
  /\ RoomZero
  /\ srvPc = "start"
  /\ g_running = TRUE
  /\ signals = 0
  /\ pc = [t \in Threads |-> IF t[2] = "main" THEN "init" ELSE "none"]
  /\ request = [c \in Clients |-> NoRequest]
  /\ receiver_started = [c \in Clients |-> FALSE]
  /\ running = [c \in Clients |-> TRUE]
  /\ stateLock = [c \in Clients |-> None]
  /\ seen = [c \in Clients |-> 0]
  /\ shown = [c \in Clients |-> <<>>]
  /\ shownUsers = [c \in Clients |-> <<>>]
  /\ sent = [c \in Clients |-> 0]
  /\ missed = [c \in Clients |-> 0]

-----------------------------------------------------------------------------
(* The semaphore.                                                          *)

\* Defect: the room is entered without waiting.
LockRoomUnchecked(t) == mem = "ready" /\ roomLock' = t

\* sem_wait on room.lock succeeds; before sem_init its value is 0.
LockRoom(t) == mem = "ready" /\ roomLock = None /\ roomLock' = t

\* sem_post on room.lock.
UnlockRoom == roomLock' = None

-----------------------------------------------------------------------------
(* The server.                                                             *)

\* main and room_create: a stale name is removed, a new object of size 0 is made.
ShmOpen ==
  /\ srvPc = "start"
  /\ srvPc' = "opened"
  /\ mem' = "empty"
  /\ linked' = TRUE
  /\ UNCHANGED <<orphans, roomLock, roomVars, g_running, signals, clientVars>>

\* room_create: ftruncate gives the object its size, filled with zeros, and mmap.
Ftruncate ==
  /\ srvPc = "opened"
  /\ srvPc' = "sized"
  /\ mem' = "zeroed"
  /\ UNCHANGED <<linked, orphans, roomLock, roomVars, g_running, signals, clientVars>>

\* room_create: memset and sem_init.  A thread already asleep in sem_wait is not
\* counted by the new semaphore: no sem_post need ever wake it.
SemInit ==
  /\ srvPc = "sized"
  /\ srvPc' = "check"
  /\ mem' = "ready"
  /\ roomLock' = None
  /\ version' = 0
  /\ messages' = <<>>
  /\ users' = <<>>
  /\ commands' = [i \in 0 .. MaxCommands - 1 |-> NoRequest]
  /\ command_head' = 0 /\ command_tail' = 0 /\ command_count' = 0
  /\ orphans' \in SUBSET {c \in Clients : pc[<<c, "main">>] = "sendWait"}
  /\ UNCHANGED <<linked, missed, g_running, signals, clientVars>>

\* main: room_create failed, room_destroy and exit.
CreateFails ==
  /\ srvPc \in {"start", "opened", "sized"}
  /\ srvPc' = "done"
  /\ linked' = FALSE
  /\ UNCHANGED <<mem, orphans, roomLock, roomVars, g_running, signals, clientVars>>

\* Defect: while (1) instead of while (g_running).
ServerTurnForever ==
  /\ srvPc = "check"
  /\ srvPc' = "wait"
  /\ UNCHANGED <<shared, g_running, signals, clientVars>>

\* main: another turn of the loop.
ServerTurn ==
  /\ srvPc = "check"
  /\ g_running
  /\ srvPc' = "wait"
  /\ UNCHANGED <<shared, g_running, signals, clientVars>>

\* main: the loop ends; room_destroy unlinks the name, attached clients keep the memory.
ServerExit ==
  /\ srvPc = "check"
  /\ ~g_running
  /\ srvPc' = "done"
  /\ linked' = FALSE
  /\ UNCHANGED <<mem, orphans, roomLock, roomVars, g_running, signals, clientVars>>

\* main: sem_wait before a command is popped.
ServerLock ==
  /\ srvPc = "wait"
  /\ LockRoom(Server)
  /\ srvPc' = "locked"
  /\ UNCHANGED <<shmVars, roomVars, g_running, signals, clientVars>>

\* Live clients: the others hold no copy of the room any more.
Gone(c) == pc[<<c, "main">>] \in {"exited", "dead"}

\* ++room->version, on an unsigned int.
BumpVersion ==
  /\ version' = (version + 1) % VersionModulus
  /\ missed' = [c \in Clients |-> IF Gone(c) THEN missed[c] ELSE missed[c] + 1]

\* room_process_join_locked: announced even when the user table is full.
ProcessJoin(r) ==
  /\ r.command = "JOIN"
  /\ users' = IF room_find_user(users, r.pid) = 0 THEN AddUser(users, r.pid) ELSE users
  /\ messages' = AddMessage(messages, Line("joined", r.pid, None))
  /\ BumpVersion

\* room_process_text_locked: no membership is asked for.
ProcessText(r) ==
  /\ r.command = "TEXT"
  /\ r.text # None
  /\ messages' = AddMessage(messages, Line("text", r.pid, r.text))
  /\ BumpVersion
  /\ UNCHANGED users

\* Defect: LEAVE forgets ++room->version.
ProcessLeaveNoBump(r) ==
  /\ r.command = "LEAVE"
  /\ room_find_user(users, r.pid) # 0
  /\ users' = RemoveUser(users, room_find_user(users, r.pid))
  /\ messages' = AddMessage(messages, Line("left", r.pid, None))
  /\ UNCHANGED <<version, missed>>

\* room_process_leave_locked for a listed user.
ProcessLeave(r) ==
  /\ r.command = "LEAVE"
  /\ room_find_user(users, r.pid) # 0
  /\ users' = RemoveUser(users, room_find_user(users, r.pid))
  /\ messages' = AddMessage(messages, Line("left", r.pid, None))
  /\ BumpVersion

\* The early returns: LEAVE of a user not listed, an empty text, an unknown command.
ProcessNothing(r) ==
  /\ \/ r.command = "LEAVE" /\ room_find_user(users, r.pid) = 0
     \/ r.command = "TEXT" /\ r.text = None
     \/ r.command \notin Commands
  /\ UNCHANGED <<version, missed, messages, users>>

\* main, holding the lock: pop the oldest command, process it, sem_post.
ServerProcess ==
  /\ srvPc = "locked"
  /\ command_count > 0
  /\ LET r == commands[command_head]
     IN  ProcessJoin(r) \/ ProcessText(r) \/ ProcessLeave(r) \/ ProcessNothing(r)
  /\ command_head' = NextSlot(command_head)
  /\ command_count' = command_count - 1
  /\ srvPc' = "check"
  /\ UnlockRoom
  /\ UNCHANGED <<shmVars, commands, command_tail, g_running, signals, clientVars>>

\* main, holding the lock: nothing to pop, sem_post and sleep.
ServerIdle ==
  /\ srvPc = "locked"
  /\ command_count = 0
  /\ srvPc' = "check"
  /\ UnlockRoom
  /\ UNCHANGED <<shmVars, roomVars, g_running, signals, clientVars>>

\* handle_signal: a sem_wait that already sleeps returns EINTR, and the loop's test is
\* next; one that has not begun yet is not disturbed.
HandleSignal ==
  /\ srvPc \notin {"done", "killed"}
  /\ signals = 0 /\ signals < MaxSignals
  /\ signals' = 1
  /\ g_running' = FALSE
  /\ \/ UNCHANGED srvPc
     \/ srvPc = "wait" /\ roomLock # None /\ srvPc' = "check"
  /\ UNCHANGED <<shared, clientVars>>

\* signal() under -std=c11 resets the disposition: a second SIGINT kills the server.
SignalAgain ==
  /\ srvPc \notin {"done", "killed"}
  /\ signals = 1 /\ signals < MaxSignals
  /\ signals' = 2
  /\ srvPc' = "killed"
  /\ UNCHANGED <<shared, g_running, clientVars>>

-----------------------------------------------------------------------------
(* A client: its main thread.                                              *)

Goto(c, r, from, to) ==
  /\ pc[<<c, r>>] = from
  /\ pc' = [pc EXCEPT ![<<c, r>>] = to]

\* client_state_destroy or the death of the process: its copy of the room is gone.
Forget(c) ==
  /\ request' = [request EXCEPT ![c] = NoRequest]
  /\ receiver_started' = [receiver_started EXCEPT ![c] = FALSE]
  /\ running' = [running EXCEPT ![c] = FALSE]
  /\ stateLock' = [stateLock EXCEPT ![c] = None]
  /\ seen' = [seen EXCEPT ![c] = 0]
  /\ shown' = [shown EXCEPT ![c] = <<>>]
  /\ shownUsers' = [shownUsers EXCEPT ![c] = <<>>]
  /\ missed' = [missed EXCEPT ![c] = 0]
  /\ UNCHANGED <<version, messages, users, ringVars, sent>>

\* main: the interface, the prompt, shm_open or mmap fails; exit without joining.
ConnectFails(c) ==
  /\ Goto(c, "main", "init", "exited")
  /\ Forget(c)
  /\ UNCHANGED <<shmVars, roomLock, srvVars>>

\* client_connect succeeds whenever the name exists; then JOIN is sent.
Connect(c) ==
  /\ linked
  /\ Goto(c, "main", "init", "sendWait")
  /\ request' = [request EXCEPT ![c] = Request("JOIN", c, None)]
  /\ UNCHANGED <<shared, srvVars, receiver_started, running, sent, stateLock, copyVars>>

\* sem_wait touches an object that ftruncate has not given a size yet: SIGBUS.
BusError(c) ==
  /\ mem = "empty"
  /\ Goto(c, "main", "sendWait", "dead")
  /\ Forget(c)
  /\ UNCHANGED <<shmVars, roomLock, srvVars>>

\* client_send_command: sem_wait.
SendLock(c) ==
  /\ Goto(c, "main", "sendWait", "sendHold")
  /\ LockRoom(<<c, "main">>)
  /\ orphans' = orphans \ {c}
  /\ UNCHANGED <<mem, linked, roomVars, srvVars, private>>

\* Where main goes when client_send_command has returned.
AfterSend(c, ok) ==
  CASE request[c].command = "LEAVE" -> "stop"
    [] request[c].command = "JOIN" /\ ok -> "start"
    [] request[c].command = "TEXT" /\ ok -> "loop"
    [] OTHER -> "push"

\* client_send_command: the ring has a free slot.
SendEnqueue(c) ==
  /\ Goto(c, "main", "sendHold", AfterSend(c, TRUE))
  /\ command_count < MaxCommands
  /\ commands' = [commands EXCEPT ![command_tail] = request[c]]
  /\ command_tail' = NextSlot(command_tail)
  /\ command_count' = command_count + 1
  /\ UnlockRoom
  /\ UNCHANGED <<shmVars, version, messages, users, command_head, missed, srvVars, private>>

\* Defect: the tail moves although the command is dropped.
SendFullAdvances(c) ==
  /\ Goto(c, "main", "sendHold", AfterSend(c, FALSE))
  /\ command_count >= MaxCommands
  /\ command_tail' = NextSlot(command_tail)
  /\ UnlockRoom
  /\ UNCHANGED <<shmVars, version, messages, users, commands, command_head, command_count,
                 missed, srvVars, private>>

\* client_send_command: the ring is full, the command is dropped.
SendFull(c) ==
  /\ Goto(c, "main", "sendHold", AfterSend(c, FALSE))
  /\ command_count >= MaxCommands
  /\ UnlockRoom
  /\ UNCHANGED <<shmVars, roomVars, srvVars, private>>

\* client_send_command: sem_wait returns -1.
SendInterrupted(c) ==
  /\ c \in Interruptible
  /\ Goto(c, "main", "sendWait", AfterSend(c, FALSE))
  /\ orphans' = orphans \ {c}
  /\ UNCHANGED <<mem, linked, roomLock, roomVars, srvVars, private>>

\* client_push_message: a line of the client's own; a failed JOIN then ends main.
PushMessage(c) ==
  /\ stateLock[c] = None
  /\ Goto(c, "main", "push", IF request[c].command = "JOIN" THEN "destroy" ELSE "loop")
  /\ shown' = [shown EXCEPT ![c] = AddMessage(@, Line("note", c, None))]
  /\ UNCHANGED <<shared, srvVars, lifeVars, stateLock, seen, shownUsers>>

\* client_start_receiver: pthread_create works, and main refreshes once itself.
StartReceiver(c) ==
  /\ pc[<<c, "main">>] = "start"
  /\ pc' = [pc EXCEPT ![<<c, "main">>] = "refWait", ![<<c, "recv">>] = "check"]
  /\ receiver_started' = [receiver_started EXCEPT ![c] = TRUE]
  /\ UNCHANGED <<shared, srvVars, request, running, sent, stateLock, copyVars>>

\* main, label cleanup with joined set: LEAVE is sent and its result ignored.
BeginLeave(c) ==
  /\ request' = [request EXCEPT ![c] = Request("LEAVE", c, None)]
  /\ UNCHANGED <<shared, srvVars, receiver_started, running, sent, stateLock, copyVars>>

\* client_start_receiver: pthread_create fails.
StartFails(c) ==
  /\ Goto(c, "main", "start", "sendWait")
  /\ BeginLeave(c)

\* client_snapshot_state takes state_lock ...
SnapshotLock(c) ==
  /\ stateLock[c] = None
  /\ Goto(c, "main", "loop", "snapshot")
  /\ stateLock' = [stateLock EXCEPT ![c] = "main"]
  /\ UNCHANGED <<shared, srvVars, lifeVars, copyVars>>

\* ... copies for drawing, and gives it back.
SnapshotUnlock(c) ==
  /\ Goto(c, "main", "snapshot", "key")
  /\ stateLock' = [stateLock EXCEPT ![c] = None]
  /\ UNCHANGED <<shared, srvVars, lifeVars, copyVars>>

\* client_run_event_loop: no key for 100 ms, an edit of the input line, or Enter on
\* an empty one.
KeyOther(c) ==
  /\ Goto(c, "main", "key", "loop")
  /\ UNCHANGED <<shared, srvVars, private>>

\* client_send_text_message: Enter on a text.
KeyText(c, t) ==
  /\ c \in Writers /\ sent[c] < MaxTexts
  /\ Goto(c, "main", "key", "sendWait")
  /\ request' = [request EXCEPT ![c] = Request("TEXT", c, t)]
  /\ sent' = [sent EXCEPT ![c] = @ + 1]
  /\ UNCHANGED <<shared, srvVars, receiver_started, running, stateLock, copyVars>>

\* F10 or "/exit": the event loop ends.
KeyExit(c) ==
  /\ Goto(c, "main", "key", "sendWait")
  /\ BeginLeave(c)

\* Defect: pthread_join without running = false.
StopReceiverNoFlag(c) ==
  /\ Goto(c, "main", "stop", IF receiver_started[c] THEN "join" ELSE "destroy")
  /\ UNCHANGED <<shared, srvVars, private>>

\* client_stop_receiver asks the receiver to stop, if there is one.
StopReceiver(c) ==
  /\ Goto(c, "main", "stop", IF receiver_started[c] THEN "join" ELSE "destroy")
  /\ running' = [running EXCEPT ![c] = @ /\ ~receiver_started[c]]
  /\ UNCHANGED <<shared, srvVars, request, receiver_started, sent, stateLock, copyVars>>

\* pthread_join returns.
JoinReceiver(c) ==
  /\ pc[<<c, "recv">>] = "end"
  /\ Goto(c, "main", "join", "destroy")
  /\ receiver_started' = [receiver_started EXCEPT ![c] = FALSE]
  /\ UNCHANGED <<shared, srvVars, request, running, sent, stateLock, copyVars>>

\* client_state_destroy and return from main.
ClientExit(c) ==
  /\ Goto(c, "main", "destroy", "exited")
  /\ Forget(c)
  /\ UNCHANGED <<shmVars, roomLock, srvVars>>

\* Ctrl+C or SIGKILL: both threads vanish; a semaphore they hold stays taken.
Kill(c) ==
  /\ c \in Killable
  /\ ~Gone(c)
  /\ pc' = [pc EXCEPT ![<<c, "main">>] = "dead", ![<<c, "recv">>] = "dead"]
  /\ orphans' = orphans \ {c}
  /\ Forget(c)
  /\ UNCHANGED <<mem, linked, roomLock, srvVars>>

-----------------------------------------------------------------------------
(* A client: client_refresh_from_room, in either thread, and the receiver. *)

\* Defect: the receiver refreshes once and ends.
AfterRefreshOnce(r) == IF r = "main" THEN "loop" ELSE "end"

\* Where a thread goes when client_refresh_from_room has returned.
AfterRefresh(r) == IF r = "main" THEN "loop" ELSE "check"

\* client_refresh_from_room: sem_wait.
RefreshLock(c, r) ==
  /\ Goto(c, r, "refWait", "refHold")
  /\ LockRoom(<<c, r>>)
  /\ UNCHANGED <<shmVars, roomVars, srvVars, private>>

\* sem_wait returns -1: nothing is refreshed.
RefreshInterrupted(c, r) ==
  /\ c \in Interruptible
  /\ Goto(c, r, "refWait", AfterRefresh(r))
  /\ UNCHANGED <<shared, srvVars, private>>

\* The version is the one already copied.
RefreshSame(c, r) ==
  /\ seen[c] = version
  /\ Goto(c, r, "refHold", AfterRefresh(r))
  /\ UnlockRoom
  /\ UNCHANGED <<shmVars, roomVars, srvVars, private>>

\* The version has changed: state_lock is taken inside room.lock.
RefreshStateLock(c, r) ==
  /\ seen[c] # version
  /\ stateLock[c] = None
  /\ Goto(c, r, "refHold", "copyMessages")
  /\ stateLock' = [stateLock EXCEPT ![c] = r]
  /\ UNCHANGED <<shared, srvVars, lifeVars, copyVars>>

\* client_copy_room_state_locked, first loop.
CopyMessages(c, r) ==
  /\ Goto(c, r, "copyMessages", "copyUsers")
  /\ shown' = [shown EXCEPT ![c] = messages]
  /\ UNCHANGED <<shared, srvVars, lifeVars, stateLock, seen, shownUsers>>

\* Its second loop, the version, and both locks given back.
CopyUsers(c, r) ==
  /\ Goto(c, r, "copyUsers", AfterRefresh(r))
  /\ shownUsers' = [shownUsers EXCEPT ![c] = users]
  /\ seen' = [seen EXCEPT ![c] = version]
  /\ missed' = [missed EXCEPT ![c] = 0]
  /\ stateLock' = [stateLock EXCEPT ![c] = None]
  /\ UnlockRoom
  /\ UNCHANGED <<shmVars, version, messages, users, ringVars, srvVars, lifeVars, shown>>

\* receiver_thread: another turn, or the end.
ReceiverTurn(c) ==
  /\ Goto(c, "recv", "check", IF running[c] THEN "refWait" ELSE "end")
  /\ UNCHANGED <<shared, srvVars, private>>

-----------------------------------------------------------------------------
\* The program's own steps, by thread; the ...Locks wait for a lock.
ServerSteps ==
  \/ ShmOpen \/ Ftruncate \/ SemInit \/ ServerTurn \/ ServerExit
  \/ ServerProcess \/ ServerIdle

MainSteps(c) ==
  \/ SendEnqueue(c) \/ SendFull(c) \/ StartReceiver(c) \/ SnapshotUnlock(c)
  \/ KeyOther(c) \/ StopReceiver(c) \/ JoinReceiver(c) \/ ClientExit(c)
  \/ BusError(c)

MainLocks(c) == SendLock(c) \/ SnapshotLock(c) \/ PushMessage(c)

RefreshSteps(c, r) == RefreshSame(c, r) \/ CopyMessages(c, r) \/ CopyUsers(c, r)

RefreshLocks(c, r) == RefreshLock(c, r) \/ RefreshStateLock(c, r)

\* What the user, the system and the terminal may do.
Environment ==
  \/ CreateFails \/ HandleSignal \/ SignalAgain
  \/ \E c \in Clients :
       \/ ConnectFails(c) \/ Connect(c) \/ StartFails(c) \/ KeyExit(c) \/ Kill(c)
       \/ SendInterrupted(c)
       \/ \E r \in Roles : RefreshInterrupted(c, r)
       \/ \E t \in Texts : KeyText(c, t)

Next ==
  \/ ServerSteps
  \/ ServerLock
  \/ \E c \in Clients :
       \/ MainSteps(c) \/ MainLocks(c) \/ ReceiverTurn(c)
       \/ \E r \in Roles : RefreshSteps(c, r) \/ RefreshLocks(c, r)
  \/ Environment

Spec == Init /\ [][Next]_vars

\* Each thread keeps running, and a thread that waits for a lock which is free again
\* and again gets it in the end: every loop sleeps 100 ms outside the locks.  A thread
\* that slept through sem_init may never be woken.  Users and signals are not fair.
Fairness ==
  /\ WF_vars(ServerSteps) /\ SF_vars(ServerLock)
  /\ \A c \in Clients :
       /\ WF_vars(MainSteps(c))
       /\ SF_vars(c \notin orphans /\ MainLocks(c))
       /\ WF_vars(ReceiverTurn(c))
       /\ \A r \in Roles :
            WF_vars(RefreshSteps(c, r)) /\ SF_vars(RefreshLocks(c, r))

FairSpec == Spec /\ Fairness

-----------------------------------------------------------------------------
(* Properties.                                                             *)

ServerPcs == {"start", "opened", "sized", "check", "wait", "locked", "done", "killed"}
ThreadPcs ==
  {"init", "none", "sendWait", "sendHold", "push", "start", "loop", "snapshot", "key",
   "stop", "join", "destroy", "exited", "dead", "refWait", "refHold", "copyMessages",
   "copyUsers", "check", "end"}

\* The types of the variables; the room's counters stay inside its arrays.
TypeOK ==
  /\ mem \in {"absent", "empty", "zeroed", "ready"}
  /\ linked \in BOOLEAN
  /\ roomLock \in Threads \union {None, Server}
  /\ orphans \subseteq Clients
  /\ version \in 0 .. VersionModulus - 1
  /\ messages \in Seq(Lines) /\ Len(messages) <= MaxMessages
  /\ users \in Seq(Clients) /\ Len(users) <= MaxClients
  /\ commands \in [0 .. MaxCommands - 1 -> Requests]
  /\ command_head \in 0 .. MaxCommands - 1
  /\ command_tail \in 0 .. MaxCommands - 1
  /\ command_count \in 0 .. MaxCommands
  /\ srvPc \in ServerPcs
  /\ g_running \in BOOLEAN
  /\ signals \in Nat
  /\ pc \in [Threads -> ThreadPcs]
  /\ request \in [Clients -> Requests]
  /\ receiver_started \in [Clients -> BOOLEAN]
  /\ running \in [Clients -> BOOLEAN]
  /\ stateLock \in [Clients -> Roles \union {None}]
  /\ seen \in [Clients -> 0 .. VersionModulus - 1]
  /\ shown \in [Clients -> Seq(Lines)]
  /\ shownUsers \in [Clients -> Seq(Clients)]
  /\ sent \in [Clients -> Nat]
  /\ missed \in [Clients -> Nat]

\* Program points at which a client's thread is inside room.lock, and inside state_lock.
InRoom == {"sendHold", "refHold", "copyMessages", "copyUsers"}
InState == {"snapshot", "copyMessages", "copyUsers"}

\* room.lock and state_lock exclude: whoever is between sem_wait and sem_post (or the
\* mutex calls) is the recorded holder, so no two threads are there at once, across
\* processes, start-up and deaths.
MutualExclusion ==
  /\ srvPc = "locked" => roomLock = Server
  /\ \A c \in Clients, r \in Roles :
       /\ pc[<<c, r>>] \in InRoom => roomLock = <<c, r>>
       /\ pc[<<c, r>>] \in InState => stateLock[c] = r

\* The k-th waiting command of the ring, from 0.
Slot(k) == (command_head + k) % MaxCommands

\* command_head, command_tail and command_count agree, and every waiting slot holds a
\* command some client sent: the server never reads a slot nobody filled.
RingConsistent ==
  /\ command_tail = Slot(command_count)
  /\ \A k \in 0 .. command_count - 1 : commands[Slot(k)] \in SentRequests

\* No pid is listed twice, so LEAVE removes a user altogether.
UsersDistinct == \A i, j \in DOMAIN users : users[i] = users[j] => i = j

\* A client's copy shows the room's users and its messages, apart from notes of its own.
CopyRight(c) ==
  /\ shownUsers[c] = users
  /\ \/ shown[c] = messages
     \/ \E i \in DOMAIN shown[c] : shown[c][i].kind = "note"

\* room.version is an exact validator of a client's copy: a client that has the room's
\* version shows the room, unless the unsigned counter went all the way round since
\* it looked.
SnapshotFaithful ==
  \A c \in Clients :
    ~Gone(c) /\ seen[c] = version /\ missed[c] < VersionModulus => CopyRight(c)

\* The room, the queue and the copies without rings, versions and locks.  A copy in
\* progress already counts as made: the room cannot change under it.
Copying(c) == \E r \in Roles : pc[<<c, r>>] = "copyUsers"

Service == INSTANCE ChatService WITH
  queue <- [k \in 1 .. command_count |-> commands[Slot(k - 1)]],
  log <- messages,
  members <- {users[i] : i \in DOMAIN users},
  view <- [c \in Clients |->
             [lines |-> shown[c],
              users |-> LET us == IF Copying(c) THEN users ELSE shownUsers[c]
                        IN  {us[i] : i \in DOMAIN us}]]

\* The implementation of the room is the FIFO chat service.
ImplementsService == Service!Spec

\* A client was killed between sem_wait and sem_post: nobody can give the lock back.
LockLost == \E c \in Clients : Gone(c) /\ roomLock \in {<<c, r>> : r \in Roles}

\* A client in its event loop always comes to show the room's present version (unless
\* a second SIGINT has killed the server, perhaps inside the lock, or a client was).
ViewsCatchUp ==
  \A c \in Clients :
    []<>(\/ pc[<<c, "main">>] \notin {"loop", "snapshot", "key"}
         \/ seen[c] = version
         \/ srvPc = "killed" \/ LockLost)

\* LEAVE finds the ring full.
LeaveDropped(c) ==
  /\ pc[<<c, "main">>] = "sendHold"
  /\ request[c].command = "LEAVE"
  /\ command_count = MaxCommands

\* A user who quits gets the terminal back: LEAVE, the receiver's end and pthread_join
\* never hang (unless a second SIGINT has killed the server, or a client was killed
\* inside the lock).  And while the server runs its name does not stay in the user list:
\* main sends LEAVE on every way out that follows JOIN, and only one that finds the ring
\* full is lost for good (chat_client.c:339).
QuitCompletes ==
  \A c \in Clients :
    /\ (pc[<<c, "main">>] = "sendWait" /\ request[c].command = "LEAVE")
         ~> (Gone(c) \/ srvPc = "killed" \/ LockLost)
    /\ []~LeaveDropped(c) =>
         []<>(\/ pc[<<c, "main">>] # "exited"
              \/ ~g_running
              \/ \A i \in DOMAIN users : users[i] # c
              \/ LockLost)

\* "Press Ctrl+C to stop.": the server ends after SIGINT, unless a client was killed
\* inside the room's lock: then it sleeps in sem_wait, which begins again after the
\* handler (chat_server.c:229).
CtrlCStops == ~g_running ~> (srvPc \in {"done", "killed"} \/ LockLost)

-----------------------------------------------------------------------------
(* What the proofs need besides: the inductive strengthening.              *)

\* Until sem_init nobody has the lock, the room is empty, and a client can be no
\* further than its JOIN.
StartInv ==
  /\ srvPc \in {"start", "opened", "sized"} => mem # "ready"
  /\ mem # "ready" =>
       /\ roomLock = None
       /\ RoomZero
       /\ \A c \in Clients :
            /\ pc[<<c, "main">>] \in
                 {"init", "sendWait", "push", "destroy", "exited", "dead"}
            /\ pc[<<c, "main">>] \in {"sendWait", "push"} => request[c].command = "JOIN"

\* The receiver runs only between a JOIN that was accepted and pthread_join; a client
\* sends only commands it has filled in.
LifeInv ==
  \A c \in Clients :
    /\ ~receiver_started[c] => pc[<<c, "recv">>] \in {"none", "end", "dead"}
    /\ pc[<<c, "main">>] \in {"init", "start", "destroy", "exited", "dead"}
         => ~receiver_started[c]
    /\ pc[<<c, "main">>] \in {"sendWait", "sendHold", "push"} =>
         /\ request[c] \in SentRequests
         /\ request[c].command = "JOIN" => ~receiver_started[c]

\* A copy is as many versions behind as the room has changed since it was made, and
\* one that is not behind is right; a copy being made is behind until it is whole.
CopyInv ==
  \A c \in Clients : ~Gone(c) =>
    /\ missed[c] < VersionModulus =>
         version = IF seen[c] + missed[c] < VersionModulus
                   THEN seen[c] + missed[c] ELSE seen[c] + missed[c] - VersionModulus
    /\ missed[c] = 0 => CopyRight(c)
    /\ \A r \in Roles :
         /\ pc[<<c, r>>] \in {"copyMessages", "copyUsers"} => seen[c] # version
         /\ pc[<<c, r>>] = "copyUsers" => shown[c] = messages

\* A client sends in its own name, and no empty text: Enter on an empty line sends nothing.
SendInv ==
  /\ \A c \in Clients :
       /\ request[c] # NoRequest => request[c].pid = c
       /\ request[c].command = "TEXT" => request[c].text # None
  /\ \A i \in 0 .. MaxCommands - 1 :
       commands[i].command = "TEXT" => commands[i].text # None

\* A client's copy has no more lines than state.messages holds.
ShownInv == \A c \in Clients : Len(shown[c]) <= MaxMessages
=============================================================================
