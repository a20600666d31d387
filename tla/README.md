# TLA+ verification of eltex-course

The repository is a course of C programs for Linux: twenty labs and two final tasks. Most
labs are short sequential exercises. Eight programs are concurrent systems with state
shared between processes or threads, twenty-six small ones are the two sides of a greeting
that processes exchange, and one is a file manager over directories that others change.
Those are what this project specifies, model-checks with TLC and, in part, proves with
TLAPS.

Names in the modules are the names of the source wherever TLA+ allows it. `PROJECT.json`
gives, for every definition that models code, the file and the lines it stands for.

## 1. The system

### Modelled components

**Shared-memory chat, lab-14** (`chat_server.c`, `chat_client.c`, `chat.h`).
*State:* a `ChatRoom` in a POSIX shared memory object: a process-shared semaphore, a
version counter, the history (bounded, oldest line dropped), the user table and a ring of
commands; in each client a local copy of history and users with the version it was taken
at, behind a mutex. *Operations:* the server creates and sizes the object, initialises the
semaphore and then takes one command per turn (JOIN, TEXT, LEAVE); a client's main thread
sends commands and draws, its receiver thread and its main thread both refresh the copy.
*Hard:* a client can attach before the semaphore exists; two locks are nested; processes
die inside the lock; the ring may be full; the copy is validated by a wrapping counter.
*Correct when:* the locks exclude, ring and table stay consistent, a copy with the room's
version is the room, and accepted commands take effect and reach every view.

**Message-queue chat, lab-13** (`chat_server.c`, `chat_client.c`, `chat.h`).
*State:* one bounded queue for all commands, one bounded queue per client, the server's
table, and in every client its lines and a user list worked out from them.
*Hard:* `mq_send` blocks on a full queue in both directions; a JOIN may be handled after
its sender has gone; lines arrive at clients one after another while others join and
leave; lists know users by the text of the lines only. *Correct when:* members see the
same lines in one order, no member is missing from a list without one of the two causes
the code has, and server and clients do not block each other.

**Taxi command line, final task** (`taxi-cli/src/main.c`).
*State:* a table of forked drivers, two pipes for each, and in each driver a busy flag, the
end of the task, an alarm and two signal flags. *Hard:* signals between a test and `poll`;
drivers and the command line die between question and answer; later drivers inherit the
earlier ones' pipe ends. *Correct when:* a task lasts its time and ends, answers keep to
their questions, every question comes back, and nobody outlives the command line.

**Raw echo, final task** (`raw-echo/src/server.c`, `client.c`).
*State:* a table of ports with counters; in a client, the answer it waits for. *Hard:* raw
packets get lost; the table is compacted by moving the last entry; signals race `recv`.
*Correct when:* a client is echoed its own text with its own number, and forgotten once it
closes.

**Time server with a queue, lab-16 part-2/3** (`server.c`, `client.c`).
*State:* a ring of descriptors, a mutex, two condition variables, worker threads. *Correct
when:* no wakeup is lost, a descriptor has one owner, connections leave in their order.

**Time server with reserved workers, lab-16 part-2/2** (`server.c`, `client.c`).
*State:* per worker a port and a busy flag. The reservation travels from the listener
through the client to the worker. *Correct when:* it is exclusive all the way and given
back.

**Time server with poll, lab-16 part-2/4** (`server.c`, `client.c`).
*State:* the array given to `poll`. *Hard:* the array is repacked while it is walked, and
fills up. *Correct when:* every reported connection is handled in its turn and none leaks.

**Shop, lab-11** (`main.c`).
*State:* stalls with a stock and a mutex, customers with a need, a loader, a stop flag.
*Correct when:* goods are conserved, the program ends, and mutexes are destroyed unused.

**Greetings, lab-12 to lab-14 and lab-16 parts 1, 3 and 4** (a `server.c` and a `client.c`,
or `posix_*.c` and `sysv_*.c`, for each of fourteen ways to talk).
*State:* the objects of the kernel (FIFO, queues, memory, semaphores, sockets) apart from
the names they are found by; all but sockets outlive the processes. *Operations:* make or
take over an object, attach, send, receive, remove, each with its error branch. *Hard:*
what a killed session leaves is found by the next one; a client comes while the server is
still setting up; names are removed under somebody else's hands. *Correct when:* what is
printed is the partner's greeting, an undisturbed exchange completes whatever came before
it and leaves nothing, and a waiting server can be found.

**File manager, lab-9** (`my_mc_fs.c`, `my_mc_input.c`, `my_mc_main.c`, `my_mc_ui.c`).
*State:* two panels with the entries read, a cursor, the first row shown and a path that is
never normalised; the command line. *Hard:* directories are removed and locked by other
programs; lists and paths have limits; the window changes its size and nothing is scrolled.
*Correct when:* the cursor is in the list and in view, Backspace after Enter comes back to the
folder (unless a symbolic link was entered), and the user gets out of a directory that is
gone.

The programs do not call each other; inside each the parts interact through what is named
above: shared memory and a semaphore (lab-14), queues (lab-13), pipes and signals
(taxi-cli), packets (raw-echo, lab-16), a mutex and condition variables (lab-16 part-2/3,
lab-11).

### Components that are not modelled

Listed in `PROJECT.json` with their reasons. In short: drawing (`chat_ui.c`), programs that
run one child or one thread at a time and share nothing with it (lab-10, lab-12 `1.c` and
`3.c`, lab-15, lab-16 part-2/1), kernel modules (lab-20), and small sequential exercises
(labs 1-8), some of which are in the plan below.

## 2. Modules

| module | models | rests on |
|---|---|---|
| `ShmChat` | lab-14 room, server, clients, signals, deaths | |
| `ChatService` | the chat service lab-14 implements | |
| `MqChat` | lab-13 chat | |
| `TaxiCli` | taxi-cli | |
| `RawEcho` | raw-echo | |
| `TimeQueue` | lab-16 part-2/3 | |
| `ClientFifo` | the bounded FIFO its ring implements | |
| `WorkerPool` | lab-16 part-2/2 | |
| `PollServer` | lab-16 part-2/4 | |
| `Shop` | lab-11 | |
| `Exchange` | the greetings of lab-12, lab-13, lab-14, lab-16 parts 1, 3, 4 | |
| `FileManager` | lab-9 | |
| `ShmChatProofs`, `MqChatProofs`, `TaxiCliProofs`, `TimeQueueProofs`, `RawEchoProofs`, `ExchangeProofs` | the theorems | their module, TLAPS |
| `EventLoopProofs` | the theorems about `PollServer` and `FileManager` | both, TLAPS |
| `ThreadProofs` | the theorems about `Shop` and `WorkerPool` | both, TLAPS |
| `MC*` | model values for TLC | the module after "MC" |

How state and actions correspond to the code:

* `ShmChat`: `mem` and `linked` are the stages of `room_create` (`ShmOpen`, `Ftruncate`,
  `SemInit`) and `room_destroy` (`ServerExit`). `roomLock` is the semaphore together with
  who holds it, so that a death inside it (`Kill`) leaves it taken. A client that slept in
  `sem_wait` while `sem_init` overwrote the semaphore is in `orphans`; nobody is obliged to
  wake it. A critical section of the server is one step between `ServerLock` and
  `ServerProcess`; a client's copy is made in two steps (`CopyMessages`, `CopyUsers`)
  because a death or the other thread can come in between. `signal()` is compiled
  with `-std=c11` and `_POSIX_C_SOURCE`, where the handler is reset after one signal: a second SIGINT kills the server
  (`SignalAgain`). `missed` is a history variable, the number of changes since a client's
  last copy.
* `MqChat`: a command of the server is its list `out` of sends still to do, each a step
  that waits for room. `named` are the queues that can be opened by name. A line keeps who
  it is about; what a client makes of its text is `Enters` and `Leaves`: the user's name,
  which others may share (`NameOf`), or, of a text that ends like a service line, a name
  nobody has (`Ghost`). `log` and `unlisted` are history variables.
* `TaxiCli`: `FarEndOpen` is who still holds the other end of a driver's pipe. Signals set
  flags and wake a `poll` that already sleeps, not one about to. Time is `now`, and an
  alarm may ring any time after it is due.
* `TimeQueue`: a wait on a condition variable is a state; `WakeUp` is the spurious wakeup
  POSIX allows. Code between lock and unlock is one step.
* `WorkerPool`, `PollServer`, `RawEcho`, `Shop`: one action per system call or critical
  section; the accept queues of the kernel are sequences.
* `Exchange`: a program is the sequence of its calls (`fifo_server`, `sysv_shm_client`, ...),
  each with the names its error branch takes back; the actions are the calls, the same for
  all programs. `link` leads from a name to an object, `h` are the objects a process holds,
  so that a name may be removed, or lead elsewhere, while a process still uses the old
  object. A session begins when a server starts and nobody runs. `calm` is a history variable:
  no process was killed, no call failed by itself, nothing was lost, and one client came after
  that server. What earlier sessions left is no reason not to be calm, except an old message
  in the System V queue. `misled` and `forgotten` are the clients that came too early: `misled`
  (history) those that went by an old post or an old message before their server had prepared
  the object, or used memory without a size, and `forgotten` those whose sleep `sem_init` wiped
  out. A property that does not cover them names them.
* `FileManager`: one action per key, with everything the handler calls and the redrawing that
  follows. `parent` and `mode` are the directories, changed by other programs; a path is
  followed as the kernel does (`Resolve`, component by component with `Walk`), ".." and symbolic
  links to directories included: `Target` is the path of a link, `Followed` where it leads now,
  and ".." after it is the directory above that (`Hop`). `load_dir` is a set of outcomes:
  the order of `readdir` decides who stays when there are more than `MAX_FILES`, `qsort`
  may put equal names either way, and `stat` of ".." may leave a wild time. `came` is a
  history variable.

Operators whose comment begins with "Defect" are broken variants of the one that follows
them; no specification uses them. `PROJECT.json` pairs each with a property that fails when
it takes the real one's place, which shows that the property depends on that code.

## 3. Runs

All passing runs explore the whole state space of their bounds. `CHECK_DEADLOCK FALSE` is
set where the system may stop: users stop typing, clients end, the server ends. `Shop`
always ends in its own final step, so deadlock is checked there.

| run | bounds | what it shows |
|---|---|---|
| `chat_core` | 2 clients, one may die and be interrupted, the other writes one text; ring, table and history of 2 | `MutualExclusion`, `RingConsistent`, `UsersDistinct`, `SnapshotFaithful`, and refinement of `ChatService` (`ImplementsService`) from start-up to the end; a table of two is filled, the ring fills and wraps, the history drops lines |
| `chat_liveness` | 1 client with 2 texts that may be killed anywhere, ring of 2, up to 2 SIGINTs | `ViewsCatchUp`, `QuitCompletes` (quitting ends and, unless LEAVE meets a full ring, takes the user off the list), `CtrlCStops`, each unless a client was killed inside the lock (`LockLost`) |
| `taxi` | 3 drivers for a table of 2, 2 seconds; SIGTERM, deaths of drivers and of the command line | `BusyHasTimer`, `OneAtATime`, `TaskRunsToItsEnd`, `CliNeverHangs`, `NoOrphans` |
| `queue_chat` | 3 clients for a table of 2, queues of 1; one quits and fails to send, one dies, the server may stop; two have the same name, and texts may read like service lines | `SameOrder`, `UsersComplete`, `NobodyStuck`: only a client that has stopped receiving, or a server that has ended, blocks a sender for good |
| `time_queue` | 4 connections, 2 workers, 2 slots, accept queue of 1, two clients may die, two may stay silent | `NoLostWakeup`, `OneOwner`, refinement of `ClientFifo`; `EveryoneServed` unless silent clients hold all workers for good |
| `echo` | 3 processes for a table of 2, 2 messages each; one loses packets and dies | `OwnEcho`, `AnswerComes` for those the table has room for, `CounterForgotten` |
| `pool` | 3 clients, 2 workers, two clients may die | `OneClientPerWorker`, `ClientsAnswered`; `WorkerComesFree` unless the client it waits for dies on its way |
| `poll` | 3 TCP clients for an array of 2, 2 UDP clients; two may be silent and so fill the array for good, one of them may die, one loses datagrams | `TurnComplete`, `EveryConnKept`; `EveryoneAnswered` unless silent clients hold the whole array |
| `shop` | 2 customers, 2 stalls, needs above the stock | `Conservation`, `DestroyedUnused`, `ProgramEnds` |
| `exchange` | fourteen pairs of programs; two runs of the server, two of the client, at any moment; one process is killed, one call fails or one datagram is lost | `Greeting`, `ExchangeCompletes`, `NothingLeft`, `ServerReachable` |
| `files` | a directory in a directory with a file in it, and beside it a symbolic link back to the outer directory, whose name compares equal; lists of 2, paths of 5 components, windows of one and two rows; two changes by other programs; the user changes directory in the left panel | `CursorInList`, `CursorVisible`, `ReturnsToFolder`, `BackspaceRecovers` |

Why these bounds are enough to be interesting: every table is given one user more than it
holds (or exactly as many, in `chat_core`), every ring wraps, every bounded queue fills,
and each kind of failure (death, interruption, loss, signal) happens to at least one
participant while at least one other is spared, so that "although others die" is checked.
Failures are given to named participants because TLC then needs no more states than the
question does; which participant it is makes no difference to the code.

In `chat_core` `VersionModulus` is 7, and the run makes fewer changes than that: the
wrapping of `room.version` is the subject of theorem `VersionValidates`, not of the run.

### Disagreements between the code and what it says

One run is expected to fail: it states what the repository says, and TLC shows how the code
departs from it.

* `taxi_listing`: "`get_drivers` показывает состояние всех водителей" (`README.md:25`). A
  driver has ended; writing to its pipe raises SIGPIPE, which ends the command line.

Others met while modelling, which the models contain and the properties are stated around:

* lab-14: "Press Ctrl+C to stop." (`chat_server.c:223`): when a client has died holding the
  semaphore, the server tests `g_running`, SIGINT arrives, and `sem_wait` sleeps for good; a
  further Ctrl+C kills it, without `shm_unlink`. `LockLost` in the liveness properties is this case.
* lab-14: a LEAVE that finds the ring full is dropped (`chat_client.c:339`), and the user
  stays listed (`LeaveDropped`); a user beyond the table is announced as joined but not listed
  (`chat_server.c:66`).
* lab-13: "сервер рассылает всем ..." (`README.md:93`): a user quits with a full queue, and
  the server stays in `mq_send` to it and serves nobody any more (`SendsToDeaf`).
* lab-13: when one of two users of the same name leaves, the lists lose the other
  (`chat_client.c:212`); a text that ends in " joined the chat" enters a user that does not
  exist and may fill the list, so that a later member is not listed (`chat_client.c:98,210`).
* lab-13: a client that joins late has no earlier lines, where `README.md:100` speaks of
  the same history for all; a TEXT of a client whose JOIN failed is broadcast all the same
  (`chat_server.c:134,171`) and its sender enters the others' lists; hence `UsersComplete`
  says that nobody is missing, not that nobody is there too many.
* raw-echo: "порядковый номер сообщения от этого клиента" (`README.md:7`): the server counts by
  port, a client knows its answer by port (`client.c:105`), and every client started by `make
  run-client` has the same one (`client.c:125`): one prints another's text or number. `OwnEcho`
  is checked with a port each.
* raw-echo: a client takes any number for its port (`client.c:136`): with 7777 the server answers
  its own answers and the client prints its own packet, above 65535 no answer ever matches
  (not modelled).
* raw-echo: with a full table no answer is sent and the client waits for ever (`server.c:144`;
  `LeftOut`); "close" given as a message of the command line is not answered (`client.c:169`).
* lab-16 part-2/2: a client that dies between the listener's answer and its connection
  leaves the worker reserved for good (`server.c:199`); `WorkerComesFree` excepts it.
* lab-16 part-2/4: `poll` has no time limit, so `MAX_CLIENTS` connections that send nothing
  fill the array for good, and whoever connects after them waits in the backlog for ever
  (`server.c:113`, `168`; `AllHeld`).
* lab-12: the client unlinks "mypipe" by name when it has read (`client.c:34`): by then it may
  be the FIFO of the next server.
* lab-13: a greeting left in a System V queue carries the pid of a dead server; the client
  that takes it answers to nobody (`sysv_client.c:31`). The error paths of `posix_server.c`
  after line 48 leave the queues, which the next start removes.
* lab-14: "клиент подключается к сегменту, читает сообщение и записывает `Hello!`;
  синхронизация сделана через System V semaphores" (`README.md:70-71`). A server is killed after
  its post; the next one is started, and before it gets to SETALL a client takes the old post,
  reads the old "Hi!", posts and ends well. SETALL (`sysv_server.c:74`) wipes that post out, and
  the server waits at line 100 for ever, until another client comes. TLC shows it when
  `ExchangeCompletes` is checked without its exception for `misled`.
* lab-14: a client of `posix_server.c` that maps the memory before `ftruncate` is ended by
  SIGBUS (`misled`), and one that sleeps while `sem_init` runs may never be woken (`forgotten`).
* lab-16 parts 1, 3, 4: a datagram sent before the server is ready, or lost, leaves the client
  in `recvfrom`; over UNIX sockets two clients share one path.
* lab-9: "Backspace вверх по каталогам" (`README.md:36`): a symbolic link to a directory is
  listed and entered as one (`my_mc_fs.c:85`), and ".." then leads above the directory it leads
  to, not back; the path is never normalised, so Backspace leads nowhere while a directory the
  path goes through is gone, until the path is given up for "/" at `MAX_PATH`; a second Backspace in a row does not find its
  folder, since the last component is then ".."; in a directory that may be listed but not
  searched the time of ".." is read from an uninitialised `struct stat`, and a NULL from
  `localtime` would end the program (`my_mc_fs.c:70`, `my_mc_ui.c:19`).
* lab-11: `README.md:8` says a customer enters a free stall; `main.c:60` draws any stall and
  waits for it.

## 4. Fairness

* `ShmChat`: weak fairness of every thread; strong fairness of taking a lock, since every
  loop sleeps 100 ms outside the locks, so a waiter finds it free again and again. None for
  clients that slept through `sem_init`, none for users and signals.
* `MqChat`: weak fairness of the server, of main and receiver threads; strong fairness of a
  client's `mq_send`, because Linux queues the senders that wait for a slot.
* `TaxiCli`, `RawEcho`, `TimeQueue`, `WorkerPool`, `PollServer`: weak fairness of processes
  and threads: the scheduler runs them. Users, connections, signals, deaths, losses and
  the passing of time are never obliged to happen. `PollServer` and `TimeQueue` except
  silent clients.
* `Exchange`: weak fairness of every running process, once per process: a process is at one
  call at a time. Nobody has to start, and nothing has to go wrong.
* `FileManager`: none. `BackspaceRecovers` is about a user who goes on pressing Backspace,
  and its premise says so.
* `Shop`: strong fairness of entering a stall (a mutex comes to a waiting thread) and of
  each customer's choice of each stall (`rand_r` draws each again and again).

## 5. Proofs

The theorems hold for every value of the constants that satisfies the assumptions named in
the component modules: sizes are positive naturals, special values are not clients, and,
in `Shop` and `FileManager`, stalls, customers and names are finite sets (`STALL_COUNT`,
`CUSTOMER_COUNT`, a file system); in `Exchange` the pairs are among the fourteen whose scripts
the module has. Every invariant used in a proof was checked by TLC on the
instance of its run first. The strengthenings stand at the end of each module, under "What
the proofs need besides", so that they can be checked again. Every step of an invariant's
proof has one case per action; `Exchange`, whose actions are system calls, sorts them by what
they do to the names first.

**`ShmChatProofs`.** `TypeCorrect`, `LocksExclude`, `RingAlwaysConsistent`,
`UsersAlwaysDistinct`, `VersionValidates`: `Spec => []P` for the type invariant and the four
invariants of `chat_core`. None but the first is inductive alone. `MutualExclusion` needs
`StartInv`: `sem_init` resets the semaphore, which would let two threads in if one could be
inside before it; `StartInv` says that until then nobody has the lock and no client is past
its JOIN. It also needs `LifeInv`: the receiver runs only between JOIN and `pthread_join`, so
a client that starts afresh has no second receiver. `SnapshotFaithful` needs `CopyInv`:
`version` is `seen + missed` reduced by the modulus, a copy not behind is right, and a copy
being made is behind until it is whole.

`RoomIsService` is the refinement `Spec => Service!Spec`. From the invariants above, with
`SendInv` (a client sends in its own name and no empty text) and `ShownInv` (a copy fits its
array), `SeenSteps` sorts every action by what the service sees of it, and one lemma each
shows that the ring loses its first (`ProcessPops`) or gains a last (`EnqueueAppends`), that
the server's step is `Apply` (`ProcessApplies`; the room lock is what keeps a copy in
progress from tearing), that the first loop of a copy is `Observe` and the second already
seen, and that an end in any way is `Close`. That the user table counts as many as it lists
(`MembersCounted`) rests on `UsersDistinct`.

**`TaxiCliProofs`.** `TaxiTypes`, `BusyAlwaysHasTimer` and the action property
`TasksRunToTheirEnd`, from `CliInv` (there is somebody to talk to whenever the command line
talks) and `TimerInv` (an alarm is due no earlier than its task ends, and is either set or
has rung). `AnswersFitQuestions` (`OneAtATime`) needs `TalkInv`: the talk with a driver is in
one of four states (nothing under way, command in the pipe, command in hand, answer in the
pipe), and only the driver at the head of `todo` is not in the first. A bound on the number
of messages alone is not inductive: it does not say whose answer the next one is.

**`MqChatProofs`.** `RoomInOneOrder` (`SameOrder`) and `ListsAreComplete` (`UsersComplete`), from
one invariant of six parts. `JoinInv`: a client is in the table once, its JOIN comes before
everything else it sends, and one that has left does not come back; without it a member
could be sent a second snapshot that wipes out what it lists. `LineInv`: a line on its way
is about something the log has, and nothing is sent to a client before its "joined" is in
the log. For the order, `OrderInv`: the room's lines among what a member shows, has in its
queue and is still to be sent are, put together, an ending of the log. That one is inductive
because every step moves lines between these three, drops one in front when the window
scrolls, or adds the same line to the log and to every member's sends; the lemmas
(`PushOnly`, `EndsKept`, `Moved`) are about filtered and concatenated sequences. For the
lists, `ToldInv`: of every two members the first lists the second, or has a line about it
under way with no reset behind it, or a namesake of the second has left; and `NameInv`:
every name a client lists is that of somebody the room has heard of or comes from a text that
reads like a "joined". When a list of `MaxClients` names has no room for one more, a counting
argument (`Room`) finds in it a name that no member has.

**`TimeQueueProofs`.** `QueueTypes`, `WakeupsNeverLost`,
`ConnectionsOwnedOnce` (`OneOwner`) and `RingIsFifo`, the refinement `Spec => Fifo!Spec`. The
invariant is `TypeOK`, `RingInv` (indices agree, waiting slots are filled), `FreshInv` (a
connection still to be pushed has not been pushed and is in one place), `OwnerInv` (what the
ring and the workers hold has been pushed, and no two of them hold the same) and
`NoLostWakeup`. Lemmas about the ring say that pushing appends to, and popping takes the head
of, the sequence the slots stand for.

**`RawEchoProofs`.** `EchoesOwn` (`OwnEcho`) is stated with the hypothesis `PortsDiffer`: no two
clients were started with the same port. The code does not see to it, and with a shared
port the property fails (section 3); the ports of run `echo` satisfy it. The invariant is
`TalkInv`: a client that has its answers has nothing under way and its counter stands at
their number; one that waits has at most one of message and answer under way, the first
not counted yet, the second counted.

**`ThreadProofs`.** About `Shop`: `ShopBalances` (`Conservation`), `StallExclusive` and
`DestroyedWhenIdle` (`DestroyedUnused`), for any number of stalls and customers. `MutexInv`
(proved as `StallExclusive`) says that what a thread has read of a stall is current when it
writes, `JoinInv` that `main` is past a join only when the threads are done. `Total` is a fold
over a set; that changing one member changes it by the difference is proved by induction over
the finite set.

About `WorkerPool`: `ReservationExclusive` (`OneClientPerWorker`). The reservation is followed
along its way: `ListenerInv` (a client is with the listener once, has no worker yet, and a
reservation in the listener's hand is for the client in its hand), `PortInv` (at most one client
waits at a worker's port, and it was sent there), `PromiseInv` (a worker that is free or about to
be is promised to nobody).

**`EventLoopProofs`.** About `PollServer`: `NoneSkipped` (`TurnComplete`) and
`ConnectionsKept` (`EveryConnKept`). `ScanInv` says that nothing behind the index is left to handle, and that what `poll` reported
stays readable until it is handled: without it the walk could find a reported descriptor
with nothing to read. `PlaceInv` counts places. Lemmas say what `remove_fd`'s move of the
last entry into the gap does to the array.

About `FileManager`: `CursorAlwaysInList` and the action property `CursorAlwaysVisible`, for
any directories, any sorting, any window. The invariant is `PanelsInv`: besides the cursor,
that a list that is not empty belongs to a path shorter than `MAX_PATH`, without which
entering a directory could make the path too long (`load_dir` drops the entries
`join_path_safe` cannot name). Lemmas say what `load_dir`, `scroll_into_view`,
`focus_entry_by_name` and `go_parent_keep_selection` make of any panel. `AlwaysReturns`
(`ReturnsToFolder`) needs `CameInv`, that the folder entered last ends the path; that
`Resolve`, a recursion over the path, takes one step more for one component more
(`ResolveAppend`, by induction); what the last component leads
to, link or not (`LastComponent`: a link's target has no link in it, so ".." after it is the
directory above); and that a directory which fits is listed whole (`ListedWhole`, from an
injection between sets of equal cardinality).

**`ExchangeProofs`.** `WaitingServerIsFound` (`ServerReachable`) and `SessionCleansUp`
(`NothingLeft`), for any servers, clients, number of troubles and any of the pairs. A script is
data, so what the proof needs of it is stated as facts about the twenty-eight (`ServersFit`,
`ClientsFit`: which names a program makes and removes, where, and in which order) and
established pair by pair. `Has` and `Rid` say what a program has made, or removed, by the call it
is at. `StepActs` and `NextKinds` then sort every step: a program is started; a process ends,
passes a call that changes no name, makes one, removes one or opens one; or the step leaves
names, places and holdings alone. The parts of the invariant are shown for these kinds, not for each call.
`RunInv` is the typing, and that one server at a time runs. `KeepInv`, that the names of a
running server lead to its own objects until it removes them, gives `ServerReachable`; it fails
in the FIFO, where the client removes the name. `SessionInv` says that an undisturbed session has
one server, without which "what the server made" would not be one thing, and `RidInv` that what
this server removed is not made again. `FifoInv` and `PathInv` are for the two pairs in which a
client removes a name: that a client past its open, or its send, has met the session's server,
and that one which ended well has removed what it was to remove.

**Induction.** The library's induction theorems take an operator as a parameter, which the
provers cannot instantiate. `MqChatProofs`, `ThreadProofs` and `EventLoopProofs` go by the least
counterexample instead: `LeastNumber` follows from the well-foundedness of `<` on the naturals
(`NatLessThanWellFounded`, `WFMin`).

**Only model-checked.** Every liveness property: fairness and `ENABLED` are out of the
prover's reach. And `Exchange.Greeting`, what the two sides hear in an undisturbed session: it
depends on what is in the queues, the memory and the semaphores at every point of each script,
so that each of the fourteen pairs would need an invariant of its own.

## 6. Abstractions

* Names are identified with pids in `ShmChat`, whose server works by pid. In `MqChat` texts
  that read like service lines differ in their ending only, and no user's name is itself of
  the form "name: text" (`MqAssumption`; `chat_ui_prompt_name` takes any text for a name). Nor does a name begin with
  "@@user ": every receiver would take that user's lines for control lines and swallow them
  (`chat_client.c:180`, `191`).
* In `RawEcho` a port fits into 16 bits and is not the server's 7777, although `client.c:136`
  takes any number.
* In `Exchange` addresses, message types and headers are reduced to who is meant; the
  capacity of queues is not reached by one greeting. A failing call fails as a whole.
* In `FileManager` every component of a path counts as one against `MAX_PATH`, and names
  that differ in case only are those of equal `Rank`. A symbolic link leads to a directory by an
  absolute path without further links; links that are relative or lead to links are left out, and
  one to a file is a file, as it is to `stat`.
* Texts, times of day and addresses are values without structure; truncation at
  `MAX_TEXT` and the building of headers are left out.
* Short reads and writes do not occur: messages are below `PIPE_BUF` or are packets.
* In lab-16 no client has a time limit, so a silent client keeps its worker (`TimeQueue`) or
  its entry of the array (`PollServer`); the liveness properties of both say what silent ones can
  hold up, and in both runs there are enough of them to hold up everything.

## 7. Plan

Done: the eight concurrent programs, the greetings, the file manager, their invariants,
liveness, two refinements; twenty-eight theorems, among them every invariant (but `Greeting`),
action property and refinement that the runs check.

Next, by importance:

1. The descriptors of the pipelines of lab-12 and lab-10 (which end of file comes when).
2. Pure algorithms: the handbooks of labs 4 and 6 (array and doubly linked list against an
   abstract list), the checksum of lab-16 part-4, the bit exercises of lab-1 and 2.
