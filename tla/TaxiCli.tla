------------------------------ MODULE TaxiCli ------------------------------
(***************************************************************************)
(* final-tasks/taxi-cli: a command line that forks one process per driver  *)
(* and talks to each over two pipes, one question and one answer at a      *)
(* time.  A driver is busy until the SIGALRM of its task.                  *)
(*                                                                         *)
(* A driver inherits the command line's ends of the pipes of all drivers   *)
(* forked before it and never closes them, so a pipe is hung up only when  *)
(* the command line and every later driver have let go.                    *)
(*                                                                         *)
(* Commands and answers are below PIPE_BUF and travel whole.  A failed     *)
(* pipe or fork leaves the state as it was; the command line never sends a *)
(* type that is answered by ANSWER_ERROR.                                  *)
(***************************************************************************)
EXTENDS Naturals, Sequences, FiniteSets

CONSTANTS
  Drivers,      \* pids of drivers
  Timers,       \* what a user may type as task_timer
  None,         \* no command
  MaxDrivers,   \* MAX_DRIVERS
  MaxTime,      \* bound: seconds that pass
  Terminable,   \* drivers that may get a SIGTERM
  Killable,     \* drivers that may die at any point
  CliKillable   \* whether the command line may die at any point

ASSUME TaxiAssumption ==
  /\ Timers \subseteq Nat \ {0}
  /\ None \notin [type : {"TASK", "STATUS", "EXIT"}, timer : Nat]
  /\ MaxDrivers \in Nat \ {0}
  /\ MaxTime \in Nat
  /\ Terminable \subseteq Drivers
  /\ Killable \subseteq Drivers
  /\ CliKillable \in BOOLEAN

VARIABLES
  \* the command line
  drivers,      \* created drivers, oldest first
  cliPc,        \* where it is
  question,     \* the command ask_driver sends
  todo,         \* drivers still to be asked, or to be stopped
  closed,       \* drivers whose pipes stop_drivers has closed
  \* the pipes
  to_driver, from_driver,
  \* the drivers
  dpc, command, is_busy, busy_until, g_timer_done, g_need_stop,
  alarm,        \* when SIGALRM is due, 0 when no alarm is set
  now           \* time(NULL)

cliVars == <<drivers, cliPc, question, todo, closed>>
timerVars == <<is_busy, busy_until, g_timer_done, alarm>>
driverVars == <<dpc, command, timerVars, g_need_stop>>
vars == <<cliVars, to_driver, from_driver, driverVars, now>>

Command(type, timer) == [type |-> type, timer |-> timer]
Commands == [type : {"TASK"}, timer : Timers] \union [type : {"STATUS", "EXIT"}, timer : {0}]
Answers == [type : {"OK", "AVAILABLE", "BUSY"}, timer : Nat]

Init ==
  /\ drivers = <<>>
  /\ cliPc = "prompt"
  /\ question = None
  /\ todo = <<>>
  /\ closed = {}
  /\ to_driver = [d \in Drivers |-> <<>>]
  /\ from_driver = [d \in Drivers |-> <<>>]
  /\ dpc = [d \in Drivers |-> "none"]
  /\ command = [d \in Drivers |-> None]
  /\ is_busy = [d \in Drivers |-> FALSE]
  /\ busy_until = [d \in Drivers |-> 0]
  /\ g_timer_done = [d \in Drivers |-> FALSE]
  /\ g_need_stop = [d \in Drivers |-> FALSE]
  /\ alarm = [d \in Drivers |-> 0]
  /\ now = 0

Alive(d) == dpc[d] \notin {"none", "gone"}
CliEnded == cliPc \in {"done", "killed"}

\* Somebody holds the command line's ends of d's pipes: the command line itself, or a
\* driver forked later.
FarEndOpen(d) ==
  \/ ~CliEnded /\ d \notin closed
  \/ \E i, j \in DOMAIN drivers : i < j /\ drivers[i] = d /\ Alive(drivers[j])

-----------------------------------------------------------------------------
(* The command line.                                                       *)

create_driver(d) ==
  /\ cliPc = "prompt"
  /\ Len(drivers) < MaxDrivers
  /\ dpc[d] = "none"
  /\ drivers' = Append(drivers, d)
  /\ dpc' = [dpc EXCEPT ![d] = "check"]
  /\ UNCHANGED <<cliPc, question, todo, closed, to_driver, from_driver, command,
                 timerVars, g_need_stop, now>>

\* A question for each of ds, in order.
Ask(q, ds) ==
  /\ cliPc = "prompt"
  /\ cliPc' = "write"
  /\ question' = q
  /\ todo' = ds
  /\ UNCHANGED <<drivers, closed, to_driver, from_driver, driverVars, now>>

\* find_driver: a pid that was not created here is refused.
find_driver(d) == \E i \in DOMAIN drivers : drivers[i] = d

send_task(d, timer) == find_driver(d) /\ Ask(Command("TASK", timer), <<d>>)
get_status(d) == find_driver(d) /\ Ask(Command("STATUS", 0), <<d>>)
get_drivers == drivers # <<>> /\ Ask(Command("STATUS", 0), drivers)

\* ask_driver: write_full.
AskWrite ==
  /\ cliPc = "write"
  /\ Alive(Head(todo))
  /\ cliPc' = "read"
  /\ to_driver' = [to_driver EXCEPT ![Head(todo)] = Append(@, question)]
  /\ UNCHANGED <<drivers, question, todo, closed, from_driver, driverVars, now>>

\* Writing to a driver that has ended: SIGPIPE, for which there is no handler.
Sigpipe ==
  /\ cliPc \in {"write", "stop"}
  /\ ~Alive(Head(todo))
  /\ cliPc' = "killed"
  /\ UNCHANGED <<drivers, question, todo, closed, to_driver, from_driver, driverVars, now>>

\* ask_driver returns; get_drivers goes on with the next driver.
AskReturns ==
  /\ cliPc = "read"
  /\ todo' = Tail(todo)
  /\ cliPc' = IF Tail(todo) = <<>> THEN "prompt" ELSE "write"
  /\ UNCHANGED <<drivers, question, closed, to_driver, driverVars, now>>

\* read_full and print_answer.
AskRead ==
  /\ AskReturns
  /\ from_driver[Head(todo)] # <<>>
  /\ from_driver' = [from_driver EXCEPT ![Head(todo)] = Tail(@)]

\* read_full meets the end of file: the driver has ended without an answer.
AskEof ==
  /\ AskReturns
  /\ from_driver[Head(todo)] = <<>>
  /\ ~Alive(Head(todo))
  /\ UNCHANGED from_driver

\* "exit" or the end of the input: stop_drivers begins.
Exit ==
  /\ cliPc = "prompt"
  /\ cliPc' = IF drivers = <<>> THEN "done" ELSE "stop"
  /\ todo' = drivers
  /\ UNCHANGED <<drivers, question, closed, to_driver, from_driver, driverVars, now>>

\* stop_drivers: CMD_EXIT, and both ends are closed.
StopWrite ==
  /\ cliPc = "stop"
  /\ Alive(Head(todo))
  /\ cliPc' = "waitpid"
  /\ to_driver' = [to_driver EXCEPT ![Head(todo)] = Append(@, Command("EXIT", 0))]
  /\ closed' = closed \union {Head(todo)}
  /\ UNCHANGED <<drivers, question, todo, from_driver, driverVars, now>>

\* stop_drivers: waitpid returns.
Waitpid ==
  /\ cliPc = "waitpid"
  /\ ~Alive(Head(todo))
  /\ todo' = Tail(todo)
  /\ cliPc' = IF Tail(todo) = <<>> THEN "done" ELSE "stop"
  /\ UNCHANGED <<drivers, question, closed, to_driver, from_driver, driverVars, now>>

\* The command line dies.
KillCli ==
  /\ CliKillable
  /\ ~CliEnded
  /\ cliPc' = "killed"
  /\ UNCHANGED <<drivers, question, todo, closed, to_driver, from_driver, driverVars, now>>

-----------------------------------------------------------------------------
(* A driver.                                                               *)

\* exit(0), or death by a signal: the process's state is gone, and with its only
\* reader the pipe to it.
Leave(d) ==
  /\ dpc' = [dpc EXCEPT ![d] = "gone"]
  /\ to_driver' = [to_driver EXCEPT ![d] = <<>>]
  /\ command' = [command EXCEPT ![d] = None]
  /\ is_busy' = [is_busy EXCEPT ![d] = FALSE]
  /\ busy_until' = [busy_until EXCEPT ![d] = 0]
  /\ g_timer_done' = [g_timer_done EXCEPT ![d] = FALSE]
  /\ g_need_stop' = [g_need_stop EXCEPT ![d] = FALSE]
  /\ alarm' = [alarm EXCEPT ![d] = 0]
  /\ UNCHANGED <<cliVars, from_driver, now>>

\* Defect: g_timer_done stays set.
ClearTimerKeepsFlag(d) ==
  /\ is_busy' = [is_busy EXCEPT ![d] = @ /\ ~g_timer_done[d]]
  /\ busy_until' = [busy_until EXCEPT ![d] = IF g_timer_done[d] THEN 0 ELSE @]
  /\ UNCHANGED <<g_timer_done, alarm>>

\* if (g_timer_done): the task is over.
ClearTimer(d) ==
  /\ is_busy' = [is_busy EXCEPT ![d] = @ /\ ~g_timer_done[d]]
  /\ busy_until' = [busy_until EXCEPT ![d] = IF g_timer_done[d] THEN 0 ELSE @]
  /\ g_timer_done' = [g_timer_done EXCEPT ![d] = FALSE]
  /\ UNCHANGED alarm

\* The loop's test, when SIGTERM has been handled.
LoopEnd(d) == dpc[d] = "check" /\ g_need_stop[d] /\ Leave(d)

\* The loop's test and the first look at g_timer_done.
LoopTurn(d) ==
  /\ dpc[d] = "check"
  /\ ~g_need_stop[d]
  /\ ClearTimer(d)
  /\ dpc' = [dpc EXCEPT ![d] = "poll"]
  /\ UNCHANGED <<cliVars, to_driver, from_driver, command, g_need_stop, now>>

\* Defect: POLLHUP is not looked at.
PollHupIgnored(d) == FALSE

\* poll reports POLLHUP, which is looked at before POLLIN.
PollHup(d) == dpc[d] = "poll" /\ ~FarEndOpen(d) /\ Leave(d)

\* poll reports POLLIN; the command is read, and g_timer_done looked at again.
PollIn(d) ==
  /\ dpc[d] = "poll"
  /\ FarEndOpen(d)
  /\ to_driver[d] # <<>>
  /\ dpc' = [dpc EXCEPT ![d] = "handle"]
  /\ command' = [command EXCEPT ![d] = Head(to_driver[d])]
  /\ to_driver' = [to_driver EXCEPT ![d] = Tail(@)]
  /\ ClearTimer(d)
  /\ UNCHANGED <<cliVars, from_driver, g_need_stop, now>>

seconds_left(d) == IF busy_until[d] <= now THEN 0 ELSE busy_until[d] - now

\* send_answer, while somebody could read it.
send_answer(d, type, timer) ==
  /\ FarEndOpen(d)
  /\ dpc' = [dpc EXCEPT ![d] = "check"]
  /\ command' = [command EXCEPT ![d] = None]
  /\ from_driver' = [from_driver EXCEPT ![d] = Append(@, [type |-> type, timer |-> timer])]
  /\ UNCHANGED <<cliVars, to_driver, g_need_stop, now>>

\* send_answer into a pipe without a reader: SIGPIPE.
AnswerSigpipe(d) ==
  /\ dpc[d] = "handle"
  /\ command[d].type # "EXIT"
  /\ ~FarEndOpen(d)
  /\ Leave(d)

\* Defect: is_busy is not asked.
TaskAcceptedAlways(d) ==
  /\ dpc[d] = "handle"
  /\ command[d].type = "TASK"
  /\ is_busy' = [is_busy EXCEPT ![d] = TRUE]
  /\ busy_until' = [busy_until EXCEPT ![d] = now + command[d].timer]
  /\ alarm' = [alarm EXCEPT ![d] = now + command[d].timer]
  /\ send_answer(d, "OK", command[d].timer)
  /\ UNCHANGED g_timer_done

\* CMD_TASK for a free driver.
TaskAccepted(d) ==
  /\ dpc[d] = "handle"
  /\ command[d].type = "TASK"
  /\ ~is_busy[d]
  /\ is_busy' = [is_busy EXCEPT ![d] = TRUE]
  /\ busy_until' = [busy_until EXCEPT ![d] = now + command[d].timer]
  /\ alarm' = [alarm EXCEPT ![d] = now + command[d].timer]
  /\ send_answer(d, "OK", command[d].timer)
  /\ UNCHANGED g_timer_done

\* Defect: the command of a busy driver falls through and is answered again.
AnswerBusyTwice(d) ==
  /\ dpc[d] = "handle"
  /\ command[d].type \in {"TASK", "STATUS"}
  /\ is_busy[d]
  /\ FarEndOpen(d)
  /\ dpc' = [dpc EXCEPT ![d] = "check"]
  /\ command' = [command EXCEPT ![d] = None]
  /\ from_driver' = [from_driver EXCEPT ![d] =
                       @ \o << [type |-> "BUSY", timer |-> seconds_left(d)],
                               [type |-> "OK", timer |-> command[d].timer] >>]
  /\ UNCHANGED <<cliVars, to_driver, timerVars, g_need_stop, now>>

\* Defect: a busy driver goes back to poll without an answer.
AnswerBusyNever(d) ==
  /\ dpc[d] = "handle"
  /\ command[d].type \in {"TASK", "STATUS"}
  /\ is_busy[d]
  /\ dpc' = [dpc EXCEPT ![d] = "check"]
  /\ command' = [command EXCEPT ![d] = None]
  /\ UNCHANGED <<cliVars, to_driver, from_driver, timerVars, g_need_stop, now>>

\* CMD_TASK or CMD_STATUS for a busy driver.
AnswerBusy(d) ==
  /\ dpc[d] = "handle"
  /\ command[d].type \in {"TASK", "STATUS"}
  /\ is_busy[d]
  /\ send_answer(d, "BUSY", seconds_left(d))
  /\ UNCHANGED timerVars

\* CMD_STATUS for a free driver.
AnswerAvailable(d) ==
  /\ dpc[d] = "handle"
  /\ command[d].type = "STATUS"
  /\ ~is_busy[d]
  /\ send_answer(d, "AVAILABLE", 0)
  /\ UNCHANGED timerVars

\* CMD_EXIT.
ExitCommand(d) == dpc[d] = "handle" /\ command[d].type = "EXIT" /\ Leave(d)

\* A handled signal: a poll that already sleeps returns EINTR, one that has not begun
\* sleeps on.
Interrupt(d) ==
  \/ UNCHANGED dpc
  \/ /\ dpc[d] = "poll" /\ FarEndOpen(d) /\ to_driver[d] = <<>>
     /\ dpc' = [dpc EXCEPT ![d] = "check"]

\* timer_handler: the alarm is due.
SigAlrm(d) ==
  /\ Alive(d)
  /\ alarm[d] # 0
  /\ now >= alarm[d]
  /\ alarm' = [alarm EXCEPT ![d] = 0]
  /\ g_timer_done' = [g_timer_done EXCEPT ![d] = TRUE]
  /\ Interrupt(d)
  /\ UNCHANGED <<cliVars, to_driver, from_driver, command, is_busy, busy_until,
                 g_need_stop, now>>

\* stop_handler.
SigTerm(d) ==
  /\ d \in Terminable
  /\ Alive(d)
  /\ ~g_need_stop[d]
  /\ g_need_stop' = [g_need_stop EXCEPT ![d] = TRUE]
  /\ Interrupt(d)
  /\ UNCHANGED <<cliVars, to_driver, from_driver, command, timerVars, now>>

\* The driver dies: SIGKILL, or SIGTERM before setup_driver_signals.
Kill(d) == d \in Killable /\ Alive(d) /\ Leave(d)

Tick ==
  /\ now < MaxTime
  /\ now' = now + 1
  /\ UNCHANGED <<cliVars, to_driver, from_driver, driverVars>>

-----------------------------------------------------------------------------
CliSteps == AskWrite \/ Sigpipe \/ AskRead \/ AskEof \/ StopWrite \/ Waitpid

DriverSteps(d) ==
  \/ LoopEnd(d) \/ LoopTurn(d) \/ PollHup(d) \/ PollIn(d) \/ TaskAccepted(d)
  \/ AnswerBusy(d) \/ AnswerAvailable(d) \/ ExitCommand(d) \/ AnswerSigpipe(d)

\* What the user and the system may do.
Environment ==
  \/ get_drivers \/ Exit \/ KillCli \/ Tick
  \/ \E d \in Drivers :
       \/ create_driver(d) \/ get_status(d) \/ SigAlrm(d) \/ SigTerm(d) \/ Kill(d)
       \/ \E timer \in Timers : send_task(d, timer)

Next == CliSteps \/ (\E d \in Drivers : DriverSteps(d)) \/ Environment

Spec == Init /\ [][Next]_vars

\* Every process runs; nobody has to type, and no signal has to come.
FairSpec == Spec /\ WF_vars(CliSteps) /\ \A d \in Drivers : WF_vars(DriverSteps(d))

-----------------------------------------------------------------------------
(* Properties.                                                             *)

\* The types of the variables; the table of drivers is never overrun.
TypeOK ==
  /\ drivers \in Seq(Drivers) /\ Len(drivers) <= MaxDrivers
  /\ cliPc \in {"prompt", "write", "read", "stop", "waitpid", "done", "killed"}
  /\ question \in Commands \union {None}
  /\ todo \in Seq(Drivers)
  /\ closed \subseteq Drivers
  /\ to_driver \in [Drivers -> Seq(Commands)]
  /\ from_driver \in [Drivers -> Seq(Answers)]
  /\ dpc \in [Drivers -> {"none", "check", "poll", "handle", "gone"}]
  /\ command \in [Drivers -> Commands \union {None}]
  /\ is_busy \in [Drivers -> BOOLEAN]
  /\ busy_until \in [Drivers -> Nat]
  /\ g_timer_done \in [Drivers -> BOOLEAN]
  /\ g_need_stop \in [Drivers -> BOOLEAN]
  /\ alarm \in [Drivers -> Nat]
  /\ now \in Nat

\* A driver is busy exactly while its alarm is set or has rung unnoticed: it is never
\* busy for ever, and an old alarm never ends a later task.
BusyHasTimer ==
  \A d \in Drivers : is_busy[d] <=> (alarm[d] # 0 \/ g_timer_done[d])

\* The end of an accepted task is not touched before its time: no second task replaces
\* it and no signal frees the driver early.
TaskRunsToItsEnd ==
  [][\A d \in Drivers :
       busy_until'[d] # busy_until[d] /\ dpc'[d] # "gone" => now >= busy_until[d]]_vars

\* What may answer a command.
Fits(answer, q) ==
  /\ answer.type = "OK" => q.type = "TASK"
  /\ answer.type = "AVAILABLE" => q.type = "STATUS"
  /\ q.type # "EXIT"

\* Question and answer alternate on every pair of pipes: a driver owes at most one
\* answer, only to the question the command line is waiting on, and the answer found in
\* a pipe is one to that question, never to an earlier one.
OneAtATime ==
  \A d \in Drivers :
    LET open == Len(to_driver[d]) + Len(from_driver[d])
                + (IF dpc[d] = "handle" THEN 1 ELSE 0)
    IN  /\ open <= 1
        /\ open = 1 /\ ~CliEnded => cliPc \in {"read", "waitpid"} /\ d = Head(todo)
        /\ \A i \in DOMAIN from_driver[d] : Fits(from_driver[d][i], question)

\* The command line never hangs: it does not wait for ever for an answer, whichever
\* drivers die, and "exit" ends, every driver taking CMD_EXIT (or it is killed).
CliNeverHangs ==
  /\ cliPc = "read" ~> cliPc # "read"
  /\ cliPc = "stop" ~> CliEnded

\* No driver outlives its command line, however that ends and although drivers keep
\* each other's pipes open.
NoOrphans == CliEnded ~> \A d \in Drivers : ~Alive(d)

\* get_drivers shows the state of every driver and comes back to the prompt.
ListingCompletes == (cliPc = "write" /\ todo = drivers) ~> cliPc = "prompt"

-----------------------------------------------------------------------------
(* What the proofs need besides.                                           *)

\* The command line has somebody to talk to whenever it talks.
CliInv ==
  /\ cliPc \in {"write", "read", "stop", "waitpid"} => todo # <<>>
  /\ cliPc \in {"write", "read"} => question \in Commands
  /\ \A d \in Drivers : dpc[d] = "handle" => command[d] \in Commands

\* An alarm is due no earlier than the end of its task, and is either set or has rung.
TimerInv ==
  \A d \in Drivers :
    /\ is_busy[d] <=> (alarm[d] # 0 \/ g_timer_done[d])
    /\ alarm[d] # 0 => alarm[d] >= busy_until[d] /\ ~g_timer_done[d]
    /\ g_timer_done[d] => now >= busy_until[d]
    /\ ~is_busy[d] => busy_until[d] = 0

\* A command a driver may still have before it: CMD_EXIT, or the question that is asked.
Owed(q) == q.type = "EXIT" \/ (q = question /\ cliPc # "waitpid")

\* The four states of the talk with a driver: nothing is under way; the command is in the
\* pipe; the driver has it in hand; the answer is in the pipe.
Quiet(d) == to_driver[d] = <<>> /\ from_driver[d] = <<>> /\ dpc[d] # "handle"
Asked(d) ==
  /\ Alive(d) /\ dpc[d] # "handle" /\ from_driver[d] = <<>>
  /\ Len(to_driver[d]) = 1 /\ Owed(to_driver[d][1])
Handling(d) ==
  /\ dpc[d] = "handle" /\ to_driver[d] = <<>> /\ from_driver[d] = <<>>
  /\ Owed(command[d])
Answered(d) ==
  /\ dpc[d] # "handle" /\ to_driver[d] = <<>> /\ cliPc # "waitpid"
  /\ Len(from_driver[d]) = 1 /\ Fits(from_driver[d][1], question)

TalkOf(d) == Quiet(d) \/ Asked(d) \/ Handling(d) \/ Answered(d)

\* While the command line lives it has to do with no driver but the one it waits for.
TalkInv ==
  \A d \in Drivers :
    /\ TalkOf(d)
    /\ ~CliEnded /\ ~Quiet(d) => cliPc \in {"read", "waitpid"} /\ d = Head(todo)
=============================================================================
