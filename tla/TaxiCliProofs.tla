--------------------------- MODULE TaxiCliProofs ---------------------------
(* Proofs about TaxiCli for any drivers, timers and size of the table.     *)
EXTENDS TaxiCli, SequenceTheorems, TLAPS

\* The commands that are sent.
LEMMA CommandTypes ==
  /\ Command("STATUS", 0) \in Commands /\ Command("EXIT", 0) \in Commands
  /\ \A timer \in Timers : Command("TASK", timer) \in Commands
  /\ \A q \in Commands : q.timer \in Nat /\ (q.type = "TASK" => q.timer > 0)
  <1>1. /\ Command("STATUS", 0) \in Commands /\ Command("EXIT", 0) \in Commands
        /\ \A timer \in Timers : Command("TASK", timer) \in Commands
    BY DEF Commands, Command
  <1>2. ASSUME NEW q \in [type : {"TASK"}, timer : Timers]
        PROVE  q.timer \in Nat /\ q.timer > 0
    <2>1. q.timer \in Timers
      OBVIOUS
    <2>2. q.timer \in Nat \ {0}
      BY <2>1, TaxiAssumption
    <2> QED BY <2>2
  <1>3. ASSUME NEW q \in [type : {"STATUS", "EXIT"}, timer : {0}]
        PROVE  q.timer \in Nat /\ q.type # "TASK"
    OBVIOUS
  <1> QED BY <1>1, <1>2, <1>3 DEF Commands

\* A driver that ends.
LEMMA LeaveType ==
  ASSUME TypeOK, NEW d \in Drivers, Leave(d)
  PROVE  TypeOK'
  <1>1. <<>> \in Seq(Commands)
    OBVIOUS
  <1>2. to_driver' \in [Drivers -> Seq(Commands)] /\ command' \in [Drivers -> Commands \union {None}]
    BY <1>1, Zenon DEF TypeOK, Leave
  <1>3. /\ dpc' \in [Drivers -> {"none", "check", "poll", "handle", "gone"}]
        /\ is_busy' \in [Drivers -> BOOLEAN] /\ g_timer_done' \in [Drivers -> BOOLEAN]
        /\ g_need_stop' \in [Drivers -> BOOLEAN]
    BY DEF TypeOK, Leave
  <1>4. busy_until' \in [Drivers -> Nat] /\ alarm' \in [Drivers -> Nat]
    BY DEF TypeOK, Leave
  <1>5. UNCHANGED <<drivers, cliPc, question, todo, closed, from_driver, now>>
    BY DEF Leave, cliVars
  <1> QED BY <1>2, <1>3, <1>4, <1>5 DEF TypeOK

\* An answer that is written.
LEMMA AnswerType ==
  ASSUME TypeOK, NEW d \in Drivers, NEW type \in {"OK", "AVAILABLE", "BUSY"},
         NEW timer \in Nat, send_answer(d, type, timer)
  PROVE  /\ from_driver' \in [Drivers -> Seq(Answers)]
         /\ dpc' \in [Drivers -> {"none", "check", "poll", "handle", "gone"}]
         /\ command' \in [Drivers -> Commands \union {None}]
         /\ UNCHANGED <<drivers, cliPc, question, todo, closed, to_driver, g_need_stop, now>>
  <1> DEFINE a == [type |-> type, timer |-> timer]
  <1>1. a \in Answers
    BY DEF Answers
  <1>2. \A s \in Seq(Answers) : Append(s, a) \in Seq(Answers)
    BY <1>1
  <1> HIDE DEF a
  <1>3. from_driver' = [from_driver EXCEPT ![d] = Append(from_driver[d], a)]
    BY DEF send_answer, a
  <1>4. from_driver' \in [Drivers -> Seq(Answers)]
    BY <1>2, <1>3 DEF TypeOK
  <1>5. command' \in [Drivers -> Commands \union {None}]
    BY Zenon DEF TypeOK, send_answer
  <1> QED BY <1>4, <1>5 DEF TypeOK, send_answer, cliVars

\* The command line has somebody to talk to after every step.
LEMMA CliStep ==
  ASSUME TypeOK, CliInv, [Next]_vars
  PROVE  CliInv'
  <1> USE TaxiAssumption DEF vars, cliVars, driverVars, timerVars
  <1>1. CASE AskWrite
    BY <1>1 DEF CliInv, TypeOK, AskWrite
  <1>2. CASE Sigpipe
    BY <1>2 DEF CliInv, TypeOK, Sigpipe
  <1>3. CASE AskRead
    <2>1. cliPc' = "write" => question \in Commands /\ Tail(todo) # <<>>
      BY <1>3 DEF AskRead, AskReturns, CliInv
    <2> QED BY <1>3, <2>1 DEF CliInv, AskRead, AskReturns
  <1>4. CASE AskEof
    <2>1. cliPc' = "write" => question \in Commands /\ Tail(todo) # <<>>
      BY <1>4 DEF AskEof, AskReturns, CliInv
    <2> QED BY <1>4, <2>1 DEF CliInv, AskEof, AskReturns
  <1>5. CASE StopWrite
    BY <1>5 DEF CliInv, TypeOK, StopWrite
  <1>6. CASE Waitpid
    BY <1>6 DEF CliInv, TypeOK, Waitpid
  <1>7. CASE get_drivers
    <2>1. question' \in Commands /\ todo' # <<>>
      BY <1>7, CommandTypes DEF get_drivers, Ask
    <2> QED BY <1>7, <2>1 DEF CliInv, get_drivers, Ask
  <1>8. CASE Exit
    BY <1>8 DEF CliInv, TypeOK, Exit
  <1>9. CASE KillCli
    BY <1>9 DEF CliInv, TypeOK, KillCli
  <1>10. CASE Tick
    BY <1>10 DEF CliInv, TypeOK, Tick
  <1>11. ASSUME NEW d \in Drivers, create_driver(d) PROVE CliInv'
    BY <1>11 DEF CliInv, TypeOK, create_driver
  <1>12. ASSUME NEW d \in Drivers, get_status(d) PROVE CliInv'
    <2>1. question' \in Commands /\ todo' # <<>>
      BY <1>12, CommandTypes DEF get_status, Ask
    <2> QED BY <1>12, <2>1 DEF CliInv, get_status, Ask
  <1>13. ASSUME NEW d \in Drivers, SigAlrm(d) PROVE CliInv'
    BY <1>13 DEF CliInv, TypeOK, SigAlrm, Interrupt
  <1>14. ASSUME NEW d \in Drivers, SigTerm(d) PROVE CliInv'
    BY <1>14 DEF CliInv, TypeOK, SigTerm, Interrupt
  <1>15. ASSUME NEW d \in Drivers, Kill(d) PROVE CliInv'
    BY <1>15 DEF CliInv, TypeOK, Kill, Leave
  <1>16. ASSUME NEW d \in Drivers, LoopEnd(d) PROVE CliInv'
    BY <1>16 DEF CliInv, TypeOK, LoopEnd, Leave
  <1>17. ASSUME NEW d \in Drivers, LoopTurn(d) PROVE CliInv'
    BY <1>17 DEF CliInv, TypeOK, LoopTurn, ClearTimer
  <1>18. ASSUME NEW d \in Drivers, PollHup(d) PROVE CliInv'
    BY <1>18 DEF CliInv, TypeOK, PollHup, Leave
  <1>19. ASSUME NEW d \in Drivers, PollIn(d) PROVE CliInv'
    BY <1>19 DEF CliInv, TypeOK, PollIn, ClearTimer
  <1>20. ASSUME NEW d \in Drivers, TaskAccepted(d) PROVE CliInv'
    BY <1>20 DEF CliInv, TypeOK, TaskAccepted, send_answer
  <1>21. ASSUME NEW d \in Drivers, AnswerBusy(d) PROVE CliInv'
    BY <1>21 DEF CliInv, TypeOK, AnswerBusy, send_answer, seconds_left
  <1>22. ASSUME NEW d \in Drivers, AnswerAvailable(d) PROVE CliInv'
    BY <1>22 DEF CliInv, TypeOK, AnswerAvailable, send_answer
  <1>23. ASSUME NEW d \in Drivers, ExitCommand(d) PROVE CliInv'
    BY <1>23 DEF CliInv, TypeOK, ExitCommand, Leave
  <1>24. ASSUME NEW d \in Drivers, AnswerSigpipe(d) PROVE CliInv'
    BY <1>24 DEF CliInv, TypeOK, AnswerSigpipe, Leave
  <1>25. ASSUME NEW d \in Drivers, NEW timer \in Timers, send_task(d, timer) PROVE CliInv'
    <2>1. question' \in Commands /\ todo' # <<>>
      BY <1>25, CommandTypes DEF send_task, Ask
    <2> QED BY <1>25, <2>1 DEF CliInv, send_task, Ask
  <1>26. CASE UNCHANGED vars
    BY <1>26 DEF CliInv, TypeOK
  <1> QED
    BY <1>1, <1>2, <1>3, <1>4, <1>5, <1>6, <1>7, <1>8, <1>9, <1>10, <1>11, <1>12,
       <1>13, <1>14, <1>15, <1>16, <1>17, <1>18, <1>19, <1>20, <1>21, <1>22,
       <1>23, <1>24, <1>25, <1>26
    DEF Next, CliSteps, DriverSteps, Environment

\* Types after every step.
LEMMA TypeStep ==
  ASSUME TypeOK, CliInv, [Next]_vars
  PROVE  TypeOK'
  <1> USE TaxiAssumption DEF vars, cliVars, driverVars, timerVars
  <1>1. CASE AskWrite
    <2>1. todo # <<>> /\ Head(todo) \in Drivers /\ question \in Commands
      BY <1>1 DEF AskWrite, CliInv, TypeOK
    <2>2. \A q \in Seq(Commands) : Append(q, question) \in Seq(Commands)
      BY <2>1
    <2>3. to_driver' \in [Drivers -> Seq(Commands)]
      BY <1>1, <2>1, <2>2 DEF AskWrite, TypeOK
    <2> QED BY <1>1, <2>1, <2>3 DEF TypeOK, AskWrite
  <1>2. CASE Sigpipe
    BY <1>2 DEF TypeOK, Sigpipe
  <1>3. CASE AskRead
    <2>1. todo # <<>> /\ Tail(todo) \in Seq(Drivers) /\ Head(todo) \in Drivers
      BY <1>3 DEF AskRead, AskReturns, CliInv, TypeOK
    <2>2. Tail(from_driver[Head(todo)]) \in Seq(Answers)
      BY <1>3, <2>1 DEF AskRead, TypeOK
    <2>3. from_driver' \in [Drivers -> Seq(Answers)]
      BY <1>3, <2>1, <2>2 DEF AskRead, TypeOK
    <2> QED BY <1>3, <2>1, <2>3 DEF TypeOK, AskRead, AskReturns
  <1>4. CASE AskEof
    <2>1. todo # <<>> /\ Tail(todo) \in Seq(Drivers)
      BY <1>4 DEF AskEof, AskReturns, CliInv, TypeOK
    <2> QED BY <1>4, <2>1 DEF TypeOK, AskEof, AskReturns
  <1>5. CASE StopWrite
    <2>1. todo # <<>> /\ Head(todo) \in Drivers /\ Command("EXIT", 0) \in Commands
      BY <1>5, CommandTypes DEF StopWrite, CliInv, TypeOK
    <2>2. \A q \in Seq(Commands) : Append(q, Command("EXIT", 0)) \in Seq(Commands)
      BY <2>1
    <2>3. to_driver' \in [Drivers -> Seq(Commands)]
      BY <1>5, <2>1, <2>2 DEF StopWrite, TypeOK
    <2> QED BY <1>5, <2>1, <2>3 DEF TypeOK, StopWrite
  <1>6. CASE Waitpid
    <2>1. todo # <<>> /\ Tail(todo) \in Seq(Drivers)
      BY <1>6 DEF Waitpid, CliInv, TypeOK
    <2> QED BY <1>6, <2>1 DEF TypeOK, Waitpid
  <1>7. CASE get_drivers
    <2>1. question' \in Commands
      BY <1>7, CommandTypes DEF get_drivers, Ask
    <2> QED BY <1>7, <2>1 DEF TypeOK, get_drivers, Ask
  <1>8. CASE Exit
    BY <1>8 DEF TypeOK, Exit
  <1>9. CASE KillCli
    BY <1>9 DEF TypeOK, KillCli
  <1>10. CASE Tick
    BY <1>10 DEF TypeOK, Tick
  <1>11. ASSUME NEW d \in Drivers, create_driver(d) PROVE TypeOK'
    BY <1>11 DEF TypeOK, create_driver
  <1>12. ASSUME NEW d \in Drivers, get_status(d) PROVE TypeOK'
    <2>1. question' \in Commands /\ <<d>> \in Seq(Drivers)
      BY <1>12, CommandTypes DEF get_status, Ask
    <2> QED BY <1>12, <2>1 DEF TypeOK, get_status, Ask
  <1>13. ASSUME NEW d \in Drivers, SigAlrm(d) PROVE TypeOK'
    BY <1>13 DEF TypeOK, SigAlrm, Interrupt
  <1>14. ASSUME NEW d \in Drivers, SigTerm(d) PROVE TypeOK'
    BY <1>14 DEF TypeOK, SigTerm, Interrupt
  <1>15. ASSUME NEW d \in Drivers, Kill(d) PROVE TypeOK'
    BY <1>15, LeaveType DEF Kill
  <1>16. ASSUME NEW d \in Drivers, LoopEnd(d) PROVE TypeOK'
    BY <1>16, LeaveType DEF LoopEnd
  <1>17. ASSUME NEW d \in Drivers, LoopTurn(d) PROVE TypeOK'
    BY <1>17 DEF TypeOK, LoopTurn, ClearTimer
  <1>18. ASSUME NEW d \in Drivers, PollHup(d) PROVE TypeOK'
    BY <1>18, LeaveType DEF PollHup
  <1>19. ASSUME NEW d \in Drivers, PollIn(d) PROVE TypeOK'
    <2>1. Head(to_driver[d]) \in Commands /\ Tail(to_driver[d]) \in Seq(Commands)
      BY <1>19 DEF PollIn, TypeOK
    <2>2. to_driver' \in [Drivers -> Seq(Commands)]
      BY <1>19, <2>1 DEF PollIn, TypeOK
    <2>3. command' \in [Drivers -> Commands \union {None}]
      BY <1>19, <2>1, Zenon DEF PollIn, TypeOK
    <2> QED BY <1>19, <2>2, <2>3 DEF TypeOK, PollIn, ClearTimer
  <1>20. ASSUME NEW d \in Drivers, TaskAccepted(d) PROVE TypeOK'
    <2>1. command[d] \in Commands
      BY <1>20 DEF CliInv, TaskAccepted
    <2>2. command[d].timer \in Nat /\ now + command[d].timer \in Nat
      BY <2>1, CommandTypes DEF TypeOK
    <2>3. send_answer(d, "OK", command[d].timer)
      BY <1>20 DEF TaskAccepted
    <2> HIDE DEF seconds_left
    <2>4. /\ from_driver' \in [Drivers -> Seq(Answers)]
          /\ dpc' \in [Drivers -> {"none", "check", "poll", "handle", "gone"}]
          /\ command' \in [Drivers -> Commands \union {None}]
          /\ UNCHANGED <<drivers, cliPc, question, todo, closed, to_driver, g_need_stop, now>>
      BY <2>2, <2>3, AnswerType
    <2> QED BY <1>20, <2>2, <2>4 DEF TypeOK, TaskAccepted
  <1>21. ASSUME NEW d \in Drivers, AnswerBusy(d) PROVE TypeOK'
    <2>1. command[d] \in Commands
      BY <1>21 DEF CliInv, AnswerBusy
    <2>2. seconds_left(d) \in Nat
      BY DEF seconds_left, TypeOK
    <2>3. send_answer(d, "BUSY", seconds_left(d))
      BY <1>21 DEF AnswerBusy
    <2> HIDE DEF seconds_left
    <2>4. /\ from_driver' \in [Drivers -> Seq(Answers)]
          /\ dpc' \in [Drivers -> {"none", "check", "poll", "handle", "gone"}]
          /\ command' \in [Drivers -> Commands \union {None}]
          /\ UNCHANGED <<drivers, cliPc, question, todo, closed, to_driver, g_need_stop, now>>
      BY <2>2, <2>3, AnswerType
    <2> QED BY <1>21, <2>2, <2>4 DEF TypeOK, AnswerBusy
  <1>22. ASSUME NEW d \in Drivers, AnswerAvailable(d) PROVE TypeOK'
    <2>1. command[d] \in Commands
      BY <1>22 DEF CliInv, AnswerAvailable
    <2>2. 0 \in Nat
      OBVIOUS
    <2>3. send_answer(d, "AVAILABLE", 0)
      BY <1>22 DEF AnswerAvailable
    <2> HIDE DEF seconds_left
    <2>4. /\ from_driver' \in [Drivers -> Seq(Answers)]
          /\ dpc' \in [Drivers -> {"none", "check", "poll", "handle", "gone"}]
          /\ command' \in [Drivers -> Commands \union {None}]
          /\ UNCHANGED <<drivers, cliPc, question, todo, closed, to_driver, g_need_stop, now>>
      BY <2>2, <2>3, AnswerType
    <2> QED BY <1>22, <2>2, <2>4 DEF TypeOK, AnswerAvailable
  <1>23. ASSUME NEW d \in Drivers, ExitCommand(d) PROVE TypeOK'
    BY <1>23, LeaveType DEF ExitCommand
  <1>24. ASSUME NEW d \in Drivers, AnswerSigpipe(d) PROVE TypeOK'
    BY <1>24, LeaveType DEF AnswerSigpipe
  <1>25. ASSUME NEW d \in Drivers, NEW timer \in Timers, send_task(d, timer) PROVE TypeOK'
    <2>1. question' \in Commands /\ <<d>> \in Seq(Drivers)
      BY <1>25, CommandTypes DEF send_task, Ask
    <2> QED BY <1>25, <2>1 DEF TypeOK, send_task, Ask
  <1>26. CASE UNCHANGED vars
    BY <1>26 DEF TypeOK
  <1> QED
    BY <1>1, <1>2, <1>3, <1>4, <1>5, <1>6, <1>7, <1>8, <1>9, <1>10, <1>11, <1>12,
       <1>13, <1>14, <1>15, <1>16, <1>17, <1>18, <1>19, <1>20, <1>21, <1>22,
       <1>23, <1>24, <1>25, <1>26
    DEF Next, CliSteps, DriverSteps, Environment

\* Looking at g_timer_done keeps alarms and tasks in step.
LEMMA ClearTimerKeeps ==
  ASSUME TypeOK, TimerInv, NEW d \in Drivers, ClearTimer(d), now' = now
  PROVE  TimerInv'
  <1>1. \A e \in Drivers : e # d =>
          /\ is_busy'[e] = is_busy[e] /\ busy_until'[e] = busy_until[e]
          /\ g_timer_done'[e] = g_timer_done[e]
    BY DEF ClearTimer, TypeOK
  <1>2. /\ is_busy'[d] <=> (is_busy[d] /\ ~g_timer_done[d])
        /\ busy_until'[d] = IF g_timer_done[d] THEN 0 ELSE busy_until[d]
        /\ g_timer_done'[d] = FALSE
        /\ alarm' = alarm
    BY DEF ClearTimer, TypeOK
  <1>3. ASSUME NEW e \in Drivers
        PROVE  /\ is_busy'[e] <=> (alarm'[e] # 0 \/ g_timer_done'[e])
               /\ alarm'[e] # 0 => alarm'[e] >= busy_until'[e] /\ ~g_timer_done'[e]
               /\ g_timer_done'[e] => now' >= busy_until'[e]
               /\ ~is_busy'[e] => busy_until'[e] = 0
    <2>1. CASE e = d
      BY <1>2, <2>1 DEF TimerInv
    <2>2. CASE e # d
      BY <1>1, <1>2, <2>2 DEF TimerInv
    <2> QED BY <2>1, <2>2
  <1> QED BY <1>3 DEF TimerInv

\* Alarms after every step.
LEMMA TimerStep ==
  ASSUME TypeOK, CliInv, TimerInv, [Next]_vars
  PROVE  TimerInv'
  <1> USE TaxiAssumption DEF vars, cliVars, driverVars, timerVars
  <1>1. CASE AskWrite
    BY <1>1 DEF TimerInv, TypeOK, AskWrite
  <1>2. CASE Sigpipe
    BY <1>2 DEF TimerInv, TypeOK, Sigpipe
  <1>3. CASE AskRead
    BY <1>3 DEF TimerInv, TypeOK, AskRead, AskReturns
  <1>4. CASE AskEof
    BY <1>4 DEF TimerInv, TypeOK, AskEof, AskReturns
  <1>5. CASE StopWrite
    BY <1>5 DEF TimerInv, TypeOK, StopWrite
  <1>6. CASE Waitpid
    BY <1>6 DEF TimerInv, TypeOK, Waitpid
  <1>7. CASE get_drivers
    BY <1>7 DEF TimerInv, TypeOK, get_drivers, Ask
  <1>8. CASE Exit
    BY <1>8 DEF TimerInv, TypeOK, Exit
  <1>9. CASE KillCli
    BY <1>9 DEF TimerInv, TypeOK, KillCli
  <1>10. CASE Tick
    BY <1>10 DEF TimerInv, TypeOK, Tick
  <1>11. ASSUME NEW d \in Drivers, create_driver(d) PROVE TimerInv'
    BY <1>11 DEF TimerInv, TypeOK, create_driver
  <1>12. ASSUME NEW d \in Drivers, get_status(d) PROVE TimerInv'
    BY <1>12 DEF TimerInv, TypeOK, get_status, Ask
  <1>13. ASSUME NEW d \in Drivers, SigAlrm(d) PROVE TimerInv'
    BY <1>13 DEF TimerInv, TypeOK, SigAlrm, Interrupt
  <1>14. ASSUME NEW d \in Drivers, SigTerm(d) PROVE TimerInv'
    BY <1>14 DEF TimerInv, TypeOK, SigTerm, Interrupt
  <1>15. ASSUME NEW d \in Drivers, Kill(d) PROVE TimerInv'
    BY <1>15 DEF TimerInv, TypeOK, Kill, Leave
  <1>16. ASSUME NEW d \in Drivers, LoopEnd(d) PROVE TimerInv'
    BY <1>16 DEF TimerInv, TypeOK, LoopEnd, Leave
  <1>17. ASSUME NEW d \in Drivers, LoopTurn(d) PROVE TimerInv'
    BY <1>17, ClearTimerKeeps DEF LoopTurn
  <1>18. ASSUME NEW d \in Drivers, PollHup(d) PROVE TimerInv'
    BY <1>18 DEF TimerInv, TypeOK, PollHup, Leave
  <1>19. ASSUME NEW d \in Drivers, PollIn(d) PROVE TimerInv'
    BY <1>19, ClearTimerKeeps DEF PollIn
  <1>20. ASSUME NEW d \in Drivers, TaskAccepted(d) PROVE TimerInv'
    <2>1. now + command[d].timer \in Nat \ {0}
      <3>1. command[d] \in Commands /\ command[d].type = "TASK"
        BY <1>20 DEF CliInv, TaskAccepted
      <3>2. now \in Nat
        BY DEF TypeOK
      <3> QED BY <3>1, <3>2, CommandTypes
    <2>2. UNCHANGED <<now, g_timer_done>>
      BY <1>20 DEF TaskAccepted, send_answer
    <2>3. /\ is_busy' = [is_busy EXCEPT ![d] = TRUE] /\ ~is_busy[d]
          /\ busy_until' = [busy_until EXCEPT ![d] = now + command[d].timer]
          /\ alarm' = [alarm EXCEPT ![d] = now + command[d].timer]
      BY <1>20 DEF TaskAccepted
    <2> QED BY <2>1, <2>2, <2>3, SMTT(40) DEF TimerInv, TypeOK
  <1>21. ASSUME NEW d \in Drivers, AnswerBusy(d) PROVE TimerInv'
    BY <1>21 DEF TimerInv, TypeOK, AnswerBusy, send_answer, seconds_left
  <1>22. ASSUME NEW d \in Drivers, AnswerAvailable(d) PROVE TimerInv'
    BY <1>22 DEF TimerInv, TypeOK, AnswerAvailable, send_answer
  <1>23. ASSUME NEW d \in Drivers, ExitCommand(d) PROVE TimerInv'
    BY <1>23 DEF TimerInv, TypeOK, ExitCommand, Leave
  <1>24. ASSUME NEW d \in Drivers, AnswerSigpipe(d) PROVE TimerInv'
    BY <1>24 DEF TimerInv, TypeOK, AnswerSigpipe, Leave
  <1>25. ASSUME NEW d \in Drivers, NEW timer \in Timers, send_task(d, timer) PROVE TimerInv'
    BY <1>25 DEF TimerInv, TypeOK, send_task, Ask
  <1>26. CASE UNCHANGED vars
    BY <1>26 DEF TimerInv, TypeOK
  <1> QED
    BY <1>1, <1>2, <1>3, <1>4, <1>5, <1>6, <1>7, <1>8, <1>9, <1>10, <1>11, <1>12,
       <1>13, <1>14, <1>15, <1>16, <1>17, <1>18, <1>19, <1>20, <1>21, <1>22,
       <1>23, <1>24, <1>25, <1>26
    DEF Next, CliSteps, DriverSteps, Environment

\* The initial states.
LEMMA InitInv == Init => TypeOK /\ CliInv /\ TimerInv
  <1> SUFFICES ASSUME Init PROVE TypeOK /\ CliInv /\ TimerInv
    OBVIOUS
  <1>1. <<>> \in Seq(Commands) /\ <<>> \in Seq(Answers) /\ <<>> \in Seq(Drivers)
    OBVIOUS
  <1>2. TypeOK
    BY <1>1, TaxiAssumption DEF Init, TypeOK
  <1>3. CliInv /\ TimerInv
    BY DEF Init, CliInv, TimerInv
  <1> QED BY <1>2, <1>3

\* The inductive invariant.
LEMMA AlwaysInv == Spec => [](TypeOK /\ CliInv /\ TimerInv)
  BY InitInv, TypeStep, CliStep, TimerStep, PTL DEF Spec

\* Every reachable state is well typed; the table of drivers is never overrun.
THEOREM TaxiTypes == Spec => []TypeOK
  BY AlwaysInv, PTL

\* Every driver is busy exactly while its alarm is set or has rung unnoticed, for any
\* number of drivers, any task lengths, and whatever dies when.
THEOREM BusyAlwaysHasTimer == Spec => []BusyHasTimer
  <1>1. TimerInv => BusyHasTimer
    BY DEF TimerInv, BusyHasTimer
  <1> QED BY <1>1, AlwaysInv, PTL

\* The end of a task is written only once it is over, or by the task itself.
LEMMA EndStep ==
  ASSUME TypeOK, TimerInv, [Next]_vars, NEW e \in Drivers,
         busy_until'[e] # busy_until[e], dpc'[e] # "gone"
  PROVE  now >= busy_until[e]
  <1> USE DEF vars, cliVars, driverVars, timerVars
  <1>1. ASSUME NEW d \in Drivers, ClearTimer(d) PROVE now >= busy_until[e]
    BY <1>1 DEF ClearTimer, TimerInv, TypeOK
  <1>2. ASSUME NEW d \in Drivers, TaskAccepted(d) PROVE now >= busy_until[e]
    BY <1>2 DEF TaskAccepted, TimerInv, TypeOK
  <1>3. ASSUME NEW d \in Drivers, Leave(d) PROVE FALSE
    BY <1>3 DEF Leave, TypeOK
  <1>4. CASE UNCHANGED busy_until
    BY <1>4
  <1>5. CASE CliSteps
    BY <1>4, <1>5 DEF CliSteps, AskWrite, Sigpipe, AskRead, AskEof, AskReturns, StopWrite,
       Waitpid
  <1>6. ASSUME NEW d \in Drivers, DriverSteps(d) PROVE now >= busy_until[e]
    BY <1>1, <1>2, <1>3, <1>4, <1>6 DEF DriverSteps, LoopEnd, LoopTurn, PollHup, PollIn,
       AnswerBusy, AnswerAvailable, ExitCommand, AnswerSigpipe
  <1>7. CASE Environment
    BY <1>3, <1>4, <1>7 DEF Environment, get_drivers, Exit, KillCli, Tick, create_driver,
       get_status, SigAlrm, SigTerm, Kill, send_task, Ask
  <1> QED BY <1>4, <1>5, <1>6, <1>7 DEF Next

\* No accepted task is cut short or replaced, for any task lengths.
THEOREM TasksRunToTheirEnd == Spec => TaskRunsToItsEnd
  <1>1. TypeOK /\ TimerInv /\ [Next]_vars =>
          [\A d \in Drivers : busy_until'[d] # busy_until[d] /\ dpc'[d] # "gone"
                              => now >= busy_until[d]]_vars
    BY EndStep
  <1> QED BY <1>1, AlwaysInv, PTL DEF Spec, TaskRunsToItsEnd

-----------------------------------------------------------------------------
(* Question and answer.                                                    *)

\* A pipe with one command or answer in it.
LEMMA PipeOfOne ==
  /\ \A x : Len(Append(<<>>, x)) = 1 /\ Append(<<>>, x)[1] = x
  /\ \A S : \A s \in Seq(S) :
       /\ Len(s) = 0 <=> s = <<>>
       /\ Len(s) = 1 => s # <<>> /\ Tail(s) = <<>> /\ Head(s) = s[1] /\ s[1] \in S
  <1>1. ASSUME NEW x PROVE Len(Append(<<>>, x)) = 1 /\ Append(<<>>, x)[1] = x
    OBVIOUS
  <1>2. ASSUME NEW S, NEW s \in Seq(S) PROVE Len(s) = 0 <=> s = <<>>
    BY EmptySeq
  <1>3. ASSUME NEW S, NEW s \in Seq(S), Len(s) = 1
        PROVE  s # <<>> /\ Tail(s) = <<>> /\ Head(s) = s[1] /\ s[1] \in S
    <2>1. s # <<>> /\ Head(s) = s[1] /\ s[1] \in S
      BY <1>3
    <2>2. Tail(s) \in Seq(S) /\ Len(Tail(s)) = 0
      BY <1>3
    <2> QED BY <2>1, <2>2, EmptySeq
  <1> QED BY <1>1, <1>2, <1>3

\* The talk with a driver that a step leaves alone.
LEMMA TalkSame ==
  ASSUME NEW d \in Drivers, TalkOf(d),
         to_driver'[d] = to_driver[d], from_driver'[d] = from_driver[d],
         dpc'[d] = dpc[d] \/ (dpc[d] \in {"check", "poll"} /\ dpc'[d] \in {"check", "poll"}),
         command'[d] = command[d],
         Quiet(d) \/ (question' = question /\ cliPc' # "waitpid") \/ UNCHANGED <<question, cliPc>>
  PROVE  TalkOf(d)' /\ (Quiet(d) => Quiet(d)')
  <1>1. Quiet(d) => Quiet(d)'
    BY DEF Quiet
  <1>2. CASE question' = question /\ (cliPc' # "waitpid" \/ cliPc' = cliPc)
    <2>1. Asked(d) => Asked(d)'
      BY <1>2 DEF Asked, Owed, Alive
    <2>2. Handling(d) => Handling(d)'
      BY <1>2 DEF Handling, Owed
    <2>3. Answered(d) => Answered(d)'
      BY <1>2 DEF Answered, Fits
    <2> QED BY <1>1, <2>1, <2>2, <2>3 DEF TalkOf
  <1> QED BY <1>1, <1>2 DEF TalkOf

\* A step of one driver, which starts no talk by itself.
LEMMA DriverTalk ==
  ASSUME TalkInv, NEW d \in Drivers, UNCHANGED cliVars,
         \A e \in Drivers \ {d} : /\ to_driver'[e] = to_driver[e] /\ dpc'[e] = dpc[e]
                                  /\ from_driver'[e] = from_driver[e]
                                  /\ command'[e] = command[e],
         TalkOf(d)', Quiet(d) => Quiet(d)'
  PROVE  TalkInv'
  <1>1. \A e \in Drivers : TalkOf(e)' /\ (Quiet(e) => Quiet(e)')
    BY TalkSame DEF TalkInv, cliVars
  <1>2. UNCHANGED <<cliPc, todo>>
    BY DEF cliVars
  <1> QED BY <1>1, <1>2 DEF TalkInv, CliEnded

\* A driver that ends takes its command with it.
LEMMA LeaveTalk ==
  ASSUME TypeOK, TalkInv, NEW d \in Drivers, Leave(d)
  PROVE  TalkInv'
  <1>1. /\ to_driver'[d] = <<>> /\ dpc'[d] = "gone" /\ from_driver' = from_driver
        /\ UNCHANGED cliVars
        /\ \A e \in Drivers \ {d} : /\ to_driver'[e] = to_driver[e] /\ dpc'[e] = dpc[e]
                                    /\ command'[e] = command[e]
    BY DEF Leave, TypeOK
  <1>2. TalkOf(d)' /\ (Quiet(d) => Quiet(d)')
    <2>1. CASE from_driver[d] = <<>>
      BY <1>1, <2>1 DEF Quiet, TalkOf
    <2>2. CASE from_driver[d] # <<>>
      <3>1. Answered(d)
        BY <2>2 DEF TalkInv, TalkOf, Quiet, Asked, Handling
      <3>2. Answered(d)'
        BY <1>1, <3>1 DEF Answered, cliVars, Fits
      <3> QED BY <2>2, <3>2 DEF TalkOf, Quiet
    <2> QED BY <2>1, <2>2
  <1> QED BY <1>1, <1>2, DriverTalk

\* The answer to the command in hand.
LEMMA AnswerTalk ==
  ASSUME TypeOK, TalkInv, NEW d \in Drivers, dpc[d] = "handle",
         NEW type \in {"OK", "AVAILABLE", "BUSY"}, NEW timer \in Nat, send_answer(d, type, timer),
         command[d].type # "EXIT",
         type = "OK" => command[d].type = "TASK", type = "AVAILABLE" => command[d].type = "STATUS"
  PROVE  TalkInv'
  <1> DEFINE a == [type |-> type, timer |-> timer]
  <1>1. Handling(d) /\ ~Quiet(d)
    BY DEF TalkInv, TalkOf, Quiet, Asked, Answered
  <1>2. question = command[d] /\ cliPc # "waitpid" /\ from_driver[d] = <<>> /\ to_driver[d] = <<>>
    BY <1>1 DEF Handling, Owed
  <1>3. Fits(a, question)
    BY <1>2 DEF Fits
  <1>4. /\ from_driver'[d] = Append(<<>>, a) /\ to_driver' = to_driver /\ dpc'[d] = "check"
        /\ UNCHANGED cliVars
        /\ \A e \in Drivers \ {d} : /\ from_driver'[e] = from_driver[e] /\ dpc'[e] = dpc[e]
                                    /\ command'[e] = command[e]
    BY <1>2 DEF send_answer, TypeOK
  <1> HIDE DEF a
  <1>5. Len(from_driver'[d]) = 1 /\ from_driver'[d][1] = a
    BY <1>4, PipeOfOne
  <1>6. Answered(d)'
    BY <1>2, <1>3, <1>4, <1>5 DEF Answered, cliVars, Fits
  <1> QED BY <1>1, <1>4, <1>6, DriverTalk DEF TalkOf

\* Every step keeps to one question and one answer at a time.
LEMMA TalkStep ==
  ASSUME TypeOK, CliInv, TalkInv, [Next]_vars
  PROVE  TalkInv'
  <1>1. CASE AskWrite
    <2>1. PICK h \in Drivers : h = Head(todo)
      BY <1>1 DEF AskWrite, CliInv, TypeOK
    <2>2. \A e \in Drivers : Quiet(e)
      BY <1>1 DEF TalkInv, AskWrite, CliEnded
    <2>3. /\ to_driver'[h] = Append(<<>>, question) /\ Alive(h) /\ cliPc' = "read"
          /\ UNCHANGED <<question, todo, dpc, command, from_driver>>
          /\ \A e \in Drivers \ {h} : to_driver'[e] = to_driver[e]
      BY <1>1, <2>1, <2>2 DEF AskWrite, TypeOK, Quiet, driverVars
    <2>4. Len(to_driver'[h]) = 1 /\ to_driver'[h][1] = question
      BY <2>3, PipeOfOne
    <2>5. Asked(h)'
      BY <2>2, <2>3, <2>4 DEF Asked, Alive, Owed, Quiet
    <2>6. \A e \in Drivers \ {h} : Quiet(e)'
      BY <2>2, <2>3 DEF Quiet
    <2> QED BY <2>1, <2>3, <2>5, <2>6 DEF TalkInv, TalkOf
  <1>2. CASE Sigpipe \/ KillCli
    <2>1. /\ UNCHANGED <<question, to_driver, from_driver, dpc, command>>
          /\ cliPc' = "killed"
      BY <1>2 DEF Sigpipe, KillCli, driverVars
    <2>2. \A e \in Drivers : TalkOf(e)'
      BY <2>1, TalkSame DEF TalkInv
    <2> QED BY <2>1, <2>2 DEF TalkInv, CliEnded
  <1>3. CASE AskRead \/ AskEof
    <2>1. PICK h \in Drivers : h = Head(todo)
      BY <1>3 DEF AskRead, AskEof, AskReturns, CliInv, TypeOK
    <2>2. /\ cliPc = "read" /\ cliPc' \in {"prompt", "write"}
          /\ UNCHANGED <<question, to_driver, dpc, command>>
          /\ \A e \in Drivers \ {h} : from_driver'[e] = from_driver[e]
      BY <1>3, <2>1 DEF AskRead, AskEof, AskReturns, driverVars, TypeOK
    <2>3. \A e \in Drivers \ {h} : Quiet(e)
      BY <2>1, <2>2 DEF TalkInv, CliEnded
    <2>4. Quiet(h)'
      <3>1. CASE AskRead
        <4>1. from_driver[h] # <<>> /\ from_driver'[h] = Tail(from_driver[h])
              /\ from_driver[h] \in Seq(Answers)
          BY <2>1, <3>1 DEF AskRead, TypeOK
        <4>2. Answered(h)
          BY <4>1 DEF TalkInv, TalkOf, Quiet, Asked, Handling
        <4>3. from_driver'[h] = <<>>
          BY <4>1, <4>2, PipeOfOne DEF Answered
        <4> QED BY <2>2, <4>2, <4>3 DEF Quiet, Answered
      <3>2. CASE AskEof
        <4>1. from_driver[h] = <<>> /\ ~Alive(h) /\ from_driver' = from_driver
          BY <2>1, <3>2 DEF AskEof
        <4>2. Quiet(h)
          <5>1. ~Answered(h)
            BY <4>1, PipeOfOne DEF Answered, TypeOK
          <5> QED BY <4>1, <5>1 DEF TalkInv, TalkOf, Asked, Handling, Alive
        <4> QED BY <2>2, <4>1, <4>2 DEF Quiet
      <3> QED BY <1>3, <3>1, <3>2
    <2>5. \A e \in Drivers : Quiet(e)'
      BY <2>2, <2>3, <2>4 DEF Quiet
    <2> QED BY <2>5 DEF TalkInv, TalkOf
  <1>4. CASE StopWrite
    <2>1. PICK h \in Drivers : h = Head(todo)
      BY <1>4 DEF StopWrite, CliInv, TypeOK
    <2>2. \A e \in Drivers : Quiet(e)
      BY <1>4 DEF TalkInv, StopWrite, CliEnded
    <2>3. /\ to_driver'[h] = Append(<<>>, Command("EXIT", 0)) /\ Alive(h) /\ cliPc' = "waitpid"
          /\ UNCHANGED <<question, todo, dpc, command, from_driver>>
          /\ \A e \in Drivers \ {h} : to_driver'[e] = to_driver[e]
      BY <1>4, <2>1, <2>2 DEF StopWrite, TypeOK, Quiet, driverVars
    <2>4. Len(to_driver'[h]) = 1 /\ to_driver'[h][1] = Command("EXIT", 0)
      BY <2>3, PipeOfOne
    <2>5. Command("EXIT", 0).type = "EXIT"
      BY DEF Command
    <2>6. Asked(h)'
      BY <2>2, <2>3, <2>4, <2>5 DEF Asked, Alive, Owed, Quiet
    <2>7. \A e \in Drivers \ {h} : Quiet(e)'
      BY <2>2, <2>3 DEF Quiet
    <2> QED BY <2>1, <2>3, <2>6, <2>7 DEF TalkInv, TalkOf
  <1>5. CASE Waitpid
    <2>1. PICK h \in Drivers : h = Head(todo)
      <3>1. cliPc = "waitpid"
        BY <1>5 DEF Waitpid
      <3>2. todo # <<>> /\ todo \in Seq(Drivers)
        BY <3>1 DEF CliInv, TypeOK
      <3> QED BY <3>2
    <2>2. /\ cliPc = "waitpid" /\ ~Alive(h) /\ UNCHANGED <<to_driver, from_driver, dpc, command>>
      BY <1>5, <2>1 DEF Waitpid, driverVars
    <2>3. Quiet(h)
      BY <2>2 DEF TalkInv, TalkOf, Asked, Handling, Answered, Alive
    <2>4. \A e \in Drivers : Quiet(e)
      BY <2>1, <2>2, <2>3 DEF TalkInv, CliEnded
    <2>5. \A e \in Drivers : Quiet(e)'
      BY <2>2, <2>4 DEF Quiet
    <2> QED BY <2>5 DEF TalkInv, TalkOf
  <1>6. CASE \/ get_drivers \/ Exit
             \/ \E d \in Drivers : \/ create_driver(d) \/ get_status(d)
                                   \/ \E timer \in Timers : send_task(d, timer)
    <2>1. cliPc = "prompt" /\ UNCHANGED <<to_driver, from_driver>>
          /\ \A e \in Drivers : dpc'[e] = "handle" => dpc[e] = "handle"
      BY <1>6 DEF get_drivers, Exit, create_driver, get_status, send_task, Ask, driverVars, TypeOK
    <2>2. \A e \in Drivers : Quiet(e)
      BY <2>1 DEF TalkInv, CliEnded
    <2>3. \A e \in Drivers : Quiet(e)'
      BY <2>1, <2>2 DEF Quiet
    <2> QED BY <2>3 DEF TalkInv, TalkOf
  <1>7. ASSUME NEW d \in Drivers,
               LoopEnd(d) \/ PollHup(d) \/ ExitCommand(d) \/ AnswerSigpipe(d) \/ Kill(d)
        PROVE  TalkInv'
    BY <1>7, LeaveTalk DEF LoopEnd, PollHup, ExitCommand, AnswerSigpipe, Kill
  <1>8. ASSUME NEW d \in Drivers, LoopTurn(d) \/ SigAlrm(d) \/ SigTerm(d) PROVE TalkInv'
    <2>1. /\ UNCHANGED <<to_driver, from_driver, command>> /\ UNCHANGED cliVars
          /\ \A e \in Drivers \ {d} : dpc'[e] = dpc[e]
          /\ dpc'[d] = dpc[d] \/ (dpc[d] \in {"check", "poll"} /\ dpc'[d] \in {"check", "poll"})
      BY <1>8 DEF LoopTurn, SigAlrm, SigTerm, Interrupt, TypeOK
    <2>2. TalkOf(d)' /\ (Quiet(d) => Quiet(d)')
      BY <2>1, TalkSame DEF TalkInv, cliVars
    <2> QED BY <2>1, <2>2, DriverTalk
  <1>9. ASSUME NEW d \in Drivers, PollIn(d) PROVE TalkInv'
    <2>1. /\ dpc[d] = "poll" /\ to_driver[d] # <<>> /\ to_driver[d] \in Seq(Commands)
          /\ dpc'[d] = "handle" /\ command'[d] = Head(to_driver[d])
          /\ to_driver'[d] = Tail(to_driver[d]) /\ from_driver' = from_driver /\ UNCHANGED cliVars
          /\ \A e \in Drivers \ {d} : /\ to_driver'[e] = to_driver[e] /\ dpc'[e] = dpc[e]
                                      /\ command'[e] = command[e]
      BY <1>9 DEF PollIn, TypeOK
    <2>2. Asked(d) /\ ~Quiet(d)
      BY <2>1 DEF TalkInv, TalkOf, Quiet, Handling, Answered
    <2>3. to_driver'[d] = <<>> /\ command'[d] = to_driver[d][1]
      BY <2>1, <2>2, PipeOfOne DEF Asked
    <2>4. Handling(d)'
      BY <2>1, <2>2, <2>3 DEF Asked, Handling, Owed, cliVars
    <2> QED BY <2>1, <2>2, <2>4, DriverTalk DEF TalkOf
  <1>10. ASSUME NEW d \in Drivers, TaskAccepted(d) \/ AnswerBusy(d) \/ AnswerAvailable(d)
         PROVE  TalkInv'
    <2>1. command[d].timer \in Nat /\ seconds_left(d) \in Nat
      <3>1. command[d] \in Commands
        BY <1>10 DEF CliInv, TaskAccepted, AnswerBusy, AnswerAvailable
      <3> QED BY <3>1, CommandTypes DEF seconds_left, TypeOK
    <2>2. CASE TaskAccepted(d)
      BY <2>1, <2>2, AnswerTalk DEF TaskAccepted
    <2>3. CASE AnswerBusy(d)
      BY <2>1, <2>3, AnswerTalk DEF AnswerBusy
    <2>4. CASE AnswerAvailable(d)
      BY <2>4, AnswerTalk DEF AnswerAvailable
    <2> QED BY <1>10, <2>2, <2>3, <2>4
  <1>11. CASE Tick \/ UNCHANGED vars
    <2>1. UNCHANGED <<to_driver, from_driver, dpc, command, question, cliPc, todo>>
      BY <1>11 DEF Tick, vars, cliVars, driverVars
    <2>2. \A e \in Drivers : TalkOf(e)' /\ (Quiet(e) => Quiet(e)')
      BY <2>1, TalkSame DEF TalkInv
    <2> QED BY <2>1, <2>2 DEF TalkInv, CliEnded
  <1> QED
    BY <1>1, <1>2, <1>3, <1>4, <1>5, <1>6, <1>7, <1>8, <1>9, <1>10, <1>11
    DEF Next, CliSteps, DriverSteps, Environment

\* Question and answer alternate with every driver, for any number of drivers, whichever
\* of them end or die and when: the answer ask_driver reads is the one to its question.
THEOREM AnswersFitQuestions == Spec => []OneAtATime
  <1> DEFINE Inv == TypeOK /\ CliInv /\ TalkInv
  <1>1. Init => Inv
    <2>1. Init => TalkInv
      BY DEF Init, TalkInv, TalkOf, Quiet
    <2> QED BY <2>1, InitInv
  <1>2. Inv /\ [Next]_vars => Inv'
    BY TypeStep, CliStep, TalkStep
  <1>3. Inv => OneAtATime
    <2> SUFFICES ASSUME Inv, NEW d \in Drivers
                 PROVE  LET open == Len(to_driver[d]) + Len(from_driver[d])
                                    + (IF dpc[d] = "handle" THEN 1 ELSE 0)
                        IN  /\ open <= 1
                            /\ open = 1 /\ ~CliEnded =>
                                 cliPc \in {"read", "waitpid"} /\ d = Head(todo)
                            /\ \A i \in DOMAIN from_driver[d] : Fits(from_driver[d][i], question)
      BY DEF OneAtATime
    <2>1. /\ Len(from_driver[d]) \in Nat /\ DOMAIN from_driver[d] = 1 .. Len(from_driver[d])
          /\ Len(to_driver[d]) \in Nat
      BY DEF TypeOK
    <2>2. CASE Quiet(d)
      <3>1. Len(to_driver[d]) = 0 /\ Len(from_driver[d]) = 0 /\ dpc[d] # "handle"
        BY <2>2 DEF Quiet
      <3> QED BY <2>1, <3>1
    <2>3. CASE ~Quiet(d)
      <3>1. ~CliEnded => cliPc \in {"read", "waitpid"} /\ d = Head(todo)
        BY <2>3 DEF TalkInv
      <3>2. CASE Asked(d)
        <4>1. Len(from_driver[d]) = 0 /\ Len(to_driver[d]) = 1 /\ dpc[d] # "handle"
          BY <3>2 DEF Asked
        <4> QED BY <2>1, <3>1, <4>1
      <3>3. CASE Handling(d)
        <4>1. Len(from_driver[d]) = 0 /\ Len(to_driver[d]) = 0 /\ dpc[d] = "handle"
          BY <3>3 DEF Handling
        <4> QED BY <2>1, <3>1, <4>1
      <3>4. CASE Answered(d)
        <4>1. /\ Len(from_driver[d]) = 1 /\ Fits(from_driver[d][1], question)
              /\ Len(to_driver[d]) = 0 /\ dpc[d] # "handle"
          BY <3>4 DEF Answered
        <4> QED BY <2>1, <3>1, <4>1
      <3> QED BY <2>3, <3>2, <3>3, <3>4 DEF TalkInv, TalkOf
    <2> QED BY <2>2, <2>3
  <1> QED BY <1>1, <1>2, <1>3, PTL DEF Spec
=============================================================================
