\* One process more than the table holds; one of them loses packets, is interrupted and
\* dies, and "close" may be an argument.
CONSTANTS
  c1 = c1
  c2 = c2
  c3 = c3
  p1 = p1
  p2 = p2
  p3 = p3
  Procs = {c1, c2, c3}
  Ports = {p1, p2, p3}
  client_port <- OwnPorts
  Texts = {t1}
  Close = Close
  MaxClients = 2
  MaxSaid = 2
  Lossy = {c1}
  Interruptible = {c1, c2}
  Killable = {c1}
SPECIFICATION FairSpec
INVARIANTS OwnEcho
PROPERTIES AnswerComes CounterForgotten
CHECK_DEADLOCK FALSE
