\* More connections than the array holds and datagrams in between; the clients that may be
\* silent can fill the array for good, one of them may die, one client loses datagrams.
CONSTANTS
  TcpClients = {c1, c2, c3}
  UdpClients = {u1, u2}
  MaxClients = 2
  Silent = {c1, c2}
  Killable = {c2}
  Lossy = {u1}
SPECIFICATION FairSpec
INVARIANTS TurnComplete EveryConnKept
PROPERTY EveryoneAnswered
CHECK_DEADLOCK FALSE
