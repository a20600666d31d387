\* One client more than the table holds, two of them namesakes; one quits and fails to send,
\* one dies, the server may be stopped, a text reads like a service line, and every queue
\* holds one message.
CONSTANTS
  c1 = c1
  c2 = c2
  c3 = c3
  ann = ann
  bob = bob
  Clients = {c1, c2, c3}
  None = None
  Texts = {plain, joins, leaves}
  JoinLike = {joins}
  LeaveLike = {leaves}
  NameOf <- TwoAnns
  MaxClients = 2
  MaxMessages = 2
  QueueMax = 1
  Writers = {c1}
  MaxTexts = 1
  Quitters = {c1}
  Killable = {c2}
  Interruptible = {c1}
  Stoppable = TRUE
SPECIFICATION FairSpec
INVARIANTS SameOrder UsersComplete
PROPERTY NobodyStuck
CHECK_DEADLOCK FALSE
