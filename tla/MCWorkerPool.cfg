\* More clients than workers; two of them may die.
CONSTANTS
  Clients = {c1, c2, c3}
  WorkerCount = 2
  None = None
  Killable = {c1, c2}
SPECIFICATION FairSpec
INVARIANTS OneClientPerWorker
PROPERTIES ClientsAnswered WorkerComesFree
CHECK_DEADLOCK FALSE
