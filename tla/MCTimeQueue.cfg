\* Four clients for two workers and two slots: the queue fills, wraps and empties.
CONSTANTS
  Conns = {c1, c2, c3, c4}
  Workers = {w1, w2}
  None = None
  QueueSize = 2
  Backlog = 1
  Killable = {c1, c2}
  Silent = {c1, c3}
SPECIFICATION FairSpec
INVARIANTS NoLostWakeup OneOwner
PROPERTIES ImplementsFifo EveryoneServed
CHECK_DEADLOCK FALSE
