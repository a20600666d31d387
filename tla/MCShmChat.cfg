\* Two clients come and go while the room is set up; one may die anywhere and be
\* interrupted, the other writes.  The ring, the table and the history wrap or fill.
SPECIFICATION Spec
CONSTANTS
  Clients = {c1, c2}
  Texts = {t1}
  None = None
  Server = Server
  MaxClients = 2
  MaxMessages = 2
  MaxCommands = 2
  VersionModulus = 7
  Writers = {c2}
  MaxTexts = 1
  MaxSignals = 0
  Killable = {c1}
  Interruptible = {c1}
INVARIANTS MutualExclusion RingConsistent UsersDistinct SnapshotFaithful
PROPERTY ImplementsService
CHECK_DEADLOCK FALSE
