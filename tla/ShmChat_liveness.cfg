\* One client that may be killed anywhere, a ring that it can fill, and Ctrl+C twice.
SPECIFICATION FairSpec
CONSTANTS
  Clients = {c1}
  Texts = {t1}
  None = None
  Server = Server
  MaxClients = 2
  MaxMessages = 2
  MaxCommands = 2
  VersionModulus = 100
  Writers = {c1}
  MaxTexts = 2
  MaxSignals = 2
  Killable = {c1}
  Interruptible = {}
PROPERTIES ViewsCatchUp QuitCompletes CtrlCStops
CHECK_DEADLOCK FALSE
