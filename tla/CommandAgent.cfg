SPECIFICATION Spec
CONSTANTS
  c1 = c1
  c2 = c2
  Agent = Agent
  NoCommand = NoCommand
  Commands <- TwoCommands
  Redirected = {c1}
  MaxRunning = 1
  Armed = {"limit", "handler", "cancel"}
  Faults = {"setup", "prepare", "launch", "register", "kill"}
  MaxMail = 1
INVARIANTS
  TypeOK
  PermitsAccounted
  JobLimit
  ArchivedOnce
  NoCommandForgotten
  DoneLeavesOnlyCallbackLaunches
PROPERTIES
  ArchivedWhole
