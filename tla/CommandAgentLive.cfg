SPECIFICATION FairSpec
CONSTANTS
  c1 = c1
  c2 = c2
  Agent = Agent
  NoCommand = NoCommand
  Commands <- TwoCommands
  Redirected = {}
  MaxRunning = 1
  Armed = {"killer"}
  Faults = {"setup", "prepare", "launch", "register", "kill"}
  MaxMail = 1
PROPERTIES
  AgentEnds
  QueueServed
