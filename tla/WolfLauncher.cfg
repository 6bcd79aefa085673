SPECIFICATION FairSpec
CONSTANTS
  c1 = c1
  stats = stats
  hCmd = hCmd
  hWolf = hWolf
  Archive = Archive
  Main = Main
  Console = Console
  Commands <- OneCommand
  Stats = stats
  CommandHandler = hCmd
  WolfHandler = hWolf
  Items <- TheFiles
  Files <- TheFiles
  Dirs <- NoDirs
  DirFiles <- NoDirFiles
  Handlers <- TheHandlers
  Priority <- ThePriorities
  Threads <- TheThreads
  Uploads <- TheUploads
  Faults = {}
  TimeOuts = {"engine", "archived"}
  Modes = {"copy", "synchronous"}
  Refusals = {"create", "resume", "range", "state"}
INVARIANTS
  TypeOK
  OutputsKept
  OutputsArchived
  UploadedWhole
  UploadsOver
  CalledByOne
  NoDanglingHandler
PROPERTIES
  ProcessEnded
