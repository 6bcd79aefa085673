SPECIFICATION FairSpec
CONSTANTS
  f1 = f1
  f2 = f2
  s1 = s1
  d1 = d1
  d2 = d2
  console = console
  Items <- TheItems
  Files <- TheFiles
  Dirs <- TheDirs
  DirFiles <- TheDirFiles
  Handlers <- TheDirs
  Priority <- TempFile
  Threads <- TheThreads
  Console = console
  Batches <- TheBatches
  Faults = {"open", "add", "flush", "item", "update", "move", "remove"}
INVARIANTS
  NothingLost
  DeletedOnlyIfArchived
  AnsweredOnce
PROPERTIES
  CompleteEnds
