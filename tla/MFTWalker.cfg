SPECIFICATION FairSpec
CONSTANTS
  Segment <- MCSegment
  Root <- MCRoot
  Volumes <- MCVolumes
  CellStoreThreshold = 1
  IncludeNotInUse = FALSE
  KeepAlive = {TRUE, FALSE}
  Stops = {TRUE, FALSE}
  ReadFaults = {"enum", "fetch"}
INVARIANTS
  TypeOK
  CalledOnce
  EveryoneCalled
  CalledWhole
PROPERTIES
  StopHeeded
  WalkOver
